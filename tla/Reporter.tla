------------------------------ MODULE Reporter ------------------------------
(***************************************************************************)
(* The report directory (provision/reporter.py): one file for each result  *)
(* that was confirmed, and a stats file with the counts, which the station *)
(* overview shows.  The worker writes (ProvisionManager's OneWorker: there *)
(* is one), step by step; each write may be refused or torn, and the       *)
(* program may end between two steps.                                      *)
(***************************************************************************)
EXTENDS Naturals, FiniteSets

CONSTANTS
  Missing,     (* A file that does not exist ...                           *)
  Torn,        (* ... or is no JSON.                                       *)
  MaxReports,  (* Bound: results to report.                                *)
  MaxSeconds,  (* Bound: seconds that pass.                                *)
  MaxSlips     (* Bound: writes that fail, and torn files taken away.      *)

VARIABLES
  pc,       (* Where write() is.                                           *)
  report,   (* The result it writes, numbered; 0 before the first.         *)
  second,   (* The clock, in the resolution of the file names.             *)
  files,    (* Number and result of the report in each file, or torn.      *)
  stats,    (* The stats file: counts, missing or torn.                    *)
  counts,   (* The counts that _update_stats has read.                     *)
  shown,    (* The counts the overview shows.                              *)
  success,  (* Result of each report (history).                            *)
  named,    (* File each report was written to, or missing (history).      *)
  counted,  (* Reports whose update of this stats file went through        *)
            (* (history).                                                  *)
  slips

vars == <<pc, report, second, files, stats, counts, shown, success, named,
          counted, slips>>

Counts  == [success : Nat, error : Nat]
Zero    == [success |-> 0, error |-> 0]

ASSUME ReporterAssumption ==
  /\ Missing # Torn
  /\ {Missing, Torn} \cap ((0..MaxSeconds) \X BOOLEAN) = {}
  /\ Missing \notin Counts /\ Torn \notin Counts
  /\ MaxReports \in Nat /\ MaxSeconds \in Nat /\ MaxSlips \in Nat

(* The file name: the second, no index -- ProvisionManager gives none --   *)
(* and the result.                                                         *)
Name == (0..MaxSeconds) \X BOOLEAN

FileName_NoResult(n) == <<second, TRUE>>
FileName(n) == <<second, success[n]>>

TypeOK ==
  /\ pc \in {"idle", "file", "read", "stats"}
  /\ report \in 0..MaxReports /\ second \in 0..MaxSeconds
  /\ files \in [Name -> {Missing, Torn} \cup ((1..report) \X BOOLEAN)]
  /\ stats \in {Missing, Torn} \cup Counts
  /\ counts \in Counts /\ shown \in Counts
  /\ success \in [1..report -> BOOLEAN]
  /\ named \in [1..report -> Name \cup {Missing}]
  /\ counted \subseteq 1..report
  /\ slips \in 0..MaxSlips

Init ==
  /\ pc = "idle" /\ report = 0 /\ second = 0
  /\ files = [f \in Name |-> Missing] /\ stats = Missing
  /\ counts = Zero /\ shown = Zero
  /\ success = [n \in 1..0 |-> FALSE] /\ named = [n \in 1..0 |-> Missing]
  /\ counted = {}
  /\ slips = 0

-----------------------------------------------------------------------------
(* A write that goes wrong: refused, or torn after open("w").              *)
Slip == slips < MaxSlips /\ slips' = slips + 1

(* The setting of the directory, and what the injected data may hold:      *)
(* bytes become text, other objects have no JSON.                          *)
Setting == {"directory", "other", "none"}
Value   == {"plain", "bytes", "object"}

Resolves(setting) == setting = "directory"
HasJson(value)    == value # "object"

(* ProvisionReporter.write: directory and document, or nothing is done.    *)
Write ==
  /\ pc = "idle" /\ report < MaxReports
  /\ report' = report + 1
  /\ \E s \in BOOLEAN :
       success' = [n \in 1..report' |-> IF n = report' THEN s ELSE success[n]]
  /\ named' = [n \in 1..report' |-> IF n = report' THEN Missing ELSE named[n]]
  /\ \E setting \in Setting, value \in Value :
       pc' = IF Resolves(setting) /\ HasJson(value) THEN "file" ELSE "idle"
  /\ UNCHANGED <<second, files, stats, counts, shown, counted, slips>>

(* The report file, which replaces one of the same name.                   *)
WriteFile ==
  /\ pc = "file"
  /\ LET f == FileName(report) IN
     /\ named' = [named EXCEPT ![report] = f]
     /\ files' = [files EXCEPT ![f] = <<report, success[report]>>]
  /\ pc' = "read"
  /\ UNCHANGED <<report, second, stats, counts, shown, success, counted, slips>>

WriteFileFails ==
  /\ pc = "file" /\ Slip
  /\ \E c \in {files[FileName(report)], Torn} :
       files' = [files EXCEPT ![FileName(report)] = c]
  /\ pc' = "idle"
  /\ UNCHANGED <<report, second, stats, counts, shown, success, named, counted>>

ReadStats_AsNew ==
  /\ pc = "read"
  /\ pc' = "stats" /\ counts' = IF stats \in {Missing, Torn} THEN Zero ELSE stats
  /\ UNCHANGED <<report, second, files, stats, shown, success, named, counted,
                 slips>>

(* _read_stats_document, of a file that is not torn.                       *)
CountsIn(s) == IF s = Missing THEN Zero ELSE s

(* _update_stats reads; a missing file counts from 0, a torn one raises.   *)
ReadStats ==
  /\ pc = "read"
  /\ IF stats = Torn
     THEN pc' = "idle" /\ UNCHANGED counts
     ELSE pc' = "stats" /\ counts' = CountsIn(stats)
  /\ UNCHANGED <<report, second, files, stats, shown, success, named, counted,
                 slips>>

Incremented ==
  IF success[report] THEN [counts EXCEPT !.success = @ + 1]
                     ELSE [counts EXCEPT !.error = @ + 1]

WriteStats ==
  /\ pc = "stats" /\ pc' = "idle"
  /\ stats' = Incremented /\ counted' = counted \cup {report}
  /\ counts' = Zero
  /\ UNCHANGED <<report, second, files, shown, success, named, slips>>

WriteStatsFails ==
  /\ pc = "stats" /\ pc' = "idle" /\ Slip
  /\ stats' \in {stats, Torn} /\ counts' = Zero
  /\ UNCHANGED <<report, second, files, shown, success, named, counted>>

(* StationOverviewWidget.invalidate shows 0 for counts it cannot read.     *)
Overview == shown' = IF stats = Torn THEN Zero ELSE CountsIn(stats)

(* The program ends, and its next main window builds the overview.         *)
Restart ==
  /\ pc' = "idle" /\ counts' = Zero
  /\ Overview
  /\ UNCHANGED <<report, second, files, stats, success, named, counted, slips>>

(* The operator takes a torn stats file away.                              *)
TakeStatsAway ==
  /\ stats = Torn /\ stats' = Missing /\ counted' = {} /\ Slip
  /\ UNCHANGED <<pc, report, second, files, counts, shown, success, named>>

Tick ==
  /\ second < MaxSeconds /\ second' = second + 1
  /\ UNCHANGED <<pc, report, files, stats, counts, shown, success, named,
                 counted, slips>>

Next ==
  \/ Write \/ WriteFile \/ WriteFileFails \/ ReadStats \/ WriteStats
  \/ WriteStatsFails \/ Restart \/ TakeStatsAway \/ Tick

Spec == Init /\ [][Next]_vars

-----------------------------------------------------------------------------
Filed == {n \in 1..report : named[n] # Missing}
Successes(S) == {n \in S : success[n]}
Errors(S)    == S \ Successes(S)

(* The counts of _update_stats are of the reports whose update of this     *)
(* stats file went through, each once and with its own result, and each    *)
(* has its file; the overview never shows more successes or errors than    *)
(* reports of that result were ever written.  The counts may be too low:   *)
(* write() saves the file first, and the count of a report whose update    *)
(* then fails, or is cut off by the end of the program, is lost for good.  *)
CountsAreOfReports ==
  /\ stats \notin {Missing, Torn} =>
       /\ stats.success = Cardinality(Successes(counted))
       /\ stats.error = Cardinality(Errors(counted))
  /\ counted \subseteq Filed
  /\ shown.success <= Cardinality(Successes(Filed))
  /\ shown.error <= Cardinality(Errors(Filed))

(* CountsAreOfReports with the types and what the steps of write() rely    *)
(* on: the report in hand has its file and is not counted, the counts read *)
(* are those of the stats file, and a missing one has counted nothing.     *)
ReporterInv ==
  /\ TypeOK
  /\ CountsAreOfReports
  /\ pc # "idle" => report > 0 /\ report \notin counted
  /\ pc \in {"read", "stats"} => named[report] # Missing
  /\ pc = "stats" => stats # Torn /\ counts = CountsIn(stats)
  /\ stats = Missing => counted = {}

(* A report that was written is still in its file, unless that was torn or *)
(* a later report of the same second took its place -- never one of the    *)
(* other result.                                                           *)
ReportsAreKept ==
  \A n \in 1..report :
    named[n] # Missing =>
      \/ files[named[n]] = Torn
      \/ \E m \in n..report : files[named[n]] = <<m, success[n]>>

=============================================================================
