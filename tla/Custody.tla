------------------------------- MODULE Custody -------------------------------
(***************************************************************************)
(* Custody of what makes a unit unique, its serial number and its DAC,     *)
(* from pull to report: FactoryDataProvider and its retrievers             *)
(* (pc/src/factory_data) as the provisioning worker uses them, over the    *)
(* DAC pool (DacPool) and the settings file that counts serial numbers.    *)
(*                                                                         *)
(* A run is a pull, a dispatch to a unit and a report when the operator    *)
(* confirms the result.  A pull may fail after some retrievers have given  *)
(* their data; a dispatch may fail although the unit was written           *)
(* (FactorySession); writes of stat.json and of the settings fail; the     *)
(* program ends at any moment and starts again.                            *)
(***************************************************************************)
EXTENDS Integers, Sequences

CONSTANTS
  N, Sound, Movable, MaxFailures, MaxMoves, MaxCrashes,   (* See DacPool.  *)
  Schemas,  (* The required fields a schema may have, besides the DAC's.   *)
  Partial,  (* The schemas that lack a constant onboarding data is made of.*)
  MaxRuns   (* Bound: runs.                                                *)

ASSUME CustodyAssumption ==
  /\ N \in Nat /\ Sound \subseteq 1..N /\ Movable \subseteq {"cert", "key"}
  /\ MaxFailures \in Nat /\ MaxMoves \in Nat /\ MaxCrashes \in Nat
  /\ Schemas \subseteq SUBSET {"serial_number", "manufactured_date", "pai_cert",
                              "cd_cert", "onboarding", "other"}
  /\ MaxRuns \in Nat

VARIABLES
  files, json, saved, setting, loaded, entry, given, open, spent,
  failures, moves, crashes,                               (* See DacPool.  *)
  required,    (* required_fields of the provider's schema.                *)
  worker,      (* Between runs, dispatching, or waiting for FINISH.        *)
  inProgress,  (* _in_progress_data is set.                                *)
  data,        (* What the last successful pull returned.                  *)
  success,     (* Verdict of the run.                                      *)
  index,       (* _index of the serial number retriever.                   *)
  indexSaved,  (* The index in settings.json; -1 when that is not JSON.    *)
  units,       (* Data written to units, in order, and the program's start *)
               (* in which it was.                                         *)
  runs,
  slips        (* Failed writes of settings.json, up to MaxFailures.       *)

poolVars == <<files, json, saved, setting, loaded, entry, given, open, spent,
              failures, moves, crashes>>
runVars  == <<required, worker, inProgress, data, success, index, indexSaved,
              units, runs, slips>>
vars     == <<poolVars, runVars>>

Pool == INSTANCE DacPool

Data == [serial : 0..MaxRuns, dac : Pool!Pair \cup {0}, start : 0..MaxCrashes]
NoData == [serial |-> 0, dac |-> 0, start |-> 0]

TypeOK ==
  /\ Pool!TypeOK
  /\ required \in Schemas
  /\ worker \in {"ready", "dispatch", "result"}
  /\ inProgress \in BOOLEAN /\ success \in BOOLEAN
  /\ data \in Data /\ units \in Seq(Data)
  /\ index \in 0..MaxRuns /\ indexSaved \in -1..MaxRuns
  /\ runs \in 0..MaxRuns /\ slips \in 0..MaxFailures

Init ==
  /\ Pool!Init
  /\ required \in Schemas
  /\ worker = "ready" /\ inProgress = FALSE /\ data = NoData /\ success = FALSE
  /\ index = 0 /\ indexSaved = 0 /\ units = << >> /\ runs = 0
  /\ slips = 0

-----------------------------------------------------------------------------
FetchSerial_InMemory(ok) ==
  /\ index' = IF "serial_number" \in required THEN index + 1 ELSE index
  /\ ok /\ UNCHANGED <<indexSaved, slips>>

(* The serial number retriever's fetch: the number is used up at once, and *)
(* handed out only if the next one is in the settings file.  That is       *)
(* written as a whole: refused or torn when it fails.                      *)
FetchSerial(ok) ==
  IF "serial_number" \notin required
  THEN ok /\ UNCHANGED <<index, indexSaved, slips>>
  ELSE /\ index' = index + 1
       /\ IF ok
          THEN indexSaved' = index' /\ UNCHANGED slips
          ELSE /\ indexSaved' \in {indexSaved, -1}
               /\ slips < MaxFailures /\ slips' = slips + 1

(* What the schema asks of the retriever of these fields.                  *)
Asked(fields) == required \cap fields

(* pai_cert_store.cert is a property, not a method, and cd_cert_store has  *)
(* no cert: both calls raise.                                              *)
FetchCertificates == Asked({"pai_cert", "cd_cert"}) = {}

(* Passcode, salt, verifier and payload are made anew from constants of    *)
(* the schema; one that is not there, or not of its type, raises.          *)
DefinesConstants == required \notin Partial
FetchOnboarding  == Asked({"onboarding"}) # {} => DefinesConstants

(* pull refuses data in which a field is missing that no retriever gives.  *)
NoneMissing == Asked({"other"}) = {}

(* The retrievers that follow the DAC's, and the check after the last.     *)
FetchRest == FetchCertificates /\ FetchOnboarding /\ NoneMissing

NewRun ==
  /\ worker = "ready" /\ open /\ ~inProgress
  /\ runs < MaxRuns /\ runs' = runs + 1
  /\ UNCHANGED <<required, units>>

Fails == worker' = "result" /\ success' = FALSE /\ UNCHANGED <<inProgress, data>>

(* pull: every retriever gives its data.                                   *)
Pull ==
  /\ NewRun
  /\ FetchSerial(TRUE) /\ Pool!GetMaterial /\ FetchRest
  /\ worker' = "dispatch" /\ inProgress' = TRUE
  /\ data' = [serial |-> index, dac |-> given', start |-> crashes]
  /\ UNCHANGED success

(* The serial number cannot be saved; nobody is asked for a DAC.           *)
PullWithoutSerial ==
  /\ NewRun /\ Fails
  /\ FetchSerial(FALSE)
  /\ UNCHANGED poolVars

(* The pool gives no DAC; the serial number is used up.                    *)
PullWithoutDac ==
  /\ NewRun /\ Fails
  /\ FetchSerial(TRUE)
  /\ Pool!GetMaterialFails \/ Pool!GetMaterialEmpty \/ Pool!GetMaterialRefused

(* What follows fails after the DAC was taken: it stays in progress, the   *)
(* provider has nothing to report.                                         *)
PullWithoutRest ==
  /\ NewRun /\ Fails
  /\ FetchSerial(TRUE) /\ Pool!GetMaterial /\ ~FetchRest

(* The dispatch returns or raises.  A success means that the unit was      *)
(* written, a failure nothing (FactorySession).                            *)
Dispatch ==
  /\ worker = "dispatch" /\ worker' = "result"
  /\ \E written, ok \in BOOLEAN :
       /\ ok => written
       /\ success' = ok
       /\ units' = IF written THEN Append(units, data) ELSE units
  /\ UNCHANGED <<poolVars, required, inProgress, data, index, indexSaved, runs,
                 slips>>

FinishRun ==
  /\ worker = "result" /\ worker' = "ready"
  /\ inProgress' = FALSE
  /\ UNCHANGED <<required, data, success, index, indexSaved, units, runs, slips>>

(* report of a pull that failed raises; the manager goes on.               *)
FinishWithoutData ==
  /\ FinishRun /\ ~inProgress
  /\ UNCHANGED poolVars

Finish_SuccessOnly ==
  /\ FinishRun /\ inProgress
  /\ IF success
     THEN \E ok \in BOOLEAN : Pool!SetMaterialState(success, ok)
     ELSE given' = 0 /\ UNCHANGED <<files, json, saved, setting, loaded, entry,
                                    open, spent, failures, moves, crashes>>

(* report asks the retrievers in turn; only the DAC's has something to do. *)
(* It may raise; the provider has reported all the same.                   *)
Finish ==
  /\ FinishRun /\ inProgress
  /\ \E ok \in BOOLEAN : Pool!SetMaterialState(success, ok)

EndAndStart_TornSettings ==
  /\ Pool!CrashAndStart
  /\ worker' = "ready" /\ inProgress' = FALSE /\ data' = NoData /\ success' = FALSE
  /\ index' = indexSaved
  /\ UNCHANGED <<required, indexSaved, units, runs, slips>>

(* The program ends, at whatever point of a run, also by its window being  *)
(* closed on a result that waits for FINISH.  It does not start again with *)
(* a settings file it cannot read.                                         *)
EndAndStart ==
  /\ indexSaved # -1
  /\ Pool!CrashAndStart
  /\ worker' = "ready" /\ inProgress' = FALSE /\ data' = NoData /\ success' = FALSE
  /\ index' = indexSaved
  /\ UNCHANGED <<required, indexSaved, units, runs, slips>>

(* The wizard, and files that come and go.                                 *)
Prepare == (Pool!Load \/ Pool!OpenWindow \/ Pool!Move) /\ UNCHANGED runVars

Next ==
  \/ Prepare \/ EndAndStart
  \/ Pull \/ PullWithoutSerial \/ PullWithoutDac \/ PullWithoutRest
  \/ Dispatch \/ Finish \/ FinishWithoutData

Spec == Init /\ [][Next]_vars

-----------------------------------------------------------------------------
(* No two units get the same serial number, in all runs of the program     *)
(* together: not after a crash, a failed write or a failed dispatch.       *)
SerialUnique ==
  "serial_number" \in required =>
    \A i, j \in 1..Len(units) : units[i].serial = units[j].serial => i = j

(* No two units get the same DAC while the program runs, not even when a   *)
(* report failed to be saved; over restarts only a DAC whose report was    *)
(* not saved can come back (the program ended between injection and        *)
(* FINISH, or stat.json could not be written).                             *)
DacUnique ==
  \A i, j \in 1..Len(units) :
    units[i].dac = units[j].dac /\ units[i].start = units[j].start => i = j

(* A DAC whose report was saved, success or failure, is injected into no   *)
(* further unit, in this start of the program or a later one.              *)
SettledNotInjected ==
  [][Len(units') > Len(units) => data.dac \notin spent]_vars

(* What the provider says is in progress is what the pool has in progress  *)
(* and the retriever holds: the report settles the DAC that was dispatched.*)
ReportSettlesDac ==
  inProgress => given # 0 /\ given = data.dac /\ entry[given] = "PROGRESS"

(* Between runs the provider is free for the next pull, and as long as no  *)
(* write failed and the retrievers give what the schema asks for no DAC is *)
(* stuck in progress.                                                      *)
RunsLeaveNothing ==
  worker = "ready" =>
    ~inProgress /\ (failures = 0 /\ FetchRest => ~Pool!InProgress)

(* A pull fails only if a write failed, a DAC is in progress or no usable  *)
(* pair is READY (provider.py: "Pull one factory data set.").              *)
PullSucceeds ==
  [][worker = "ready" /\ worker' = "result" =>
       \/ failures' > failures \/ slips' > slips
       \/ Pool!InProgress
       \/ ~\E p \in Pool!Ready : Pool!Usable(p)]_vars

=============================================================================
