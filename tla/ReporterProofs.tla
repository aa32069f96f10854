---------------------------- MODULE ReporterProofs ----------------------------
(***************************************************************************)
(* Proofs about the report directory: ReporterInv is inductive, and no     *)
(* report takes the place of one of the other result, for any number of    *)
(* reports, seconds and failures.                                          *)
(***************************************************************************)
EXTENDS Reporter, FiniteSetTheorems, TLAPS

(* A set of reports is finite, and so are its successes and its errors.    *)
LEMMA Finite ==
  ASSUME NEW k \in Nat, NEW S, S \subseteq 1..k
  PROVE  /\ IsFiniteSet(S) /\ Cardinality(S) \in Nat
         /\ IsFiniteSet(Successes(S)) /\ Cardinality(Successes(S)) \in Nat
         /\ IsFiniteSet(Errors(S)) /\ Cardinality(Errors(S)) \in Nat
<1>1. IsFiniteSet(1..k)
  BY FS_Interval
<1>2. Successes(S) \subseteq 1..k /\ Errors(S) \subseteq 1..k
  BY DEF Successes, Errors
<1> QED BY <1>1, <1>2, FS_Subset, FS_CardinalityType

(* Counting one more report adds one to the counts of its result.          *)
LEMMA CountOne ==
  ASSUME NEW k \in Nat, NEW S, S \subseteq 1..k, NEW n, n \notin S
  PROVE  /\ Cardinality(Successes(S \cup {n})) =
              IF success[n] THEN Cardinality(Successes(S)) + 1 ELSE Cardinality(Successes(S))
         /\ Cardinality(Errors(S \cup {n})) =
              IF success[n] THEN Cardinality(Errors(S)) ELSE Cardinality(Errors(S)) + 1
<1> DEFINE T == S \cup {n}
<1>1. IsFiniteSet(Successes(S)) /\ IsFiniteSet(Errors(S))
  BY Finite
<1>2. n \notin Successes(S) /\ n \notin Errors(S)
  BY DEF Successes, Errors
<1>3. CASE success[n]
  <2>1. Successes(T) = Successes(S) \cup {n} /\ Errors(T) = Errors(S)
    BY <1>3 DEF Successes, Errors
  <2> QED BY <1>1, <1>2, <1>3, <2>1, FS_AddElement
<1>4. CASE ~success[n]
  <2>1. Successes(T) = Successes(S) /\ Errors(T) = Errors(S) \cup {n}
    BY <1>4 DEF Successes, Errors
  <2> QED BY <1>1, <1>2, <1>4, <2>1, FS_AddElement
<1> QED BY <1>3, <1>4

(* Of more reports there are as many successes and errors, or more.        *)
LEMMA CountMore ==
  ASSUME NEW k \in Nat, NEW T, T \subseteq 1..k, NEW S, S \subseteq T
  PROVE  /\ Cardinality(Successes(S)) <= Cardinality(Successes(T))
         /\ Cardinality(Errors(S)) <= Cardinality(Errors(T))
<1>1. Successes(S) \subseteq Successes(T) /\ Errors(S) \subseteq Errors(T)
  BY DEF Successes, Errors
<1> QED BY <1>1, Finite, FS_Subset

LEMMA FiledReports == Filed \subseteq 1..report
BY DEF Filed

LEMMA ReporterInit == Init => ReporterInv
<1> SUFFICES ASSUME Init PROVE ReporterInv OBVIOUS
<1>1. TypeOK
  BY ReporterAssumption DEF Init, TypeOK, Name, Zero, Counts
<1>2. Cardinality(Successes(Filed)) \in Nat /\ Cardinality(Errors(Filed)) \in Nat
  <2>1. report \in Nat /\ Filed \subseteq 1..report
    BY <1>1, FiledReports DEF TypeOK
  <2> QED BY <2>1, Finite
<1>3. shown.success = 0 /\ shown.error = 0
  BY DEF Init, Zero
<1>4. CountsAreOfReports
  BY <1>2, <1>3 DEF Init, CountsAreOfReports
<1> QED BY <1>1, <1>4 DEF Init, ReporterInv

LEMMA ReporterStep == ReporterInv /\ [Next]_vars => ReporterInv'
<1> SUFFICES ASSUME ReporterInv, [Next]_vars PROVE ReporterInv' OBVIOUS
<1> USE ReporterAssumption DEF ReporterInv
<1>0. /\ report \in Nat /\ counted \subseteq Filed /\ Filed \subseteq 1..report
      /\ Cardinality(Successes(Filed)) \in Nat /\ Cardinality(Errors(Filed)) \in Nat
      /\ Cardinality(Successes(counted)) \in Nat /\ Cardinality(Errors(counted)) \in Nat
  <2>1. report \in Nat /\ counted \subseteq Filed /\ Filed \subseteq 1..report
    BY FiledReports DEF TypeOK, CountsAreOfReports
  <2>2. counted \subseteq 1..report
    BY <2>1
  <2> QED BY <2>1, <2>2, Finite
<1>1. CASE Write
  <2>1. TypeOK'
    BY <1>1 DEF Write, TypeOK, Setting, Value
  <2>2. report' = report + 1 /\ counted' = counted /\ stats' = stats /\ shown' = shown
    BY <1>1 DEF Write
  <2>3. \A n \in 1..report : success'[n] = success[n] /\ named'[n] = named[n]
    BY <1>0, <1>1, <2>2 DEF Write
  <2>4. named'[report'] = Missing
    BY <1>0, <1>1, <2>2 DEF Write
  <2>5. Filed' = Filed
    BY <1>0, <2>2, <2>3, <2>4 DEF Filed
  <2>6. /\ Successes(Filed)' = Successes(Filed) /\ Errors(Filed)' = Errors(Filed)
        /\ Successes(counted)' = Successes(counted) /\ Errors(counted)' = Errors(counted)
    BY <1>0, <2>2, <2>3, <2>5 DEF Successes, Errors
  <2>7. CountsAreOfReports'
    BY <2>2, <2>5, <2>6 DEF CountsAreOfReports
  <2> QED BY <1>0, <1>1, <2>1, <2>2, <2>7 DEF Write, TypeOK
<1>2. CASE WriteFile
  <2>1. FileName(report) \in Name /\ report \in 1..report /\ report \in 1..MaxReports
    BY <1>2 DEF WriteFile, TypeOK, FileName, Name
  <2>2. TypeOK'
    BY <1>2, <2>1 DEF WriteFile, TypeOK
  <2>3. UNCHANGED <<report, success, counted, stats, shown>>
    BY <1>2 DEF WriteFile
  <2>4. named'[report] # Missing
    BY <1>2, <2>1 DEF WriteFile, TypeOK, Name
  <2>5. Filed \subseteq Filed' /\ Filed' \subseteq 1..report
    BY <1>2, <2>3, <2>4 DEF WriteFile, TypeOK, Filed
  <2>6. /\ Successes(Filed)' = Successes(Filed') /\ Errors(Filed)' = Errors(Filed')
        /\ Successes(counted)' = Successes(counted) /\ Errors(counted)' = Errors(counted)
    BY <2>3 DEF Successes, Errors
  <2>7. /\ Cardinality(Successes(Filed)) <= Cardinality(Successes(Filed'))
        /\ Cardinality(Errors(Filed)) <= Cardinality(Errors(Filed'))
        /\ Cardinality(Successes(Filed')) \in Nat /\ Cardinality(Errors(Filed')) \in Nat
    BY <1>0, <2>5, Finite, CountMore
  <2>8. shown \in Counts /\ shown.success \in Nat /\ shown.error \in Nat
    BY DEF TypeOK, Counts
  <2>9. CountsAreOfReports'
    BY <1>0, <2>3, <2>5, <2>6, <2>7, <2>8 DEF CountsAreOfReports
  <2> QED BY <1>2, <2>2, <2>4, <2>9 DEF WriteFile
<1>3. CASE WriteFileFails
  <2>1. FileName(report) \in Name
    BY <1>3 DEF WriteFileFails, TypeOK, FileName, Name
  <2>2. TypeOK'
    BY <1>3, <2>1 DEF WriteFileFails, Slip, TypeOK
  <2>3. CountsAreOfReports'
    BY <1>3 DEF WriteFileFails, CountsAreOfReports, Filed, Successes, Errors
  <2> QED BY <1>3, <2>2, <2>3 DEF WriteFileFails
<1>4. CASE ReadStats
  <2>1. TypeOK'
    BY <1>4 DEF ReadStats, TypeOK, CountsIn, Zero, Counts
  <2>2. CountsAreOfReports'
    BY <1>4 DEF ReadStats, CountsAreOfReports, Filed, Successes, Errors
  <2> QED BY <1>4, <2>1, <2>2 DEF ReadStats, CountsIn
<1>5. CASE WriteStats
  <2>1. report \notin counted /\ counts = CountsIn(stats) /\ stats # Torn
        /\ report \in 1..report /\ success[report] \in BOOLEAN /\ report \in Filed
    BY <1>5 DEF WriteStats, TypeOK, Filed
  <2>2. stats' \in Counts /\ stats' = Incremented
    <3>1. stats' = Incremented /\ counts \in Counts
      BY <1>5 DEF WriteStats, TypeOK
    <3> QED BY <2>1, <3>1 DEF Incremented, Counts
  <2>3. TypeOK'
    BY <1>5, <2>1, <2>2 DEF WriteStats, TypeOK, Zero, Counts
  <2>4. counts.success = Cardinality(Successes(counted)) /\ counts.error = Cardinality(Errors(counted))
    <3>1. CASE stats = Missing
      <4>1. Successes(counted) = {} /\ Errors(counted) = {}
        BY <3>1 DEF Successes, Errors
      <4> QED BY <2>1, <3>1, <4>1, FS_EmptySet DEF CountsIn, Zero
    <3>2. CASE stats # Missing
      BY <2>1, <3>2 DEF CountsIn, CountsAreOfReports
    <3> QED BY <3>1, <3>2
  <2>5. UNCHANGED <<report, named, success, shown>> /\ counted' = counted \cup {report}
    BY <1>5 DEF WriteStats
  <2>6. /\ Successes(counted)' = Successes(counted \cup {report})
        /\ Errors(counted)' = Errors(counted \cup {report})
        /\ Filed' = Filed
        /\ Successes(Filed)' = Successes(Filed) /\ Errors(Filed)' = Errors(Filed)
    BY <2>5 DEF Successes, Errors, Filed
  <2>7. /\ Cardinality(Successes(counted)') =
             IF success[report] THEN Cardinality(Successes(counted)) + 1
             ELSE Cardinality(Successes(counted))
        /\ Cardinality(Errors(counted)') =
             IF success[report] THEN Cardinality(Errors(counted))
             ELSE Cardinality(Errors(counted)) + 1
    <3>1. report \in Nat /\ counted \subseteq 1..report /\ report \notin counted
      BY <1>0, <2>1
    <3>2. /\ Cardinality(Successes(counted \cup {report})) =
               IF success[report] THEN Cardinality(Successes(counted)) + 1
               ELSE Cardinality(Successes(counted))
          /\ Cardinality(Errors(counted \cup {report})) =
               IF success[report] THEN Cardinality(Errors(counted))
               ELSE Cardinality(Errors(counted)) + 1
      BY <3>1, CountOne
    <3> QED BY <2>6, <3>2
  <2>8. /\ stats'.success = Cardinality(Successes(counted)')
        /\ stats'.error = Cardinality(Errors(counted)')
    <3>1. CASE success[report]
      BY <1>0, <2>2, <2>4, <2>7, <3>1 DEF Incremented, TypeOK, Counts
    <3>2. CASE ~success[report]
      BY <1>0, <2>2, <2>4, <2>7, <3>2 DEF Incremented, TypeOK, Counts
    <3> QED BY <3>1, <3>2
  <2>9. CountsAreOfReports'
    BY <1>0, <2>1, <2>5, <2>6, <2>8 DEF CountsAreOfReports
  <2> QED BY <1>5, <2>2, <2>3, <2>9 DEF WriteStats
<1>6. CASE WriteStatsFails
  <2>1. TypeOK'
    BY <1>6 DEF WriteStatsFails, Slip, TypeOK, Zero, Counts
  <2>2. CountsAreOfReports'
    BY <1>6 DEF WriteStatsFails, CountsAreOfReports, Filed, Successes, Errors
  <2> QED BY <1>6, <2>1, <2>2 DEF WriteStatsFails
<1>7. CASE Restart
  <2>1. TypeOK'
    BY <1>7 DEF Restart, Overview, CountsIn, TypeOK, Zero, Counts
  <2>2. UNCHANGED <<report, named, success, counted, stats>>
    BY <1>7 DEF Restart
  <2>3. /\ Successes(counted)' = Successes(counted) /\ Errors(counted)' = Errors(counted)
        /\ Filed' = Filed
        /\ Successes(Filed)' = Successes(Filed) /\ Errors(Filed)' = Errors(Filed)
    BY <2>2 DEF Successes, Errors, Filed
  <2>4. /\ Cardinality(Successes(counted)) <= Cardinality(Successes(Filed))
        /\ Cardinality(Errors(counted)) <= Cardinality(Errors(Filed))
    BY <1>0, CountMore
  <2>5. shown' = IF stats \in {Missing, Torn} THEN Zero ELSE stats
    BY <1>7 DEF Restart, Overview, CountsIn
  <2>6. /\ shown'.success <= Cardinality(Successes(Filed))
        /\ shown'.error <= Cardinality(Errors(Filed))
    BY <1>0, <2>4, <2>5 DEF Zero, CountsAreOfReports
  <2>7. CountsAreOfReports'
    BY <1>0, <2>2, <2>3, <2>6 DEF CountsAreOfReports
  <2> QED BY <1>7, <2>1, <2>7 DEF Restart
<1>8. CASE TakeStatsAway
  BY <1>8 DEF TakeStatsAway, Slip, TypeOK, CountsAreOfReports, Filed, Successes, Errors
<1>9. CASE Tick
  <2>1. TypeOK'
    BY <1>9 DEF Tick, TypeOK
  <2>2. CountsAreOfReports'
    BY <1>9 DEF Tick, CountsAreOfReports, Filed, Successes, Errors
  <2> QED BY <1>9, <2>1, <2>2 DEF Tick, CountsIn
<1>10. CASE UNCHANGED vars
  BY <1>10 DEF vars, TypeOK, CountsIn, CountsAreOfReports, Filed, Successes, Errors
<1> QED BY <1>1, <1>2, <1>3, <1>4, <1>5, <1>6, <1>7, <1>8, <1>9, <1>10 DEF Next

(* The counts of the stats file are those of the reports whose update of   *)
(* it went through, each counted once, and the overview never shows more   *)
(* than were written, whatever write fails and wherever the program ends.  *)
THEOREM CountsAreRight == Spec => []ReporterInv
BY ReporterInit, ReporterStep, PTL DEF Spec
-----------------------------------------------------------------------------
(* A report's file bears its result in its name.                           *)
NamedByResult ==
  \A n \in 1..report : named[n] # Missing => named[n][2] = success[n]

KeptInv == ReporterInv /\ NamedByResult /\ ReportsAreKept

LEMMA KeptStep == KeptInv /\ [Next]_vars => KeptInv'
<1> SUFFICES ASSUME KeptInv, [Next]_vars PROVE NamedByResult' /\ ReportsAreKept'
  BY ReporterStep DEF KeptInv
<1>1. TypeOK /\ NamedByResult /\ ReportsAreKept
  BY DEF KeptInv, ReporterInv
<1>2. CASE Write
  <2>1. report \in Nat /\ report' = report + 1 /\ named'[report'] = Missing
    BY <1>1, <1>2 DEF Write, TypeOK
  <2>2. \A n \in 1..report : named'[n] = named[n] /\ success'[n] = success[n]
    BY <1>2, <2>1 DEF Write
  <2>3. \A n \in 1..report' : named'[n] # Missing => n \in 1..report
    BY <2>1
  <2>4. NamedByResult'
    BY <1>1, <2>2, <2>3 DEF NamedByResult
  <2>5. ReportsAreKept'
    <3> SUFFICES ASSUME NEW n \in 1..report', named'[n] # Missing
                 PROVE  \/ files'[named'[n]] = Torn
                        \/ \E m \in n..report' : files'[named'[n]] = <<m, success'[n]>>
      BY DEF ReportsAreKept
    <3>1. n \in 1..report /\ named'[n] = named[n] /\ success'[n] = success[n] /\ files' = files
      BY <1>2, <2>2, <2>3 DEF Write
    <3>2. n..report \subseteq n..report'
      BY <2>1
    <3> QED BY <1>1, <3>1, <3>2 DEF ReportsAreKept
  <2> QED BY <2>4, <2>5
<1>3. CASE WriteFile
  <2> DEFINE f == <<second, success[report]>>
  <2>1. /\ named' = [named EXCEPT ![report] = f] /\ files' = [files EXCEPT ![f] = <<report, success[report]>>]
        /\ UNCHANGED <<report, success>> /\ f \in Name /\ report \in 1..report
    BY <1>1, <1>3 DEF WriteFile, FileName, TypeOK, Name, KeptInv, ReporterInv
  <2>2. named'[report] = f /\ \A n \in 1..report : n # report => named'[n] = named[n]
    BY <1>1, <2>1 DEF TypeOK
  <2>3. NamedByResult'
    BY <1>1, <2>1, <2>2 DEF NamedByResult
  <2>4. ReportsAreKept'
    <3> SUFFICES ASSUME NEW n \in 1..report, named'[n] # Missing
                 PROVE  \/ files'[named'[n]] = Torn
                        \/ \E m \in n..report : files'[named'[n]] = <<m, success[n]>>
      BY <2>1 DEF ReportsAreKept
    <3>1. CASE named'[n] = f
      <4>1. success[n] = success[report]
        BY <2>1, <2>3, <3>1 DEF NamedByResult
      <4>2. files'[named'[n]] = <<report, success[n]>> /\ report \in n..report
        BY <1>1, <2>1, <3>1, <4>1 DEF TypeOK
      <4> QED BY <4>2
    <3>2. CASE named'[n] # f
      <4>1. n # report /\ named'[n] = named[n] /\ named[n] \in Name
        BY <1>1, <2>2, <3>2 DEF TypeOK
      <4>2. files'[named'[n]] = files[named[n]]
        BY <1>1, <2>1, <3>2, <4>1 DEF TypeOK
      <4> QED BY <1>1, <4>1, <4>2 DEF ReportsAreKept
    <3> QED BY <3>1, <3>2
  <2> QED BY <2>3, <2>4
<1>4. CASE WriteFileFails
  <2>1. UNCHANGED <<report, success, named>> /\ FileName(report) \in Name
    BY <1>1, <1>4 DEF WriteFileFails, TypeOK, FileName, Name, KeptInv, ReporterInv
  <2>2. \A g \in Name : files'[g] \in {files[g], Torn}
    BY <1>1, <1>4, <2>1 DEF WriteFileFails, TypeOK
  <2>3. \A n \in 1..report : named[n] # Missing => named[n] \in Name
    BY <1>1 DEF TypeOK
  <2> QED BY <1>1, <2>1, <2>2, <2>3 DEF NamedByResult, ReportsAreKept
<1>5. CASE UNCHANGED <<report, files, success, named>>
  BY <1>1, <1>5 DEF NamedByResult, ReportsAreKept
<1> QED
  BY <1>2, <1>3, <1>4, <1>5
  DEF Next, ReadStats, WriteStats, WriteStatsFails, Restart, TakeStatsAway, Tick, vars

(* A report that was written stays in its file until that is torn or a     *)
(* later report of the same second and the same result replaces it.        *)
THEOREM NoReportLost == Spec => []ReportsAreKept
<1>1. Init => KeptInv
  BY ReporterInit DEF Init, KeptInv, NamedByResult, ReportsAreKept
<1> QED BY <1>1, KeptStep, PTL DEF Spec, KeptInv
=============================================================================
