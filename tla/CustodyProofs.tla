---------------------------- MODULE CustodyProofs ----------------------------
(***************************************************************************)
(* Proofs about the custody of serial numbers and DACs, for any directory, *)
(* any schema and any number of runs, failed writes and restarts.  They    *)
(* need nothing of the files: nobody loads the pool while a window is      *)
(* open, and the serial number counter is saved before it is used.         *)
(***************************************************************************)
EXTENDS Custody, TLAPS

(* What a unit may be given, without the bounds of the runs.               *)
Seen == [serial : Nat, dac : Pool!Pair \cup {0}, start : Nat]

Injected == 1..Len(units)

(* A serial number that no later pull returns.                             *)
Used(s) == s < index /\ (indexSaved # -1 => s < indexSaved)

CustodyType ==
  /\ index \in Nat /\ indexSaved \in Nat \cup {-1}
  /\ crashes \in Nat /\ data \in Seen /\ units \in Seq(Seen)
  /\ entry = [p \in Pool!Pair |-> entry[p]]

(* Every serial number on a unit is behind the counter, in memory and in   *)
(* the settings file, and so is the one that is being dispatched.          *)
SerialInv ==
  /\ \A i \in Injected : Used(units[i].serial)
  /\ worker = "dispatch" =>
       /\ Used(data.serial)
       /\ \A i \in Injected : units[i].serial # data.serial
  /\ \A i, j \in Injected : units[i].serial = units[j].serial => i = j

(* A DAC that was injected in this start of the program is not READY in    *)
(* memory, nor is the one that is being dispatched; the other units are    *)
(* of earlier starts.                                                      *)
DacInv ==
  /\ \A i \in Injected :
       /\ units[i].start <= crashes
       /\ units[i].start = crashes =>
            open /\ units[i].dac \in Pool!Pair /\ entry[units[i].dac] # "READY"
  /\ worker = "dispatch" =>
       /\ open /\ data.start = crashes
       /\ data.dac \in Pool!Pair /\ entry[data.dac] # "READY"
       /\ \A i \in Injected :
            ~(units[i].start = crashes /\ units[i].dac = data.dac)
  /\ DacUnique

CustodyInv ==
  /\ CustodyType
  /\ "serial_number" \in required => SerialInv
  /\ DacInv

-----------------------------------------------------------------------------
(* What the pool's actions do to the dictionary, as far as DacInv goes.    *)
NoneReturns ==
  \A p \in Pool!Pair : entry'[p] = "READY" => entry[p] = "READY"

EntryIsBook == entry = [p \in Pool!Pair |-> entry[p]]

(* A READY pair that was tried is READY no more, others keep their status. *)
LEMMA AfterKeeps ==
  ASSUME NEW S, entry' = Pool!After(S)
  PROVE  /\ EntryIsBook' /\ NoneReturns
         /\ \A p \in S \cap Pool!Pair : entry'[p] # "READY"
BY DEF Pool!After, Pool!Taken, EntryIsBook, NoneReturns

(* get_material, whatever its outcome.                                     *)
LEMMA GetKeeps ==
  ASSUME Pool!Get, EntryIsBook
  PROVE  open /\ UNCHANGED <<open, crashes>> /\ EntryIsBook' /\ NoneReturns
<1>1. CASE Pool!GetMaterial
  <2>1. PICK p \in Pool!Ready : Pool!TryUpTo(p, TRUE)
    BY <1>1 DEF Pool!GetMaterial
  <2>2. entry' = Pool!After(Pool!Before(p) \cup {p})
    BY <2>1 DEF Pool!TryUpTo
  <2> QED BY <1>1, <2>2, AfterKeeps DEF Pool!GetMaterial
<1>2. CASE Pool!GetMaterialFails
  <2>1. PICK p \in Pool!Ready : Pool!TryUpTo(p, FALSE)
    BY <1>2 DEF Pool!GetMaterialFails
  <2>2. entry' = Pool!After(Pool!Before(p) \cup {p})
    BY <2>1 DEF Pool!TryUpTo
  <2> QED BY <1>2, <2>2, AfterKeeps DEF Pool!GetMaterialFails
<1>3. CASE Pool!GetMaterialEmpty
  BY <1>3, AfterKeeps DEF Pool!GetMaterialEmpty
<1>4. CASE Pool!GetMaterialRefused
  BY <1>4 DEF Pool!GetMaterialRefused, EntryIsBook, NoneReturns
<1> QED BY <1>1, <1>2, <1>3, <1>4 DEF Pool!Get

(* The pair that get_material returns was READY and is not any more.       *)
LEMMA GetGives ==
  ASSUME Pool!GetMaterial
  PROVE  given' \in Pool!Pair /\ entry[given'] = "READY" /\ entry'[given'] # "READY"
<1>1. PICK p \in Pool!Ready : Pool!TryUpTo(p, TRUE) /\ given' = p
  BY DEF Pool!GetMaterial
<1>2. entry' = Pool!After(Pool!Before(p) \cup {p})
  BY <1>1 DEF Pool!TryUpTo
<1>3. p \in Pool!Pair /\ entry[p] = "READY"
  BY DEF Pool!Ready
<1>4. entry'[p] # "READY"
  BY <1>2, <1>3, AfterKeeps
<1> QED BY <1>1, <1>3, <1>4

(* A report, saved or not, makes nothing READY.                            *)
LEMMA ReportKeeps ==
  ASSUME NEW good, NEW ok, Pool!SetMaterialState(good, ok), EntryIsBook
  PROVE  UNCHANGED <<open, crashes>> /\ EntryIsBook' /\ NoneReturns
<1>1. entry' = [entry EXCEPT ![given] = IF good THEN "CONSUMED" ELSE "ERROR"]
      /\ UNCHANGED <<open, crashes>>
  BY DEF Pool!SetMaterialState
<1> QED BY <1>1 DEF EntryIsBook, NoneReturns

(* A load happens in the wizard only.                                      *)
LEMMA LoadKeeps ==
  ASSUME Pool!Load, EntryIsBook
  PROVE  ~open /\ UNCHANGED <<open, crashes>> /\ EntryIsBook'
BY DEF Pool!Load, Pool!Forget, Pool!Nothing, Pool!Scanned, EntryIsBook

(* A start of the program counts.                                          *)
LEMMA StartKeeps ==
  ASSUME Pool!CrashAndStart
  PROVE  crashes' = crashes + 1 /\ open' = FALSE /\ EntryIsBook'
BY DEF Pool!CrashAndStart, Pool!Forget, Pool!Nothing, Pool!Scanned, EntryIsBook

-----------------------------------------------------------------------------
LEMMA CustodyInit == Init => CustodyInv
<1> SUFFICES ASSUME Init PROVE CustodyInv
  OBVIOUS
<1>1. CustodyType
  BY DEF Init, Pool!Init, Pool!Nothing, CustodyType, NoData, Seen
<1>2. units = << >> /\ worker = "ready" /\ index = 0 /\ indexSaved = 0
  BY DEF Init
<1>3. SerialInv
  BY <1>2 DEF SerialInv, Injected
<1>4. DacInv
  BY <1>2 DEF DacInv, DacUnique, Injected
<1> QED BY <1>1, <1>3, <1>4 DEF CustodyInv

LEMMA UnitsSeen ==
  ASSUME CustodyType
  PROVE  \A i \in Injected : units[i] \in Seen /\ units[i].serial \in Nat
                                             /\ units[i].start \in Nat
<1>1. \A i \in Injected : units[i] \in Seen
  BY DEF CustodyType, Injected
<1> QED BY <1>1 DEF Seen

(* A step that injects nothing and dispatches nothing keeps SerialInv when *)
(* used serial numbers stay used.                                          *)
LEMMA SerialsStay ==
  ASSUME SerialInv, UNCHANGED units,
         worker' = "dispatch" => worker = "dispatch" /\ UNCHANGED data,
         \A s \in Nat : Used(s) => Used(s)',
         CustodyType
  PROVE  SerialInv'
<1>1. \A i \in Injected : units[i].serial \in Nat
  BY UnitsSeen
<1>2. data.serial \in Nat
  BY DEF CustodyType, Seen
<1>3. Injected' = Injected
  BY DEF Injected
<1> QED BY <1>1, <1>2, <1>3 DEF SerialInv

(* A step that injects nothing, dispatches nothing and makes no pair READY *)
(* keeps DacInv.                                                           *)
LEMMA DacsStay ==
  ASSUME DacInv, UNCHANGED <<units, open, crashes>>, NoneReturns,
         worker' = "dispatch" => worker = "dispatch" /\ UNCHANGED data
  PROVE  DacInv'
<1>1. Injected' = Injected /\ (DacUnique' <=> DacUnique)
  BY DEF Injected, DacUnique
<1> QED BY <1>1 DEF DacInv, NoneReturns

(* What fetch does to the counter, saved or not: used numbers stay used.   *)
LEMMA FetchKeeps ==
  ASSUME CustodyType, FetchSerial(TRUE) \/ FetchSerial(FALSE)
  PROVE  /\ index' \in Nat /\ indexSaved' \in Nat \cup {-1}
         /\ \A s \in Nat : Used(s) => Used(s)'
<1>1. index \in Nat /\ indexSaved \in Nat \cup {-1}
  BY DEF CustodyType
<1>2. CASE FetchSerial(TRUE)
  <2>1. \/ index' = index + 1 /\ indexSaved' = index + 1
        \/ UNCHANGED <<index, indexSaved>>
    BY <1>2 DEF FetchSerial
  <2> QED BY <1>1, <2>1 DEF Used
<1>3. CASE FetchSerial(FALSE)
  <2>1. index' = index + 1 /\ indexSaved' \in {indexSaved, -1}
    BY <1>3 DEF FetchSerial
  <2> QED BY <1>1, <2>1 DEF Used
<1> QED BY <1>2, <1>3

(* The number that fetch returns was not used, and is now.                 *)
LEMMA FetchGives ==
  ASSUME CustodyType, "serial_number" \in required, FetchSerial(TRUE)
  PROVE  index < index' /\ index < indexSaved'
<1>1. index' = index + 1 /\ indexSaved' = index + 1 /\ index \in Nat
  BY DEF FetchSerial, CustodyType
<1> QED BY <1>1

(* Without a serial number in the schema nothing is said of it.            *)
LEMMA CustodyParts ==
  ASSUME CustodyType', DacInv', UNCHANGED required,
         "serial_number" \in required => SerialInv'
  PROVE  CustodyInv'
BY DEF CustodyInv

-----------------------------------------------------------------------------
(* Pull: the pair was READY, so no unit of this start has it; the serial   *)
(* number was the counter's, so no unit has it.                            *)
LEMMA PullStep ==
  ASSUME CustodyInv, Pull PROVE CustodyInv'
<1>1. /\ CustodyType /\ DacInv /\ EntryIsBook
      /\ Pool!GetMaterial /\ Pool!Get /\ FetchSerial(TRUE)
      /\ data' = [serial |-> index, dac |-> given', start |-> crashes]
      /\ UNCHANGED <<units, required>>
  BY DEF CustodyInv, CustodyType, EntryIsBook, Pull, NewRun, Pool!Get
<1>2. open /\ UNCHANGED <<open, crashes>> /\ EntryIsBook' /\ NoneReturns
  BY <1>1, GetKeeps
<1>3. given' \in Pool!Pair /\ entry[given'] = "READY" /\ entry'[given'] # "READY"
  BY <1>1, GetGives
<1>4. index \in Nat /\ crashes \in Nat
  BY <1>1 DEF CustodyType
<1>5. /\ data'.serial = index /\ data'.dac = given' /\ data'.start = crashes
      /\ data' \in Seen
  BY <1>1, <1>3, <1>4 DEF Seen
<1>6. Injected' = Injected /\ (DacUnique' <=> DacUnique)
  BY <1>1 DEF Injected, DacUnique
<1>7. CustodyType'
  BY <1>1, <1>2, <1>5, FetchKeeps DEF CustodyType, EntryIsBook
<1>8. DacInv'
  <2>1. \A i \in Injected : ~(units[i].start = crashes /\ units[i].dac = given')
    BY <1>1, <1>3 DEF DacInv
  <2> QED BY <1>1, <1>2, <1>3, <1>5, <1>6, <2>1 DEF DacInv, NoneReturns
<1>9. ASSUME "serial_number" \in required PROVE SerialInv'
  <2>1. SerialInv /\ index < index' /\ index < indexSaved'
    BY <1>1, <1>9, FetchGives DEF CustodyInv
  <2>2. \A s \in Nat : Used(s) => Used(s)'
    BY <1>1, FetchKeeps
  <2>3. \A i \in Injected : units[i].serial # index
    BY <1>1, <1>4, <2>1, UnitsSeen DEF SerialInv, Used
  <2>4. Used(data.serial)'
    BY <1>5, <2>1 DEF Used
  <2>5. \A i \in Injected : Used(units[i].serial)'
    BY <1>1, <2>1, <2>2, UnitsSeen DEF SerialInv
  <2> QED BY <1>1, <1>5, <1>6, <2>1, <2>3, <2>4, <2>5 DEF SerialInv
<1> QED BY <1>1, <1>7, <1>8, <1>9, CustodyParts

(* A pull that fails: whatever was taken, nothing is dispatched.           *)
LEMMA FailedPullStep ==
  ASSUME CustodyInv, PullWithoutSerial \/ PullWithoutDac \/ PullWithoutRest
  PROVE  CustodyInv'
<1>1. /\ CustodyType /\ DacInv /\ EntryIsBook
      /\ FetchSerial(TRUE) \/ FetchSerial(FALSE)
      /\ Pool!Get \/ UNCHANGED poolVars
      /\ worker' = "result"
      /\ UNCHANGED <<data, units, required>>
  BY DEF CustodyInv, CustodyType, EntryIsBook, PullWithoutSerial, PullWithoutDac,
     PullWithoutRest, NewRun, Fails, Pool!Get
<1>2. UNCHANGED <<open, crashes>> /\ EntryIsBook' /\ NoneReturns
  <2>1. CASE Pool!Get
    BY <1>1, <2>1, GetKeeps
  <2>2. CASE UNCHANGED poolVars
    BY <1>1, <2>2 DEF poolVars, EntryIsBook, NoneReturns
  <2> QED BY <1>1, <2>1, <2>2
<1>3. CustodyType'
  BY <1>1, <1>2, FetchKeeps DEF CustodyType, EntryIsBook
<1>4. DacInv'
  BY <1>1, <1>2, DacsStay
<1>5. ASSUME "serial_number" \in required PROVE SerialInv'
  BY <1>1, <1>5, FetchKeeps, SerialsStay DEF CustodyInv
<1> QED BY <1>1, <1>3, <1>4, <1>5, CustodyParts

(* A dispatch: the unit may have the data, whatever its verdict.           *)
LEMMA DispatchStep ==
  ASSUME CustodyInv, Dispatch PROVE CustodyInv'
<1>1. /\ CustodyType /\ DacInv /\ worker = "dispatch" /\ worker' = "result"
      /\ units' = units \/ units' = Append(units, data)
      /\ UNCHANGED <<poolVars, required, data, index, indexSaved>>
  BY DEF CustodyInv, Dispatch
<1>2. UNCHANGED <<open, crashes, entry>>
  BY <1>1 DEF poolVars
<1>3. units \in Seq(Seen) /\ data \in Seen /\ Len(units) \in Nat
  BY <1>1 DEF CustodyType
<1>4. CustodyType'
  BY <1>1, <1>2, <1>3 DEF CustodyType
<1>5. CASE units' = units
  <2>1. DacInv'
    BY <1>1, <1>2, <1>5, DacsStay DEF NoneReturns
  <2>2. ASSUME "serial_number" \in required PROVE SerialInv'
    <3>1. \A s \in Nat : Used(s) => Used(s)'
      BY <1>1 DEF Used
    <3> QED BY <1>1, <1>5, <2>2, <3>1, SerialsStay DEF CustodyInv
  <2> QED BY <1>1, <1>4, <2>1, <2>2, CustodyParts
<1>6. CASE units' = Append(units, data)
  <2>1. /\ Len(units') = Len(units) + 1
        /\ \A i \in Injected : units'[i] = units[i]
        /\ units'[Len(units) + 1] = data
    BY <1>3, <1>6 DEF Injected
  <2>2. \A i \in Injected' : i \in Injected \/ i = Len(units) + 1
    BY <1>3, <2>1 DEF Injected
  <2>3. Len(units) + 1 \notin Injected
    BY <1>3 DEF Injected
  <2>4. DacInv'
    <3>1. \A i \in Injected' :
            /\ units'[i].start <= crashes
            /\ units'[i].start = crashes =>
                 open /\ units'[i].dac \in Pool!Pair /\ entry[units'[i].dac] # "READY"
      <4>1. crashes <= crashes
        BY <1>1 DEF CustodyType
      <4> QED BY <1>1, <2>1, <2>2, <4>1 DEF DacInv
    <3>2. DacUnique'
      <4>1. \A i \in Injected :
              ~(units[i].start = data.start /\ units[i].dac = data.dac)
        BY <1>1 DEF DacInv
      <4>2. \A i, j \in Injected :
              units[i].dac = units[j].dac /\ units[i].start = units[j].start => i = j
        BY <1>1 DEF DacInv, DacUnique, Injected
      <4> QED BY <2>1, <2>2, <4>1, <4>2 DEF DacUnique, Injected
    <3> QED BY <1>1, <1>2, <3>1, <3>2 DEF DacInv
  <2>5. ASSUME "serial_number" \in required PROVE SerialInv'
    <3>1. SerialInv
      BY <2>5 DEF CustodyInv
    <3>2. \A i \in Injected' : Used(units[i].serial)'
      BY <1>1, <2>1, <2>2, <3>1 DEF SerialInv, Used
    <3>3. \A i, j \in Injected' : units'[i].serial = units'[j].serial => i = j
      BY <1>1, <2>1, <2>2, <3>1 DEF SerialInv
    <3> QED BY <1>1, <3>2, <3>3 DEF SerialInv
  <2> QED BY <1>1, <1>4, <2>4, <2>5, CustodyParts
<1> QED BY <1>1, <1>5, <1>6

(* FINISH, with something to report or not.                                *)
LEMMA FinishStep ==
  ASSUME CustodyInv, Finish \/ FinishWithoutData PROVE CustodyInv'
<1>1. /\ CustodyType /\ DacInv /\ EntryIsBook /\ worker' = "ready"
      /\ UNCHANGED <<required, data, index, indexSaved, units>>
      /\ \/ \E ok \in BOOLEAN : Pool!SetMaterialState(success, ok)
         \/ UNCHANGED poolVars
  BY DEF CustodyInv, CustodyType, EntryIsBook, Finish, FinishWithoutData, FinishRun
<1>2. UNCHANGED <<open, crashes>> /\ EntryIsBook' /\ NoneReturns
  <2>1. ASSUME NEW ok \in BOOLEAN, Pool!SetMaterialState(success, ok)
        PROVE  UNCHANGED <<open, crashes>> /\ EntryIsBook' /\ NoneReturns
    BY <1>1, <2>1, ReportKeeps
  <2>2. CASE UNCHANGED poolVars
    BY <1>1, <2>2 DEF poolVars, EntryIsBook, NoneReturns
  <2> QED BY <1>1, <2>1, <2>2
<1>3. CustodyType'
  BY <1>1, <1>2 DEF CustodyType, EntryIsBook
<1>4. DacInv'
  BY <1>1, <1>2, DacsStay
<1>5. ASSUME "serial_number" \in required PROVE SerialInv'
  <2>1. \A s \in Nat : Used(s) => Used(s)'
    BY <1>1 DEF Used
  <2> QED BY <1>1, <1>5, <2>1, SerialsStay DEF CustodyInv
<1> QED BY <1>1, <1>3, <1>4, <1>5, CustodyParts

(* A start of the program: the units so far are of earlier starts, and the *)
(* counter goes back to what the file has, which no unit has reached.      *)
LEMMA EndStep ==
  ASSUME CustodyInv, EndAndStart PROVE CustodyInv'
<1>1. /\ CustodyType /\ DacInv /\ Pool!CrashAndStart
      /\ indexSaved # -1 /\ index' = indexSaved
      /\ worker' = "ready" /\ data' = NoData
      /\ UNCHANGED <<required, indexSaved, units>>
  BY DEF CustodyInv, EndAndStart
<1>2. crashes' = crashes + 1 /\ EntryIsBook' /\ crashes \in Nat
  BY <1>1, StartKeeps DEF CustodyType
<1>3. Injected' = Injected /\ (DacUnique' <=> DacUnique)
  BY <1>1 DEF Injected, DacUnique
<1>4. CustodyType'
  BY <1>1, <1>2 DEF CustodyType, EntryIsBook, NoData, Seen
<1>5. DacInv'
  <2>1. \A i \in Injected : units[i].start <= crashes' /\ units[i].start # crashes'
    BY <1>1, <1>2, UnitsSeen DEF DacInv
  <2> QED BY <1>1, <1>3, <2>1 DEF DacInv
<1>6. ASSUME "serial_number" \in required PROVE SerialInv'
  <2>1. \A i \in Injected : Used(units[i].serial)'
    BY <1>1, <1>6 DEF CustodyInv, SerialInv, Used
  <2> QED BY <1>1, <1>3, <1>6, <2>1 DEF CustodyInv, SerialInv
<1> QED BY <1>1, <1>4, <1>5, <1>6, CustodyParts

(* The wizard, the operator's files, or nothing.                           *)
LEMMA PrepareStep ==
  ASSUME CustodyInv, Prepare \/ UNCHANGED vars PROVE CustodyInv'
<1>1. /\ CustodyType /\ DacInv /\ EntryIsBook
      /\ UNCHANGED <<required, worker, data, index, indexSaved, units>>
      /\ Pool!Load \/ Pool!OpenWindow \/ Pool!Move \/ UNCHANGED poolVars
  BY DEF CustodyInv, CustodyType, EntryIsBook, Prepare, vars, runVars
<1>2. Injected' = Injected /\ (DacUnique' <=> DacUnique)
  BY <1>1 DEF Injected, DacUnique
<1>3. EntryIsBook' /\ DacInv' /\ UNCHANGED crashes
  <2>1. CASE Pool!Load
    <3>1. ~open /\ UNCHANGED <<open, crashes>> /\ EntryIsBook'
      BY <1>1, <2>1, LoadKeeps
    <3> QED BY <1>1, <1>2, <3>1 DEF DacInv
  <2>2. CASE Pool!OpenWindow
    <3>1. open' = TRUE /\ UNCHANGED <<entry, crashes>>
      BY <2>2 DEF Pool!OpenWindow
    <3> QED BY <1>1, <1>2, <3>1 DEF DacInv, EntryIsBook
  <2>3. CASE Pool!Move \/ UNCHANGED poolVars
    <3>1. UNCHANGED <<open, entry, crashes>>
      BY <2>3 DEF Pool!Move, poolVars
    <3> QED BY <1>1, <1>2, <3>1 DEF DacInv, EntryIsBook
  <2> QED BY <1>1, <2>1, <2>2, <2>3
<1>4. CustodyType'
  BY <1>1, <1>3 DEF CustodyType, EntryIsBook
<1>5. ASSUME "serial_number" \in required PROVE SerialInv'
  <2>1. \A s \in Nat : Used(s) => Used(s)'
    BY <1>1 DEF Used
  <2> QED BY <1>1, <1>5, <2>1, SerialsStay DEF CustodyInv
<1> QED BY <1>1, <1>3, <1>4, <1>5, CustodyParts

-----------------------------------------------------------------------------
(* CustodyInv holds in every state, whatever the files, runs and failures. *)
THEOREM CustodyInvariant == Spec => []CustodyInv
<1>1. CustodyInv /\ [Next]_vars => CustodyInv'
  BY PullStep, FailedPullStep, DispatchStep, FinishStep, EndStep, PrepareStep DEF Next
<1> QED BY <1>1, CustodyInit, PTL DEF Spec

(* No serial number is written to two units, over all starts of the        *)
(* program: the number of a failed pull or dispatch is not used again, and *)
(* a restart counts on from the settings file.                             *)
THEOREM SerialsAreUnique == Spec => []SerialUnique
<1>1. CustodyInv => SerialUnique
  BY DEF CustodyInv, SerialInv, SerialUnique, Injected
<1> QED BY <1>1, CustodyInvariant, PTL

(* No DAC is injected into two units in one start of the program, also     *)
(* when its report failed, was not saved, or its dispatch failed after the *)
(* unit was written.                                                       *)
THEOREM DacsAreUnique == Spec => []DacUnique
<1>1. CustodyInv => DacUnique
  BY DEF CustodyInv, DacInv
<1> QED BY <1>1, CustodyInvariant, PTL

-----------------------------------------------------------------------------
(* The custody runs the pool as DacPool specifies it: what is proved of    *)
(* the pool holds here.                                                    *)
PoolTheorems == INSTANCE DacPoolProofs

(* Both instances of DacPool are the same.                                 *)
LEMMA SamePool == Pool!Next <=> PoolTheorems!Next
BY DEF Pool!Next, PoolTheorems!Next, Pool!Load, PoolTheorems!Load,
   Pool!OpenWindow, PoolTheorems!OpenWindow,
   Pool!CrashAndStart, PoolTheorems!CrashAndStart,
   Pool!Get, PoolTheorems!Get, Pool!Report, PoolTheorems!Report,
   Pool!Move, PoolTheorems!Move,
   Pool!GetMaterial, PoolTheorems!GetMaterial,
   Pool!GetMaterialFails, PoolTheorems!GetMaterialFails,
   Pool!GetMaterialEmpty, PoolTheorems!GetMaterialEmpty,
   Pool!GetMaterialRefused, PoolTheorems!GetMaterialRefused,
   Pool!SetMaterialState, PoolTheorems!SetMaterialState,
   Pool!Save, PoolTheorems!Save, Pool!NoSave, PoolTheorems!NoSave,
   Pool!Loaded, PoolTheorems!Loaded,
   Pool!Complete, PoolTheorems!Complete,
   Pool!Forget, PoolTheorems!Forget,
   Pool!LoadRefused, PoolTheorems!LoadRefused,
   Pool!LoadWithoutPair, PoolTheorems!LoadWithoutPair,
   Pool!Previous, PoolTheorems!Previous,
   Pool!Scanned, PoolTheorems!Scanned,
   Pool!LoadSaved, PoolTheorems!LoadSaved,
   Pool!Ready, PoolTheorems!Ready, Pool!Usable, PoolTheorems!Usable,
   Pool!InProgress, PoolTheorems!InProgress,
   Pool!Taken, PoolTheorems!Taken, Pool!After, PoolTheorems!After,
   Pool!Before, PoolTheorems!Before, Pool!TryUpTo, PoolTheorems!TryUpTo,
   Pool!Nothing, PoolTheorems!Nothing, Pool!Pair, PoolTheorems!Pair,
   Pool!Kind, PoolTheorems!Kind

(* While data are in progress the retriever holds their DAC.               *)
HeldInv ==
  /\ success \in BOOLEAN
  /\ worker = "dispatch" => inProgress
  /\ inProgress => given = data.dac /\ given # 0

THEOREM DacIsHeld == Spec => []HeldInv
<1>1. Init => HeldInv
  BY DEF Init, HeldInv
<1>2. ASSUME HeldInv, [Next]_vars PROVE HeldInv'
  <2>1. CASE Prepare
    BY <1>2, <2>1 DEF HeldInv, Prepare, runVars, Pool!Load, Pool!OpenWindow, Pool!Move
  <2>2. CASE EndAndStart
    BY <2>2 DEF HeldInv, EndAndStart
  <2>3. CASE Pull
    <3>1. given' \in Pool!Pair /\ data'.dac = given' /\ inProgress' /\ success' = success
      BY <2>3, GetGives DEF Pull
    <3>2. given' # 0
      BY <3>1, CustodyAssumption DEF Pool!Pair
    <3> QED BY <1>2, <3>1, <3>2 DEF HeldInv
  <2>4. CASE PullWithoutSerial \/ PullWithoutDac \/ PullWithoutRest
    <3>1. NewRun /\ Fails
      BY <2>4 DEF PullWithoutSerial, PullWithoutDac, PullWithoutRest
    <3>2. ~inProgress' /\ success' = FALSE /\ worker' = "result"
      BY <3>1 DEF NewRun, Fails
    <3> QED BY <3>2 DEF HeldInv
  <2>5. CASE Dispatch
    BY <1>2, <2>5 DEF HeldInv, Dispatch, poolVars
  <2>6. CASE Finish \/ FinishWithoutData
    BY <1>2, <2>6 DEF HeldInv, Finish, FinishWithoutData, FinishRun
  <2>7. CASE UNCHANGED vars
    BY <1>2, <2>7 DEF HeldInv, vars, poolVars, runVars
  <2> QED BY <1>2, <2>1, <2>2, <2>3, <2>4, <2>5, <2>6, <2>7 DEF Next
<1> QED BY <1>1, <1>2, PTL DEF Spec

(* Every step of the custody is a step of the pool, or leaves it alone.    *)
LEMMA StepRunsPool ==
  ASSUME HeldInv, [Next]_vars PROVE Pool!Next \/ UNCHANGED poolVars
<1>1. CASE Prepare
  BY <1>1 DEF Prepare, Pool!Next
<1>2. CASE EndAndStart
  BY <1>2 DEF EndAndStart, Pool!Next
<1>3. CASE Pull \/ PullWithoutDac \/ PullWithoutRest
  BY <1>3 DEF Pull, PullWithoutDac, PullWithoutRest, Pool!Get, Pool!Next
<1>4. CASE PullWithoutSerial \/ Dispatch \/ FinishWithoutData \/ UNCHANGED vars
  BY <1>4 DEF PullWithoutSerial, Dispatch, FinishWithoutData, vars
<1>5. CASE Finish
  <2>1. PICK ok \in BOOLEAN : Pool!SetMaterialState(success, ok)
    BY <1>5 DEF Finish
  <2>2. success \in BOOLEAN
    BY DEF HeldInv
  <2> QED BY <2>1, <2>2 DEF Pool!Report, Pool!Next
<1> QED BY <1>1, <1>2, <1>3, <1>4, <1>5 DEF Next

THEOREM CustodyRunsPool == Spec => PoolTheorems!Spec
<1>1. Init => PoolTheorems!Init
  BY DEF Init, Pool!Init, PoolTheorems!Init, Pool!Kind, PoolTheorems!Kind,
     Pool!Pair, PoolTheorems!Pair, Pool!Nothing, PoolTheorems!Nothing
<1>2. HeldInv /\ [Next]_vars => [PoolTheorems!Next]_(PoolTheorems!vars)
  BY StepRunsPool, SamePool DEF poolVars, PoolTheorems!vars
<1> QED BY <1>1, <1>2, DacIsHeld, PTL DEF Spec, PoolTheorems!Spec

(* The report of a run settles the DAC that the run dispatched, and the    *)
(* pool accepts it.                                                        *)
THEOREM ReportsSettle ==
  ASSUME Movable # {"cert", "key"} PROVE Spec => []ReportSettlesDac
<1>1. PoolTheorems!Spec => []PoolTheorems!HolderCanReport
  BY CustodyAssumption, PoolTheorems!HolderIsHeard
     DEF PoolTheorems!PoolAssumption, PoolTheorems!Kind, PoolTheorems!Pair
<1>2. HeldInv /\ PoolTheorems!HolderCanReport => ReportSettlesDac
  BY DEF HeldInv, PoolTheorems!HolderCanReport, ReportSettlesDac
<1> QED BY <1>1, <1>2, DacIsHeld, CustodyRunsPool, PTL

(* What is injected was never settled, in this or an earlier start.        *)
THEOREM SettledStaysOut ==
  ASSUME Movable # {"cert", "key"} PROVE Spec => SettledNotInjected
<1>1. PoolTheorems!Spec => []PoolTheorems!SpentForGood
  BY CustodyAssumption, PoolTheorems!SpentStaysSpent
     DEF PoolTheorems!PoolAssumption, PoolTheorems!Kind, PoolTheorems!Pair
<1>2. ASSUME CustodyInv, HeldInv, PoolTheorems!SpentForGood, [Next]_vars
      PROVE  [Len(units') > Len(units) => data.dac \notin spent]_vars
  <2>1. Len(units) \in Nat
    BY <1>2 DEF CustodyInv, CustodyType
  <2>2. CASE Dispatch
    BY <1>2, <2>2 DEF Dispatch, HeldInv, PoolTheorems!SpentForGood
  <2>3. CASE ~Dispatch
    <3>1. UNCHANGED units
      BY <1>2, <2>3 DEF Next, Prepare, EndAndStart, Pull, PullWithoutSerial,
         PullWithoutDac, PullWithoutRest, NewRun, Finish,
         FinishWithoutData, FinishRun, runVars, vars
    <3>2. ~(Len(units') > Len(units))
      BY <2>1, <3>1
    <3> QED BY <3>2
  <2> QED BY <2>2, <2>3
<1>3. HeldInv /\ CustodyInv /\ PoolTheorems!SpentForGood /\ [Next]_vars
      => [Len(units') > Len(units) => data.dac \notin spent]_vars
  BY <1>2
<1> QED BY <1>1, <1>3, CustodyInvariant, DacIsHeld, CustodyRunsPool, PTL
        DEF Spec, SettledNotInjected

-----------------------------------------------------------------------------
(* The counters of a run, and what they bound: every pull uses up one      *)
(* serial number at most.                                                  *)
RunBounds ==
  /\ required \in Schemas
  /\ worker \in {"ready", "dispatch", "result"}
  /\ inProgress \in BOOLEAN /\ success \in BOOLEAN
  /\ runs \in 0..MaxRuns /\ slips \in 0..MaxFailures /\ crashes \in 0..MaxCrashes
  /\ index \in 0..runs /\ indexSaved \in -1..runs
  /\ data \in Data /\ units \in Seq(Data)

LEMMA BoundsInit == Init => RunBounds
<1> SUFFICES ASSUME Init PROVE RunBounds OBVIOUS
<1>1. units \in Seq(Data)
  BY DEF Init
<1>2. NoData \in Data
  BY CustodyAssumption DEF NoData, Data
<1>3. /\ runs = 0 /\ slips = 0 /\ index = 0 /\ indexSaved = 0 /\ data = NoData /\ required \in Schemas
      /\ worker = "ready" /\ inProgress = FALSE /\ success = FALSE
  BY DEF Init
<1>4. crashes = 0
  BY DEF Init, Pool!Init
<1>5. /\ runs \in 0..MaxRuns /\ slips \in 0..MaxFailures /\ crashes \in 0..MaxCrashes
      /\ index \in 0..runs /\ indexSaved \in -1..runs
  BY <1>3, <1>4, CustodyAssumption
<1> QED BY <1>1, <1>2, <1>3, <1>5 DEF RunBounds

(* What a pull does, whatever comes of it.                                 *)
LEMMA PullBounds ==
  ASSUME RunBounds, CustodyInv, Pull \/ PullWithoutSerial \/ PullWithoutDac \/ PullWithoutRest
  PROVE  RunBounds'
<1>1. /\ NewRun
      /\ FetchSerial(TRUE) \/ FetchSerial(FALSE)
      /\ Pool!Get \/ UNCHANGED poolVars
      /\ worker' \in {"dispatch", "result"} /\ inProgress' \in BOOLEAN /\ success' \in BOOLEAN
      /\ UNCHANGED <<required, units>>
      /\ Pull \/ UNCHANGED data
  BY DEF RunBounds, Pull, PullWithoutSerial, PullWithoutDac, PullWithoutRest, Fails, NewRun, Pool!Get
<1>2. UNCHANGED crashes
  <2>1. CASE Pool!Get
    BY <2>1, GetKeeps DEF CustodyInv, CustodyType, EntryIsBook
  <2>2. CASE UNCHANGED poolVars
    BY <2>2 DEF poolVars
  <2> QED BY <1>1, <2>1, <2>2
<1>3. runs' = runs + 1 /\ runs' \in 0..MaxRuns /\ runs \in Nat
  <2>1. runs \in 0..MaxRuns /\ runs < MaxRuns /\ runs' = runs + 1
    BY <1>1 DEF NewRun, RunBounds
  <2> QED BY <2>1, CustodyAssumption
<1>4. index' \in 0..runs' /\ indexSaved' \in -1..runs'
  <2>1. index \in 0..runs /\ indexSaved \in -1..runs
    BY DEF RunBounds
  <2>2. index' = index \/ index' = index + 1
    BY <1>1 DEF FetchSerial
  <2>3. indexSaved' = indexSaved \/ indexSaved' = index + 1 \/ indexSaved' = -1
    BY <1>1 DEF FetchSerial
  <2> QED BY <1>3, <2>1, <2>2, <2>3
<1>5. slips' \in 0..MaxFailures
  <2>1. slips' = slips \/ (slips < MaxFailures /\ slips' = slips + 1)
    BY <1>1 DEF FetchSerial
  <2> QED BY <2>1, CustodyAssumption DEF RunBounds
<1>6. data' \in Data
  <2>1. CASE Pull
    <3>1. data' = [serial |-> index, dac |-> given', start |-> crashes] /\ given' \in Pool!Pair
      BY <2>1, GetGives DEF Pull
    <3>2. index \in 0..MaxRuns
      BY <1>3, CustodyAssumption DEF RunBounds
    <3> QED BY <3>1, <3>2 DEF Data, RunBounds
  <2> QED BY <1>1, <2>1 DEF RunBounds
<1> QED BY <1>1, <1>2, <1>3, <1>4, <1>5, <1>6 DEF RunBounds

LEMMA BoundsStep ==
  ASSUME RunBounds, CustodyInv, [Next]_vars PROVE RunBounds'
<1>1. EntryIsBook
  BY DEF CustodyInv, CustodyType, EntryIsBook
<1>2. CASE Prepare \/ UNCHANGED vars
  <2>1. UNCHANGED runVars /\ UNCHANGED crashes
    BY <1>1, <1>2, LoadKeeps DEF Prepare, vars, poolVars, Pool!OpenWindow, Pool!Move
  <2> QED BY <2>1 DEF RunBounds, runVars
<1>3. CASE EndAndStart
  <2>1. crashes' = crashes + 1 /\ crashes < MaxCrashes
    BY <1>3, <1>1, StartKeeps DEF EndAndStart, Pool!CrashAndStart
  <2>2. crashes' \in 0..MaxCrashes /\ index' \in 0..runs
    BY <1>3, <2>1, CustodyAssumption DEF RunBounds, EndAndStart
  <2>3. NoData \in Data
    BY CustodyAssumption DEF NoData, Data
  <2> QED BY <1>3, <2>2, <2>3 DEF RunBounds, EndAndStart
<1>4. CASE Pull \/ PullWithoutSerial \/ PullWithoutDac \/ PullWithoutRest
  BY <1>4, PullBounds
<1>5. CASE Dispatch
  <2>1. /\ UNCHANGED <<poolVars, required, inProgress, data, index, indexSaved, runs, slips>>
        /\ worker' = "result" /\ success' \in BOOLEAN
        /\ units' = units \/ units' = Append(units, data)
    BY <1>5 DEF Dispatch
  <2>2. units' \in Seq(Data)
    BY <2>1 DEF RunBounds
  <2> QED BY <2>1, <2>2 DEF RunBounds, poolVars
<1>6. CASE Finish \/ FinishWithoutData
  <2>1. UNCHANGED crashes
    BY <1>6 DEF Finish, FinishWithoutData, poolVars, Pool!SetMaterialState
  <2> QED BY <1>6, <2>1 DEF RunBounds, Finish, FinishWithoutData, FinishRun
<1> QED BY <1>2, <1>3, <1>4, <1>5, <1>6 DEF Next

(* Type correctness of the custody, pool and counters together             *)
(* (factory_data/provider.py and its retrievers, dac_pool_store.py).       *)
THEOREM CustodyTypeCorrect ==
  ASSUME Movable # {"cert", "key"} PROVE Spec => []TypeOK
<1>1. PoolTheorems!Spec => []PoolTheorems!PoolInv
  BY CustodyAssumption, PoolTheorems!PoolInvariant
     DEF PoolTheorems!PoolAssumption, PoolTheorems!Kind, PoolTheorems!Pair
<1>2. RunBounds /\ PoolTheorems!PoolInv => TypeOK
  <2> SUFFICES ASSUME RunBounds, PoolTheorems!PoolInv PROVE TypeOK OBVIOUS
  <2>1. Pool!TypeOK
    BY DEF PoolTheorems!PoolInv, PoolTheorems!TypeOK, Pool!TypeOK, PoolTheorems!Pair, Pool!Pair,
       PoolTheorems!Kind, Pool!Kind, PoolTheorems!Status, Pool!Status
  <2>2. index \in 0..MaxRuns /\ indexSaved \in -1..MaxRuns
    BY CustodyAssumption DEF RunBounds
  <2> QED BY <2>1, <2>2 DEF RunBounds, TypeOK
<1>3. RunBounds /\ CustodyInv /\ [Next]_vars => RunBounds'
  BY BoundsStep
<1> QED BY <1>1, <1>2, <1>3, BoundsInit, CustodyInvariant, CustodyRunsPool, PTL DEF Spec

-----------------------------------------------------------------------------
(* What is left of a run that has nothing to report, or whose report was   *)
(* made: no pair in progress, unless a write failed or a retriever that    *)
(* follows the DAC's raises.                                               *)
LeftInv ==
  /\ worker = "ready" => ~inProgress
  /\ ~inProgress /\ failures = 0 /\ FetchRest => ~Pool!InProgress

LEMMA LeftInit == Init => LeftInv
BY DEF Init, LeftInv, Pool!Init, Pool!Nothing, Pool!InProgress

(* A failed write is counted.                                              *)
LEMMA SaveCounts ==
  ASSUME NEW e, NEW j, NEW s, NEW ok, failures \in Nat, Pool!Save(e, j, s, ok), failures' = 0
  PROVE  ok /\ failures = 0
BY DEF Pool!Save

(* A load leaves no pair in progress that was not.                         *)
LEMMA LoadFrees ==
  ASSUME failures \in Nat, Pool!Load, failures' = 0
  PROVE  failures = 0 /\ (Pool!InProgress' => Pool!InProgress)
<1>1. CASE Pool!LoadRefused /\ UNCHANGED entry
  BY <1>1, SaveCounts DEF Pool!LoadRefused, Pool!NoSave, Pool!InProgress
<1>2. CASE Pool!LoadWithoutPair /\ Pool!Forget
  BY <1>2, SaveCounts DEF Pool!LoadWithoutPair, Pool!NoSave, Pool!Forget, Pool!Nothing, Pool!InProgress
<1>3. ASSUME NEW ok \in BOOLEAN, Pool!LoadSaved(ok), entry' = Pool!Scanned
      PROVE  failures = 0 /\ ~Pool!InProgress'
  BY <1>3, SaveCounts DEF Pool!LoadSaved, Pool!Scanned, Pool!Loaded, Pool!InProgress
<1> QED BY <1>1, <1>2, <1>3 DEF Pool!Load

(* Nor does a start of the program.                                        *)
LEMMA StartFrees == Pool!CrashAndStart => ~Pool!InProgress'
BY DEF Pool!CrashAndStart, Pool!Forget, Pool!Nothing, Pool!Scanned, Pool!Loaded, Pool!InProgress

(* A get_material that gives nothing leaves none, if no write failed.      *)
LEMMA GetFrees ==
  ASSUME failures \in Nat, failures' = 0,
         Pool!GetMaterialFails \/ Pool!GetMaterialEmpty \/ Pool!GetMaterialRefused
  PROVE  failures = 0 /\ (Pool!InProgress' => Pool!InProgress)
<1>1. ~Pool!GetMaterialFails
  BY SaveCounts DEF Pool!GetMaterialFails, Pool!TryUpTo
<1>2. CASE Pool!GetMaterialEmpty
  <2>1. failures = 0
    BY <1>2, SaveCounts DEF Pool!GetMaterialEmpty, Pool!NoSave
  <2>2. ~Pool!InProgress'
    BY <1>2 DEF Pool!GetMaterialEmpty, Pool!After, Pool!Taken, Pool!Usable, Pool!InProgress
  <2> QED BY <2>1, <2>2
<1>3. CASE Pool!GetMaterialRefused
  BY <1>3 DEF Pool!GetMaterialRefused
<1> QED BY <1>1, <1>2, <1>3

(* A report settles the only pair in progress.                             *)
LEMMA ReportFrees ==
  ASSUME NEW good, NEW ok, Pool!SetMaterialState(good, ok), EntryIsBook,
         PoolTheorems!AtMostOneInProgress, given \in Pool!Pair
  PROVE  ~Pool!InProgress'
<1>1. /\ entry[given] = "PROGRESS"
      /\ entry' = [entry EXCEPT ![given] = IF good THEN "CONSUMED" ELSE "ERROR"]
  BY DEF Pool!SetMaterialState
<1> QED BY <1>1 DEF EntryIsBook, PoolTheorems!AtMostOneInProgress, PoolTheorems!Pair, Pool!Pair,
        Pool!InProgress

LEMMA LeftStep ==
  ASSUME LeftInv, HeldInv, CustodyInv, PoolTheorems!PoolInv, [Next]_vars
  PROVE  LeftInv'
<1>1. /\ failures \in Nat /\ EntryIsBook /\ given \in Pool!Pair \cup {0}
      /\ PoolTheorems!AtMostOneInProgress
  BY DEF PoolTheorems!PoolInv, PoolTheorems!TypeOK, CustodyInv, CustodyType, EntryIsBook,
     PoolTheorems!Pair, Pool!Pair
<1>2. UNCHANGED required /\ (FetchRest' <=> FetchRest)
  <2>1. UNCHANGED required
    BY DEF Next, Prepare, EndAndStart, Pull, PullWithoutSerial, PullWithoutDac, PullWithoutRest,
       NewRun, Dispatch, Finish, FinishWithoutData, FinishRun, runVars, vars
  <2> QED BY <2>1 DEF FetchRest, FetchCertificates, FetchOnboarding, NoneMissing, Asked, DefinesConstants
<1>3. CASE Prepare
  <2>1. UNCHANGED <<worker, inProgress>>
    BY <1>3 DEF Prepare, runVars
  <2>2. CASE Pool!Load
    BY <1>1, <1>2, <2>1, <2>2, LoadFrees DEF LeftInv
  <2>3. CASE Pool!OpenWindow \/ Pool!Move
    <3>1. UNCHANGED <<entry, failures>>
      BY <2>3 DEF Pool!OpenWindow, Pool!Move
    <3> QED BY <1>2, <2>1, <3>1 DEF LeftInv, Pool!InProgress
  <2> QED BY <1>3, <2>2, <2>3 DEF Prepare
<1>4. CASE EndAndStart
  BY <1>4, StartFrees DEF EndAndStart, LeftInv
<1>5. CASE Pull
  BY <1>5 DEF Pull, LeftInv
<1>6. CASE PullWithoutSerial \/ PullWithoutDac \/ PullWithoutRest
  <2>1. ~inProgress /\ ~inProgress' /\ worker' = "result"
    <3>1. NewRun /\ Fails
      BY <1>6 DEF PullWithoutSerial, PullWithoutDac, PullWithoutRest
    <3>2. ~inProgress /\ inProgress' = inProgress /\ worker' = "result"
      BY <3>1 DEF NewRun, Fails
    <3> QED BY <3>2
  <2>2. CASE PullWithoutSerial
    <3>1. UNCHANGED <<entry, failures>>
      BY <2>2 DEF PullWithoutSerial, poolVars
    <3> QED BY <1>2, <2>1, <3>1 DEF LeftInv, Pool!InProgress
  <2>3. CASE PullWithoutDac
    BY <1>1, <1>2, <2>1, <2>3, GetFrees DEF LeftInv, PullWithoutDac
  <2>4. CASE PullWithoutRest
    BY <1>2, <2>1, <2>4 DEF LeftInv, PullWithoutRest
  <2> QED BY <1>6, <2>2, <2>3, <2>4
<1>7. CASE Dispatch
  BY <1>7 DEF Dispatch, HeldInv, LeftInv
<1>8. CASE Finish
  <2>1. PICK ok \in BOOLEAN : Pool!SetMaterialState(success, ok)
    BY <1>8 DEF Finish
  <2>2. given \in Pool!Pair
    BY <1>1, <1>8 DEF Finish, HeldInv
  <2>3. ~Pool!InProgress'
    BY <1>1, <2>1, <2>2, ReportFrees
  <2> QED BY <1>8, <2>3 DEF LeftInv, Finish, FinishRun
<1>9. CASE FinishWithoutData
  <2>1. UNCHANGED <<entry, failures>> /\ ~inProgress /\ ~inProgress'
    BY <1>9 DEF FinishWithoutData, FinishRun, poolVars
  <2> QED BY <1>2, <2>1 DEF LeftInv, Pool!InProgress
<1>10. CASE UNCHANGED vars
  <2>1. UNCHANGED <<entry, failures, worker, inProgress>>
    BY <1>10 DEF vars, poolVars, runVars
  <2> QED BY <1>2, <2>1 DEF LeftInv, Pool!InProgress
<1> QED BY <1>3, <1>4, <1>5, <1>6, <1>7, <1>8, <1>9, <1>10 DEF Next

(* Between runs the provider is free for the next pull; as long as no      *)
(* write failed and the retrievers give what the schema asks for, no DAC   *)
(* is left in progress (provider.py: pull, report; dac_pool_store.py).     *)
THEOREM NothingIsLeft ==
  ASSUME Movable # {"cert", "key"} PROVE Spec => []RunsLeaveNothing
<1>1. PoolTheorems!Spec => []PoolTheorems!PoolInv
  BY CustodyAssumption, PoolTheorems!PoolInvariant
     DEF PoolTheorems!PoolAssumption, PoolTheorems!Kind, PoolTheorems!Pair
<1>2. LeftInv => RunsLeaveNothing
  BY DEF LeftInv, RunsLeaveNothing
<1>3. LeftInv /\ HeldInv /\ CustodyInv /\ PoolTheorems!PoolInv /\ [Next]_vars => LeftInv'
  BY LeftStep
<1> QED BY <1>1, <1>2, <1>3, LeftInit, CustodyInvariant, DacIsHeld, CustodyRunsPool, PTL DEF Spec

=============================================================================
