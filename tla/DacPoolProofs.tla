---------------------------- MODULE DacPoolProofs ----------------------------
(***************************************************************************)
(* Proofs about the pool of attestation credentials, for a directory of    *)
(* any size and any number of failures, moves and crashes.  They assume    *)
(* that the operator leaves one file of every pair in the directory: with  *)
(* both away, a load drops the pair from stat.json and forgets that it was *)
(* consumed.                                                               *)
(***************************************************************************)
EXTENDS DacPool, TLAPS

Json == {"absent", "valid", "corrupt"}
Book == [Pair -> Status]

(* What PoolInv says of stat.json.                                         *)
SpentSaved ==
  \A p \in spent : json # "absent" /\ (json = "valid" => Settled(saved, p))

(* What PoolInv says of the dictionary in memory.                          *)
SpentLoaded == loaded => \A p \in spent : Settled(entry, p)

OneFileStays == \A p \in Pair : Kind \ Movable \subseteq files[p]

ForgetsAll == ~loaded => entry = Nothing

(* PoolInv part by part, so that a step proves each on its own.            *)
LEMMA PoolInvParts ==
  PoolInv <=> /\ TypeOK /\ SpentSaved /\ SpentLoaded /\ OneFileStays
              /\ ForgetsAll /\ AtMostOneInProgress /\ HolderCanReport
              /\ SpentForGood
BY DEF PoolInv, SpentSaved, SpentLoaded, OneFileStays, ForgetsAll

LEMMA PoolInvPartsNext ==
  PoolInv' <=> /\ TypeOK' /\ SpentSaved' /\ SpentLoaded' /\ OneFileStays'
               /\ ForgetsAll' /\ AtMostOneInProgress' /\ HolderCanReport'
               /\ SpentForGood'
BY PoolInvParts, PTL

-----------------------------------------------------------------------------
(* A pair is never its own absence.                                        *)
LEMMA ZeroIsNoPair == 0 \notin Pair
BY PoolAssumption DEF Pair

LEMMA NothingType == Nothing \in Book
BY DEF Nothing, Book, Status

(* Save leaves a valid, a torn or the old file.                            *)
LEMMA SaveOutcome ==
  ASSUME NEW e, NEW j, NEW s, NEW ok, Save(e, j, s, ok)
  PROVE  \/ json' = "valid" /\ saved' = e
         \/ json' = "corrupt" /\ saved' = Nothing
         \/ json' = j /\ saved' = s
BY DEF Save

LEMMA SaveType ==
  ASSUME NEW e \in Book, NEW j \in Json, NEW s \in Book, NEW ok,
         failures \in Nat, Save(e, j, s, ok)
  PROVE  json' \in Json /\ saved' \in Book /\ failures' \in Nat
BY NothingType DEF Save, Json

(* A book of statuses in which all spent pairs are settled keeps them      *)
(* settled in stat.json, however the write ends.                           *)
LEMMA SaveKeepsSpent ==
  ASSUME NEW e, NEW j, NEW s, NEW ok, NEW S,
         Save(e, j, s, ok),
         \A p \in S : Settled(e, p),
         \A p \in S : j # "absent" /\ (j = "valid" => Settled(s, p))
  PROVE  \A p \in S : json' # "absent" /\ (json' = "valid" => Settled(saved', p))
BY SaveOutcome DEF Settled

(* The scanned status is one of the five.                                  *)
LEMMA ScannedType ==
  ASSUME TypeOK PROVE Previous \in Book /\ Scanned \in Book
<1>1. Previous \in Book
  BY NothingType DEF Previous, TypeOK, Book
<1>2. \A p \in Pair : Loaded(p, Previous) \in Status
  BY <1>1 DEF Loaded, Status, Book
<1> QED BY <1>1, <1>2 DEF Scanned, Book

(* A scan leaves no pair in progress.                                      *)
LEMMA ScannedNotInProgress == \A p \in Pair : Scanned[p] # "PROGRESS"
BY DEF Scanned, Loaded

(* A scan keeps every spent pair settled: a file of it is there.           *)
LEMMA ScannedKeepsSpent ==
  ASSUME Movable # Kind, PoolInv, json # "corrupt"
  PROVE  /\ \A p \in spent : Settled(Scanned, p)
         /\ \A p \in spent : Settled(Previous, p)
<1>1. Kind \ Movable # {}
  BY PoolAssumption
<1>2. spent \subseteq Pair /\ OneFileStays /\ SpentSaved /\ json \in Json
  BY PoolInvParts DEF TypeOK, Json
<1>3. \A p \in Pair : files[p] # {}
  BY <1>1, <1>2 DEF OneFileStays
<1>4. \A p \in spent : json = "valid" /\ Settled(saved, p)
  BY <1>2 DEF SpentSaved, Json
<1>5. \A p \in spent : Settled(Previous, p)
  BY <1>4 DEF Previous
<1>6. \A p \in spent : Settled(Scanned, p)
  <2> SUFFICES ASSUME NEW p \in spent PROVE Settled(Scanned, p)
    OBVIOUS
  <2>1. Scanned[p] = Loaded(p, Previous)
    BY <1>2 DEF Scanned
  <2> QED BY <2>1, <1>2, <1>3, <1>5 DEF Loaded, Settled
<1> QED BY <1>5, <1>6

-----------------------------------------------------------------------------
LEMMA PoolInit == Init => PoolInv
<1> SUFFICES ASSUME Init PROVE PoolInv
  OBVIOUS
<1>1. TypeOK
  BY NothingType, ZeroIsNoPair DEF Init, TypeOK, Book, Kind
<1>2. AtMostOneInProgress
  BY DEF Init, AtMostOneInProgress, Nothing
<1>3. OneFileStays
  BY DEF Init, OneFileStays
<1> QED BY <1>1, <1>2, <1>3, PoolInvParts
        DEF Init, SpentSaved, SpentLoaded, ForgetsAll, HolderCanReport, SpentForGood

(* The three ways a load writes or keeps stat.json.                        *)
LEMMA LoadWrites ==
  ASSUME Movable # Kind, PoolInv, NEW ok,
         LoadRefused \/ LoadWithoutPair \/ LoadSaved(ok),
         UNCHANGED spent
  PROVE  json' \in Json /\ saved' \in Book /\ failures' \in Nat /\ SpentSaved'
<1>1. TypeOK /\ SpentSaved /\ failures \in Nat /\ json \in Json /\ saved \in Book
  BY PoolInvParts DEF TypeOK, Json, Book
<1>2. json = "absent" => spent = {}
  BY <1>1 DEF SpentSaved
<1>3. CASE NoSave
  BY <1>1, <1>3 DEF NoSave, SpentSaved
<1>4. CASE json = "absent" /\ \E b \in BOOLEAN : Save(Nothing, json, saved, b)
  <2>1. PICK b \in BOOLEAN : Save(Nothing, json, saved, b)
    BY <1>4
  <2>2. json' \in Json /\ saved' \in Book /\ failures' \in Nat
    BY <2>1, <1>1, NothingType, SaveType
  <2> QED BY <2>2, <1>2, <1>4 DEF SpentSaved
<1>5. CASE LoadSaved(ok)
  <2>1. json # "corrupt" /\ Save(Scanned, "valid", Previous, ok)
    BY <1>5 DEF LoadSaved
  <2>2. "valid" \in Json
    BY DEF Json
  <2>3. json' \in Json /\ saved' \in Book /\ failures' \in Nat
    BY <2>1, <2>2, <1>1, ScannedType, SaveType
  <2>4. \A p \in spent : json' # "absent" /\ (json' = "valid" => Settled(saved', p))
    BY <2>1, ScannedKeepsSpent, SaveKeepsSpent
  <2> QED BY <2>3, <2>4 DEF SpentSaved
<1> QED BY <1>3, <1>4, <1>5 DEF LoadRefused, LoadWithoutPair

(* An empty dictionary, or a scanned one, satisfies what PoolInv says of   *)
(* the memory.                                                             *)
LEMMA FreshMemory ==
  ASSUME Movable # Kind, PoolInv, UNCHANGED spent, given' = 0,
         \/ Forget
         \/ json # "corrupt" /\ loaded' = TRUE /\ entry' = Scanned
  PROVE  /\ loaded' \in BOOLEAN /\ entry' \in Book
         /\ SpentLoaded' /\ ForgetsAll' /\ AtMostOneInProgress' /\ HolderCanReport'
<1>1. CASE Forget
  <2>1. AtMostOneInProgress'
    BY <1>1 DEF Forget, Nothing, AtMostOneInProgress
  <2> QED BY <1>1, <2>1, NothingType
          DEF Forget, SpentLoaded, ForgetsAll, HolderCanReport
<1>2. CASE json # "corrupt" /\ loaded' = TRUE /\ entry' = Scanned
  <2>1. AtMostOneInProgress'
    BY <1>2, ScannedNotInProgress DEF AtMostOneInProgress
  <2>2. SpentLoaded'
    BY <1>2, ScannedKeepsSpent DEF SpentLoaded, Settled
  <2>3. entry' \in Book
    BY <1>2, ScannedType, PoolInvParts
  <2> QED BY <1>2, <2>1, <2>2, <2>3 DEF ForgetsAll, HolderCanReport
<1> QED BY <1>1, <1>2

LEMMA LoadStep ==
  ASSUME Movable # Kind, PoolInv, Load PROVE PoolInv'
<1>1. TypeOK /\ OneFileStays /\ SpentForGood /\ AtMostOneInProgress
      /\ HolderCanReport /\ SpentLoaded /\ ForgetsAll
  BY PoolInvParts
<1>2. UNCHANGED <<files, given, open, spent, moves, crashes>>
  BY DEF Load
<1>0. given' = 0
  BY <1>1, <1>2 DEF Load, HolderCanReport
<1>3. OneFileStays' /\ SpentForGood'
  BY <1>1, <1>2 DEF OneFileStays, SpentForGood
<1>4. CASE LoadRefused /\ UNCHANGED <<loaded, entry, setting>>
  <2>1. json' \in Json /\ saved' \in Book /\ failures' \in Nat /\ SpentSaved'
    BY <1>2, <1>4, LoadWrites
  <2>2. TypeOK'
    BY <2>1, <1>1, <1>2, <1>4 DEF TypeOK, Json, Book
  <2>3. AtMostOneInProgress' /\ HolderCanReport' /\ SpentLoaded' /\ ForgetsAll'
    BY <1>1, <1>2, <1>4
       DEF AtMostOneInProgress, HolderCanReport, SpentLoaded, ForgetsAll, Settled
  <2> QED BY <2>1, <2>2, <2>3, <1>3, PoolInvPartsNext
<1>5. CASE LoadWithoutPair /\ Forget /\ UNCHANGED setting
  <2>1. json' \in Json /\ saved' \in Book /\ failures' \in Nat /\ SpentSaved'
    BY <1>2, <1>5, LoadWrites
  <2>2. /\ loaded' \in BOOLEAN /\ entry' \in Book
        /\ SpentLoaded' /\ ForgetsAll' /\ AtMostOneInProgress' /\ HolderCanReport'
    BY <1>0, <1>2, <1>5, FreshMemory
  <2>3. TypeOK'
    BY <2>1, <2>2, <1>1, <1>2, <1>5 DEF TypeOK, Json, Book
  <2> QED BY <2>1, <2>2, <2>3, <1>3, PoolInvPartsNext
<1>6. ASSUME NEW ok \in BOOLEAN, LoadSaved(ok), loaded' = TRUE, entry' = Scanned,
             setting' = (ok \/ setting)
      PROVE  PoolInv'
  <2>1. json' \in Json /\ saved' \in Book /\ failures' \in Nat /\ SpentSaved'
    BY <1>2, <1>6, LoadWrites
  <2>2. /\ loaded' \in BOOLEAN /\ entry' \in Book
        /\ SpentLoaded' /\ ForgetsAll' /\ AtMostOneInProgress' /\ HolderCanReport'
    BY <1>0, <1>2, <1>6, FreshMemory DEF LoadSaved
  <2>3. TypeOK'
    BY <2>1, <2>2, <1>1, <1>2, <1>6 DEF TypeOK, Json, Book
  <2> QED BY <2>1, <2>2, <2>3, <1>3, PoolInvPartsNext
<1> QED BY <1>4, <1>5, <1>6 DEF Load

LEMMA OpenWindowStep ==
  ASSUME PoolInv, OpenWindow PROVE PoolInv'
<1>1. /\ open' = TRUE
      /\ UNCHANGED <<files, json, saved, setting, loaded, entry, given, spent,
                     failures, moves, crashes>>
  BY DEF OpenWindow
<1>2. TypeOK'
  BY <1>1, PoolInvParts DEF TypeOK
<1>3. SpentSaved' /\ SpentLoaded' /\ OneFileStays' /\ ForgetsAll'
      /\ AtMostOneInProgress' /\ HolderCanReport' /\ SpentForGood'
  BY <1>1, PoolInvParts DEF SpentSaved, SpentLoaded, OneFileStays, ForgetsAll,
     AtMostOneInProgress, HolderCanReport, SpentForGood, Settled
<1> QED BY <1>2, <1>3, PoolInvPartsNext

LEMMA CrashStep ==
  ASSUME Movable # Kind, PoolInv, CrashAndStart PROVE PoolInv'
<1>1. TypeOK /\ OneFileStays /\ SpentSaved
  BY PoolInvParts
<1>2. /\ given' = 0 /\ open' = FALSE /\ crashes' = crashes + 1
      /\ UNCHANGED <<files, spent, moves>>
  BY DEF CrashAndStart
<1>3. OneFileStays' /\ SpentForGood'
  BY <1>1, <1>2, ZeroIsNoPair DEF OneFileStays, SpentForGood, TypeOK
<1>4. json' \in Json /\ saved' \in Book /\ failures' \in Nat /\ SpentSaved'
  <2>1. CASE LoadSaved(TRUE)
    BY <2>1, <1>2, LoadWrites
  <2>2. CASE LoadRefused \/ LoadWithoutPair \/ LoadSaved(FALSE)
    BY <2>2, <1>2, LoadWrites
  <2>3. CASE NoSave
    BY <2>3, <1>1, <1>2 DEF NoSave, TypeOK, SpentSaved, Json, Book
  <2> QED BY <2>1, <2>2, <2>3 DEF CrashAndStart
<1>5. /\ loaded' \in BOOLEAN /\ entry' \in Book
      /\ SpentLoaded' /\ ForgetsAll' /\ AtMostOneInProgress' /\ HolderCanReport'
  <2>1. \/ Forget
        \/ json # "corrupt" /\ loaded' = TRUE /\ entry' = Scanned
    BY DEF CrashAndStart, LoadSaved
  <2> QED BY <2>1, <1>2, FreshMemory
<1>6. setting' \in BOOLEAN
  BY <1>1 DEF CrashAndStart, TypeOK
<1>7. open' \in BOOLEAN /\ given' \in Pair \cup {0} /\ crashes' \in Nat
  <2>1. open' \in BOOLEAN /\ given' \in Pair \cup {0}
    BY <1>2
  <2>2. crashes \in Nat /\ crashes' = crashes + 1
    BY <1>1, <1>2 DEF TypeOK
  <2> QED BY <2>1, <2>2
<1>8. files' \in [Pair -> SUBSET Kind] /\ spent' \subseteq Pair /\ moves' \in Nat
  BY <1>1, <1>2 DEF TypeOK
<1>9. TypeOK'
  BY <1>4, <1>5, <1>6, <1>7, <1>8 DEF TypeOK, Json, Book
<1> QED BY <1>3, <1>4, <1>5, <1>9, PoolInvPartsNext

-----------------------------------------------------------------------------
(* Handling READY pairs settles nothing that was spent, and never touches  *)
(* a pair that is not READY.                                               *)
LEMMA AfterType ==
  ASSUME TypeOK, NEW S PROVE After(S) \in Book
BY DEF After, Taken, TypeOK, Book, Status

LEMMA AfterKeepsSpent ==
  ASSUME PoolInv, loaded, NEW S, S \subseteq Ready
  PROVE  \A p \in spent : Settled(After(S), p)
<1>1. spent \subseteq Pair /\ \A p \in spent : Settled(entry, p)
  BY PoolInvParts DEF TypeOK, SpentLoaded
<1> QED BY <1>1 DEF After, Settled, Ready

LEMMA UnusableNotInProgress ==
  ASSUME ~InProgress, NEW S, \A q \in S : ~Usable(q)
  PROVE  \A q \in Pair : After(S)[q] # "PROGRESS"
BY DEF InProgress, After, Taken, Usable

(* get_material tries READY pairs up to p, with or without a failing write. *)
LEMMA TryStep ==
  ASSUME PoolInv, loaded, ~InProgress, NEW p \in Ready, NEW ok, TryUpTo(p, ok),
         UNCHANGED <<loaded, spent>>
  PROVE  /\ json' \in Json /\ saved' \in Book /\ failures' \in Nat
         /\ entry' \in Book
         /\ SpentSaved' /\ SpentLoaded' /\ ForgetsAll' /\ AtMostOneInProgress'
<1> DEFINE done == Before(p)
<1>1. TypeOK /\ SpentSaved /\ failures \in Nat /\ json \in Json /\ saved \in Book
  BY PoolInvParts DEF TypeOK, Json, Book
<1>2. done \subseteq Ready /\ done \cup {p} \subseteq Ready /\ p \in Pair
  BY DEF Before, Ready
<1>3. entry' = After(done \cup {p}) /\ \A q \in done : ~Usable(q)
  BY DEF TryUpTo
<1>4. entry' \in Book /\ After(done) \in Book
  BY <1>1, <1>3, AfterType
<1>5. /\ \A q \in spent : Settled(entry', q)
      /\ \A q \in spent : Settled(After(done), q)
  BY <1>2, <1>3, AfterKeepsSpent
<1>6. json' \in Json /\ saved' \in Book /\ failures' \in Nat
  <2>1. CASE Save(entry', json, saved, ok)
    BY <2>1, <1>1, <1>4, SaveType
  <2>2. CASE Save(entry', "valid", After(done), ok)
    BY <2>2, <1>1, <1>4, SaveType DEF Json
  <2> QED BY <2>1, <2>2 DEF TryUpTo
<1>7. SpentSaved'
  <2>1. CASE Save(entry', json, saved, ok)
    BY <2>1, <1>1, <1>5, SaveKeepsSpent DEF SpentSaved
  <2>2. CASE Save(entry', "valid", After(done), ok)
    BY <2>2, <1>5, SaveKeepsSpent DEF SpentSaved
  <2> QED BY <2>1, <2>2 DEF TryUpTo
<1>8. AtMostOneInProgress'
  <2>1. \A q \in Pair : After(done)[q] # "PROGRESS"
    BY <1>3, UnusableNotInProgress
  <2>2. \A q \in Pair : q # p => entry'[q] = After(done)[q]
    BY <1>3 DEF After
  <2> QED BY <2>1, <2>2 DEF AtMostOneInProgress
<1> QED BY <1>4, <1>5, <1>6, <1>7, <1>8 DEF SpentLoaded, ForgetsAll

LEMMA GetMaterialStep ==
  ASSUME PoolInv, GetMaterial PROVE PoolInv'
<1>1. /\ open /\ loaded /\ ~InProgress
      /\ UNCHANGED <<files, setting, loaded, open, spent, moves, crashes>>
  BY DEF GetMaterial
<1>2. PICK p \in Ready : Usable(p) /\ TryUpTo(p, TRUE) /\ given' = p
  BY DEF GetMaterial
<1>3. /\ json' \in Json /\ saved' \in Book /\ failures' \in Nat
      /\ entry' \in Book
      /\ SpentSaved' /\ SpentLoaded' /\ ForgetsAll' /\ AtMostOneInProgress'
  BY <1>1, <1>2, TryStep
<1>4. p \in Pair /\ entry[p] = "READY"
  BY DEF Ready
<1>5. TypeOK /\ OneFileStays /\ SpentLoaded
  BY PoolInvParts
<1>6. TypeOK'
  BY <1>1, <1>2, <1>3, <1>4, <1>5 DEF TypeOK, Json, Book
<1>7. OneFileStays'
  BY <1>1, <1>5 DEF OneFileStays
<1>8. SpentForGood'
  BY <1>1, <1>2, <1>4, <1>5 DEF SpentForGood, SpentLoaded, Settled
<1>9. entry'[p] = "PROGRESS"
  BY <1>2, <1>4 DEF TryUpTo, After, Taken, Usable
<1>10. HolderCanReport'
  BY <1>1, <1>2, <1>9 DEF HolderCanReport
<1> QED BY <1>3, <1>6, <1>7, <1>8, <1>10, PoolInvPartsNext

LEMMA GetMaterialFailsStep ==
  ASSUME PoolInv, GetMaterialFails PROVE PoolInv'
<1>1. /\ loaded /\ ~InProgress
      /\ UNCHANGED <<files, setting, loaded, given, open, spent, moves, crashes>>
  BY DEF GetMaterialFails
<1>2. PICK p \in Ready : TryUpTo(p, FALSE)
  BY DEF GetMaterialFails
<1>3. /\ json' \in Json /\ saved' \in Book /\ failures' \in Nat
      /\ entry' \in Book
      /\ SpentSaved' /\ SpentLoaded' /\ ForgetsAll' /\ AtMostOneInProgress'
  BY <1>1, <1>2, TryStep
<1>4. TypeOK /\ OneFileStays /\ SpentForGood /\ HolderCanReport
  BY PoolInvParts
<1>5. TypeOK'
  BY <1>1, <1>3, <1>4 DEF TypeOK, Json, Book
<1>6. OneFileStays' /\ SpentForGood'
  BY <1>1, <1>4 DEF OneFileStays, SpentForGood
<1>7. HolderCanReport'
  BY <1>1, <1>4 DEF HolderCanReport, InProgress, TypeOK
<1> QED BY <1>3, <1>5, <1>6, <1>7, PoolInvPartsNext

LEMMA GetMaterialEmptyStep ==
  ASSUME PoolInv, GetMaterialEmpty PROVE PoolInv'
<1>1. /\ loaded /\ ~InProgress /\ \A p \in Ready : ~Usable(p)
      /\ entry' = After(Ready)
      /\ UNCHANGED <<files, setting, loaded, given, open, spent, moves, crashes>>
  BY DEF GetMaterialEmpty
<1>2. TypeOK /\ OneFileStays /\ SpentForGood /\ HolderCanReport /\ SpentSaved
  BY PoolInvParts
<1>3. entry' \in Book /\ \A q \in spent : Settled(entry', q)
  BY <1>1, <1>2, AfterType, AfterKeepsSpent
<1>4. json' \in Json /\ saved' \in Book /\ failures' \in Nat /\ SpentSaved'
  <2>1. CASE NoSave
    BY <2>1, <1>1, <1>2 DEF NoSave, TypeOK, Json, Book, SpentSaved
  <2>2. CASE Save(entry', json, saved, TRUE)
    <3>1. json' \in Json /\ saved' \in Book /\ failures' \in Nat
      BY <2>2, <1>2, <1>3, SaveType DEF TypeOK, Json, Book
    <3>2. SpentSaved'
      BY <2>2, <1>1, <1>2, <1>3, SaveKeepsSpent DEF SpentSaved
    <3> QED BY <3>1, <3>2
  <2> QED BY <2>1, <2>2 DEF GetMaterialEmpty
<1>5. TypeOK'
  BY <1>1, <1>2, <1>3, <1>4 DEF TypeOK, Json, Book
<1>6. OneFileStays' /\ SpentForGood' /\ SpentLoaded' /\ ForgetsAll'
  BY <1>1, <1>2, <1>3 DEF OneFileStays, SpentForGood, SpentLoaded, ForgetsAll
<1>7. AtMostOneInProgress'
  BY <1>1, UnusableNotInProgress DEF AtMostOneInProgress
<1>8. HolderCanReport'
  BY <1>1, <1>2 DEF HolderCanReport, InProgress, TypeOK
<1> QED BY <1>4, <1>5, <1>6, <1>7, <1>8, PoolInvPartsNext

LEMMA GetMaterialRefusedStep ==
  ASSUME PoolInv, GetMaterialRefused PROVE PoolInv'
<1>1. /\ given' = 0
      /\ UNCHANGED <<files, json, saved, setting, loaded, entry, open, spent,
                     failures, moves, crashes>>
  BY DEF GetMaterialRefused
<1>2. spent \subseteq Pair
  BY PoolInvParts DEF TypeOK
<1>3. TypeOK'
  BY <1>1, PoolInvParts DEF TypeOK
<1>4. SpentSaved' /\ SpentLoaded' /\ OneFileStays' /\ ForgetsAll' /\ AtMostOneInProgress'
  BY <1>1, PoolInvParts
     DEF SpentSaved, SpentLoaded, OneFileStays, ForgetsAll, AtMostOneInProgress, Settled
<1>5. HolderCanReport' /\ SpentForGood'
  BY <1>1, <1>2, ZeroIsNoPair DEF HolderCanReport, SpentForGood
<1> QED BY <1>3, <1>4, <1>5, PoolInvPartsNext

-----------------------------------------------------------------------------
LEMMA SetMaterialStateStep ==
  ASSUME PoolInv, NEW success \in BOOLEAN, NEW ok \in BOOLEAN,
         SetMaterialState(success, ok)
  PROVE  PoolInv'
<1> DEFINE e == [entry EXCEPT ![given] = IF success THEN "CONSUMED" ELSE "ERROR"]
<1>1. /\ given # 0 /\ loaded /\ entry[given] = "PROGRESS"
      /\ entry' = e /\ given' = 0
      /\ Save(entry', json, saved, ok)
      /\ spent' = (IF ok THEN spent \cup {given} ELSE spent)
      /\ UNCHANGED <<files, setting, loaded, open, moves, crashes>>
  BY DEF SetMaterialState
<1>2. TypeOK /\ OneFileStays /\ SpentSaved /\ SpentLoaded /\ AtMostOneInProgress
  BY PoolInvParts
<1>3. given \in Pair /\ entry \in Book /\ spent \subseteq Pair
  BY <1>1, <1>2 DEF TypeOK, Book
<1>4. entry' \in Book
  BY <1>1, <1>3 DEF Book, Status
<1>5. /\ \A q \in Pair : q # given => entry'[q] = entry[q]
      /\ entry'[given] \in {"CONSUMED", "ERROR"}
  BY <1>1, <1>3 DEF Book
<1>6. \A q \in spent \cup {given} : Settled(entry', q)
  BY <1>1, <1>2, <1>3, <1>5 DEF SpentLoaded, Settled
<1>7. spent' \subseteq spent \cup {given}
  BY <1>1
<1>8. json' \in Json /\ saved' \in Book /\ failures' \in Nat
  BY <1>1, <1>2, <1>4, SaveType DEF TypeOK, Json, Book
<1>9. SpentSaved'
  <2>1. CASE ok
    BY <2>1, <1>1, <1>6, <1>7 DEF Save, SpentSaved, Settled
  <2>2. CASE ~ok
    <3>1. spent' = spent
      BY <2>2, <1>1
    <3>2. \A q \in spent : Settled(entry', q)
      BY <1>6
    <3>3. Save(entry', json, saved, ok)
      BY <1>1
    <3>4. \A q \in spent : json # "absent" /\ (json = "valid" => Settled(saved, q))
      BY <1>2 DEF SpentSaved
    <3>5. \A q \in spent : json' # "absent" /\ (json' = "valid" => Settled(saved', q))
      BY <3>2, <3>3, <3>4, SaveKeepsSpent
    <3> QED BY <3>1, <3>5 DEF SpentSaved
  <2> QED BY <2>1, <2>2
<1>10. TypeOK'
  BY <1>1, <1>2, <1>3, <1>4, <1>7, <1>8 DEF TypeOK, Json, Book
<1>11. OneFileStays' /\ ForgetsAll' /\ HolderCanReport'
  BY <1>1, <1>2 DEF OneFileStays, ForgetsAll, HolderCanReport
<1>12. SpentLoaded'
  BY <1>6, <1>7 DEF SpentLoaded
<1>13. AtMostOneInProgress'
  BY <1>2, <1>3, <1>5 DEF AtMostOneInProgress
<1>14. SpentForGood'
  BY <1>1, <1>3, <1>7, ZeroIsNoPair DEF SpentForGood
<1> QED BY <1>9, <1>10, <1>11, <1>12, <1>13, <1>14, PoolInvPartsNext

LEMMA MoveStep ==
  ASSUME PoolInv, Move PROVE PoolInv'
<1>1. PICK p \in Pair, k \in Movable :
        files' = [files EXCEPT ![p] = IF k \in @ THEN @ \ {k} ELSE @ \cup {k}]
  BY DEF Move
<1>2. /\ moves' = moves + 1
      /\ UNCHANGED <<json, saved, setting, loaded, entry, given, open, spent,
                     failures, crashes>>
  BY DEF Move
<1>3. TypeOK /\ OneFileStays /\ k \in Kind
  BY PoolInvParts, PoolAssumption
<1>4. files' \in [Pair -> SUBSET Kind]
  BY <1>1, <1>3 DEF TypeOK
<1>5. TypeOK'
  BY <1>2, <1>3, <1>4 DEF TypeOK
<1>6. OneFileStays'
  BY <1>1, <1>3 DEF OneFileStays, TypeOK
<1>7. SpentSaved' /\ SpentLoaded' /\ ForgetsAll' /\ AtMostOneInProgress'
      /\ HolderCanReport' /\ SpentForGood'
  BY <1>2, PoolInvParts DEF SpentSaved, SpentLoaded, ForgetsAll,
     AtMostOneInProgress, HolderCanReport, SpentForGood, Settled
<1> QED BY <1>5, <1>6, <1>7, PoolInvPartsNext

LEMMA PoolStutter ==
  ASSUME PoolInv, UNCHANGED vars PROVE PoolInv'
<1>1. TypeOK'
  BY PoolInvParts DEF vars, TypeOK
<1>2. SpentSaved' /\ SpentLoaded' /\ OneFileStays' /\ ForgetsAll'
      /\ AtMostOneInProgress' /\ HolderCanReport' /\ SpentForGood'
  BY PoolInvParts DEF vars, SpentSaved, SpentLoaded, OneFileStays, ForgetsAll,
     AtMostOneInProgress, HolderCanReport, SpentForGood, Settled
<1> QED BY <1>1, <1>2, PoolInvPartsNext

LEMMA PoolStep ==
  ASSUME Movable # Kind, PoolInv, [Next]_vars PROVE PoolInv'
<1>1. CASE Load
  BY <1>1, LoadStep
<1>2. CASE OpenWindow
  BY <1>2, OpenWindowStep
<1>3. CASE CrashAndStart
  BY <1>3, CrashStep
<1>4. CASE Get
  BY <1>4, GetMaterialStep, GetMaterialFailsStep, GetMaterialEmptyStep,
     GetMaterialRefusedStep DEF Get
<1>5. CASE Report
  BY <1>5, SetMaterialStateStep DEF Report
<1>6. CASE Move
  BY <1>6, MoveStep
<1>7. CASE UNCHANGED vars
  BY <1>7, PoolStutter
<1> QED BY <1>1, <1>2, <1>3, <1>4, <1>5, <1>6, <1>7 DEF Next

-----------------------------------------------------------------------------
(* Whatever the size of the directory and however often writes of          *)
(* stat.json fail, files move and the program crashes, the store keeps its *)
(* inductive invariant, as long as one file of each pair stays.            *)
THEOREM PoolInvariant ==
  ASSUME Movable # Kind PROVE Spec => []PoolInv
<1>1. PoolInv /\ [Next]_vars => PoolInv'
  BY PoolStep
<1> QED BY <1>1, PoolInit, PTL DEF Spec

(* A pair whose report set_material_state saved is never returned by      *)
(* get_material again.                                                     *)
THEOREM SpentStaysSpent ==
  ASSUME Movable # Kind PROVE Spec => []SpentForGood
<1>1. PoolInv => SpentForGood
  BY PoolInvParts
<1> QED BY <1>1, PoolInvariant, PTL

(* set_material_state accepts the report of whoever holds a pair.          *)
THEOREM HolderIsHeard ==
  ASSUME Movable # Kind PROVE Spec => []HolderCanReport
<1>1. PoolInv => HolderCanReport
  BY PoolInvParts
<1> QED BY <1>1, PoolInvariant, PTL

(* get_material never puts a second pair in progress.                      *)
THEOREM OneInProgress ==
  ASSUME Movable # Kind PROVE Spec => []AtMostOneInProgress
<1>1. PoolInv => AtMostOneInProgress
  BY PoolInvParts
<1> QED BY <1>1, PoolInvariant, PTL

=============================================================================
