------------------------------- MODULE DacPool -------------------------------
(***************************************************************************)
(* The pool of device attestation credentials: a directory of certificate  *)
(* and key files and its stat.json (pc/src/storage/dac_pool_store.py).     *)
(*                                                                         *)
(* The store keeps the status of every pair in memory and writes the whole *)
(* of it to stat.json after each change.  A write may be refused (the file *)
(* cannot be opened) or torn (the disk fills up, the program dies): opened *)
(* with "w", the file is then no longer valid JSON.  The operator loads    *)
(* the directory in the start-up wizard, later only the provisioning       *)
(* worker uses the store.  Files are moved at any time; the program ends,  *)
(* orderly or not, and starts again.                                       *)
(*                                                                         *)
(* A pair stands for its normalised base name; pairs are numbered in the   *)
(* order of sorted(base_name).                                             *)
(***************************************************************************)
EXTENDS Integers, FiniteSets

CONSTANTS
  N,            (* Number of pairs in the directory.                       *)
  Sound,        (* Pairs whose files convert to firmware material.         *)
  Movable,      (* Kinds of files the operator takes away and puts back.   *)
  MaxFailures,  (* Bound: refused and torn writes of stat.json.            *)
  MaxMoves,     (* Bound: files moved.                                     *)
  MaxCrashes    (* Bound: ends of the program.                             *)

Pair == 1..N
Kind == {"cert", "key"}

ASSUME PoolAssumption ==
  /\ N \in Nat
  /\ Sound \subseteq Pair
  /\ Movable \subseteq Kind
  /\ MaxFailures \in Nat /\ MaxMoves \in Nat /\ MaxCrashes \in Nat

(* NONE: the pair is not in the dictionary.                                *)
Status == {"READY", "PROGRESS", "CONSUMED", "ERROR", "NONE"}
Nothing == [p \in Pair |-> "NONE"]

VARIABLES
  files,     (* Files of each pair in the directory.                       *)
  json,      (* stat.json: absent, valid or corrupt.                       *)
  saved,     (* The statuses in it when it is valid.                       *)
  setting,   (* Settings has dac_pool_dir.                                 *)
  loaded,    (* _pool_path and _metadata_path are set.                     *)
  entry,     (* _entry.                                                    *)
  given,     (* Pair the retriever holds, _dac_material_base_name; or 0.   *)
  open,      (* The wizard is finished: the main window is open.           *)
  spent,     (* Pairs whose report was saved, be it success or failure.    *)
  failures, moves, crashes

vars == <<files, json, saved, setting, loaded, entry, given, open, spent,
          failures, moves, crashes>>

TypeOK ==
  /\ files \in [Pair -> SUBSET Kind]
  /\ json \in {"absent", "valid", "corrupt"}
  /\ saved \in [Pair -> Status]
  /\ setting \in BOOLEAN /\ loaded \in BOOLEAN /\ open \in BOOLEAN
  /\ entry \in [Pair -> Status]
  /\ given \in Pair \cup {0}
  /\ spent \subseteq Pair
  /\ failures \in Nat /\ moves \in Nat /\ crashes \in Nat

Init ==
  /\ files = [p \in Pair |-> Kind]
  /\ json = "absent" /\ saved = Nothing
  /\ setting = FALSE /\ loaded = FALSE /\ entry = Nothing
  /\ given = 0 /\ open = FALSE /\ spent = {}
  /\ failures = 0 /\ moves = 0 /\ crashes = 0

-----------------------------------------------------------------------------
Complete(p) == files[p] = Kind

(* Writing e to stat.json, which holds text s (and is j) when the write    *)
(* starts: a write that fails is refused at open or leaves a torn file.    *)
Save(e, j, s, ok) ==
  \/ /\ ok /\ json' = "valid" /\ saved' = e /\ UNCHANGED failures
  \/ /\ ~ok /\ failures < MaxFailures /\ failures' = failures + 1
     /\ \/ json' = "corrupt" /\ saved' = Nothing
        \/ json' = j /\ saved' = s

NoSave == UNCHANGED <<json, saved, failures>>

Loaded_ForgetsConsumed(p, previous) ==
  IF files[p] = {} THEN "NONE"
  ELSE IF ~Complete(p) \/ previous[p] = "ERROR" THEN "ERROR" ELSE "READY"

Loaded_IncompleteKeepsStatus(p, previous) ==
  IF files[p] = {} THEN "NONE"
  ELSE IF previous[p] \in {"CONSUMED", "ERROR"} /\ Complete(p) THEN previous[p]
  ELSE "READY"

(* The status a scanned pair gets on load: a pair in progress is ready     *)
(* again, an incomplete pair is in error for good.                         *)
Loaded(p, previous) ==
  IF files[p] = {} THEN "NONE"
  ELSE IF ~Complete(p) THEN "ERROR"
  ELSE IF previous[p] \in {"CONSUMED", "ERROR"} THEN previous[p]
  ELSE "READY"

Forget == loaded' = FALSE /\ entry' = Nothing

(* A directory that cannot be read, stat.json that is not JSON, or its     *)
(* creation that fails raise before anything is touched.                   *)
LoadRefused ==
  \/ NoSave
  \/ json = "absent" /\ Save(Nothing, json, saved, FALSE)

LoadWithoutPair ==
  /\ json # "corrupt"
  /\ ~\E p \in Pair : Complete(p)
  /\ IF json = "absent" THEN Save(Nothing, json, saved, TRUE) ELSE NoSave

(* The statuses to load; a missing stat.json is created first.             *)
Previous == IF json = "absent" THEN Nothing ELSE saved
Scanned  == [p \in Pair |-> Loaded(p, Previous)]

LoadSaved(ok) ==
  /\ json # "corrupt"
  /\ \E p \in Pair : Complete(p)
  /\ Save(Scanned, "valid", Previous, ok)

(* The operator selects the directory in the wizard.                       *)
Load ==
  /\ ~open
  /\ \/ LoadRefused /\ UNCHANGED <<loaded, entry, setting>>
     \/ LoadWithoutPair /\ Forget /\ UNCHANGED setting
     \/ \E ok \in BOOLEAN :
          /\ LoadSaved(ok)
          /\ loaded' = TRUE /\ entry' = Scanned
          /\ setting' = (ok \/ setting)
  /\ UNCHANGED <<files, given, open, spent, moves, crashes>>

(* The wizard can be finished when the store has a directory.              *)
OpenWindow ==
  /\ ~open /\ loaded /\ open' = TRUE
  /\ UNCHANGED <<files, json, saved, setting, loaded, entry, given, spent,
                 failures, moves, crashes>>

(* The program ends and starts again: __init__ loads the directory of the  *)
(* settings, and forgets the setting when that fails.                      *)
CrashAndStart ==
  /\ crashes < MaxCrashes /\ crashes' = crashes + 1
  /\ IF setting
     THEN \/ LoadSaved(TRUE) /\ loaded' = TRUE /\ entry' = Scanned /\ UNCHANGED setting
          \/ /\ LoadRefused \/ LoadWithoutPair \/ LoadSaved(FALSE)
             /\ Forget /\ setting' = FALSE
     ELSE Forget /\ NoSave /\ UNCHANGED setting
  /\ given' = 0 /\ open' = FALSE
  /\ UNCHANGED <<files, spent, moves>>

-----------------------------------------------------------------------------
Ready == {p \in Pair : entry[p] = "READY"}
Usable(p) == Complete(p) /\ p \in Sound
InProgress_Unchecked == FALSE
InProgress == \E p \in Pair : entry[p] = "PROGRESS"

Taken_Unmarked(p) ==
  IF ~Complete(p) THEN "NONE" ELSE IF p \notin Sound THEN "ERROR" ELSE "READY"

(* What get_material makes of a READY pair it comes to: an incomplete pair *)
(* leaves the dictionary, an unreadable one is in error.                   *)
Taken(p) ==
  IF ~Complete(p) THEN "NONE" ELSE IF p \notin Sound THEN "ERROR" ELSE "PROGRESS"

(* The dictionary after the READY pairs of S were handled.                 *)
After(S) == [p \in Pair |-> IF p \in S THEN Taken(p) ELSE entry[p]]

Before(p) == {q \in Ready : q < p}

(* The READY pairs are tried in order up to p, and saved one by one.       *)
TryUpTo(p, ok) ==
  LET done == Before(p) IN
  /\ \A q \in done : ~Usable(q)
  /\ entry' = After(done \cup {p})
  /\ IF done = {} THEN Save(entry', json, saved, ok)
     ELSE Save(entry', "valid", After(done), ok)

(* get_material returns the first usable pair.                             *)
GetMaterial ==
  /\ open /\ loaded /\ ~InProgress
  /\ \E p \in Ready :
       /\ Usable(p)
       /\ TryUpTo(p, TRUE)
       /\ given' = p
  /\ UNCHANGED <<files, setting, loaded, open, spent, moves, crashes>>

(* A write fails on the way: the pair is already marked, nobody has it.    *)
GetMaterialFails ==
  /\ open /\ loaded /\ ~InProgress
  /\ \E p \in Ready : TryUpTo(p, FALSE)
  /\ UNCHANGED <<files, setting, loaded, given, open, spent, moves, crashes>>

(* No READY pair is usable.                                                *)
GetMaterialEmpty ==
  /\ open /\ loaded /\ ~InProgress
  /\ \A p \in Ready : ~Usable(p)
  /\ entry' = After(Ready)
  /\ IF Ready = {} THEN NoSave ELSE Save(entry', json, saved, TRUE)
  /\ UNCHANGED <<files, setting, loaded, given, open, spent, moves, crashes>>

(* A pair is in progress already; the retriever has forgotten its name.    *)
GetMaterialRefused ==
  /\ open /\ loaded /\ InProgress
  /\ given' = 0
  /\ UNCHANGED <<files, json, saved, setting, loaded, entry, open, spent,
                 failures, moves, crashes>>

SetMaterialState_FreesFailed(success, ok) ==
  /\ given # 0 /\ loaded /\ entry[given] = "PROGRESS"
  /\ entry' = [entry EXCEPT ![given] = IF success THEN "CONSUMED" ELSE "READY"]
  /\ Save(entry', json, saved, ok)
  /\ given' = 0
  /\ spent' = IF ok THEN spent \cup {given} ELSE spent
  /\ UNCHANGED <<files, setting, loaded, open, moves, crashes>>

(* set_material_state(base_name, is_success) by the retriever, which gives *)
(* the pair up whether the call returns or raises.  What the call refuses  *)
(* does not happen: HolderCanReport.                                       *)
SetMaterialState(success, ok) ==
  /\ given # 0 /\ loaded /\ entry[given] = "PROGRESS"
  /\ entry' = [entry EXCEPT ![given] = IF success THEN "CONSUMED" ELSE "ERROR"]
  /\ Save(entry', json, saved, ok)
  /\ given' = 0
  /\ spent' = IF ok THEN spent \cup {given} ELSE spent
  /\ UNCHANGED <<files, setting, loaded, open, moves, crashes>>

(* The operator takes a file away or puts it back.                         *)
Move ==
  /\ moves < MaxMoves /\ moves' = moves + 1
  /\ \E p \in Pair, k \in Movable :
       files' = [files EXCEPT ![p] = IF k \in @ THEN @ \ {k} ELSE @ \cup {k}]
  /\ UNCHANGED <<json, saved, setting, loaded, entry, given, open, spent,
                 failures, crashes>>

Report == \E s, ok \in BOOLEAN : SetMaterialState(s, ok)
Get ==
  GetMaterial \/ GetMaterialFails \/ GetMaterialEmpty \/ GetMaterialRefused

Next == Load \/ OpenWindow \/ CrashAndStart \/ Get \/ Report \/ Move

Spec == Init /\ [][Next]_vars

-----------------------------------------------------------------------------
(* A pair whose report was saved is never handed out again, in whatever    *)
(* later run of the program: not after a crash, a reload, a torn stat.json *)
(* or a file that was away -- be it a success, or a failure after which    *)
(* the unit may well have the pair.  (One file of the pair must stay in    *)
(* the directory: Movable # Kind.)                                         *)
SpentForGood == given \notin spent

(* Nobody else can be given, or take over, the pair that is handed out:    *)
(* the report of its holder will be accepted.                              *)
HolderCanReport == given # 0 => open /\ loaded /\ entry[given] = "PROGRESS"

(* At most one pair is in progress, so that a report settles it.           *)
AtMostOneInProgress ==
  \A p, q \in Pair : entry[p] = "PROGRESS" /\ entry[q] = "PROGRESS" => p = q

(* The inductive strengthening: what is spent is CONSUMED or ERROR in      *)
(* memory and in every stat.json that can be read, and one of its files is *)
(* there to be scanned.                                                    *)
Settled(e, p) == e[p] \in {"CONSUMED", "ERROR"}

PoolInv ==
  /\ TypeOK
  /\ \A p \in spent :
       /\ loaded => Settled(entry, p)
       /\ json # "absent"
       /\ json = "valid" => Settled(saved, p)
  /\ \A p \in Pair : Kind \ Movable \subseteq files[p]
  /\ ~loaded => entry = Nothing
  /\ AtMostOneInProgress
  /\ HolderCanReport
  /\ SpentForGood

=============================================================================
