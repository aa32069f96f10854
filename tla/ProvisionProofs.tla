--------------------------- MODULE ProvisionProofs ---------------------------
(***************************************************************************)
(* Proofs about the provision manager, for any number of worker            *)
(* identities, selections, clicks and toggles: one worker serves the       *)
(* queue, and runs and reports take turns.                                 *)
(***************************************************************************)
EXTENDS ProvisionManager, FiniteSetTheorems, TLAPS

(* The places a worker gets to by a click only.                            *)
Serving == {"start", "renderWork", "postWork", "work", "finish", "settle"}

ManagerTypes ==
  /\ bound \in BOOLEAN /\ leaving \in BOOLEAN
  /\ thread \in Worker \cup {0}
  /\ at \in [Worker -> {"dead", "new", "render", "post", "loop", "get", "set"}
                       \cup Serving]
  /\ queue \in Seq(Command)
  /\ ui \in {"idle", "stop", "set", "join", "joined", "register", "activate",
             "activated", "read", "refresh", "check", "put", "gone"}

(* Before the main window is there, nothing is started or finished; a      *)
(* model is torn down and set up only then or at the end.                  *)
Unclicked ==
  /\ ~bound =>
       /\ ui \notin {"read", "refresh", "check", "put"}
       /\ \A w \in Worker : at[w] \notin Serving
       /\ \A i \in 1..Len(queue) : queue[i] = "STOP"
  /\ ui \in {"stop", "set", "join", "joined"} => ~bound \/ leaving
  /\ ui \in {"register", "activate", "activated"} => ~bound
  /\ ui \notin {"stop", "set", "join", "joined", "gone"} => ~leaving

(* A worker that lives is the manager's, but for one that outlasts the     *)
(* program's end; and the one that was joined is dead.                     *)
Workers ==
  /\ \A v, w \in Worker : at[v] # "dead" /\ at[w] # "dead" => v = w
  /\ ui # "gone" => \A w \in Worker : at[w] # "dead" => w = thread
  /\ ui = "joined" /\ ~leaving => \A w \in Worker : at[w] = "dead"

WorkerInv == ManagerTypes /\ Unclicked /\ Workers

LEMMA WorkerInit == Init => WorkerInv
<1> SUFFICES ASSUME Init PROVE WorkerInv OBVIOUS
<1>1. bound \in BOOLEAN /\ leaving \in BOOLEAN
  BY DEF Init
<1>2. ManagerTypes
  BY <1>1 DEF Init, ManagerTypes
<1>3. Unclicked
  BY DEF Init, Unclicked, Serving
<1>4. Workers
  BY DEF Init, Workers
<1> QED BY <1>2, <1>3, <1>4 DEF WorkerInv

(* _ensure_worker_started starts a worker only when none lives.            *)
LEMMA EnsureKeeps ==
  ASSUME WorkerInv, ui # "gone", EnsureWorker
  PROVE  /\ thread' \in Worker \cup {0}
         /\ at' \in [Worker -> {"dead", "new", "render", "post", "loop", "get", "set"}
                               \cup Serving]
         /\ \A w \in Worker : at'[w] # "dead" => w = thread'
         /\ \A w \in Worker : at'[w] \in Serving => at[w] \in Serving
<1> USE ProvisionAssumption DEF WorkerInv, ManagerTypes, Workers
<1>1. CASE thread # 0 /\ at[thread] # "dead"
  BY <1>1 DEF EnsureWorker
<1>2. CASE ~(thread # 0 /\ at[thread] # "dead")
  <2>1. \A w \in Worker : at[w] = "dead"
    BY <1>2
  <2> DEFINE new == CHOOSE v \in Worker : at[v] = "dead"
  <2>2. new \in Worker
    BY <2>1
  <2>3. at' = [at EXCEPT ![new] = "new"] /\ thread' = new
    BY <1>2 DEF EnsureWorker
  <2> HIDE DEF new
  <2> QED BY <2>1, <2>2, <2>3 DEF Serving
<1> QED BY <1>1, <1>2

(* Selecting, stopping and setting up a model.                             *)
LEMMA ModelStep ==
  ASSUME WorkerInv,
         \/ Select \/ OpenWindow \/ Exit \/ Stop \/ StopSet \/ StopJoin \/ StopEnds
         \/ Register \/ Activate \/ Activated
  PROVE  WorkerInv'
<1> USE ProvisionAssumption DEF WorkerInv, ManagerTypes, managerVars, workerVars, widgetVars
<1>1. CASE Select \/ OpenWindow \/ Exit
  <2>1. UNCHANGED <<thread, at, queue>> /\ ui = "idle"
    BY <1>1 DEF Select, OpenWindow, Exit
  <2>2. CASE Select
    BY <2>1, <2>2 DEF Select, Unclicked, Workers
  <2>3. CASE OpenWindow
    BY <2>1, <2>3 DEF OpenWindow, Unclicked, Workers
  <2>4. CASE Exit
    BY <2>1, <2>4 DEF Exit, Unclicked, Workers
  <2> QED BY <1>1, <2>2, <2>3, <2>4
<1>2. CASE Stop
  <2>1. /\ queue' \in Seq(Command) /\ Len(queue') = Len(queue) + 1
        /\ \A i \in 1..Len(queue) : queue'[i] = queue[i]
        /\ queue'[Len(queue) + 1] = "STOP"
    BY <1>2 DEF Stop, Command
  <2>2. UNCHANGED <<bound, leaving, thread, at>> /\ ui = "stop" /\ ui' = "set"
    BY <1>2 DEF Stop
  <2>3. ~bound => \A i \in 1..Len(queue') : queue'[i] = "STOP"
    BY <2>1 DEF Unclicked
  <2> QED BY <2>1, <2>2, <2>3 DEF Unclicked, Workers
<1>3. CASE StopSet
  BY <1>3 DEF StopSet, Unclicked, Workers
<1>4. CASE StopJoin
  <2>1. UNCHANGED <<bound, leaving, thread, at, queue>> /\ ui = "join" /\ ui' = "joined"
    BY <1>4 DEF StopJoin
  <2>2. ~leaving => \A w \in Worker : at[w] = "dead"
    BY <1>4 DEF StopJoin, Unclicked, Workers, Serving
  <2> QED BY <2>1, <2>2 DEF Unclicked, Workers
<1>5. CASE StopEnds
  BY <1>5 DEF StopEnds, Unclicked, Workers
<1>6. CASE Register \/ Activated
  BY <1>6 DEF Register, Activated, Unclicked, Workers
<1>7. CASE Activate
  <2>1. UNCHANGED <<bound, leaving, queue>> /\ ui = "activate" /\ ui' = "activated"
    BY <1>7 DEF Activate
  <2> QED BY <1>7, <2>1, EnsureKeeps DEF Activate, Unclicked, Workers
<1> QED BY <1>1, <1>2, <1>3, <1>4, <1>5, <1>6, <1>7

(* The widget.                                                             *)
LEMMA WidgetStep ==
  ASSUME WorkerInv,
         \/ Show \/ ClickStart \/ ClickFinish \/ Toggle
         \/ StartReads \/ StartRefreshes \/ StartChecks \/ StartQueued
  PROVE  WorkerInv'
<1> USE DEF WorkerInv, ManagerTypes, managerVars, workerVars, widgetVars
<1>1. CASE Show \/ Toggle \/ StartReads \/ StartChecks
  BY <1>1 DEF Show, Toggle, StartReads, StartChecks, Unclicked, Workers
<1>2. CASE StartRefreshes
  BY <1>2 DEF StartRefreshes, Refresh, Unclicked, Workers
<1>3. CASE StartQueued
  <2>1. queue' \in Seq(Command)
    BY <1>3 DEF StartQueued, Command
  <2>2. UNCHANGED <<bound, leaving, thread, at>> /\ ui = "put" /\ ui' = "idle"
    BY <1>3 DEF StartQueued
  <2> QED BY <2>1, <2>2 DEF Unclicked, Workers
<1>4. CASE ClickFinish
  <2>1. queue' \in Seq(Command)
    BY <1>4 DEF ClickFinish, Command
  <2>2. UNCHANGED <<bound, leaving, thread, at, ui>> /\ bound
    BY <1>4 DEF ClickFinish, CanFinish
  <2> QED BY <2>1, <2>2 DEF Unclicked, Workers
<1>5. CASE ClickStart
  <2>1. UNCHANGED <<bound, leaving, queue>> /\ bound /\ ui = "idle" /\ ui' = "read"
    BY <1>5 DEF ClickStart, CanStart
  <2> QED BY <1>5, <2>1, EnsureKeeps DEF ClickStart, Unclicked, Workers
<1> QED BY <1>1, <1>2, <1>3, <1>4, <1>5

(* A worker: it comes to nothing but what is queued, and a dead one stays  *)
(* dead.                                                                   *)
LEMMA ServeStep ==
  ASSUME WorkerInv, NEW w \in Worker, WorkerStep(w)
  PROVE  WorkerInv'
<1> USE DEF WorkerInv, ManagerTypes, managerVars, workerVars, widgetVars
<1> DEFINE Place == {"dead", "new", "render", "post", "loop", "get", "set"} \cup Serving
<1>1. UNCHANGED <<ui, bound, leaving, thread>> /\ ui # "gone"
  BY DEF WorkerStep, Begin, Render, Post, Loop, Get, Poll, Polled, Claim, Store,
         Finalize, Settle, Refresh
<1>2. at[w] # "dead" /\ \E p \in Place : at' = [at EXCEPT ![w] = p]
  BY DEF WorkerStep, Begin, Render, Post, Loop, Get, Poll, Polled, Claim, Store,
         Finalize, Settle, Goto, Serving
<1>3. queue' = queue \/ (queue # <<>> /\ queue' = Tail(queue))
  BY DEF WorkerStep, Begin, Render, Post, Loop, Get, Poll, Polled, Claim, Store,
         Finalize, Settle
<1>4. ASSUME ~bound PROVE at'[w] \notin Serving
  BY <1>4 DEF WorkerStep, Begin, Render, Post, Loop, Get, Poll, Polled, Claim, Store,
              Finalize, Settle, Goto, Serving, Unclicked
<1>5. /\ queue' \in Seq(Command)
      /\ ~bound => \A i \in 1..Len(queue') : queue'[i] = "STOP"
  BY <1>3 DEF Unclicked
<1>6. Unclicked'
  BY <1>1, <1>2, <1>4, <1>5 DEF Unclicked
<1>7. Workers'
  BY <1>1, <1>2 DEF Workers
<1> QED BY <1>1, <1>2, <1>5, <1>6, <1>7

LEMMA WorkerStays == WorkerInv /\ UNCHANGED vars => WorkerInv'
BY DEF WorkerInv, ManagerTypes, Unclicked, Workers, vars, managerVars, workerVars, widgetVars

LEMMA OneAtMost == WorkerInv => OneWorker
<1> SUFFICES ASSUME WorkerInv PROVE OneWorker OBVIOUS
<1> DEFINE alive == {w \in Worker : at[w] # "dead"}
<1>1. CASE alive = {}
  BY <1>1, FS_EmptySet DEF OneWorker
<1>2. CASE alive # {}
  <2>1. PICK w : w \in alive
    BY <1>2
  <2>2. alive = {w}
    BY <2>1 DEF WorkerInv, Workers
  <2> QED BY <2>2, FS_Singleton DEF OneWorker
<1> QED BY <1>1, <1>2

(* At most one worker thread serves the command queue, through every       *)
(* change of model, start and stop (provision/manager.py: activate, start, *)
(* stop, _ensure_worker_started).                                          *)
THEOREM OneWorkerServes == Spec => []OneWorker
<1>1. WorkerInv /\ [Next]_vars => WorkerInv'
  BY ModelStep, WidgetStep, ServeStep, WorkerStays DEF Next, TkStep, Operator
<1> QED BY <1>1, WorkerInit, OneAtMost, PTL DEF Spec

-----------------------------------------------------------------------------
(***************************************************************************)
(* Runs and reports.  A worker lives from the first run to the end of the  *)
(* program, so that runs and reports take turns; the display shows states  *)
(* in the order in which they were, so that START is not clicked on a      *)
(* result nor Finish on anything else, and the commands of the queue are   *)
(* of the turn they are taken in.                                          *)
(***************************************************************************)
Other == State \ Waiting

(* Sequences of which some elements come before others.                    *)
Has(s, A) == \E i \in 1..Len(s) : s[i] \in A
NoneAfter(s, A, B) ==
  \A i, j \in 1..Len(s) : i < j /\ s[i] \in A => s[j] \notin B

Place(S) == \E w \in Worker : at[w] \in S
Working  == Place({"renderWork", "postWork", "work"})
Starting == ui \in {"read", "refresh", "check", "put"}
Queued(c) == Has(queue, {c})
Finishing == Place({"finish", "settle"}) \/ Queued("FINISH")
Publishing(w) == at[w] \in {"post", "postWork"}

(* Nothing but the end of the program ends the worker that makes runs: no  *)
(* STOP is left in the queue, and no stop event set, that it could see.    *)
Steady ==
  /\ ui = "gone" => leaving
  /\ stopEvent /\ ~leaving => ui \in {"join", "joined", "register", "activate"}
  /\ ui \in {"register", "activate"} => ~active
  /\ ~active /\ ui \in {"idle", "register", "activate"} => thread = 0
  /\ bound /\ ui # "gone" => active
  /\ ~leaving => NoneAfter(queue, {"START", "FINISH"}, {"STOP"})
  /\ ~leaving /\ (run > 0 \/ Place(Serving)) => ~Queued("STOP")
  /\ run > 0 => bound /\ ~Place({"new"})
  /\ run > 0 /\ ~leaving => thread # 0 /\ at[thread] # "dead"

(* Between a run's start and its report the manager is in PROGRESS or has  *)
(* the pending result, and only then.                                      *)
Books ==
  /\ pending \in {0, run}
  /\ state \in Waiting <=> pending # 0
  /\ state = "PROGRESS" <=> Working
  /\ Place({"settle"}) => pending # 0
  /\ IF Working \/ (pending # 0 /\ ~Place({"settle"}))
     THEN Len(reported) = run - 1 ELSE Len(reported) = run

(* What is shown and still to be shown.                                    *)
Display ==
  IF pending = 0
  THEN /\ NoneAfter(posted, Other, Waiting)
       /\ Has(posted, Waiting) => shown \in Waiting
       /\ \A w \in Worker : Publishing(w) /\ snap[w] \in Waiting =>
            shown \in Waiting /\ ~Has(posted, Other)
       /\ Starting \/ Queued("START") \/ Place({"start"}) \/ Working =>
            shown \notin Waiting
  ELSE /\ NoneAfter(posted, Waiting, Other)
       /\ shown \in Waiting => ~Has(posted, Other)
       /\ \A w \in Worker : Publishing(w) => snap[w] \in Waiting

(* A FINISH in the queue is of the pending result, which was confirmed, or *)
(* comes before the next START.                                            *)
Order ==
  IF pending = 0
  THEN /\ NoneAfter(queue, {"START"}, {"FINISH"})
       /\ Place({"start"}) \/ Working => ~Queued("FINISH")
  ELSE /\ NoneAfter(queue, {"FINISH"}, {"START"})
       /\ Place({"finish", "settle"}) => ~Queued("START")
       /\ Finishing => shown \in Waiting /\ ~Starting /\ run \in confirmed

Turns == ui # "gone" => Books /\ Display /\ Order

RunInv == WorkerInv /\ TypeOK /\ Steady /\ Turns /\ ReportsFollowRuns

-----------------------------------------------------------------------------
LEMMA TailHas ==
  ASSUME NEW S, NEW s \in Seq(S), s # << >>, NEW A
  PROVE  /\ Has(s, A) <=> Head(s) \in A \/ Has(Tail(s), A)
         /\ Head(s) \in S /\ Tail(s) \in Seq(S)
<1>1. /\ Len(s) \in Nat /\ Len(s) # 0 /\ Head(s) = s[1] /\ Len(Tail(s)) = Len(s) - 1
      /\ \A i \in 1..Len(Tail(s)) : Tail(s)[i] = s[i + 1]
      /\ Head(s) \in S /\ Tail(s) \in Seq(S)
  OBVIOUS
<1>2. ASSUME Has(s, A) PROVE Head(s) \in A \/ Has(Tail(s), A)
  <2>1. PICK i \in 1..Len(s) : s[i] \in A
    BY <1>2 DEF Has
  <2>2. CASE i = 1
    BY <1>1, <2>1, <2>2
  <2>3. CASE i # 1
    <3>1. i - 1 \in 1..Len(Tail(s)) /\ Tail(s)[i - 1] = s[i]
      BY <1>1, <2>3
    <3> QED BY <2>1, <3>1 DEF Has
  <2> QED BY <2>2, <2>3
<1>3. ASSUME Head(s) \in A \/ Has(Tail(s), A) PROVE Has(s, A)
  <2>1. CASE Head(s) \in A
    <3>1. 1 \in 1..Len(s)
      BY <1>1
    <3> QED BY <1>1, <2>1, <3>1 DEF Has
  <2>2. CASE Has(Tail(s), A)
    <3>1. PICK i \in 1..Len(Tail(s)) : Tail(s)[i] \in A
      BY <2>2 DEF Has
    <3>2. i + 1 \in 1..Len(s) /\ s[i + 1] \in A
      BY <1>1, <3>1
    <3> QED BY <3>2 DEF Has
  <2> QED BY <1>3, <2>1, <2>2
<1> QED BY <1>1, <1>2, <1>3

LEMMA TailNoneAfter ==
  ASSUME NEW S, NEW s \in Seq(S), s # << >>, NEW A, NEW B, NoneAfter(s, A, B)
  PROVE  NoneAfter(Tail(s), A, B) /\ (Head(s) \in A => ~Has(Tail(s), B))
<1>1. /\ Len(s) \in Nat /\ Len(s) # 0 /\ Head(s) = s[1] /\ Len(Tail(s)) = Len(s) - 1
      /\ \A i \in 1..Len(Tail(s)) : Tail(s)[i] = s[i + 1] /\ i + 1 \in 1..Len(s)
  OBVIOUS
<1>2. ASSUME NEW i \in 1..Len(Tail(s)), NEW j \in 1..Len(Tail(s)), i < j, Tail(s)[i] \in A
      PROVE  Tail(s)[j] \notin B
  <2>1. i + 1 \in 1..Len(s) /\ j + 1 \in 1..Len(s) /\ i + 1 < j + 1
    BY <1>1, <1>2
  <2> QED BY <1>1, <1>2, <2>1 DEF NoneAfter
<1>3. ASSUME Head(s) \in A, NEW j \in 1..Len(Tail(s))
      PROVE  Tail(s)[j] \notin B
  <2>1. 1 \in 1..Len(s) /\ j + 1 \in 1..Len(s) /\ 1 < j + 1
    BY <1>1, <1>3
  <2> QED BY <1>1, <1>3, <2>1 DEF NoneAfter
<1> QED BY <1>2, <1>3 DEF NoneAfter, Has

LEMMA AppendHas ==
  ASSUME NEW S, NEW s \in Seq(S), NEW x \in S, NEW A
  PROVE  /\ Has(Append(s, x), A) <=> Has(s, A) \/ x \in A
         /\ Append(s, x) \in Seq(S)
<1>1. /\ Len(s) \in Nat /\ Len(Append(s, x)) = Len(s) + 1 /\ Append(s, x) \in Seq(S)
      /\ \A i \in 1..Len(s) : Append(s, x)[i] = s[i] /\ i \in 1..Len(Append(s, x))
      /\ Append(s, x)[Len(s) + 1] = x /\ Len(s) + 1 \in 1..Len(Append(s, x))
      /\ \A i \in 1..Len(Append(s, x)) : i \in 1..Len(s) \/ i = Len(s) + 1
  OBVIOUS
<1> QED BY <1>1 DEF Has

LEMMA AppendNoneAfter ==
  ASSUME NEW S, NEW s \in Seq(S), NEW x \in S, NEW A, NEW B, NoneAfter(s, A, B),
         x \in B => ~Has(s, A)
  PROVE  NoneAfter(Append(s, x), A, B)
<1>1. /\ Len(s) \in Nat /\ Len(Append(s, x)) = Len(s) + 1
      /\ \A i \in 1..Len(s) : Append(s, x)[i] = s[i]
      /\ Append(s, x)[Len(s) + 1] = x
      /\ \A i \in 1..Len(Append(s, x)) : i \in 1..Len(s) \/ i = Len(s) + 1
  OBVIOUS
<1>2. ASSUME NEW i \in 1..Len(Append(s, x)), NEW j \in 1..Len(Append(s, x)), i < j,
             Append(s, x)[i] \in A
      PROVE  Append(s, x)[j] \notin B
  <2>1. i \in 1..Len(s) /\ s[i] \in A
    BY <1>1, <1>2
  <2>2. CASE j \in 1..Len(s)
    BY <1>1, <1>2, <2>1, <2>2 DEF NoneAfter
  <2>3. CASE j = Len(s) + 1
    BY <1>1, <2>1, <2>3 DEF Has
  <2> QED BY <1>1, <2>2, <2>3
<1> QED BY <1>2 DEF NoneAfter

-----------------------------------------------------------------------------
(* The places of a worker that has a command or something to publish.      *)
Busy == Serving \cup {"post"}

(* What the manager's threads, but for a worker's run, leave as it is.     *)
LEMMA TurnsStay ==
  ASSUME RunInv, ui # "gone",
         UNCHANGED <<pending, queue, snap, posted, shown, run, confirmed, reported>>,
         \A w \in Worker : at'[w] = at[w] \/ (at[w] \notin Busy /\ at'[w] \notin Busy),
         \/ state' = state
         \/ state \notin Waiting \cup {"PROGRESS"} /\ state' \notin Waiting \cup {"PROGRESS"},
         Starting' => Starting \/ shown \notin Waiting
  PROVE  Turns' /\ ReportsFollowRuns'
<1>1. Books /\ Display /\ Order /\ ReportsFollowRuns
  BY DEF RunInv, Turns
<1>2. \A S \in SUBSET Busy : Place(S)' <=> Place(S)
  BY DEF Place
<1>3. /\ {"settle"} \in SUBSET Busy /\ {"start"} \in SUBSET Busy /\ {"finish", "settle"} \in SUBSET Busy
      /\ {"renderWork", "postWork", "work"} \in SUBSET Busy
  BY DEF Busy, Serving
<1>4. \A c : Queued(c)' <=> Queued(c)
  BY DEF Queued
<1>5. (Working' <=> Working) /\ (Finishing' <=> Finishing)
  BY <1>2, <1>3, <1>4 DEF Working, Finishing
<1>6. (Place({"settle"})' <=> Place({"settle"})) /\ (Place({"start"})' <=> Place({"start"}))
      /\ (Place({"finish", "settle"})' <=> Place({"finish", "settle"}))
  BY <1>2, <1>3
<1>7. \A w \in Worker : Publishing(w)' <=> Publishing(w)
  BY DEF Publishing, Busy, Serving
<1>8. Books'
  BY <1>1, <1>5, <1>6 DEF Books
<1>9. Display'
  BY <1>1, <1>4, <1>5, <1>6, <1>7 DEF Display
<1>10. Order'
  BY <1>1, <1>4, <1>5, <1>6 DEF Order, Finishing
<1>11. ReportsFollowRuns'
  BY <1>1 DEF ReportsFollowRuns
<1> QED BY <1>8, <1>9, <1>10, <1>11 DEF Turns

(* Steps of the Tk thread that only go on, and the stream.                 *)
LEMMA GoesOn ==
  ASSUME RunInv,
         \/ Select \/ OpenWindow \/ Exit \/ StopSet \/ StopJoin \/ StartReads \/ StartChecks
         \/ Toggle \/ Register \/ Activated \/ StartRefreshes
  PROVE  RunInv'
<1>1. ui # "gone" /\ WorkerInv /\ TypeOK /\ Steady /\ Unclicked /\ Turns /\ Books
  BY DEF RunInv, WorkerInv, Turns, Select, OpenWindow, Exit, StopSet, StopJoin, StartReads, StartChecks,
         Toggle, Register, Activated, StartRefreshes, Steady
<1>2. WorkerInv'
  BY <1>1, ModelStep, WidgetStep
<1>3. /\ UNCHANGED <<pending, queue, at, snap, posted, shown, run, confirmed, reported, thread>>
      /\ Starting' => Starting
  BY DEF Select, OpenWindow, Exit, StopSet, StopJoin, StartReads, StartChecks,
         Toggle, Register, Activated, StartRefreshes, Refresh, Starting, managerVars, workerVars,
         widgetVars, history
<1>4. \/ state' = state
      \/ state \notin Waiting \cup {"PROGRESS"} /\ state' \notin Waiting \cup {"PROGRESS"}
  BY DEF Select, OpenWindow, Exit, StopSet, StopJoin, StartReads, StartChecks,
         Toggle, Register, Activated, StartRefreshes, Refresh, IdleState, managerVars, Waiting
<1>5. Turns' /\ ReportsFollowRuns'
  BY <1>1, <1>3, <1>4, TurnsStay
<1>6. Steady'
  <2>1. UNCHANGED <<run, thread, at, queue>>
    BY <1>3
  <2>2. (\A S : Place(S)' <=> Place(S)) /\ (\A c : Queued(c)' <=> Queued(c))
    BY <2>1 DEF Place, Queued
  <2>3. CASE Select \/ OpenWindow \/ Exit
    BY <1>1, <2>1, <2>2, <2>3 DEF Select, OpenWindow, Exit, Steady, Unclicked, managerVars, widgetVars
  <2>4. CASE StopSet \/ StopJoin
    BY <1>1, <2>1, <2>2, <2>4 DEF StopSet, StopJoin, Steady, Unclicked, managerVars, widgetVars
  <2>5. CASE StartReads \/ StartChecks \/ Toggle \/ StartRefreshes
    BY <1>1, <2>1, <2>2, <2>5 DEF StartReads, StartChecks, Toggle, StartRefreshes, Steady, Unclicked,
       managerVars, widgetVars
  <2>6. CASE Register \/ Activated
    BY <1>1, <2>1, <2>2, <2>6 DEF Register, Activated, Steady, Unclicked, widgetVars
  <2> QED BY <2>3, <2>4, <2>5, <2>6
<1>7. TypeOK'
  <2>0. \A t \in Worker \cup {Tk} : saw[t] \in BOOLEAN
    BY <1>1 DEF TypeOK
  <2>1. /\ state' \in State /\ ready' \in BOOLEAN /\ connected' \in BOOLEAN /\ leaving' \in BOOLEAN
        /\ active' \in BOOLEAN /\ bound' \in BOOLEAN /\ stopEvent' \in BOOLEAN
    <3>1. CASE Select \/ OpenWindow \/ Exit \/ StopSet \/ StopJoin
      BY <1>1, <3>1 DEF TypeOK, Select, OpenWindow, Exit, StopSet, StopJoin, managerVars, widgetVars
    <3>2. CASE StartReads \/ StartChecks
      BY <1>1, <3>2 DEF TypeOK, StartReads, StartChecks, managerVars, widgetVars
    <3>3. CASE Toggle
      <4>1. connected' \in BOOLEAN
        BY <3>3 DEF Toggle
      <4> QED BY <1>1, <3>3, <4>1 DEF TypeOK, Toggle, managerVars, widgetVars
    <3>4. CASE Register
      BY <1>1, <3>4 DEF TypeOK, Register, managerVars, widgetVars, State
    <3>5. CASE Activated
      <4>1. ready' \in BOOLEAN /\ connected' \in BOOLEAN
        BY <1>1, <3>5 DEF TypeOK, Activated
      <4>2. state' \in State
        BY <1>1, <3>5 DEF TypeOK, Activated, IdleState, State
      <4> QED BY <1>1, <3>5, <4>1, <4>2 DEF TypeOK, Activated, widgetVars
    <3>6. CASE StartRefreshes
      <4>1. ready' \in BOOLEAN
        BY <1>1, <2>0, <3>6 DEF StartRefreshes, Refresh
      <4>2. state' \in State
        BY <1>1, <3>6 DEF TypeOK, StartRefreshes, Refresh, IdleState, State
      <4> QED BY <1>1, <3>6, <4>1, <4>2 DEF TypeOK, StartRefreshes, widgetVars
    <3> QED BY <3>1, <3>2, <3>3, <3>4, <3>5, <3>6
  <2>2. saw' \in [Worker \cup {Tk} -> BOOLEAN]
    BY <1>1 DEF TypeOK, Select, OpenWindow, Exit, StopSet, StopJoin, StartReads, StartChecks,
       Toggle, Register, Activated, StartRefreshes, Refresh, workerVars, Tk
  <2>3. selects' \in 0..MaxSelects /\ clicks' \in 0..MaxClicks /\ toggles' \in 0..MaxToggles
    BY <1>1, ProvisionAssumption DEF TypeOK, Select, OpenWindow, Exit, StopSet, StopJoin, StartReads,
       StartChecks, Toggle, Register, Activated, StartRefreshes, bounds
  <2>4. ui' \in {"idle", "stop", "set", "join", "joined", "register", "activate",
             "activated", "read", "refresh", "check", "put", "gone"}
    BY <1>2 DEF WorkerInv, ManagerTypes
  <2> QED BY <1>1, <1>3, <2>1, <2>2, <2>3, <2>4 DEF TypeOK
<1> QED BY <1>2, <1>5, <1>6, <1>7 DEF RunInv

(* STOP is queued while nothing else is, or at the end.                    *)
LEMMA StopTurn == RunInv /\ Stop => RunInv'
<1> SUFFICES ASSUME RunInv, Stop PROVE RunInv' OBVIOUS
<1>1. /\ ui = "stop" /\ ui' = "set" /\ queue' = Append(queue, "STOP")
      /\ UNCHANGED <<active, connected, leaving, state, ready, pending, stopEvent, thread, at, saw,
                     snap, bound, posted, shown, run, confirmed, reported, selects, clicks, toggles>>
  BY DEF Stop, workerVars, widgetVars, history, bounds
<1>2. WorkerInv /\ TypeOK /\ Steady /\ Books /\ Display /\ Order /\ ReportsFollowRuns
  BY <1>1 DEF RunInv, Turns
<1>3. WorkerInv'
  BY <1>2, ModelStep
<1>4. queue \in Seq(Command) /\ "STOP" \in Command
  BY <1>2 DEF TypeOK, Command
<1>5. /\ queue' \in Seq(Command)
      /\ Queued("START")' <=> Queued("START")
      /\ Queued("FINISH")' <=> Queued("FINISH")
  BY <1>1, <1>4, AppendHas DEF Queued
<1>6. /\ NoneAfter(queue, {"START"}, {"FINISH"}) => NoneAfter(queue', {"START"}, {"FINISH"})
      /\ NoneAfter(queue, {"FINISH"}, {"START"}) => NoneAfter(queue', {"FINISH"}, {"START"})
  BY <1>1, <1>4, AppendNoneAfter
<1>7. \A S : Place(S)' <=> Place(S)
  BY <1>1 DEF Place
<1>8. (Working' <=> Working) /\ (Finishing' <=> Finishing) /\ ~Starting'
  BY <1>1, <1>5, <1>7 DEF Working, Finishing, Starting
<1>9. Books'
  BY <1>1, <1>2, <1>7, <1>8 DEF Books
<1>10. Display'
  BY <1>1, <1>2, <1>5, <1>7, <1>8 DEF Display, Publishing
<1>11. Order'
  BY <1>1, <1>2, <1>5, <1>6, <1>7, <1>8 DEF Order
<1>12. Steady'
  <2>1. CASE leaving
    BY <1>1, <1>2, <1>7, <2>1 DEF Steady
  <2>2. CASE ~leaving
    <3>1. ~bound
      BY <1>1, <1>2, <2>2 DEF WorkerInv, Unclicked
    <3>2. ~(run > 0) /\ ~Place(Serving)
      BY <1>2, <3>1 DEF Steady, WorkerInv, Unclicked, Place
    <3>3. \A i \in 1..Len(queue') : queue'[i] = "STOP"
      BY <1>1, <1>3, <3>1 DEF WorkerInv, Unclicked
    <3>4. NoneAfter(queue', {"START", "FINISH"}, {"STOP"})
      BY <3>3 DEF NoneAfter
    <3> QED BY <1>1, <1>2, <1>7, <3>1, <3>2, <3>4 DEF Steady
  <2> QED BY <2>1, <2>2
<1>13. TypeOK'
  BY <1>1, <1>2, <1>5 DEF TypeOK
<1>14. ReportsFollowRuns'
  BY <1>1, <1>2 DEF ReportsFollowRuns
<1> QED BY <1>3, <1>9, <1>10, <1>11, <1>12, <1>13, <1>14 DEF RunInv, Turns

(* What stop() forgets is nothing, but at the end.                         *)
LEMMA StopEndsTurn == RunInv /\ StopEnds => RunInv'
<1> SUFFICES ASSUME RunInv, StopEnds PROVE RunInv' OBVIOUS
<1>1. /\ ui = "joined" /\ ui' = (IF leaving THEN "gone" ELSE "register")
      /\ thread' = 0 /\ pending' = 0 /\ state' = "STOPPED" /\ connected' = FALSE /\ active' = FALSE
      /\ UNCHANGED <<leaving, ready, queue, stopEvent, at, saw, snap, bound, posted, shown, run,
                     confirmed, reported, selects, clicks, toggles>>
  BY DEF StopEnds, workerVars, widgetVars, history, bounds
<1>2. WorkerInv /\ TypeOK /\ Steady /\ Books /\ Display /\ Order /\ ReportsFollowRuns
  BY <1>1 DEF RunInv, Turns
<1>3. WorkerInv'
  BY <1>2, ModelStep
<1>4. TypeOK'
  <2>1. pending' \in 0..run' /\ thread' \in Worker \cup {0} /\ state' \in State
    BY <1>1, <1>2 DEF TypeOK, State
  <2>2. connected' \in BOOLEAN /\ active' \in BOOLEAN
    BY <1>1
  <2>3. ui' \in {"gone", "register"}
    BY <1>1
  <2> QED BY <1>1, <1>2, <2>1, <2>2, <2>3 DEF TypeOK
<1>5. ReportsFollowRuns'
  BY <1>1, <1>2 DEF ReportsFollowRuns
<1>6. (\A S : Place(S)' <=> Place(S)) /\ (\A c : Queued(c)' <=> Queued(c))
  BY <1>1 DEF Place, Queued
<1>7. CASE leaving
  <2>1. Steady'
    BY <1>1, <1>2, <1>6, <1>7 DEF Steady
  <2> QED BY <1>1, <1>3, <1>4, <1>5, <1>7, <2>1 DEF RunInv, Turns
<1>8. CASE ~leaving
  <2>1. ~bound /\ \A w \in Worker : at[w] = "dead"
    BY <1>1, <1>2, <1>8 DEF WorkerInv, Unclicked, Workers
  <2>2. run = 0 /\ pending = 0
    BY <1>2, <2>1 DEF Steady, TypeOK
  <2>3. ~Working /\ ~Working' /\ ~Place({"settle"}) /\ ~Place({"settle"})' /\ ~Starting'
    BY <1>1, <2>1 DEF Working, Place, Starting
  <2>4. Steady'
    BY <1>1, <1>2, <1>6, <1>8, <2>1, <2>2 DEF Steady
  <2>5. Books'
    BY <1>1, <1>2, <2>2, <2>3 DEF Books, Waiting
  <2>6. Display'
    BY <1>1, <1>2, <1>6, <2>2, <2>3 DEF Display, Publishing
  <2>7. Order'
    BY <1>1, <1>2, <1>6, <2>2, <2>3 DEF Order
  <2> QED BY <1>3, <1>4, <1>5, <2>4, <2>5, <2>6, <2>7 DEF RunInv, Turns
<1> QED BY <1>7, <1>8

(* A worker is started only where none is busy.                            *)
LEMMA EnsureTurn == RunInv /\ (Activate \/ ClickStart) => RunInv'
<1> SUFFICES ASSUME RunInv, Activate \/ ClickStart PROVE RunInv' OBVIOUS
<1>1. /\ ui \in {"activate", "idle"} /\ EnsureWorker
      /\ UNCHANGED <<active, connected, leaving, state, ready, pending, queue, saw, snap, bound,
                     posted, shown, run, confirmed, reported, selects, toggles>>
  BY DEF Activate, ClickStart, widgetVars, history, bounds
<1>2. WorkerInv /\ TypeOK /\ Steady
  BY DEF RunInv
<1>3. WorkerInv'
  BY <1>2, ModelStep, WidgetStep
<1>4. /\ ~leaving
      /\ \/ UNCHANGED <<at, thread, stopEvent>> /\ thread # 0 /\ at[thread] # "dead"
         \/ /\ ~(thread # 0 /\ at[thread] # "dead") /\ stopEvent' = FALSE
            /\ \A w \in Worker : at'[w] = at[w] \/ (at[w] = "dead" /\ at'[w] = "new")
  <2>1. ~leaving
    BY <1>1, <1>2 DEF WorkerInv, Unclicked
  <2>2. CASE thread # 0 /\ at[thread] # "dead"
    BY <1>1, <2>1, <2>2 DEF EnsureWorker
  <2>3. CASE ~(thread # 0 /\ at[thread] # "dead")
    <3> DEFINE w == CHOOSE v \in Worker : at[v] = "dead"
    <3>1. w \in Worker /\ at[w] = "dead"
      BY <1>1, <1>2, <2>3, ProvisionAssumption DEF WorkerInv, Workers, ManagerTypes
    <3>2. at' = [at EXCEPT ![w] = "new"] /\ stopEvent' = FALSE
      BY <1>1, <2>3 DEF EnsureWorker
    <3> HIDE DEF w
    <3> QED BY <1>2, <2>1, <2>3, <3>1, <3>2 DEF TypeOK
  <2> QED BY <2>2, <2>3
<1>5. CASE Activate
  <2>1. ui = "activate" /\ ui' = "activated" /\ UNCHANGED clicks /\ ~bound
    BY <1>2, <1>5 DEF Activate, WorkerInv, Unclicked, bounds
  <2>2. run = 0 /\ thread = 0
    BY <1>2, <2>1 DEF Steady, TypeOK
  <2>3. Turns' /\ ReportsFollowRuns'
    BY <1>1, <1>4, <2>1, TurnsStay DEF Starting, Busy, Serving
  <2>4. ~Place(Serving)' /\ NoneAfter(queue', {"START", "FINISH"}, {"STOP"})
    BY <1>1, <1>2, <1>3, <1>4, <2>1 DEF WorkerInv, Unclicked, Place, Steady
  <2>5. Steady'
    BY <1>1, <1>4, <2>1, <2>2, <2>4 DEF Steady
  <2>6. TypeOK'
    BY <1>1, <1>2, <1>3, <1>4, <2>1 DEF TypeOK, WorkerInv, ManagerTypes, Serving
  <2> QED BY <1>3, <2>3, <2>5, <2>6 DEF RunInv
<1>6. CASE ClickStart
  <2>1. /\ ui = "idle" /\ ui' = "read" /\ bound /\ shown \notin Waiting
        /\ clicks < MaxClicks /\ clicks' = clicks + 1
    BY <1>6 DEF ClickStart, CanStart, Waiting
  <2>2. Turns' /\ ReportsFollowRuns'
    BY <1>1, <1>4, <2>1, TurnsStay DEF Busy, Serving
  <2>3. Place(Serving)' => Place(Serving)
    BY <1>4 DEF Place, Serving
  <2>4. run > 0 => UNCHANGED <<at, thread, stopEvent>>
    BY <1>2, <1>4 DEF Steady
  <2>5. ~stopEvent'
    BY <1>2, <1>4, <2>1 DEF Steady
  <2>6. run > 0 => ~Place({"new"})' /\ thread' # 0 /\ at'[thread'] # "dead"
    BY <1>2, <1>4, <2>4 DEF Steady, Place
  <2>7. Steady'
    BY <1>1, <1>2, <1>4, <2>1, <2>3, <2>5, <2>6 DEF Steady, Queued
  <2>8. clicks' \in 0..MaxClicks
    BY <1>2, <2>1, ProvisionAssumption DEF TypeOK
  <2>9. stopEvent' \in BOOLEAN
    BY <1>2, <1>4 DEF TypeOK
  <2>10. TypeOK'
    BY <1>1, <1>2, <1>3, <2>1, <2>8, <2>9 DEF TypeOK, WorkerInv, ManagerTypes, Serving
  <2> QED BY <1>3, <2>2, <2>7, <2>10 DEF RunInv
<1> QED BY <1>5, <1>6

(* One more state is shown.                                                *)
LEMMA ShowTurn == RunInv /\ Show => RunInv'
<1> SUFFICES ASSUME RunInv, Show PROVE RunInv' OBVIOUS
<1>1. /\ ui = "idle" /\ posted # << >> /\ shown' = Head(posted) /\ posted' = Tail(posted)
      /\ UNCHANGED <<ui, active, connected, leaving, state, ready, pending, queue, stopEvent, thread,
                     at, saw, snap, bound, run, confirmed, reported, selects, clicks, toggles>>
  BY DEF Show, managerVars, workerVars, history, bounds
<1>2. WorkerInv /\ TypeOK /\ Steady /\ Books /\ Display /\ Order /\ ReportsFollowRuns
  BY <1>1 DEF RunInv, Turns
<1>3. WorkerInv'
  BY <1>2, WidgetStep
<1>4. posted \in Seq(State)
  BY <1>2 DEF TypeOK
<1>5. /\ shown' \in State /\ posted' \in Seq(State)
      /\ Has(posted, Waiting) <=> shown' \in Waiting \/ Has(posted', Waiting)
      /\ Has(posted, Other) <=> shown' \in Other \/ Has(posted', Other)
      /\ shown' \in Waiting <=> shown' \notin Other
  BY <1>1, <1>4, TailHas DEF Other
<1>6. /\ NoneAfter(posted, Other, Waiting) =>
           NoneAfter(posted', Other, Waiting) /\ (shown' \in Other => ~Has(posted', Waiting))
      /\ NoneAfter(posted, Waiting, Other) =>
           NoneAfter(posted', Waiting, Other) /\ (shown' \in Waiting => ~Has(posted', Other))
  BY <1>1, <1>4, TailNoneAfter
<1>7. (\A S : Place(S)' <=> Place(S)) /\ (\A c : Queued(c)' <=> Queued(c))
  BY <1>1 DEF Place, Queued
<1>8. (Working' <=> Working) /\ (Finishing' <=> Finishing) /\ ~Starting /\ ~Starting'
  BY <1>1, <1>7 DEF Working, Finishing, Starting
<1>9. Books' /\ ReportsFollowRuns'
  BY <1>1, <1>2, <1>7, <1>8 DEF Books, ReportsFollowRuns
<1>10. Display'
  BY <1>1, <1>2, <1>5, <1>6, <1>7, <1>8 DEF Display, Publishing
<1>11. Order'
  <2>1. pending # 0 /\ Finishing => shown' \in Waiting
    BY <1>2, <1>5 DEF Display, Order
  <2> QED BY <1>1, <1>2, <1>7, <1>8, <2>1 DEF Order
<1>12. Steady'
  BY <1>1, <1>2, <1>7 DEF Steady
<1>13. TypeOK'
  BY <1>1, <1>2, <1>5 DEF TypeOK
<1> QED BY <1>3, <1>9, <1>10, <1>11, <1>12, <1>13 DEF RunInv, Turns

(* START is queued, and FINISH if there is a pending result.               *)
LEMMA StartTurn == RunInv /\ StartQueued => RunInv'
<1> SUFFICES ASSUME RunInv, StartQueued PROVE RunInv' OBVIOUS
<1>1. /\ ui = "put" /\ ui' = "idle" /\ queue' = Append(queue, "START")
      /\ UNCHANGED <<active, connected, leaving, state, ready, pending, stopEvent, thread, at, saw,
                     snap, bound, posted, shown, run, confirmed, reported, selects, clicks, toggles>>
  BY DEF StartQueued, workerVars, widgetVars, history, bounds
<1>2. WorkerInv /\ TypeOK /\ Steady /\ Books /\ Display /\ Order /\ ReportsFollowRuns /\ Starting
  BY <1>1 DEF RunInv, Turns, Starting
<1>3. WorkerInv'
  BY <1>2, WidgetStep
<1>4. queue \in Seq(Command) /\ "START" \in Command
  BY <1>2 DEF TypeOK, Command
<1>5. /\ queue' \in Seq(Command)
      /\ Queued("STOP")' <=> Queued("STOP")
      /\ Queued("FINISH")' <=> Queued("FINISH")
  BY <1>1, <1>4, AppendHas DEF Queued
<1>6. /\ NoneAfter(queue, {"START"}, {"FINISH"}) => NoneAfter(queue', {"START"}, {"FINISH"})
      /\ NoneAfter(queue, {"START", "FINISH"}, {"STOP"}) => NoneAfter(queue', {"START", "FINISH"}, {"STOP"})
      /\ NoneAfter(queue, {"FINISH"}, {"START"}) /\ ~Queued("FINISH") =>
           NoneAfter(queue', {"FINISH"}, {"START"})
  BY <1>1, <1>4, AppendNoneAfter DEF Queued
<1>7. \A S : Place(S)' <=> Place(S)
  BY <1>1 DEF Place
<1>8. (Working' <=> Working) /\ (Finishing' <=> Finishing)
  BY <1>1, <1>5, <1>7 DEF Working, Finishing
<1>9. Books' /\ ReportsFollowRuns'
  BY <1>1, <1>2, <1>7, <1>8 DEF Books, ReportsFollowRuns
<1>10. Display'
  BY <1>1, <1>2, <1>7, <1>8 DEF Display, Publishing
<1>11. Order'
  <2>1. CASE pending = 0
    BY <1>1, <1>2, <1>5, <1>6, <1>7, <1>8, <2>1 DEF Order
  <2>2. CASE pending # 0
    <3>1. ~Finishing /\ ~Queued("FINISH") /\ ~Place({"finish", "settle"})
      BY <1>2, <2>2 DEF Order, Finishing
    <3> QED BY <1>1, <1>2, <1>6, <1>7, <1>8, <2>2, <3>1 DEF Order
  <2> QED BY <2>1, <2>2
<1>12. Steady'
  <2>1. bound /\ active
    BY <1>1, <1>2 DEF WorkerInv, Unclicked, Steady
  <2> QED BY <1>1, <1>2, <1>5, <1>6, <1>7, <2>1 DEF Steady
<1>13. TypeOK'
  BY <1>1, <1>2, <1>5 DEF TypeOK
<1> QED BY <1>3, <1>9, <1>10, <1>11, <1>12, <1>13 DEF RunInv, Turns

LEMMA FinishTurn == RunInv /\ ClickFinish => RunInv'
<1> SUFFICES ASSUME RunInv, ClickFinish PROVE RunInv' OBVIOUS
<1>1. /\ ui = "idle" /\ bound /\ shown \in Waiting /\ clicks < MaxClicks /\ clicks' = clicks + 1
      /\ UNCHANGED <<ui, active, connected, leaving, state, ready, pending, stopEvent, thread, at, saw,
                     snap, bound, posted, shown, run, reported, selects, toggles>>
  BY DEF ClickFinish, CanFinish, workerVars, widgetVars
<1>2. WorkerInv /\ TypeOK /\ Steady /\ Books /\ Display /\ Order /\ ReportsFollowRuns
  BY <1>1 DEF RunInv, Turns
<1>3. WorkerInv'
  BY <1>2, WidgetStep
<1>4. clicks' \in 0..MaxClicks
  BY <1>1, <1>2, ProvisionAssumption DEF TypeOK
<1>5. \A S : Place(S)' <=> Place(S)
  BY <1>1 DEF Place
<1>6. (Working' <=> Working) /\ ~Starting /\ ~Starting'
  BY <1>1, <1>5 DEF Working, Starting
<1>7. Books'
  BY <1>1, <1>2, <1>5, <1>6 DEF Books
<1>8. CASE state \notin Waiting
  <2>1. UNCHANGED <<queue, confirmed>>
    BY <1>8 DEF ClickFinish
  <2>2. Turns' /\ ReportsFollowRuns'
    BY <1>1, <1>6, <2>1, TurnsStay
  <2>3. \A c : Queued(c)' <=> Queued(c)
    BY <2>1 DEF Queued
  <2>4. Steady'
    BY <1>1, <1>2, <1>5, <2>1, <2>3 DEF Steady
  <2>5. TypeOK'
    BY <1>1, <1>2, <1>4, <2>1 DEF TypeOK
  <2> QED BY <1>3, <2>2, <2>4, <2>5 DEF RunInv
<1>9. CASE state \in Waiting
  <2>1. queue' = Append(queue, "FINISH") /\ confirmed' = confirmed \cup {run} /\ pending # 0 /\ pending = run
    BY <1>2, <1>9 DEF ClickFinish, Books
  <2>2. queue \in Seq(Command) /\ "FINISH" \in Command
    BY <1>2 DEF TypeOK, Command
  <2>3. /\ queue' \in Seq(Command)
        /\ Queued("STOP")' <=> Queued("STOP")
        /\ Queued("START")' <=> Queued("START")
    BY <2>1, <2>2, AppendHas DEF Queued
  <2>4. /\ NoneAfter(queue, {"START", "FINISH"}, {"STOP"}) => NoneAfter(queue', {"START", "FINISH"}, {"STOP"})
        /\ NoneAfter(queue, {"FINISH"}, {"START"}) => NoneAfter(queue', {"FINISH"}, {"START"})
    BY <2>1, <2>2, AppendNoneAfter
  <2>5. Display'
    BY <1>1, <1>2, <2>1 DEF Display, Publishing
  <2>6. Order'
    BY <1>1, <1>2, <1>5, <1>6, <2>1, <2>3, <2>4 DEF Order
  <2>7. Steady'
    BY <1>1, <1>2, <1>5, <2>3, <2>4 DEF Steady
  <2>8. confirmed' \subseteq 1..run
    BY <1>2, <2>1 DEF TypeOK
  <2>9. TypeOK'
    BY <1>1, <1>2, <1>4, <2>3, <2>8 DEF TypeOK
  <2>10. ReportsFollowRuns'
    BY <1>1, <1>2, <2>1 DEF ReportsFollowRuns
  <2> QED BY <1>3, <1>7, <2>5, <2>6, <2>7, <2>9, <2>10 DEF RunInv, Turns
<1> QED BY <1>8, <1>9

-----------------------------------------------------------------------------
(* A worker that moves is the only one.                                    *)
LEMMA Alone ==
  ASSUME RunInv, NEW w \in Worker, at[w] # "dead", NEW q, q # "new",
         at' = [at EXCEPT ![w] = q]
  PROVE  /\ \A S : "dead" \notin S => (Place(S) <=> at[w] \in S) /\ (Place(S)' <=> q \in S)
         /\ \A v \in Worker : v # w => at[v] = "dead"
         /\ at'[w] = q /\ ~Place({"new"})'
<1>1. at \in [Worker -> {"dead", "new", "render", "post", "loop", "get", "set"} \cup Serving]
      /\ \A v \in Worker : v # w => at[v] = "dead"
  BY DEF RunInv, WorkerInv, ManagerTypes, Workers
<1>2. at'[w] = q /\ \A v \in Worker : v # w => at'[v] = "dead"
  BY <1>1
<1> QED BY <1>1, <1>2 DEF Place

(* A worker's step neither ends the worker of a run nor finds a STOP after *)
(* a command.                                                              *)
LEMMA WorkerSteady ==
  ASSUME RunInv, NEW w \in Worker, WorkerStep(w)
  PROVE  WorkerInv' /\ Steady'
<1>1. /\ WorkerInv /\ TypeOK /\ Steady /\ ui # "gone"
      /\ UNCHANGED <<ui, active, connected, leaving, bound, stopEvent, thread>>
  BY DEF RunInv, WorkerStep, Begin, Render, Post, Loop, Get, Poll, Polled, Claim, Store,
         Finalize, Settle, Refresh, managerVars, widgetVars
<1>2. WorkerInv'
  BY <1>1, ServeStep
<1>3. PICK q : q = at'[w]
  OBVIOUS
<1>4. at[w] # "dead" /\ q # "new" /\ at' = [at EXCEPT ![w] = q]
  BY <1>1, <1>3 DEF TypeOK, WorkerStep, Begin, Render, Post, Loop, Get, Poll, Polled, Claim, Store,
     Finalize, Settle, Goto
<1>5. /\ Place(Serving) <=> at[w] \in Serving
      /\ Place(Serving)' <=> q \in Serving
      /\ ~Place({"new"})'
  BY <1>4, Alone DEF Serving
<1>6. thread = w
  BY <1>1, <1>4 DEF WorkerInv, Workers
<1>7. ASSUME q = "dead", ~leaving PROVE run = 0 /\ run' = run
  <2>1. ((at[w] = "loop" /\ stopEvent) \/ Queued("STOP")) /\ run' = run
    <3>1. CASE Loop(w)
      BY <1>1, <1>3, <1>7, <3>1 DEF Loop, Goto, TypeOK, history
    <3>2. CASE Get(w)
      <4>1. Head(queue) = "STOP" /\ queue # << >> /\ queue \in Seq(Command) /\ run' = run
        BY <1>1, <1>3, <1>7, <3>2 DEF Get, Goto, TypeOK, history
      <4> QED BY <4>1, TailHas DEF Queued
    <3> QED BY <1>1, <1>3, <1>7, <3>1, <3>2 DEF TypeOK, WorkerStep, Begin, Render, Post, Poll,
            Polled, Claim, Store, Finalize, Settle, Goto
  <2> QED BY <1>1, <1>7, <2>1 DEF Steady, WorkerInv, Unclicked, TypeOK
<1>8. /\ run' # run => run' > 0 /\ at[w] \in Serving
      /\ run' >= run
  BY <1>1 DEF TypeOK, WorkerStep, Begin, Render, Post, Loop, Get, Poll, Polled, Claim, Store,
     Finalize, Settle, Serving, history
<1>9. run' > 0 => bound
  BY <1>1, <1>5, <1>8 DEF Steady, WorkerInv, Unclicked
<1>10. run' > 0 /\ ~leaving => thread # 0 /\ at'[thread] # "dead"
  <2>1. w # 0
    BY ProvisionAssumption
  <2> QED BY <1>1, <1>3, <1>6, <1>7, <1>8, <2>1 DEF TypeOK
<1>11. ~leaving =>
         /\ NoneAfter(queue', {"START", "FINISH"}, {"STOP"})
         /\ run' > 0 \/ Place(Serving)' => ~Queued("STOP")'
  <2>1. CASE queue' = queue /\ ~Get(w)
    <3>1. q \in Serving => at[w] \in Serving
      BY <1>1, <1>3, <2>1 DEF TypeOK, WorkerStep, Begin, Render, Post, Loop, Poll, Polled, Claim, Store,
         Finalize, Settle, Goto, Serving
    <3> QED BY <1>1, <1>5, <1>8, <2>1, <3>1 DEF Steady, Queued, TypeOK
  <2>2. CASE Get(w)
    <3>1. /\ queue \in Seq(Command) /\ queue # << >> /\ queue' = Tail(queue) /\ run' = run
          /\ q \in Serving => Head(queue) \in {"START", "FINISH"}
      BY <1>1, <1>3, <2>2 DEF Get, Goto, TypeOK, Serving, history
    <3>2. Queued("STOP")' => Queued("STOP")
      BY <3>1, TailHas DEF Queued
    <3>3. NoneAfter(queue, {"START", "FINISH"}, {"STOP"}) =>
            /\ NoneAfter(queue', {"START", "FINISH"}, {"STOP"})
            /\ Head(queue) \in {"START", "FINISH"} => ~Queued("STOP")'
      BY <3>1, TailNoneAfter DEF Queued
    <3> QED BY <1>1, <1>5, <3>1, <3>2, <3>3 DEF Steady
  <2> QED BY <2>1, <2>2 DEF WorkerStep, Begin, Render, Post, Loop, Poll, Polled, Claim, Store,
          Finalize, Settle, managerVars
<1>12. Steady'
  BY <1>1, <1>5, <1>9, <1>10, <1>11 DEF Steady
<1> QED BY <1>2, <1>12

(* The polling loop leaves turns as they are.                              *)
LEMMA LoopTurn ==
  ASSUME RunInv, NEW w \in Worker, WorkerStep(w), Begin(w) \/ Loop(w) \/ Poll(w) \/ Polled(w)
  PROVE  RunInv'
<1>1. /\ WorkerInv /\ TypeOK /\ Steady /\ Books /\ ui # "gone" /\ WorkerInv' /\ Steady'
      /\ UNCHANGED <<ui, active, connected, leaving, selects, clicks, toggles>>
  BY WorkerSteady DEF RunInv, Turns, WorkerStep, bounds
<1>2. /\ UNCHANGED <<pending, queue, stopEvent, thread, snap, bound, posted, shown, run, confirmed, reported>>
      /\ \E q \in {"render", "loop", "dead", "get", "set"} : at' = [at EXCEPT ![w] = q]
      /\ at[w] \in {"new", "loop", "get", "set"}
  BY <1>1 DEF Begin, Loop, Poll, Polled, Refresh, Goto, managerVars, widgetVars, history
<1>3. \A v \in Worker : at'[v] = at[v] \/ (at[v] \notin Busy /\ at'[v] \notin Busy)
  BY <1>1, <1>2 DEF TypeOK, Busy, Serving
<1>4. \/ state' = state
      \/ state \notin Waiting \cup {"PROGRESS"} /\ state' \notin Waiting \cup {"PROGRESS"}
  <2>1. CASE Begin(w)
    <3>1. at[w] = "new" /\ state' \in {"IDLE", "READY"}
      BY <2>1 DEF Begin, IdleState
    <3>2. pending = 0
      BY <1>1, <3>1 DEF Steady, Books, TypeOK, Place
    <3>3. ~Working
      BY <1>1, <3>1 DEF WorkerInv, Workers, Working, Place
    <3> QED BY <1>1, <3>1, <3>2, <3>3 DEF Books, Waiting
  <2>2. CASE Loop(w) \/ Poll(w)
    BY <2>2 DEF Loop, Poll, managerVars
  <2>3. CASE Polled(w)
    BY <2>3 DEF Polled, Refresh, IdleState, Waiting
  <2> QED BY <2>1, <2>2, <2>3
<1>5. Turns' /\ ReportsFollowRuns'
  <2>1. Starting' => Starting
    BY <1>1 DEF Starting
  <2> QED BY <1>1, <1>2, <1>3, <1>4, <2>1, TurnsStay
<1>6. TypeOK'
  <2>1. \A t \in Worker \cup {Tk} : saw[t] \in BOOLEAN
    BY <1>1 DEF TypeOK
  <2>2. ready' \in BOOLEAN
    BY <1>1, <2>1 DEF TypeOK, Begin, Loop, Poll, Polled, Refresh, managerVars
  <2>3. state' \in State
    BY <1>1 DEF TypeOK, Begin, Loop, Poll, Polled, Refresh, IdleState, State, managerVars
  <2>4. saw' \in [Worker \cup {Tk} -> BOOLEAN]
    BY <1>1 DEF TypeOK, Begin, Loop, Poll, Polled, Refresh
  <2>5. at' \in [Worker -> {"dead", "new", "render", "post", "loop", "get", "set", "start", "renderWork",
                            "postWork", "work", "finish", "settle"}]
    BY <1>1, <1>2 DEF TypeOK
  <2> QED BY <1>1, <1>2, <2>2, <2>3, <2>4, <2>5 DEF TypeOK
<1> QED BY <1>1, <1>5, <1>6 DEF RunInv

(* What is about to be published is what the manager's state is, ...       *)
LEMMA RenderTurn ==
  ASSUME RunInv, NEW w \in Worker, WorkerStep(w), Render(w)
  PROVE  RunInv'
<1>1. /\ WorkerInv /\ TypeOK /\ Books /\ Display /\ Order /\ ReportsFollowRuns
      /\ WorkerInv' /\ Steady'
      /\ UNCHANGED <<ui, active, connected, leaving, selects, clicks, toggles, state, ready, pending, queue,
                     stopEvent, thread, saw, bound, posted, shown, run, confirmed, reported>>
  BY WorkerSteady DEF RunInv, Turns, WorkerStep, bounds, Render, managerVars, widgetVars, history
<1>2. PICK q : q = at'[w]
  OBVIOUS
<1>3. /\ at' = [at EXCEPT ![w] = q] /\ snap' = [snap EXCEPT ![w] = state]
      /\ \/ at[w] = "render" /\ q = "post"
         \/ at[w] = "renderWork" /\ q = "postWork"
  BY <1>1, <1>2 DEF Render, Goto, TypeOK
<1>4. /\ \A S : "dead" \notin S => (Place(S) <=> at[w] \in S) /\ (Place(S)' <=> q \in S)
      /\ \A v \in Worker : v # w => at[v] = "dead"
      /\ at'[w] = q
  BY <1>3, Alone
<1>5. (Place({"settle"})' <=> Place({"settle"})) /\ (Place({"start"})' <=> Place({"start"}))
      /\ (Place({"finish", "settle"})' <=> Place({"finish", "settle"}))
      /\ (Working' <=> Working)
  BY <1>3, <1>4 DEF Working
<1>6. (\A c : Queued(c)' <=> Queued(c)) /\ (Finishing' <=> Finishing) /\ (Starting' <=> Starting)
  BY <1>1, <1>5 DEF Queued, Finishing, Starting
<1>7. \A v \in Worker : Publishing(v)' => v = w /\ snap'[v] = state
  BY <1>1, <1>3, <1>4 DEF Publishing, TypeOK
<1>8. Books' /\ ReportsFollowRuns'
  BY <1>1, <1>5 DEF Books, ReportsFollowRuns
<1>9. Display'
  BY <1>1, <1>5, <1>6, <1>7 DEF Display, Books
<1>10. Order'
  BY <1>1, <1>5, <1>6 DEF Order
<1>11. TypeOK'
  BY <1>1, <1>3 DEF TypeOK
<1> QED BY <1>1, <1>8, <1>9, <1>10, <1>11 DEF RunInv, Turns

(* ... and nothing is shown after what came after it.                      *)
LEMMA PostTurn ==
  ASSUME RunInv, NEW w \in Worker, WorkerStep(w), Post(w)
  PROVE  RunInv'
<1>1. /\ WorkerInv /\ TypeOK /\ Books /\ Display /\ Order /\ ReportsFollowRuns
      /\ WorkerInv' /\ Steady'
      /\ UNCHANGED <<ui, active, connected, leaving, selects, clicks, toggles, state, ready, pending, queue,
                     stopEvent, thread, saw, bound, shown, run, confirmed, reported>>
  BY WorkerSteady DEF RunInv, Turns, WorkerStep, bounds, Post, managerVars, history
<1>2. PICK q : q = at'[w]
  OBVIOUS
<1>3. PICK x : x = snap[w]
  OBVIOUS
<1>4. /\ at' = [at EXCEPT ![w] = q] /\ snap' = [snap EXCEPT ![w] = "STOPPED"]
      /\ \/ at[w] = "post" /\ q = "loop"
         \/ at[w] = "postWork" /\ q = "work"
      /\ posted' = posted \/ posted' = Append(posted, x)
      /\ x \in State /\ posted \in Seq(State)
  BY <1>1, <1>2, <1>3 DEF Post, Goto, TypeOK
<1>5. /\ \A S : "dead" \notin S => (Place(S) <=> at[w] \in S) /\ (Place(S)' <=> q \in S)
      /\ \A v \in Worker : v # w => at[v] = "dead"
      /\ at'[w] = q
  BY <1>4, Alone
<1>6. (Place({"settle"})' <=> Place({"settle"})) /\ (Place({"start"})' <=> Place({"start"}))
      /\ (Place({"finish", "settle"})' <=> Place({"finish", "settle"}))
      /\ (Working' <=> Working)
  BY <1>4, <1>5 DEF Working
<1>7. (\A c : Queued(c)' <=> Queued(c)) /\ (Finishing' <=> Finishing) /\ (Starting' <=> Starting)
  BY <1>1, <1>6 DEF Queued, Finishing, Starting
<1>8. Publishing(w) /\ \A v \in Worker : ~Publishing(v)'
  BY <1>1, <1>4, <1>5 DEF Publishing, TypeOK
<1>9. x \in Waiting <=> x \notin Other
  BY <1>4 DEF Other
<1>10. /\ posted' \in Seq(State)
       /\ Has(posted', Waiting) => Has(posted, Waiting) \/ x \in Waiting
       /\ Has(posted', Other) => Has(posted, Other) \/ x \in Other
  <2>1. CASE posted' = posted
    BY <1>4, <2>1
  <2>2. CASE posted' = Append(posted, x)
    <3>1. Append(posted, x) \in Seq(State)
      BY <1>4
    <3>2. \A A : Has(Append(posted, x), A) <=> Has(posted, A) \/ x \in A
      BY <1>4, AppendHas
    <3> QED BY <2>2, <3>1, <3>2
  <2> QED BY <1>4, <2>1, <2>2
<1>11. /\ NoneAfter(posted, Other, Waiting) /\ (x \in Waiting => ~Has(posted, Other)) =>
            NoneAfter(posted', Other, Waiting)
       /\ NoneAfter(posted, Waiting, Other) /\ (x \in Other => ~Has(posted, Waiting)) =>
            NoneAfter(posted', Waiting, Other)
  BY <1>4, AppendNoneAfter
<1>12. Books' /\ ReportsFollowRuns'
  BY <1>1, <1>6 DEF Books, ReportsFollowRuns
<1>13. Display'
  <2>1. CASE pending = 0
    BY <1>1, <1>3, <1>6, <1>7, <1>8, <1>9, <1>10, <1>11, <2>1 DEF Display
  <2>2. CASE pending # 0
    BY <1>1, <1>3, <1>6, <1>7, <1>8, <1>9, <1>10, <1>11, <2>2 DEF Display
  <2> QED BY <2>1, <2>2
<1>14. Order'
  BY <1>1, <1>6, <1>7 DEF Order
<1>15. TypeOK'
  <2>1. at' \in [Worker -> {"dead", "new", "render", "post", "loop", "get", "set", "start", "renderWork",
                            "postWork", "work", "finish", "settle"}]
        /\ snap' \in [Worker -> State]
    BY <1>1, <1>4 DEF TypeOK, State
  <2> QED BY <1>1, <1>10, <2>1 DEF TypeOK
<1> QED BY <1>1, <1>12, <1>13, <1>14, <1>15 DEF RunInv, Turns

(* A command is taken from the queue.                                      *)
LEMMA GetTurn ==
  ASSUME RunInv, NEW w \in Worker, WorkerStep(w), Get(w)
  PROVE  RunInv'
<1>1. /\ WorkerInv /\ TypeOK /\ Books /\ Display /\ Order /\ ReportsFollowRuns
      /\ WorkerInv' /\ Steady'
      /\ UNCHANGED <<ui, active, connected, leaving, selects, clicks, toggles, state, ready, pending,
                     stopEvent, thread, saw, snap, bound, posted, shown, run, confirmed, reported>>
  BY WorkerSteady DEF RunInv, Turns, WorkerStep, bounds, Get, widgetVars, history
<1>2. PICK q : q = at'[w]
  OBVIOUS
<1>3. /\ at' = [at EXCEPT ![w] = q] /\ at[w] = "get"
      /\ queue \in Seq(Command) /\ queue # << >> /\ queue' = Tail(queue)
      /\ \/ Head(queue) = "START" /\ q = "start"
         \/ Head(queue) = "FINISH" /\ q = "finish"
         \/ Head(queue) = "STOP" /\ q = "dead"
  BY <1>1, <1>2 DEF Get, Goto, TypeOK
<1>4. /\ \A S : "dead" \notin S => (Place(S) <=> at[w] \in S) /\ (Place(S)' <=> q \in S)
      /\ \A v \in Worker : v # w => at[v] = "dead"
      /\ at'[w] = q
  BY <1>3, Alone
<1>5. /\ ~Place({"settle"}) /\ ~Place({"settle"})' /\ ~Working /\ ~Working'
      /\ ~Place({"start"}) /\ ~Place({"finish", "settle"})
      /\ Place({"start"})' <=> q = "start"
      /\ Place({"finish", "settle"})' <=> q = "finish"
  BY <1>3, <1>4 DEF Working
<1>6. /\ queue' \in Seq(Command)
      /\ Queued("START") <=> Head(queue) = "START" \/ Queued("START")'
      /\ Queued("FINISH") <=> Head(queue) = "FINISH" \/ Queued("FINISH")'
  BY <1>3, TailHas DEF Queued
<1>7. /\ NoneAfter(queue, {"START"}, {"FINISH"}) =>
           NoneAfter(queue', {"START"}, {"FINISH"}) /\ (Head(queue) = "START" => ~Queued("FINISH")')
      /\ NoneAfter(queue, {"FINISH"}, {"START"}) =>
           NoneAfter(queue', {"FINISH"}, {"START"}) /\ (Head(queue) = "FINISH" => ~Queued("START")')
  BY <1>3, TailNoneAfter DEF Queued
<1>8. (Starting' <=> Starting) /\ (Finishing' => Finishing)
  BY <1>1, <1>3, <1>5, <1>6 DEF Starting, Finishing
<1>9. Books' /\ ReportsFollowRuns'
  BY <1>1, <1>5 DEF Books, ReportsFollowRuns
<1>10. \A v \in Worker : ~Publishing(v)'
  BY <1>1, <1>3, <1>4 DEF Publishing, TypeOK
<1>11. Display'
  BY <1>1, <1>3, <1>5, <1>6, <1>8, <1>10 DEF Display
<1>12. Order'
  <2>1. CASE pending = 0
    BY <1>1, <1>3, <1>5, <1>6, <1>7, <2>1 DEF Order
  <2>2. CASE pending # 0
    BY <1>1, <1>3, <1>5, <1>6, <1>7, <1>8, <2>2 DEF Order
  <2> QED BY <2>1, <2>2
<1>13. TypeOK'
  <2>1. at' \in [Worker -> {"dead", "new", "render", "post", "loop", "get", "set", "start", "renderWork",
                            "postWork", "work", "finish", "settle"}]
    BY <1>1, <1>3 DEF TypeOK
  <2> QED BY <1>1, <1>6, <2>1 DEF TypeOK
<1> QED BY <1>1, <1>9, <1>11, <1>12, <1>13 DEF RunInv, Turns

LEMMA SeqGrows ==
  ASSUME NEW m \in Nat, NEW n \in Nat, m <= n, NEW s \in Seq(1..m)
  PROVE  s \in Seq(1..n)
<1>1. s \in [1..Len(s) -> 1..m] /\ Len(s) \in Nat
  OBVIOUS
<1>2. s \in [1..Len(s) -> 1..n]
  BY <1>1
<1> QED BY <1>1, <1>2

(* A run starts over a reported one only, ...                              *)
LEMMA ClaimTurn ==
  ASSUME RunInv, NEW w \in Worker, WorkerStep(w), Claim(w)
  PROVE  RunInv'
<1>1. /\ WorkerInv /\ TypeOK /\ Books /\ Display /\ Order /\ ReportsFollowRuns
      /\ WorkerInv' /\ Steady' /\ at[w] = "start"
      /\ UNCHANGED <<ui, active, connected, leaving, selects, clicks, toggles, ready, pending, queue,
                     stopEvent, thread, saw, snap, bound, posted, shown, confirmed, reported>>
  BY WorkerSteady DEF RunInv, Turns, WorkerStep, bounds, Claim, widgetVars
<1>2. PICK q : q = at'[w]
  OBVIOUS
<1>3. /\ at' = [at EXCEPT ![w] = q]
      /\ \/ state = "READY" /\ state' = "PROGRESS" /\ run' = run + 1 /\ q = "renderWork"
         \/ state # "READY" /\ UNCHANGED <<state, run>> /\ q = "loop"
  BY <1>1, <1>2 DEF Claim, Goto, TypeOK
<1>4. /\ \A S : "dead" \notin S => (Place(S) <=> at[w] \in S) /\ (Place(S)' <=> q \in S)
      /\ \A v \in Worker : v # w => at[v] = "dead"
      /\ at'[w] = q
  BY <1>1, <1>3, Alone
<1>5. /\ ~Place({"settle"}) /\ ~Place({"settle"})' /\ ~Working /\ (Working' <=> q = "renderWork")
      /\ Place({"start"}) /\ ~Place({"start"})'
      /\ ~Place({"finish", "settle"}) /\ ~Place({"finish", "settle"})'
  BY <1>1, <1>3, <1>4 DEF Working
<1>6. (\A c : Queued(c)' <=> Queued(c)) /\ (Starting' <=> Starting) /\ (Finishing' <=> Finishing)
  BY <1>1, <1>5 DEF Queued, Starting, Finishing
<1>7. \A v \in Worker : ~Publishing(v)'
  BY <1>1, <1>3, <1>4 DEF Publishing, TypeOK
<1>8. run \in Nat /\ pending \in 0..run /\ Len(reported) \in Nat
  BY <1>1 DEF TypeOK
<1>9. CASE state = "READY"
  <2>1. pending = 0 /\ Len(reported) = run
    BY <1>1, <1>5, <1>9 DEF Books, Waiting
  <2>2. Books'
    BY <1>1, <1>3, <1>5, <1>8, <1>9, <2>1 DEF Books, Waiting
  <2>3. Display'
    BY <1>1, <1>5, <1>6, <1>7, <2>1 DEF Display
  <2>4. Order'
    BY <1>1, <1>5, <1>6, <2>1 DEF Order
  <2>5. ReportsFollowRuns'
    BY <1>1, <1>3, <1>8, <1>9, <2>1 DEF ReportsFollowRuns
  <2>6. TypeOK'
    <3>1. run' \in Nat /\ run <= run' /\ pending' \in 0..run' /\ confirmed' \subseteq 1..run'
      BY <1>1, <1>3, <1>8, <1>9, <2>1 DEF TypeOK
    <3>2. reported \in Seq(1..run')
      BY <1>1, <1>8, <3>1, SeqGrows DEF TypeOK
    <3>3. state' \in State
      BY <1>3, <1>9 DEF State
    <3>4. at' \in [Worker -> {"dead", "new", "render", "post", "loop", "get", "set", "start", "renderWork",
                              "postWork", "work", "finish", "settle"}]
      BY <1>1, <1>3 DEF TypeOK
    <3> QED BY <1>1, <3>1, <3>2, <3>3, <3>4 DEF TypeOK
  <2> QED BY <1>1, <2>2, <2>3, <2>4, <2>5, <2>6 DEF RunInv, Turns
<1>10. CASE state # "READY"
  <2>1. UNCHANGED <<state, run>> /\ q = "loop"
    BY <1>3, <1>10
  <2>2. Books' /\ ReportsFollowRuns'
    BY <1>1, <1>5, <2>1 DEF Books, ReportsFollowRuns
  <2>3. Display'
    BY <1>1, <1>5, <1>6, <1>7, <2>1 DEF Display
  <2>4. Order'
    BY <1>1, <1>5, <1>6, <2>1 DEF Order
  <2>5. TypeOK'
    <3>1. at' \in [Worker -> {"dead", "new", "render", "post", "loop", "get", "set", "start", "renderWork",
                              "postWork", "work", "finish", "settle"}]
      BY <1>1, <1>3, <2>1 DEF TypeOK
    <3> QED BY <1>1, <2>1, <3>1 DEF TypeOK
  <2> QED BY <1>1, <2>2, <2>3, <2>4, <2>5 DEF RunInv, Turns
<1> QED BY <1>9, <1>10

(* ... its result is pending while START is shown no longer, ...           *)
LEMMA StoreTurn ==
  ASSUME RunInv, NEW w \in Worker, WorkerStep(w), Store(w)
  PROVE  RunInv'
<1>1. /\ WorkerInv /\ TypeOK /\ Books /\ Display /\ Order /\ ReportsFollowRuns
      /\ WorkerInv' /\ Steady' /\ at[w] = "work"
      /\ pending' = run /\ state' \in Waiting
      /\ UNCHANGED <<ui, active, connected, leaving, selects, clicks, toggles, ready, queue,
                     stopEvent, thread, saw, snap, bound, posted, shown, run, confirmed, reported>>
  BY WorkerSteady DEF RunInv, Turns, WorkerStep, bounds, Store, widgetVars, history
<1>2. at' = [at EXCEPT ![w] = "render"]
  BY DEF Store, Goto
<1>3. /\ \A S : "dead" \notin S => (Place(S) <=> at[w] \in S) /\ (Place(S)' <=> "render" \in S)
      /\ \A v \in Worker : v # w => at[v] = "dead"
      /\ at'[w] = "render"
  BY <1>1, <1>2, Alone
<1>4. /\ Working /\ ~Working' /\ ~Place({"settle"})' /\ ~Place({"finish", "settle"})'
  BY <1>1, <1>3 DEF Working
<1>5. \A v \in Worker : ~Publishing(v)'
  BY <1>1, <1>2, <1>3 DEF Publishing, TypeOK
<1>6. /\ run \in Nat /\ Len(reported) \in Nat /\ Len(reported) = run - 1 /\ pending = 0
      /\ run > 0
  <2>1. run \in Nat /\ Len(reported) \in Nat
    BY <1>1 DEF TypeOK
  <2>2. Len(reported) = run - 1 /\ pending = 0
    BY <1>1, <1>4 DEF Books, Waiting
  <2> QED BY <2>1, <2>2
<1>7. Books'
  BY <1>1, <1>4, <1>6 DEF Books, Waiting
<1>8. Display'
  <2>1. ~Has(posted, Waiting) /\ shown \notin Waiting
    BY <1>1, <1>4, <1>6 DEF Display
  <2>2. NoneAfter(posted, Waiting, Other)
    BY <2>1 DEF Has, NoneAfter
  <2> QED BY <1>1, <1>5, <1>6, <2>1, <2>2 DEF Display
<1>9. Order'
  <2>1. ~Queued("FINISH")
    BY <1>1, <1>4, <1>6 DEF Order
  <2>2. NoneAfter(queue, {"FINISH"}, {"START"}) /\ ~Queued("FINISH")'
    BY <1>1, <2>1 DEF Queued, Has, NoneAfter
  <2> QED BY <1>1, <1>4, <1>6, <2>2 DEF Order, Finishing
<1>10. TypeOK'
  <2>1. at' \in [Worker -> {"dead", "new", "render", "post", "loop", "get", "set", "start", "renderWork",
                            "postWork", "work", "finish", "settle"}]
    BY <1>1, <1>2 DEF TypeOK
  <2>2. state' \in State /\ pending' \in 0..run
    BY <1>1, <1>6 DEF State, Waiting
  <2> QED BY <1>1, <2>1, <2>2 DEF TypeOK
<1>11. ReportsFollowRuns'
  BY <1>1 DEF ReportsFollowRuns
<1> QED BY <1>1, <1>7, <1>8, <1>9, <1>10, <1>11 DEF RunInv, Turns

(* ... it is reported when confirmed ...                                   *)
LEMMA FinalizeTurn ==
  ASSUME RunInv, NEW w \in Worker, WorkerStep(w), Finalize(w)
  PROVE  RunInv'
<1>1. /\ WorkerInv /\ TypeOK /\ Books /\ Display /\ Order /\ ReportsFollowRuns
      /\ WorkerInv' /\ Steady' /\ at[w] = "finish"
      /\ UNCHANGED <<ui, active, connected, leaving, selects, clicks, toggles, state, ready, pending, queue,
                     stopEvent, thread, saw, snap, bound, posted, shown, run, confirmed>>
  BY WorkerSteady DEF RunInv, Turns, WorkerStep, bounds, Finalize, widgetVars, managerVars
<1>2. PICK q : q = at'[w]
  OBVIOUS
<1>3. /\ at' = [at EXCEPT ![w] = q]
      /\ \/ pending = 0 /\ q = "loop" /\ UNCHANGED reported
         \/ pending # 0 /\ q = "settle" /\ reported' = Append(reported, pending)
  BY <1>1, <1>2 DEF Finalize, Goto, TypeOK
<1>4. /\ \A S : "dead" \notin S => (Place(S) <=> at[w] \in S) /\ (Place(S)' <=> q \in S)
      /\ \A v \in Worker : v # w => at[v] = "dead"
      /\ at'[w] = q
  BY <1>1, <1>3, Alone
<1>5. /\ ~Place({"settle"}) /\ (Place({"settle"})' <=> q = "settle") /\ ~Working /\ ~Working'
      /\ ~Place({"start"}) /\ ~Place({"start"})'
      /\ Place({"finish", "settle"})
  BY <1>1, <1>3, <1>4 DEF Working
<1>6. (\A c : Queued(c)' <=> Queued(c)) /\ (Starting' <=> Starting) /\ Finishing
  BY <1>1, <1>5 DEF Queued, Starting, Finishing
<1>7. \A v \in Worker : ~Publishing(v)'
  BY <1>1, <1>3, <1>4 DEF Publishing, TypeOK
<1>8. Display'
  BY <1>1, <1>5, <1>6, <1>7 DEF Display
<1>9. Order'
  BY <1>1, <1>5, <1>6 DEF Order
<1>10. at' \in [Worker -> {"dead", "new", "render", "post", "loop", "get", "set", "start", "renderWork",
                           "postWork", "work", "finish", "settle"}]
  BY <1>1, <1>3 DEF TypeOK
<1>11. CASE pending = 0
  <2>1. Books' /\ ReportsFollowRuns'
    BY <1>1, <1>3, <1>5, <1>11 DEF Books, ReportsFollowRuns
  <2>2. TypeOK'
    BY <1>1, <1>3, <1>10, <1>11 DEF TypeOK
  <2> QED BY <1>1, <1>8, <1>9, <2>1, <2>2 DEF RunInv, Turns
<1>12. CASE pending # 0
  <2>1. /\ pending = run /\ run \in Nat /\ run \in 1..run /\ reported \in Seq(1..run)
        /\ Len(reported) = run - 1 /\ run \in confirmed
    BY <1>1, <1>5, <1>6, <1>12 DEF TypeOK, Books, Order
  <2>2. /\ reported' \in Seq(1..run) /\ Len(reported') = run
        /\ \A i \in 1..(run - 1) : reported'[i] = reported[i]
        /\ reported'[run] = run
    <3>1. reported' = Append(reported, run)
      BY <1>3, <1>12, <2>1
    <3>2. /\ Append(reported, run) \in Seq(1..run)
          /\ Len(Append(reported, run)) = Len(reported) + 1
          /\ \A i \in 1..Len(reported) : Append(reported, run)[i] = reported[i]
          /\ Append(reported, run)[Len(reported) + 1] = run
      BY <2>1
    <3>3. Len(reported) + 1 = run
      BY <2>1
    <3> QED BY <2>1, <3>1, <3>2, <3>3
  <2>3. Books'
    BY <1>1, <1>3, <1>5, <1>12, <2>1, <2>2 DEF Books
  <2>4. ReportsFollowRuns'
    <3>1. \A i \in 1..(run - 1) : reported[i] = i /\ i \in confirmed
      BY <1>1, <2>1 DEF ReportsFollowRuns
    <3>2. \A i \in 1..run : i \in 1..(run - 1) \/ i = run
      BY <2>1
    <3>3. \A i \in 1..run : reported'[i] = i /\ i \in confirmed
      BY <2>1, <2>2, <3>1, <3>2
    <3>4. reported' = [i \in 1..run |-> i]
      BY <2>2, <3>3
    <3> QED BY <1>1, <2>1, <2>2, <3>3, <3>4 DEF ReportsFollowRuns
  <2>5. TypeOK'
    BY <1>1, <1>10, <2>2 DEF TypeOK
  <2> QED BY <1>1, <1>8, <1>9, <2>3, <2>4, <2>5 DEF RunInv, Turns
<1> QED BY <1>11, <1>12

(* ... and forgotten.                                                      *)
LEMMA SettleTurn ==
  ASSUME RunInv, NEW w \in Worker, WorkerStep(w), Settle(w)
  PROVE  RunInv'
<1>1. /\ WorkerInv /\ TypeOK /\ Books /\ Display /\ Order /\ ReportsFollowRuns
      /\ WorkerInv' /\ Steady' /\ at[w] = "settle"
      /\ pending' = 0 /\ state' \in {"IDLE", "READY"}
      /\ UNCHANGED <<ui, active, connected, leaving, selects, clicks, toggles, ready, queue,
                     stopEvent, thread, saw, snap, bound, posted, shown, run, confirmed, reported>>
  BY WorkerSteady DEF RunInv, Turns, WorkerStep, bounds, Settle, widgetVars, history, IdleState
<1>2. at' = [at EXCEPT ![w] = "render"]
  BY DEF Settle, Goto
<1>3. /\ \A S : "dead" \notin S => (Place(S) <=> at[w] \in S) /\ (Place(S)' <=> "render" \in S)
      /\ \A v \in Worker : v # w => at[v] = "dead"
      /\ at'[w] = "render"
  BY <1>1, <1>2, Alone
<1>4. /\ ~Working /\ ~Working' /\ Place({"settle"}) /\ ~Place({"settle"})' /\ ~Place({"start"})'
      /\ Place({"finish", "settle"})
  BY <1>1, <1>3 DEF Working
<1>5. \A v \in Worker : ~Publishing(v)'
  BY <1>1, <1>2, <1>3 DEF Publishing, TypeOK
<1>6. /\ pending # 0 /\ Len(reported) = run
      /\ shown \in Waiting /\ ~Starting /\ ~Queued("START") /\ ~Has(posted, Other)
  BY <1>1, <1>4 DEF Books, Display, Order, Finishing
<1>7. ~Starting' /\ ~Queued("START")'
  BY <1>1, <1>6 DEF Starting, Queued
<1>8. Books'
  BY <1>1, <1>4, <1>6 DEF Books, Waiting
<1>9. Display'
  <2>1. NoneAfter(posted, Other, Waiting)
    BY <1>6 DEF Has, NoneAfter
  <2> QED BY <1>1, <1>4, <1>5, <1>6, <1>7, <2>1 DEF Display
<1>10. Order'
  <2>1. NoneAfter(queue, {"START"}, {"FINISH"})
    BY <1>6 DEF Queued, Has, NoneAfter
  <2> QED BY <1>1, <1>4, <1>7, <2>1 DEF Order
<1>11. TypeOK'
  <2>1. at' \in [Worker -> {"dead", "new", "render", "post", "loop", "get", "set", "start", "renderWork",
                            "postWork", "work", "finish", "settle"}]
    BY <1>1, <1>2 DEF TypeOK
  <2>2. state' \in State /\ pending' \in 0..run
    BY <1>1 DEF State, TypeOK
  <2> QED BY <1>1, <2>1, <2>2 DEF TypeOK
<1>12. ReportsFollowRuns'
  BY <1>1 DEF ReportsFollowRuns
<1> QED BY <1>1, <1>8, <1>9, <1>10, <1>11, <1>12 DEF RunInv, Turns

LEMMA RunStays == RunInv /\ UNCHANGED vars => RunInv'
<1> SUFFICES ASSUME RunInv, UNCHANGED vars PROVE RunInv' OBVIOUS
<1>1. UNCHANGED <<ui, active, connected, leaving, state, ready, pending, queue, stopEvent, thread,
                  at, saw, snap, bound, posted, shown, run, confirmed, reported, selects, clicks, toggles>>
  BY DEF vars, managerVars, workerVars, widgetVars, history, bounds
<1>2. WorkerInv' /\ TypeOK' /\ ReportsFollowRuns'
  BY <1>1, WorkerStays DEF RunInv, TypeOK, ReportsFollowRuns
<1>3. (\A S : Place(S)' <=> Place(S)) /\ (\A c : Queued(c)' <=> Queued(c))
  BY <1>1 DEF Place, Queued
<1>4. Steady'
  BY <1>1, <1>3 DEF RunInv, Steady
<1>5. Turns'
  BY <1>1, TurnsStay DEF RunInv, Turns, Starting
<1> QED BY <1>2, <1>4, <1>5 DEF RunInv

LEMMA RunInit == Init => RunInv
<1> SUFFICES ASSUME Init PROVE RunInv OBVIOUS
<1>1. /\ ui \in {"idle", "register"} /\ active = FALSE /\ connected = FALSE /\ leaving = FALSE
      /\ state = "STOPPED" /\ ready = FALSE /\ pending = 0 /\ queue = << >> /\ stopEvent = FALSE
      /\ thread = 0 /\ at = [w \in Worker |-> "dead"] /\ saw = [t \in Worker \cup {Tk} |-> FALSE]
      /\ snap = [w \in Worker |-> "STOPPED"] /\ bound = FALSE /\ posted = << >> /\ shown = "NEW"
      /\ run = 0 /\ confirmed = {} /\ reported = << >> /\ selects = 0 /\ clicks = 0 /\ toggles = 0
  BY DEF Init
<1>2. TypeOK
  <2>1. ui \in {"idle", "register"} /\ state \in State /\ shown = "NEW" /\ thread \in Worker \cup {0}
    BY <1>1 DEF State
  <2>2. /\ active \in BOOLEAN /\ connected \in BOOLEAN /\ leaving \in BOOLEAN /\ ready \in BOOLEAN
        /\ stopEvent \in BOOLEAN /\ bound \in BOOLEAN
    BY <1>1
  <2>3. /\ queue \in Seq(Command) /\ posted \in Seq(State) /\ reported \in Seq(1..run)
        /\ confirmed \subseteq 1..run /\ run \in Nat /\ pending \in 0..run
    BY <1>1
  <2>4. /\ at \in [Worker -> {"dead"}] /\ snap \in [Worker -> {"STOPPED"}]
        /\ saw \in [Worker \cup {Tk} -> {FALSE}]
    BY <1>1
  <2>5. /\ at \in [Worker -> {"dead", "new", "render", "post", "loop", "get", "set", "start", "renderWork",
                               "postWork", "work", "finish", "settle"}]
        /\ snap \in [Worker -> State] /\ saw \in [Worker \cup {Tk} -> BOOLEAN]
    BY <2>4 DEF State
  <2>6. selects \in 0..MaxSelects /\ clicks \in 0..MaxClicks /\ toggles \in 0..MaxToggles
    BY <1>1, ProvisionAssumption
  <2> QED BY <2>1, <2>2, <2>3, <2>5, <2>6 DEF TypeOK
<1>3. (\A S : "dead" \notin S => ~Place(S)) /\ (\A c : ~Queued(c))
  BY <1>1 DEF Place, Queued, Has
<1>4. ~Place(Serving) /\ ~Place({"settle"}) /\ ~Working /\ ~Starting /\ ~Place({"start"})
  BY <1>1, <1>3 DEF Serving, Working, Starting
<1>5. \A A, B : NoneAfter(queue, A, B) /\ NoneAfter(posted, A, B) /\ ~Has(posted, A)
  BY <1>1 DEF NoneAfter, Has
<1>6. Steady
  BY <1>1, <1>4, <1>5 DEF Steady
<1>7. Turns
  BY <1>1, <1>3, <1>4, <1>5 DEF Turns, Books, Display, Order, Publishing, Waiting
<1>8. ReportsFollowRuns
  BY <1>1 DEF ReportsFollowRuns
<1> QED BY <1>2, <1>6, <1>7, <1>8, WorkerInit DEF RunInv

LEMMA RunInvariant == Spec => []RunInv
<1>1. ASSUME RunInv, NEW w \in Worker, WorkerStep(w) PROVE RunInv'
  BY <1>1, LoopTurn, RenderTurn, PostTurn, GetTurn, ClaimTurn, StoreTurn, FinalizeTurn, SettleTurn
     DEF WorkerStep
<1>2. ASSUME RunInv, TkStep \/ Show \/ Operator PROVE RunInv'
  BY <1>2, GoesOn, StopTurn, StopEndsTurn, EnsureTurn, ShowTurn, StartTurn, FinishTurn
     DEF TkStep, Operator
<1>3. RunInv /\ [Next]_vars => RunInv'
  BY <1>1, <1>2, RunStays DEF Next
<1> QED BY <1>3, RunInit, PTL DEF Spec

(* Type correctness of the program around a dispatch: the manager's state, *)
(* queue and workers, and the widget's display (provision/manager.py,      *)
(* view/widget/provisioner.py).                                            *)
THEOREM ProvisionTypeCorrect == Spec => []TypeOK
<1>1. RunInv => TypeOK
  BY DEF RunInv
<1> QED BY <1>1, RunInvariant, PTL

(* Each result is reported once, in the order of the runs, after the       *)
(* operator confirmed it, and no run starts over an unreported one,        *)
(* whatever is clicked twice or before the widget caught up                *)
(* (provision/manager.py: start, finish, _run_provisioning,                *)
(* _run_finalization; view/widget/provisioner.py).                         *)
THEOREM RunsAreReported == Spec => []ReportsFollowRuns
<1>1. RunInv => ReportsFollowRuns
  BY DEF RunInv
<1> QED BY <1>1, RunInvariant, PTL

=============================================================================
