--------------------------- MODULE ProvisionManager ---------------------------
(***************************************************************************)
(* The PC program around one dispatch: the model selected in the start-up  *)
(* wizard (main.py, models), the ProvisionManager with its worker thread   *)
(* and command queue (provision/manager.py), and the start/finish button   *)
(* of the provisioning widget (view/widget/provisioner.py).                *)
(*                                                                         *)
(* The Tk thread and the workers interleave between the sections each runs *)
(* under ProvisionManager._lock.  Listeners post every rendering to the Tk *)
(* queue; until the wizard is finished there is no listener.  The operator *)
(* connects the stream in the main window only.                            *)
(***************************************************************************)
EXTENDS Integers, Sequences, FiniteSets

CONSTANTS
  Worker,      (* Identities for worker threads; those of dead ones serve  *)
               (* again.                                                   *)
  MaxSelects,  (* Bound: selections in the wizard.                         *)
  MaxClicks,   (* Bound: clicks on the start/finish button.                *)
  MaxToggles   (* Bound: connections and disconnections.                   *)

ASSUME ProvisionAssumption ==
  /\ Worker \subseteq Nat \ {0} /\ Worker # {}
  /\ MaxSelects \in Nat /\ MaxClicks \in Nat /\ MaxToggles \in Nat

Tk == 0   (* The Tk thread.                                                *)

State   == {"STOPPED", "IDLE", "READY", "PROGRESS", "SUCCESS", "FAIL"}
Waiting == {"SUCCESS", "FAIL"}
Command == {"START", "FINISH", "STOP"}

VARIABLES
  ui,         (* What the Tk thread is doing.                              *)
  active,     (* _active_model is set; which model it is, is immaterial.   *)
  connected,  (* is_connected() of the registered dispatcher's stream.     *)
  leaving,    (* The application is shutting down.                         *)
  state,      (* _state.                                                   *)
  ready,      (* _dispatcher_ready.                                        *)
  pending,    (* _pending: the run it is the result of; or 0.              *)
  queue,      (* _command_queue.                                           *)
  stopEvent,  (* _stop_event.                                              *)
  thread,     (* _thread; or 0.                                            *)
  at,         (* Where each worker is.                                     *)
  saw,        (* is_connected() as each thread last read it.               *)
  snap,       (* The state each worker is about to publish.                *)
  bound,      (* The widget listens.                                       *)
  posted,     (* States posted to the Tk queue.                            *)
  shown,      (* The state the widget shows; NEW before the first.         *)
  run,        (* Runs started.                                             *)
  confirmed,  (* Runs whose FINISH was accepted.                           *)
  reported,   (* Runs finalized, in order.                                 *)
  selects, clicks, toggles

managerVars == <<state, ready, pending, queue, stopEvent, thread>>
workerVars  == <<at, saw, snap>>
widgetVars  == <<bound, posted, shown>>
history     == <<run, confirmed, reported>>
bounds      == <<selects, clicks, toggles>>
vars == <<ui, active, connected, leaving, managerVars, workerVars,
          widgetVars, history, bounds>>

TypeOK ==
  /\ ui \in {"idle", "stop", "set", "join", "joined", "register", "activate",
             "activated", "read", "refresh", "check", "put", "gone"}
  /\ active \in BOOLEAN
  /\ connected \in BOOLEAN /\ leaving \in BOOLEAN /\ ready \in BOOLEAN
  /\ stopEvent \in BOOLEAN /\ bound \in BOOLEAN
  /\ state \in State
  /\ queue \in Seq(Command)
  /\ thread \in Worker \cup {0}
  /\ at \in [Worker -> {"dead", "new", "render", "post", "loop", "get", "set",
                        "start", "renderWork", "postWork", "work", "finish",
                        "settle"}]
  /\ saw \in [Worker \cup {Tk} -> BOOLEAN]
  /\ snap \in [Worker -> State]
  /\ posted \in Seq(State) /\ shown \in State \cup {"NEW"}
  /\ run \in Nat /\ pending \in 0..run
  /\ confirmed \subseteq 1..run /\ reported \in Seq(1..run)
  /\ selects \in 0..MaxSelects /\ clicks \in 0..MaxClicks
  /\ toggles \in 0..MaxToggles

(* main: a model that the settings already have is set up at once.         *)
Init ==
  /\ active = FALSE
  /\ ui \in {"idle", "register"}
  /\ connected = FALSE /\ leaving = FALSE
  /\ state = "STOPPED" /\ ready = FALSE /\ pending = 0
  /\ queue = << >> /\ stopEvent = FALSE /\ thread = 0
  /\ at = [w \in Worker |-> "dead"]
  /\ saw = [t \in Worker \cup {Tk} |-> FALSE]
  /\ snap = [w \in Worker |-> "STOPPED"]
  /\ bound = FALSE /\ posted = << >> /\ shown = "NEW"
  /\ run = 0 /\ confirmed = {} /\ reported = << >>
  /\ selects = 0 /\ clicks = 0 /\ toggles = 0

-----------------------------------------------------------------------------
IdleState(r) == IF r THEN "READY" ELSE "IDLE"

(* _ensure_worker_started.                                                 *)
EnsureWorker ==
  IF thread # 0 /\ at[thread] # "dead"
  THEN UNCHANGED <<at, thread, stopEvent>>
  ELSE LET w == CHOOSE v \in Worker : at[v] = "dead" IN
       /\ at' = [at EXCEPT ![w] = "new"]
       /\ thread' = w /\ stopEvent' = FALSE

(* The locked section of _refresh_dispatcher_ready, by thread t.           *)
Changed(t) == saw[t] # ready

Refresh_OnlyLoss(t) ==
  /\ saw' = [saw EXCEPT ![t] = FALSE]
  /\ ready' = saw[t]
  /\ state' = IF Changed(t) /\ state = "READY"
              THEN IdleState(saw[t]) ELSE state

Refresh(t) ==
  /\ saw' = [saw EXCEPT ![t] = FALSE]
  /\ ready' = saw[t]
  /\ state' = IF Changed(t) /\ state \in {"IDLE", "READY"}
              THEN IdleState(saw[t]) ELSE state

-----------------------------------------------------------------------------
(***************************************************************************)
(* The Tk thread: selection of a model.                                    *)
(***************************************************************************)

(* ModelSelectionStep.commit: Settings.set calls back when the value       *)
(* changes, and _setup_runtime_for_model tears the previous model down.    *)
Select ==
  /\ ui = "idle" /\ ~bound /\ ~leaving
  /\ selects < MaxSelects /\ selects' = selects + 1
  /\ ui' = IF active THEN "stop" ELSE "register"
  /\ UNCHANGED <<active, connected, leaving, managerVars, workerVars,
                 widgetVars, history, clicks, toggles>>

(* The wizard is finished: the main window is built and listens.           *)
OpenWindow ==
  /\ ui = "idle" /\ ~bound /\ active
  /\ bound' = TRUE
  /\ UNCHANGED <<ui, active, connected, leaving, managerVars, workerVars,
                 posted, shown, history, bounds>>

(* The wizard or the window is closed: main tears the active model down.   *)
Exit ==
  /\ ui = "idle" /\ leaving' = TRUE
  /\ ui' = IF active THEN "stop" ELSE "gone"
  /\ UNCHANGED <<active, connected, managerVars, workerVars, widgetVars,
                 history, bounds>>

(* ProvisionManager.stop: STOP is queued, ...                              *)
Stop ==
  /\ ui = "stop" /\ ui' = "set"
  /\ queue' = Append(queue, "STOP")
  /\ UNCHANGED <<active, connected, leaving, state, ready, pending,
                 stopEvent, thread, workerVars, widgetVars, history, bounds>>

(* ... the event set, ...                                                  *)
StopSet ==
  /\ ui = "set" /\ ui' = "join"
  /\ stopEvent' = TRUE
  /\ UNCHANGED <<active, connected, leaving, state, ready, pending, queue,
                 thread, workerVars, widgetVars, history, bounds>>

StopJoin_NoWait ==
  /\ ui = "join" /\ ui' = "joined"
  /\ UNCHANGED <<active, connected, leaving, managerVars, workerVars,
                 widgetVars, history, bounds>>

(* ... the worker joined, but for no longer than 2 s: a dispatch or the    *)
(* writing of a report may outlast that, the polling loop does not, ...    *)
StopJoin ==
  /\ ui = "join" /\ ui' = "joined"
  /\ thread # 0 => at[thread] \in {"dead", "work", "settle"}
  /\ UNCHANGED <<active, connected, leaving, managerVars, workerVars,
                 widgetVars, history, bounds>>

(* ... and everything forgotten.  The stream is closed.                    *)
StopEnds ==
  /\ ui = "joined"
  /\ thread' = 0 /\ pending' = 0 /\ state' = "STOPPED"
  /\ connected' = FALSE /\ active' = FALSE
  /\ ui' = IF leaving THEN "gone" ELSE "register"
  /\ UNCHANGED <<leaving, ready, queue, stopEvent, workerVars,
                 widgetVars, history, bounds>>

(* The model's setup: provider, stream and dispatcher; register_dispatcher *)
(* finds the new stream disconnected.                                      *)
Register ==
  /\ ui = "register" /\ ui' = "activate"
  /\ connected' = FALSE
  /\ ready' = FALSE
  /\ state' = IF ready /\ state \in {"IDLE", "READY"} THEN "IDLE" ELSE state
  /\ UNCHANGED <<active, leaving, pending, queue, stopEvent, thread,
                 workerVars, widgetVars, history, bounds>>

(* activate.                                                               *)
Activate ==
  /\ ui = "activate" /\ ui' = "activated"
  /\ EnsureWorker
  /\ UNCHANGED <<active, connected, leaving, state, ready, pending, queue,
                 saw, snap, widgetVars, history, bounds>>

Activated ==
  /\ ui = "activated" /\ ui' = "idle"
  /\ ready' = connected
  /\ state' = IF state \in {"IDLE", "READY", "STOPPED"}
              THEN IdleState(connected) ELSE state
  /\ active' = TRUE
  /\ UNCHANGED <<connected, leaving, pending, queue, stopEvent,
                 thread, workerVars, widgetVars, history, bounds>>

-----------------------------------------------------------------------------
(***************************************************************************)
(* The Tk thread: the widget.                                              *)
(***************************************************************************)

(* The button says START, enabled, or Finish.                              *)
CanStart  == bound /\ shown \in {"NEW", "READY"}
CanFinish == bound /\ shown \in Waiting

(* update_view of one posted rendering.                                    *)
Show ==
  /\ ui = "idle" /\ posted # << >>
  /\ shown' = Head(posted) /\ posted' = Tail(posted)
  /\ UNCHANGED <<ui, active, connected, leaving, managerVars, workerVars,
                 bound, history, bounds>>

(* ProvisionManager.start.                                                 *)
ClickStart ==
  /\ ui = "idle" /\ CanStart
  /\ clicks < MaxClicks /\ clicks' = clicks + 1
  /\ EnsureWorker
  /\ ui' = "read"
  /\ UNCHANGED <<active, connected, leaving, state, ready, pending, queue,
                 saw, snap, widgetVars, history, selects, toggles>>

StartReads ==
  /\ ui = "read" /\ ui' = "refresh"
  /\ saw' = [saw EXCEPT ![Tk] = connected]
  /\ UNCHANGED <<active, connected, leaving, managerVars, at, snap,
                 widgetVars, history, bounds>>

StartRefreshes ==
  /\ ui = "refresh"
  /\ Refresh(Tk)
  /\ ui' = IF Changed(Tk) THEN "put" ELSE "check"
  /\ UNCHANGED <<active, connected, leaving, pending, queue, stopEvent,
                 thread, at, snap, widgetVars, history, bounds>>

(* cls._state is read without the lock.                                    *)
StartChecks ==
  /\ ui = "check"
  /\ ui' = IF state = "READY" THEN "put" ELSE "idle"
  /\ UNCHANGED <<active, connected, leaving, managerVars, workerVars,
                 widgetVars, history, bounds>>

StartQueued ==
  /\ ui = "put" /\ ui' = "idle"
  /\ queue' = Append(queue, "START")
  /\ UNCHANGED <<active, connected, leaving, state, ready, pending,
                 stopEvent, thread, workerVars, widgetVars, history, bounds>>

ClickFinish_Unchecked ==
  /\ ui = "idle" /\ CanFinish
  /\ clicks < MaxClicks /\ clicks' = clicks + 1
  /\ queue' = Append(queue, "FINISH")
  /\ confirmed' = confirmed \cup {pending}
  /\ UNCHANGED <<ui, active, connected, leaving, state, ready, pending,
                 stopEvent, thread, workerVars, widgetVars, run, reported,
                 selects, toggles>>

(* ProvisionManager.finish.                                                *)
ClickFinish ==
  /\ ui = "idle" /\ CanFinish
  /\ clicks < MaxClicks /\ clicks' = clicks + 1
  /\ IF state \in Waiting
     THEN /\ queue' = Append(queue, "FINISH")
          /\ confirmed' = confirmed \cup {pending}
     ELSE UNCHANGED <<queue, confirmed>>
  /\ UNCHANGED <<ui, active, connected, leaving, state, ready, pending,
                 stopEvent, thread, workerVars, widgetVars, run, reported,
                 selects, toggles>>

(* The operator connects or disconnects the stream; a cable comes off.     *)
Toggle ==
  /\ bound /\ active /\ ~leaving
  /\ toggles < MaxToggles /\ toggles' = toggles + 1
  /\ connected' = ~connected
  /\ UNCHANGED <<ui, active, leaving, managerVars, workerVars, widgetVars,
                 history, selects, clicks>>

-----------------------------------------------------------------------------
(***************************************************************************)
(* A worker: _worker_main.                                                 *)
(***************************************************************************)
Goto(w, place) == at' = [at EXCEPT ![w] = place]

Begin(w) ==
  /\ at[w] = "new" /\ Goto(w, "render")
  /\ state' = IdleState(ready)
  /\ UNCHANGED <<ready, pending, queue, stopEvent, thread, saw, snap,
                 widgetVars, history>>

(* _sync_and_render reads the state under the lock ...                     *)
Render(w) ==
  /\ \/ at[w] = "render" /\ Goto(w, "post")
     \/ at[w] = "renderWork" /\ Goto(w, "postWork")
  /\ snap' = [snap EXCEPT ![w] = state]
  /\ UNCHANGED <<managerVars, saw, widgetVars, history>>

(* ... and publishes it after.                                             *)
Post(w) ==
  /\ \/ at[w] = "post" /\ Goto(w, "loop")
     \/ at[w] = "postWork" /\ Goto(w, "work")
  /\ posted' = IF bound THEN Append(posted, snap[w]) ELSE posted
  /\ snap' = [snap EXCEPT ![w] = "STOPPED"]
  /\ UNCHANGED <<managerVars, saw, bound, shown, history>>

Loop(w) ==
  /\ at[w] = "loop"
  /\ Goto(w, IF stopEvent THEN "dead" ELSE "get")
  /\ UNCHANGED <<managerVars, saw, snap, widgetVars, history>>

Get(w) ==
  /\ at[w] = "get" /\ queue # << >>
  /\ queue' = Tail(queue)
  /\ \/ Head(queue) = "START"  /\ Goto(w, "start")
     \/ Head(queue) = "FINISH" /\ Goto(w, "finish")
     \/ Head(queue) = "STOP"   /\ Goto(w, "dead")
  /\ UNCHANGED <<state, ready, pending, stopEvent, thread, saw, snap,
                 widgetVars, history>>

Poll_EndsWhenDisconnected(w) ==
  /\ at[w] = "get" /\ queue = << >>
  /\ Goto(w, IF connected THEN "set" ELSE "dead")
  /\ saw' = [saw EXCEPT ![w] = connected]
  /\ UNCHANGED <<managerVars, snap, widgetVars, history>>

(* queue.Empty after 0.2 s: the stream is polled.                          *)
Poll(w) ==
  /\ at[w] = "get" /\ queue = << >>
  /\ Goto(w, "set")
  /\ saw' = [saw EXCEPT ![w] = connected]
  /\ UNCHANGED <<managerVars, snap, widgetVars, history>>

Polled_Unrendered(w) ==
  /\ at[w] = "set" /\ Goto(w, "loop")
  /\ Refresh(w)
  /\ UNCHANGED <<pending, queue, stopEvent, thread, snap, widgetVars, history>>

Polled(w) ==
  /\ at[w] = "set" /\ Goto(w, IF Changed(w) THEN "render" ELSE "loop")
  /\ Refresh(w)
  /\ UNCHANGED <<pending, queue, stopEvent, thread, snap, widgetVars, history>>

Claim_Unchecked(w) ==
  /\ at[w] = "start" /\ Goto(w, "renderWork")
  /\ state' = "PROGRESS" /\ run' = run + 1
  /\ UNCHANGED <<ready, pending, queue, stopEvent, thread, saw, snap,
                 widgetVars, confirmed, reported>>

(* _run_provisioning claims the READY state, or drops the START.           *)
Claim(w) ==
  /\ at[w] = "start"
  /\ IF state = "READY"
     THEN state' = "PROGRESS" /\ run' = run + 1 /\ Goto(w, "renderWork")
     ELSE UNCHANGED <<state, run>> /\ Goto(w, "loop")
  /\ UNCHANGED <<ready, pending, queue, stopEvent, thread, saw, snap,
                 widgetVars, confirmed, reported>>

Store_Unrendered(w) ==
  /\ at[w] = "work" /\ Goto(w, "loop")
  /\ pending' = run
  /\ \E result \in Waiting : state' = result
  /\ UNCHANGED <<ready, queue, stopEvent, thread, saw, snap, widgetVars, history>>

(* pull and dispatch returned or raised: _store_result.                    *)
Store(w) ==
  /\ at[w] = "work" /\ Goto(w, "render")
  /\ pending' = run
  /\ \E result \in Waiting : state' = result
  /\ UNCHANGED <<ready, queue, stopEvent, thread, saw, snap, widgetVars, history>>

(* _run_finalization reports the pending result, ...                       *)
Finalize(w) ==
  /\ at[w] = "finish"
  /\ IF pending = 0
     THEN Goto(w, "loop") /\ UNCHANGED reported
     ELSE Goto(w, "settle") /\ reported' = Append(reported, pending)
  /\ UNCHANGED <<managerVars, saw, snap, widgetVars, run, confirmed>>

(* ... then clears it.                                                     *)
Settle(w) ==
  /\ at[w] = "settle" /\ Goto(w, "render")
  /\ pending' = 0 /\ state' = IdleState(ready)
  /\ UNCHANGED <<ready, queue, stopEvent, thread, saw, snap, widgetVars, history>>

WorkerStep(w) ==
  /\ ui # "gone"
  /\ \/ Begin(w) \/ Render(w) \/ Post(w) \/ Loop(w) \/ Get(w) \/ Poll(w)
     \/ Polled(w) \/ Claim(w) \/ Store(w) \/ Finalize(w) \/ Settle(w)
  /\ UNCHANGED <<ui, active, connected, leaving, bounds>>

TkStep ==
  \/ Stop \/ StopSet \/ StopJoin \/ StopEnds
  \/ Register \/ Activate \/ Activated
  \/ StartReads \/ StartRefreshes \/ StartChecks \/ StartQueued

Operator == Select \/ OpenWindow \/ Exit \/ ClickStart \/ ClickFinish \/ Toggle

Next == TkStep \/ Show \/ Operator \/ \E w \in Worker : WorkerStep(w)

Spec == Init /\ [][Next]_vars

(* Threads are scheduled, a dispatch returns (FactorySession's             *)
(* DispatchReturns) and Tk runs its callbacks.  Nothing is assumed of the  *)
(* operator.                                                               *)
Fairness ==
  /\ WF_vars(TkStep) /\ WF_vars(Show)
  /\ \A w \in Worker : WF_vars(WorkerStep(w))

FairSpec == Spec /\ Fairness

-----------------------------------------------------------------------------
(* One worker serves the queue, through all restarts: a stopped worker is  *)
(* dead before the next is started, and start() never doubles it.          *)
OneWorker == Cardinality({w \in Worker : at[w] # "dead"}) <= 1

(* Each result is reported to provider and reporter once, in the order of  *)
(* the runs, after the operator confirmed that very result, and no run     *)
(* starts over an unreported one -- whatever is clicked twice, or before   *)
(* the widget caught up.                                                   *)
ReportsFollowRuns ==
  /\ reported = [i \in 1..Len(reported) |-> i]
  /\ Len(reported) >= run - 1
  /\ \A i \in 1..Len(reported) : i \in confirmed

-----------------------------------------------------------------------------
(***************************************************************************)
(* Progress, until the program is left.                                    *)
(***************************************************************************)

(* A result the operator confirmed (finish() queued FINISH) is reported.   *)
ConfirmedIsReported ==
  \A n \in 1..MaxClicks :
    n \in confirmed ~> leaving \/ \E i \in 1..Len(reported) : reported[i] = n

(* What the progress of the display is bound to: the program is left, or   *)
(* the worker was ended by a STOP that was left in the queue (see          *)
(* ConnectionIsNoticed) and nobody renders.                                *)
Unserved == leaving \/ (thread # 0 /\ at[thread] = "dead")

(* A manager that is READY enables START, whichever thread noticed it.     *)
ReadyIsShown == state = "READY" ~> state # "READY" \/ CanStart \/ Unserved

(* A stored result enables Finish, else it could never be confirmed.       *)
ResultIsShown ==
  state \in Waiting ~> state \notin Waiting \/ CanFinish \/ Unserved

(* A stream that stays connected takes the manager out of IDLE: a worker   *)
(* that lives polls it, and no thread loses what another one noticed.      *)
ConnectionReachesManager ==
  bound /\ connected ~> ~connected \/ state # "IDLE" \/ Unserved

(* A worker lives to poll the stream of every model that is set up, as     *)
(* main.py promises ("Reconfigure runtime objects when model changes.").   *)
(* It does not: a STOP the old worker left in the queue ends the new one.  *)
ConnectionIsNoticed ==
  bound /\ connected ~> ~connected \/ state # "IDLE" \/ leaving

=============================================================================
