---------------------------- MODULE Provisioning ----------------------------
(***************************************************************************)
(* What a provisioning station promises to those who feed it factory data: *)
(* no UART, no packets, no sessions, only dispatches, what they are said   *)
(* to have done, and what the units have stored.  FactorySession           *)
(* implements it.                                                          *)
(***************************************************************************)
EXTENDS Integers

CONSTANTS
  MaxDispatches,   (* Bound: dispatches the operator starts.               *)
  MaxUnits         (* Bound: units placed on the bench.                    *)

Dispatch == 1..MaxDispatches
Unit == 1..MaxUnits

VARIABLES
  started,    (* The last dispatch.                                        *)
  calm,       (* Dispatches that nothing has disturbed.                    *)
  said,       (* The verdict on each dispatch.                             *)
  stored,     (* Its write request, once a unit has applied it.            *)
  unit,       (* The unit on the bench.                                    *)
  rebooted    (* <<unit, dispatch>> for units that rebooted provisioned.   *)

vars == <<started, calm, said, stored, unit, rebooted>>

Complete(r) == r.stored = "all" /\ ~r.spliced

Init ==
  /\ started = 0 /\ calm = {} /\ said = [d \in Dispatch |-> "none"]
  /\ stored = [d \in Dispatch |-> {}]
  /\ unit = 1 /\ rebooted = {}

Open == started \in Dispatch /\ said[started] = "none"

(* One dispatch at a time, and none before the last one has its verdict.   *)
Start ==
  /\ ~Open /\ started' = started + 1 /\ started' \in Dispatch
  /\ calm' \in {calm, calm \cup {started'}}
  /\ UNCHANGED <<said, stored, unit, rebooted>>

(* Something is lost, damaged or late: the dispatch in progress may end    *)
(* with a verdict that is wrong about the unit.                            *)
Disturb ==
  /\ Open /\ calm' = calm \ {started}
  /\ UNCHANGED <<started, said, stored, unit, rebooted>>

(* A success is one, disturbed or not.  A failure leaves no unit that has  *)
(* everything, unless something disturbed the dispatch.                    *)
Decide(v) ==
  /\ Open /\ said' = [said EXCEPT ![started] = v]
  /\ v = "ok" => \E r \in stored[started] : Complete(r)
  /\ v = "failed" /\ started \in calm =>
       \A r \in stored[started] : r.stored = "part"
  /\ UNCHANGED <<started, calm, stored, unit, rebooted>>

(* The unit on the bench applies the request of a dispatch, once.  It may  *)
(* do so after the verdict only if the dispatch was disturbed, and takes   *)
(* up fragments of another dispatch only if its own is over.               *)
Store(d) ==
  /\ d <= started /\ stored[d] = {}
  /\ d \in calm => d = started /\ Open
  /\ \E s \in {"all", "part"}, b \in BOOLEAN :
       /\ b => d < started
       /\ stored' = [stored EXCEPT
            ![d] = {[unit |-> unit, data |-> d, stored |-> s, spliced |-> b]}]
  /\ UNCHANGED <<started, calm, said, unit, rebooted>>

(* It reboots as provisioned only with everything stored, and, if the      *)
(* dispatch was not disturbed, only after its success.                     *)
Reboot(d) ==
  /\ \E r \in stored[d] : r.unit = unit /\ r.stored = "all"
  /\ d \in calm => said[d] = "ok"
  /\ rebooted' = rebooted \cup {<<unit, d>>}
  /\ UNCHANGED <<started, calm, said, stored, unit>>

NextUnit ==
  /\ unit < MaxUnits /\ unit' = unit + 1
  /\ UNCHANGED <<started, calm, said, stored, rebooted>>

Next ==
  \/ Start \/ Disturb \/ NextUnit
  \/ \E v \in {"ok", "failed"} : Decide(v)
  \/ \E d \in Dispatch : Store(d) \/ Reboot(d)

Spec == Init /\ [][Next]_vars

=============================================================================
