--------------------------- MODULE FactorySession ---------------------------
(***************************************************************************)
(* One provisioning station: the PC's GenericProvisionDispatcher (with its *)
(* session and transaction clients) and the device's factory manager and   *)
(* session, over the link of FrameLink.                                    *)
(*                                                                         *)
(*   device  DEVICE_HELLO ->            PC  opens on it                    *)
(*   device            <- PC_HELLO(sid) PC  chooses the session id         *)
(*   device            <- REQUEST(sid)  PC  one FactoryWriteRequest        *)
(*   device  RESPONSE(sid, status) ->                                      *)
(*   device  DEVICE_BYE  ->  <- PC_BYE  both close                         *)
(*                                                                         *)
(* The operator starts dispatches on the PC, boots the unit on the bench   *)
(* and connects the next unit.  Bytes not yet read stay on the UART: the   *)
(* PC's reader queue is never drained between dispatches.  Nobody sends    *)
(* ALERT or READ packets in this flow, so they are left out.               *)
(***************************************************************************)
EXTENDS Integers, Sequences

CONSTANTS
  Device, PC, NoPacket,
  RequestFrames,   (* Fragments of a write request.                        *)
  MaxTries,        (* Tries for one frame.                                 *)
  MaxFaults,       (* Bound: faults of the UART.                           *)
  MaxDispatches,   (* Bound: dispatches the operator starts.               *)
  MaxBoots,        (* Bound: runs of factory_manager_process.              *)
  MaxUnits,        (* Bound: units placed on the bench.                    *)
  LateReplies      (* TRUE: deadlines may pass while an answer is coming.  *)

Dispatches == 1..MaxDispatches
Units == 1..MaxUnits

(* A dispatch n uses session id n (secrets.token_bytes) and carries the    *)
(* factory data n; 0 stands for no session.                                *)
SessionPacket ==
  [kind : {"DEVICE_HELLO"}, sid : {0}, status : {"-"}]
  \cup [kind : {"PC_HELLO", "REQUEST", "PC_BYE", "DEVICE_BYE"},
        sid : Dispatches, status : {"-"}]
  \cup [kind : {"RESPONSE"}, sid : Dispatches, status : {"OK", "ERROR"}]

Fragments ==
  [p \in SessionPacket |-> IF p.kind = "REQUEST" THEN RequestFrames ELSE 1]

ASSUME SessionAssumption ==
  /\ Device # PC
  /\ NoPacket \notin SessionPacket
  /\ RequestFrames \in 2..254   (* A sequence byte; certificates take more   *)
                               (* than one frame.                           *)
  /\ MaxTries \in Nat \ {0}
  /\ MaxFaults \in Nat
  /\ MaxDispatches \in Nat
  /\ MaxBoots \in Nat
  /\ MaxUnits \in Nat \ {0}
  /\ LateReplies \in BOOLEAN

Pkt(k, s) == [kind |-> k, sid |-> s, status |-> "-"]
Response(s, t) == [kind |-> "RESPONSE", sid |-> s, status |-> t]
Sessionless(p) == p.kind \in {"DEVICE_HELLO", "PC_HELLO"}
Bye(p) == p.kind \in {"DEVICE_BYE", "PC_BYE"}

VARIABLES
  op, tx, buf, asm, pending, wire, res, inbox, faults,  (* The link's.     *)
  dpc,       (* Where the device's factory_manager_process is.             *)
  dsid,      (* session_context.session_id while the session is open.      *)
  dstatus,   (* Status of the device's last response.                      *)
  unit,      (* The unit on the bench.                                     *)
  boots,     (* Runs of factory_manager_process so far.                    *)
  written,   (* Write requests applied, one record for each application.   *)
  rebooted,  (* <<unit, dispatch>> for which the manager returned true.    *)
  ppc,       (* Where the PC's dispatch is.                                *)
  current,   (* The PC's last dispatch.                                    *)
  verdict,   (* What it will report once the session is closed.            *)
  result,    (* What each dispatch reported.                               *)
  calm       (* Dispatches begun on a fresh UART and not disturbed before  *)
             (* their verdict (history).                                   *)

linkVars    == <<op, tx, buf, asm, pending, wire, res, inbox, faults>>
deviceVars  == <<dpc, dsid, dstatus, unit, boots, written, rebooted>>
pcVars      == <<ppc, current, verdict, result, calm>>
vars        == <<linkVars, deviceVars, pcVars>>

(* Calls are bounded here, not by the backlog of the UART; its faults      *)
(* leave the types of frames alone, which no CRC covers.                   *)
Link == INSTANCE FrameLink WITH
          Packet <- SessionPacket, FrameCount <- Fragments,
          MaxFrames <- RequestFrames, MaxBacklog <- 1000, TypeFaults <- {}

(* A request that was applied: to which unit, from which dispatch its      *)
(* first fragment (and its session id) is, whether every setter succeeded, *)
(* and whether later fragments were of another dispatch.                   *)
Write == [unit : Units, data : Dispatches, stored : {"all", "part"},
          spliced : BOOLEAN]

TypeOK ==
  /\ Link!TypeOK
  /\ dpc \in {"off", "hello", "wait", "serve", "answer", "bye", "reboot", "done"}
  /\ dsid \in 0..MaxDispatches
  /\ dstatus \in {"OK", "ERROR"}
  /\ unit \in Units
  /\ boots \in 0..MaxBoots
  /\ written \in Seq(Write)
  /\ rebooted \subseteq Units \X Dispatches
  /\ ppc \in {"off", "hello", "open", "request", "response", "bye"}
  /\ current \in 0..MaxDispatches
  /\ verdict \in {"none", "ok", "failed"}
  /\ result \in [Dispatches -> {"none", "ok", "failed"}]
  /\ calm \subseteq Dispatches

Init ==
  /\ Link!Init
  /\ dpc = "off" /\ dsid = 0 /\ dstatus = "ERROR"
  /\ unit = 1 /\ boots = 0 /\ written = << >> /\ rebooted = {}
  /\ ppc = "off" /\ current = 0 /\ verdict = "none"
  /\ result = [d \in Dispatches |-> "none"] /\ calm = {}

(* What the node's last receive call returned.                             *)
Got(e, p) == res[e] = "received" /\ p = inbox[e][1].pkt

(* Nothing in a CONSECUTIVE frame names its packet, and a FIRST frame in   *)
(* the middle of an assembly is taken for a retransmission: when a request *)
(* was cut short, a PC_HELLO is lost and a stale ACK stands for its own,   *)
(* the next dispatch completes the request of the last one.                *)
Spliced(e) == \E i \in 1..Len(inbox[e]) : inbox[e][i].pkt # inbox[e][1].pkt

(* A node stops using its link: what it set aside is dropped.              *)
Leave(e) ==
  /\ pending' = [pending EXCEPT ![e] = Link!NoFrame]
  /\ res' = [res EXCEPT ![e] = "none"]
  /\ inbox' = [inbox EXCEPT ![e] = << >>]
  /\ UNCHANGED <<op, tx, buf, asm, wire, faults>>

-----------------------------------------------------------------------------
(***************************************************************************)
(* The device: factory_manager_process over factory_session_*.             *)
(***************************************************************************)

(* factory_session_init and factory_session_open: DEVICE_HELLO goes out.   *)
Boot ==
  /\ dpc = "off" /\ boots < MaxBoots
  /\ boots' = boots + 1
  /\ dpc' = "hello"
  /\ Link!CallSend(Device, Pkt("DEVICE_HELLO", 0))
  /\ UNCHANGED <<dsid, dstatus, unit, written, rebooted, pcVars>>

DeviceStops ==
  /\ dpc' = "off" /\ dsid' = 0
  /\ Leave(Device)
  /\ UNCHANGED <<dstatus, unit, boots, written, rebooted, pcVars>>

DeviceIdle == op[Device] = "idle"

HelloSent ==
  /\ dpc = "hello" /\ DeviceIdle /\ res[Device] = "sent"
  /\ dpc' = "wait"
  /\ Link!CallReceive(Device)
  /\ UNCHANGED <<dsid, dstatus, unit, boots, written, rebooted, pcVars>>

HelloFailed ==
  /\ dpc = "hello" /\ DeviceIdle /\ res[Device] = "failed"
  /\ DeviceStops

(* session_wait_pc_hello got PC_HELLO: the session is open, and the        *)
(* manager receives the first request.                                     *)
Opened ==
  /\ dpc = "wait" /\ DeviceIdle
  /\ \E s \in Dispatches :
       /\ Got(Device, Pkt("PC_HELLO", s))
       /\ dsid' = s
  /\ dpc' = "serve"
  /\ Link!CallReceive(Device)
  /\ UNCHANGED <<dstatus, unit, boots, written, rebooted, pcVars>>

(* Within the 5 s only a read timeout or another packet is waited out.     *)
NoHelloYet ==
  \/ res[Device] = "timeout"
  \/ res[Device] = "received" /\ inbox[Device][1].pkt.kind # "PC_HELLO"

KeepWaiting ==
  /\ dpc = "wait" /\ DeviceIdle /\ NoHelloYet
  /\ Link!CallReceive(Device)
  /\ UNCHANGED <<deviceVars, pcVars>>

OpenExpires_OnlyOnFailure ==
  /\ dpc = "wait" /\ DeviceIdle /\ res[Device] = "failed"
  /\ DeviceStops

OpenExpires ==
  /\ dpc = "wait" /\ DeviceIdle
  /\ NoHelloYet \/ res[Device] = "failed"
  /\ DeviceStops

(* factory_session_close, then factory_manager_process returns.            *)
CloseSession(next) ==
  /\ dpc' = next
  /\ Link!CallSend(Device, Pkt("DEVICE_BYE", dsid))
  /\ UNCHANGED <<dsid, dstatus, unit, boots, rebooted, pcVars>>

Answer(status) ==
  /\ dpc' = "answer"
  /\ dstatus' = status
  /\ Link!CallSend(Device, Response(dsid, status))
  /\ UNCHANGED <<dsid, unit, boots, rebooted, pcVars>>

(* A write request of this session: every setter succeeds, or one fails    *)
(* after earlier fields were stored.                                       *)
ServeWrite ==
  /\ dpc = "serve" /\ DeviceIdle
  /\ Got(Device, Pkt("REQUEST", dsid))
  /\ \E status \in {"OK", "ERROR"} :
       /\ Answer(status)
       /\ written' = Append(written,
            [unit |-> unit, data |-> dsid,
             stored |-> IF status = "OK" THEN "all" ELSE "part",
             spliced |-> Spliced(Device)])

(* Sessionless packets pass factory_session_receive as data and do not     *)
(* decode as a request; a spliced one may not.                             *)
ServeInvalid ==
  /\ dpc = "serve" /\ DeviceIdle
  /\ res[Device] = "received"
  /\ \/ Sessionless(inbox[Device][1].pkt)
     \/ Got(Device, Pkt("REQUEST", dsid)) /\ Spliced(Device)
  /\ Answer("ERROR")
  /\ UNCHANGED written

(* A packet of another session, or a failing receive.                      *)
ServeFails ==
  /\ dpc = "serve" /\ DeviceIdle
  /\ \/ res[Device] \in {"timeout", "failed"}
     \/ /\ res[Device] = "received"
        /\ ~Sessionless(inbox[Device][1].pkt) /\ inbox[Device][1].pkt.sid # dsid
  /\ CloseSession("bye")
  /\ UNCHANGED written

(* BYE closes the session and yields an empty request, whose answer cannot *)
(* be sent any more.                                                       *)
ServeBye ==
  /\ dpc = "serve" /\ DeviceIdle
  /\ \E p \in {Pkt("PC_BYE", dsid), Pkt("DEVICE_BYE", dsid)} : Got(Device, p)
  /\ DeviceStops

AnswerSent_IgnoresStatus ==
  /\ dpc = "answer" /\ DeviceIdle /\ res[Device] = "sent"
  /\ CloseSession("reboot")
  /\ UNCHANGED written

AnswerSent ==
  /\ dpc = "answer" /\ DeviceIdle /\ res[Device] = "sent"
  /\ \/ dstatus = "OK" /\ CloseSession("reboot")
     \/ /\ dstatus = "ERROR"
        /\ dpc' = "serve"
        /\ Link!CallReceive(Device)
        /\ UNCHANGED <<dsid, dstatus, unit, boots, rebooted, pcVars>>
  /\ UNCHANGED written

AnswerFails ==
  /\ dpc = "answer" /\ DeviceIdle /\ res[Device] = "failed"
  /\ CloseSession("bye")
  /\ UNCHANGED written

ByeEnds ==
  /\ dpc = "bye" /\ DeviceIdle
  /\ DeviceStops

(* factory_manager_process returns true: the product reboots.              *)
ManagerSucceeds ==
  /\ dpc = "reboot" /\ DeviceIdle
  /\ dpc' = "done" /\ dsid' = 0
  /\ rebooted' = rebooted \cup {<<unit, dsid>>}
  /\ Leave(Device)
  /\ UNCHANGED <<dstatus, unit, boots, written, pcVars>>

(* The operator puts the next unit on the bench.                           *)
NextUnit ==
  /\ dpc \in {"off", "done"} /\ unit < MaxUnits
  /\ unit' = unit + 1
  /\ dpc' = "off"
  /\ wire' = [wire EXCEPT ![Device] = << >>]
  /\ UNCHANGED <<op, tx, buf, asm, pending, res, inbox, faults,
                 dsid, dstatus, boots, written, rebooted, pcVars>>

-----------------------------------------------------------------------------
(***************************************************************************)
(* The PC: GenericProvisionDispatcher.dispatch.                            *)
(***************************************************************************)
PcIdle == op[PC] = "idle"

(* Nothing is left on the UART of earlier boots and dispatches: the unit is *)
(* not running, or waits for the answer to its first DEVICE_HELLO.         *)
Fresh ==
  /\ wire[Device] = << >>
  /\ \/ dpc \in {"off", "done"} /\ wire[PC] = << >>
     \/ /\ dpc = "hello" /\ op[Device] = "wait" /\ tx[Device].tries = 0
        /\ pending[Device] = Link!NoFrame
        /\ wire[PC] = <<Link!Fragment(Pkt("DEVICE_HELLO", 0), 1)>>

(* A new link and session client; open() receives DEVICE_HELLO.            *)
Dispatch ==
  /\ ppc = "off" /\ current < MaxDispatches
  /\ current' = current + 1
  /\ ppc' = "hello" /\ verdict' = "none"
  /\ calm' = IF Fresh THEN calm \cup {current'} ELSE calm
  /\ Link!CallReceive(PC)
  /\ UNCHANGED <<result, deviceVars>>

(* dispatch returns or raises.                                             *)
DispatchEnds(v) ==
  /\ ppc' = "off" /\ verdict' = v
  /\ result' = [result EXCEPT ![current] = v]
  /\ Leave(PC)
  /\ UNCHANGED <<current, calm, deviceVars>>

GotDeviceHello ==
  /\ ppc = "hello" /\ PcIdle
  /\ Got(PC, Pkt("DEVICE_HELLO", 0))
  /\ ppc' = "open"
  /\ Link!CallSend(PC, Pkt("PC_HELLO", current))
  /\ UNCHANGED <<current, verdict, result, calm, deviceVars>>

NoDeviceHello_Waits ==
  /\ ppc = "hello" /\ PcIdle
  /\ ~Got(PC, Pkt("DEVICE_HELLO", 0))
  /\ Link!CallReceive(PC)
  /\ UNCHANGED <<pcVars, deviceVars>>

NoDeviceHello ==
  /\ ppc = "hello" /\ PcIdle
  /\ ~Got(PC, Pkt("DEVICE_HELLO", 0))
  /\ DispatchEnds("failed")

(* The session is open on the PC as soon as PC_HELLO is acknowledged.      *)
SendRequest ==
  /\ ppc = "open" /\ PcIdle /\ res[PC] = "sent"
  /\ ppc' = "request"
  /\ Link!CallSend(PC, Pkt("REQUEST", current))
  /\ UNCHANGED <<current, verdict, result, calm, deviceVars>>

AwaitResponse ==
  /\ ppc = "request" /\ PcIdle /\ res[PC] = "sent"
  /\ ppc' = "response"
  /\ Link!CallReceive(PC)
  /\ UNCHANGED <<current, verdict, result, calm, deviceVars>>

(* A link failure resets the session: close() has nothing to say.          *)
ExchangeFails ==
  /\ PcIdle
  /\ \/ ppc \in {"open", "request"} /\ res[PC] = "failed"
     \/ ppc = "response" /\ res[PC] \in {"timeout", "failed"}
  /\ DispatchEnds("failed")

(* receive_message returned or raised with the session still open: the     *)
(* finally clause closes it with PC_BYE.                                   *)
CloseAfter(v) ==
  /\ ppc' = "bye" /\ verdict' = v
  /\ Link!CallSend(PC, Pkt("PC_BYE", current))
  /\ UNCHANGED <<current, result, calm, deviceVars>>

GotResponse_RetriesError ==
  /\ ppc = "response" /\ PcIdle
  /\ \/ Got(PC, Response(current, "OK")) /\ CloseAfter("ok")
     \/ /\ Got(PC, Response(current, "ERROR"))
        /\ ppc' = "request"
        /\ Link!CallSend(PC, Pkt("REQUEST", current))
        /\ UNCHANGED <<current, verdict, result, calm, deviceVars>>

GotResponse_IgnoresStatus ==
  /\ ppc = "response" /\ PcIdle
  /\ \E t \in {"OK", "ERROR"} : Got(PC, Response(current, t)) /\ CloseAfter("ok")

GotResponse ==
  /\ ppc = "response" /\ PcIdle
  /\ \/ Got(PC, Response(current, "OK")) /\ CloseAfter("ok")
     \/ Got(PC, Response(current, "ERROR")) /\ CloseAfter("failed")

(* A sessionless packet or one of another session raises without a reset.  *)
GotStranger ==
  /\ ppc = "response" /\ PcIdle
  /\ res[PC] = "received"
  /\ LET p == inbox[PC][1].pkt IN
       Sessionless(p) \/ p.sid # current
  /\ CloseAfter("failed")

GotDeviceBye ==
  /\ ppc = "response" /\ PcIdle
  /\ Got(PC, Pkt("DEVICE_BYE", current))
  /\ DispatchEnds("failed")

PcByeEnds_NeedsItsAck ==
  /\ ppc = "bye" /\ PcIdle
  /\ DispatchEnds(IF res[PC] = "sent" THEN verdict ELSE "failed")

PcByeEnds ==
  /\ ppc = "bye" /\ PcIdle
  /\ DispatchEnds(verdict)

-----------------------------------------------------------------------------
(***************************************************************************)
(* The link under both, and its deadlines.  With LateReplies = FALSE a     *)
(* deadline passes only when no answer is on its way: nothing is in flight *)
(* to the node, and the peer has nothing to read, is not reading, or is    *)
(* not about to write.                                                     *)
(***************************************************************************)
Running(e) == IF e = Device THEN dpc \notin {"off", "done"} ELSE ppc # "off"

NothingComing(e) ==
  /\ wire[e] = << >>
  /\ ~Running(Link!Peer(e)) \/ wire[Link!Peer(e)] = << >>
  /\ op[e] = "receive" /\ Running(Link!Peer(e)) =>
       op[Link!Peer(e)] \in {"wait", "receive"}

(* Nothing was lost, damaged or late for these before their verdict.       *)
Undisturbed == {d \in calm : d # current \/ ppc \in {"off", "bye"}}

LinkStep ==
  /\ \/ /\ \/ Link!Fault
           \/ \E e \in {Device, PC} : Link!Send(e) \/ Link!Receive(e)
        /\ calm' = IF faults' = faults THEN calm ELSE Undisturbed
     \/ \E e \in {Device, PC} :
          /\ LateReplies \/ NothingComing(e)
          /\ Link!Timeout(e)
          /\ calm' = IF NothingComing(e) THEN calm ELSE Undisturbed
  /\ UNCHANGED <<deviceVars, ppc, current, verdict, result>>

DeviceStep ==
  \/ HelloSent \/ HelloFailed \/ Opened \/ KeepWaiting \/ OpenExpires
  \/ ServeWrite \/ ServeInvalid \/ ServeFails \/ ServeBye
  \/ AnswerSent \/ AnswerFails \/ ByeEnds \/ ManagerSucceeds

PcStep ==
  \/ GotDeviceHello \/ NoDeviceHello \/ SendRequest \/ AwaitResponse
  \/ ExchangeFails \/ GotResponse \/ GotStranger \/ GotDeviceBye \/ PcByeEnds

Operator == Boot \/ NextUnit \/ Dispatch

Next == LinkStep \/ DeviceStep \/ PcStep \/ Operator

Spec == Init /\ [][Next]_vars

-----------------------------------------------------------------------------
(***************************************************************************)
(* What a dispatch and a boot promise, whatever the UART does.             *)
(***************************************************************************)

(* A dispatch that reports success has written all of its data, and only   *)
(* its data, to a unit: no stale response, of an earlier dispatch or boot, *)
(* is taken for its own.                                                   *)
SuccessMeansWritten ==
  \A d \in Dispatches : result[d] = "ok" =>
    \E i \in 1..Len(written) :
      written[i].data = d /\ written[i].stored = "all" /\ ~written[i].spliced

(* The data of one dispatch reaches at most one unit, once: no retry, late *)
(* frame or second boot applies a write request again.                     *)
WrittenOnce ==
  \A i, j \in 1..Len(written) : written[i].data = written[j].data => i = j

(* A unit that is told to reboot (factory_manager_process returned true)   *)
(* has stored everything in the request whose session it served.           *)
RebootMeansWritten ==
  \A u \in Units, d \in Dispatches : <<u, d>> \in rebooted =>
    \E i \in 1..Len(written) :
      written[i].unit = u /\ written[i].data = d /\ written[i].stored = "all"

-----------------------------------------------------------------------------
(***************************************************************************)
(* What they agree on when the dispatch begins on a fresh UART and, until  *)
(* its verdict, nothing is lost or damaged and no deadline passes while an *)
(* answer is coming, whatever happened before and happens after.  After a  *)
(* lost ACK neither holds: the last message of an exchange is never        *)
(* confirmed.  Frames that an earlier boot or dispatch left on the UART    *)
(* break both as well: they stand for the answers of later ones.           *)
(***************************************************************************)

(* A dispatch that reports failure leaves no unit fully written: its keys  *)
(* may be handed to another unit (GenericProvisionDispatcher.dispatch).    *)
FailedMeansUnwritten ==
  \A d \in calm : result[d] = "failed" =>
    \A i \in 1..Len(written) : written[i].data = d => written[i].stored = "part"

(* A unit that reboots as provisioned (factory_manager_process returned    *)
(* true) was reported as a success, or is about to be: the PC only has its *)
(* BYE left to send.                                                       *)
RebootMeansReported ==
  \A d \in calm :
    (\E u \in Units : <<u, d>> \in rebooted) =>
      result[d] = "ok" \/ (current = d /\ ppc = "bye" /\ verdict = "ok")

-----------------------------------------------------------------------------
(***************************************************************************)
(* All of it at once: the station implements Provisioning.  A verdict is   *)
(* said when the PC has it, before the session is closed.                  *)
(***************************************************************************)
Verdict(d) == IF d = current /\ ppc = "bye" THEN verdict ELSE result[d]

Applications(d) == {written[i] : i \in {j \in 1..Len(written) : written[j].data = d}}

Said == [d \in Dispatches |-> Verdict(d)]
Stored == [d \in Dispatches |-> Applications(d)]

Station == INSTANCE Provisioning WITH
             started <- current, said <- Said, stored <- Stored

StationSpec == Station!Spec

-----------------------------------------------------------------------------
(***************************************************************************)
(* Progress.  Both programs keep running and their deadlines pass.  The    *)
(* 5 s of session_wait_pc_hello are absolute: the check comes up again     *)
(* after every read, so strong fairness stands for the clock.  Nothing is  *)
(* assumed of the operator or of faults.                                   *)
(***************************************************************************)
Fairness ==
  /\ WF_vars(DeviceStep) /\ WF_vars(PcStep)
  /\ SF_vars(OpenExpires)
  /\ \A e \in {Device, PC} :
       /\ WF_vars(Link!Send(e) /\ LinkStep)
       /\ WF_vars(Link!Receive(e) /\ LinkStep)
       /\ WF_vars(Link!Timeout(e) /\ LinkStep)

FairSpec == Spec /\ Fairness

(* dispatch returns or raises: the provision worker is never stuck in it,  *)
(* whatever stale frames it finds and wherever the unit stopped.           *)
DispatchReturns == ppc # "off" ~> ppc = "off"

(* factory_manager_process returns, so the product resumes or reboots,     *)
(* although its serve loop has no deadline of its own.                     *)
ManagerReturns == dpc \notin {"off", "done"} ~> dpc \in {"off", "done"}

=============================================================================
