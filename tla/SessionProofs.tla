---------------------------- MODULE SessionProofs ----------------------------
(***************************************************************************)
(* What a dispatch and a boot promise, for every number of dispatches,     *)
(* boots, units, tries and faults.  Fragments of requests reach the device *)
(* in the order in which the PC sent them, so once the device has received *)
(* a request the first fragment of it, or of an earlier one, cannot come   *)
(* again: nothing is applied twice, and a request that was spliced with a  *)
(* later one belongs to a dispatch that is over.                           *)
(*                                                                         *)
(* A dispatch that begins on a fresh UART and is not disturbed is followed *)
(* position by position, from DEVICE_HELLO to its verdict: what both       *)
(* programs are doing and what the UART carries is one of a few pictures,  *)
(* and in each of them what one node may do leads to another.              *)
(***************************************************************************)
EXTENDS FactorySession, TLAPS

(* FactorySession's link, with what is proved of it.                       *)

LP == INSTANCE FrameLinkProofs WITH
        Packet <- SessionPacket, FrameCount <- Fragments,
        MaxFrames <- RequestFrames, MaxBacklog <- 1000, TypeFaults <- {}

LEMMA LinkAssumptions ==
  /\ LP!PacketAssumption /\ LP!NodesDiffer /\ LP!BoundsAssumption
  /\ LP!TypeFaultsAssumption
BY SessionAssumption DEF LP!PacketAssumption, LP!NodesDiffer, LP!BoundsAssumption,
   LP!TypeFaultsAssumption, SessionAssumption, Fragments, SessionPacket

-----------------------------------------------------------------------------
(***************************************************************************)
(* Packets.  Requests are sent in the order of their dispatches, and a     *)
(* fragment's number is below 256.                                         *)
(***************************************************************************)
Ranks == [p \in SessionPacket |-> 256 * p.sid]

Request(d) == Pkt("REQUEST", d)

LEMMA Packets ==
  /\ Ranks \in [SessionPacket -> Nat]
  /\ \A p \in SessionPacket :
       /\ p.sid \in Nat /\ Ranks[p] = 256 * p.sid
       /\ Fragments[p] = IF p.kind = "REQUEST" THEN RequestFrames ELSE 1
       /\ p.kind = "REQUEST" => p = Request(p.sid) /\ p.sid \in Dispatches
  /\ \A d \in Dispatches :
       /\ Request(d) \in SessionPacket /\ Request(d).kind = "REQUEST" /\ Request(d).sid = d
       /\ Response(d, "OK") \in SessionPacket /\ Response(d, "ERROR") \in SessionPacket
       /\ Pkt("PC_HELLO", d) \in SessionPacket /\ Pkt("PC_BYE", d) \in SessionPacket
       /\ Pkt("DEVICE_BYE", d) \in SessionPacket
  /\ Pkt("DEVICE_HELLO", 0) \in SessionPacket
  /\ RequestFrames \in 2..254 /\ Dispatches \subseteq Nat
<1>1. Dispatches \subseteq Nat /\ RequestFrames \in 2..254 /\ 0 \in Nat
  BY SessionAssumption DEF Dispatches
<1>2. ASSUME NEW p \in SessionPacket
      PROVE  /\ p.sid \in Nat
             /\ p.kind = "REQUEST" => p = Request(p.sid) /\ p.sid \in Dispatches
  <2>1. CASE p \in [kind : {"DEVICE_HELLO"}, sid : {0}, status : {"-"}]
    BY <1>1, <2>1
  <2>2. CASE p \in [kind : {"PC_HELLO", "REQUEST", "PC_BYE", "DEVICE_BYE"},
                    sid : Dispatches, status : {"-"}]
    <3>1. /\ p.sid \in Dispatches /\ p.status = "-"
          /\ p = [kind |-> p.kind, sid |-> p.sid, status |-> p.status]
      BY <2>2
    <3> QED BY <1>1, <3>1 DEF Request, Pkt
  <2>3. CASE p \in [kind : {"RESPONSE"}, sid : Dispatches, status : {"OK", "ERROR"}]
    BY <1>1, <2>3
  <2> QED BY <2>1, <2>2, <2>3 DEF SessionPacket
<1>3. Ranks \in [SessionPacket -> Nat] /\ \A p \in SessionPacket : Ranks[p] = 256 * p.sid
  BY <1>2 DEF Ranks
<1>4. \A p \in SessionPacket : Fragments[p] = IF p.kind = "REQUEST" THEN RequestFrames ELSE 1
  BY DEF Fragments
<1>5. /\ \A d \in Dispatches :
         /\ Request(d) \in SessionPacket /\ Request(d).kind = "REQUEST" /\ Request(d).sid = d
         /\ Response(d, "OK") \in SessionPacket /\ Response(d, "ERROR") \in SessionPacket
         /\ Pkt("PC_HELLO", d) \in SessionPacket /\ Pkt("PC_BYE", d) \in SessionPacket
         /\ Pkt("DEVICE_BYE", d) \in SessionPacket
      /\ Pkt("DEVICE_HELLO", 0) \in SessionPacket
  BY DEF SessionPacket, Request, Response, Pkt
<1> QED BY <1>1, <1>2, <1>3, <1>4, <1>5

(* The two instances of FrameLink are one.                                 *)
LEMMA SameActions ==
  \A e : /\ Link!Send(e) => LP!Send(e)
         /\ Link!Receive(e) => LP!Receive(e)
         /\ Link!Timeout(e) => LP!Timeout(e)
         /\ Link!CallReceive(e) => LP!CallReceive(e)
         /\ \A p : Link!CallSend(e, p) => LP!CallSend(e, p)
<1> USE DEF Link!Peer, LP!Peer, Link!Blank, LP!Blank, Link!Spend, LP!Spend,
            Link!RetryOrFail, LP!RetryOrFail, Link!TriesLeft, LP!TriesLeft,
            Link!NextTry, LP!NextTry, Link!Return, LP!Return, Link!NoTx,
            LP!NoTx, Link!Raise, LP!Raise, Link!Oldest, LP!Oldest, Link!Await,
            LP!Await, Link!Readable, LP!Readable, Link!ControlType,
            LP!ControlType, Link!Expected, LP!Expected, Link!Fragment,
            LP!Fragment, Link!SINGLE_SEQ, LP!SINGLE_SEQ, Link!NoFrame,
            LP!NoFrame, Link!NextFrame, LP!NextFrame, Link!Load, LP!Load,
            Link!Undecodable, LP!Undecodable, Link!EmptyAsm, LP!EmptyAsm,
            Link!Control, LP!Control, Link!DataType, LP!DataType,
            Link!Duplicate, LP!Duplicate, Link!Accepts, LP!Accepts,
            Link!Assemble, LP!Assemble, Link!Complete, LP!Complete,
            Link!IsControl, LP!IsControl, Link!Fits, LP!Fits, Link!Typed, LP!Typed,
            Link!MayOverflow, LP!MayOverflow, Link!Totals, LP!Totals,
            Link!Misread, LP!Misread
<1>1. \A e : Link!WriteFrame(e) => LP!WriteFrame(e)
  BY DEF Link!WriteFrame, LP!WriteFrame
<1>2. \A e : Link!WriteFails(e) => LP!WriteFails(e)
  BY DEF Link!WriteFails, LP!WriteFails
<1>3. \A e : Link!GetAck(e) => LP!GetAck(e)
  BY DEF Link!GetAck, LP!GetAck
<1>4. \A e : Link!GetNack(e) => LP!GetNack(e)
  BY DEF Link!GetNack, LP!GetNack
<1>5. \A e : Link!SkipControl(e) => LP!SkipControl(e)
  BY DEF Link!SkipControl, LP!SkipControl
<1>6. \A e : Link!SetAside(e) => LP!SetAside(e)
  BY DEF Link!SetAside, LP!SetAside
<1>7. \A e : Link!AwaitUnreadable(e) => LP!AwaitUnreadable(e)
  BY DEF Link!AwaitUnreadable, LP!AwaitUnreadable
<1>8. \A e : Link!ReceiveControl(e) => LP!ReceiveControl(e)
  BY DEF Link!ReceiveControl, LP!ReceiveControl
<1>9. \A e : Link!ReceiveUndecodable(e) => LP!ReceiveUndecodable(e)
  BY DEF Link!ReceiveUndecodable, LP!ReceiveUndecodable
<1>10. \A e : Link!ReceiveDuplicate(e) => LP!ReceiveDuplicate(e)
  BY DEF Link!ReceiveDuplicate, LP!ReceiveDuplicate
<1>11. \A e : Link!ReceiveRejected(e) => LP!ReceiveRejected(e)
  BY DEF Link!ReceiveRejected, LP!ReceiveRejected
<1>12. \A e : Link!ReceiveAccepted(e) => LP!ReceiveAccepted(e)
  BY DEF Link!ReceiveAccepted, LP!ReceiveAccepted
<1>13. \A e : Link!AwaitTimeout(e) => LP!AwaitTimeout(e)
  BY DEF Link!AwaitTimeout, LP!AwaitTimeout
<1>14. \A e : Link!ReceiveTimeout(e) => LP!ReceiveTimeout(e)
  BY DEF Link!ReceiveTimeout, LP!ReceiveTimeout
<1>15. \A e : Link!CallReceive(e) => LP!CallReceive(e)
  BY DEF Link!CallReceive, LP!CallReceive
<1>16. \A e, p : Link!CallSend(e, p) => LP!CallSend(e, p)
  BY ZenonT(30) DEF Link!CallSend, LP!CallSend
<1> QED
  BY <1>1, <1>2, <1>3, <1>4, <1>5, <1>6, <1>7, <1>8, <1>9, <1>10, <1>11, <1>12, <1>13,
     <1>14, <1>15, <1>16
  DEF Link!Send, LP!Send, Link!Receive, LP!Receive, Link!Timeout, LP!Timeout

LEMMA SameLink ==
  /\ LP!Node = {Device, PC} /\ Device # PC
  /\ LinkStep => LP!Works
  /\ LP!LinkInv => Link!TypeOK
  /\ Link!Init => LP!Init
  /\ Link!NoFrame = LP!NoFrame
<1>1. LP!Node = {Device, PC} /\ Device # PC
  BY SessionAssumption DEF LP!Node
<1>2. Link!Fault => LP!Fault
  BY DEF Link!Fault, LP!Fault, Link!Lose, LP!Lose, Link!Damage, LP!Damage, Link!Spend, LP!Spend,
     Link!Node, LP!Node, Link!Oldest, LP!Oldest, Link!SeqNo, LP!SeqNo,
     Link!SINGLE_SEQ, LP!SINGLE_SEQ, Link!PROTOCOL_VERSION, LP!PROTOCOL_VERSION,
     Link!PayloadDamaged, LP!PayloadDamaged, Link!TypeDamaged, LP!TypeDamaged,
     Link!SeqAs, LP!SeqAs, Link!Typed, LP!Typed, Link!Fragment, LP!Fragment,
     Link!FrameType, LP!FrameType, Link!DataType, LP!DataType, Link!ControlType,
     LP!ControlType
<1>3. LinkStep => LP!Works
  BY <1>1, <1>2, SameActions DEF LinkStep, LP!Works
<1>4. Link!TypeOK <=> LP!TypeOK
  BY DEF LP!TypeOK, Link!TypeOK, LP!Node, Link!Node, LP!Frame, Link!Frame, LP!Asm, Link!Asm,
     LP!Chunk, Link!Chunk, LP!Misread, Link!Misread, LP!Piece, Link!Piece, LP!SeqNo,
     Link!SeqNo, LP!FrameType, Link!FrameType, LP!DataType, Link!DataType, LP!ControlType,
     Link!ControlType, LP!SINGLE_SEQ, Link!SINGLE_SEQ, LP!PROTOCOL_VERSION,
     Link!PROTOCOL_VERSION
<1>5. Link!Init => LP!Init
  BY DEF Link!Init, LP!Init, Link!Node, LP!Node, Link!NoTx, LP!NoTx, Link!Blank, LP!Blank,
     Link!EmptyAsm, LP!EmptyAsm, Link!NoFrame, LP!NoFrame
<1>6. Link!NoFrame = LP!NoFrame
  BY DEF Link!NoFrame, LP!NoFrame, Link!Blank, LP!Blank
<1> QED BY <1>1, <1>3, <1>4, <1>5, <1>6 DEF LP!LinkInv

(* What a node received has the fragments of one packet, none misread.     *)
IntactInboxes ==
  \A e \in {Device, PC} :
    /\ inbox[e] \in Seq([pkt : SessionPacket, idx : 1..RequestFrames])
    /\ res[e] = "received" =>
         /\ inbox[e] # << >> /\ Len(inbox[e]) = Fragments[inbox[e][1].pkt]
         /\ \A i \in 1..Len(inbox[e]) : inbox[e][i].idx = i

LEMMA IntactInbox == LP!LinkInv => IntactInboxes
<1> SUFFICES ASSUME LP!LinkInv, NEW e \in LP!Node
             PROVE  /\ inbox[e] \in Seq([pkt : SessionPacket, idx : 1..RequestFrames])
                    /\ res[e] = "received" =>
                         /\ inbox[e] # << >> /\ Len(inbox[e]) = Fragments[inbox[e][1].pkt]
                         /\ \A i \in 1..Len(inbox[e]) : inbox[e][i].idx = i
  BY SameLink DEF IntactInboxes
<1>1. /\ inbox[e] \in Seq(LP!Chunk)
      /\ res[e] = "received" => Len(inbox[e]) = Fragments[inbox[e][1].pkt]
  BY LinkAssumptions, LP!IntactLink
<1>2. inbox[e] \in Seq([pkt : SessionPacket, idx : 1..RequestFrames])
  BY <1>1 DEF LP!Chunk
<1>3. LP!Untouched(inbox[e])
  BY DEF LP!LinkInv, LP!TypesKept
<1>4. ASSUME res[e] = "received"
      PROVE  inbox[e] # << >> /\ \A i \in 1..Len(inbox[e]) : inbox[e][i].idx = i
  BY <1>3, <1>4 DEF LP!LinkInv, LP!WholePacket, LP!Whole, LP!Gapless, LP!Untouched
<1> QED BY <1>1, <1>2, <1>4

LEMMA IntactInboxNext == LP!LinkInv' => IntactInboxes'
BY IntactInbox, PTL

-----------------------------------------------------------------------------
(***************************************************************************)
(* The inductive invariant.                                                *)
(***************************************************************************)
Received(e) == res[e] = "received"
Applied(d) == \E i \in 1..Len(written) : written[i].data = d
Pure(d) == \E i \in 1..Len(written) :
             written[i].data = d /\ written[i].stored = "all" /\ ~written[i].spliced
Full(u, d) == \E i \in 1..Len(written) :
                written[i].unit = u /\ written[i].data = d /\ written[i].stored = "all"

(* The last dispatch whose request was handed to the link.                 *)
Requested == IF ppc \in {"hello", "open"} THEN current - 1 ELSE current

Typed ==
  /\ dpc \in {"off", "hello", "wait", "serve", "answer", "bye", "reboot", "done"}
  /\ dsid \in 0..MaxDispatches
  /\ dstatus \in {"OK", "ERROR"}
  /\ unit \in Units
  /\ boots \in 0..MaxBoots
  /\ written \in Seq(Write)
  /\ rebooted \subseteq Units \X Dispatches
  /\ ppc \in {"off", "hello", "open", "request", "response", "bye"}
  /\ current \in 0..MaxDispatches
  /\ verdict \in {"none", "ok", "failed"}
  /\ result \in [Dispatches -> {"none", "ok", "failed"}]
  /\ dpc \in {"serve", "answer", "bye", "reboot"} => dsid \in Dispatches
  /\ ppc # "off" => current \in Dispatches
  /\ calm \subseteq Dispatches

(* Fragments of requests reach the device in the order they were sent.     *)
InOrder ==
  /\ LP!LinkInv
  /\ LP!PcHolds
  /\ LP!From(Ranks, 0)
  /\ LP!HeadFirst(Ranks)

(* Nothing of a request precedes its dispatch.                             *)
Known == \A d \in Dispatches : d > Requested => LP!Absent(Request(d)) /\ ~Applied(d)

(* The first fragment of an applied request cannot come again.             *)
Behind == \A d \in Dispatches : Applied(d) => LP!From(Ranks, 256 * d + 2)

(* Neither can that of the request just received, which was not applied.   *)
Taken ==
  Received(Device) /\ Len(inbox[Device]) # 1 =>
    /\ \A i \in 1..Len(inbox[Device]) :
         /\ Fragments[inbox[Device][i].pkt] > 1
         /\ LP!Rank(Ranks, inbox[Device][1]) <= LP!Rank(Ranks, inbox[Device][i])
    /\ \A d \in Dispatches : d = inbox[Device][1].pkt.sid =>
         LP!From(Ranks, 256 * d + 2) /\ ~Applied(d)

Stream == InOrder /\ Known /\ Behind /\ Taken

(* An OK that may still arrive is deserved, or of a dispatch that is over. *)
Answered ==
  \A d \in Dispatches : LP!Absent(Response(d, "OK")) \/ Pure(d) \/ d < current

Deserved ==
  /\ ppc = "bye" /\ verdict = "ok" => Pure(current)
  /\ \A d \in Dispatches : result[d] = "ok" => Pure(d)

Rebooting ==
  (dpc = "answer" /\ dstatus = "OK") \/ dpc = "reboot" => Full(unit, dsid)

SessionInv ==
  /\ Typed /\ Stream /\ Answered /\ Deserved
  /\ WrittenOnce /\ Rebooting /\ RebootMeansWritten

-----------------------------------------------------------------------------
(***************************************************************************)
(* How the two programs use the link.                                      *)
(***************************************************************************)
Cut(e) ==
  /\ wire' = [wire EXCEPT ![e] = << >>]
  /\ UNCHANGED <<op, tx, buf, asm, pending, res, inbox, faults>>

(* A step that uses the link, and sends a packet of P if it sends one.     *)
Use(P) ==
  \E e \in {Device, PC} :
    \/ LP!CallReceive(e) \/ Leave(e) \/ Cut(e)
    \/ \E p \in P : LP!CallSend(e, p)

Small == {p \in SessionPacket : p.kind # "REQUEST"}
Plain == {p \in Small : p.status # "OK"}

LEMMA UseLink ==
  ASSUME LP!LinkInv, NEW P \in SUBSET SessionPacket, Use(P)
  PROVE  /\ LP!LinkInv'
         /\ UNCHANGED <<res[Device], inbox[Device]>> \/ res'[Device] # "received"
<1>1. PICK e \in {Device, PC} :
        \/ LP!CallReceive(e) \/ Leave(e) \/ Cut(e)
        \/ \E p \in P : LP!CallSend(e, p)
  BY DEF Use
<1>2. e \in LP!Node
  BY SameLink
<1>3. /\ res \in [LP!Node -> {"none", "sent", "received", "timeout", "failed"}]
      /\ inbox = [n \in LP!Node |-> inbox[n]]
  BY DEF LP!LinkInv, LP!TypeOK
<1>4. CASE LP!CallReceive(e)
  BY <1>2, <1>3, <1>4, LP!CallReceiveKeeps, LinkAssumptions, SameLink DEF LP!CallReceive
<1>5. CASE Leave(e)
  <2>1. LP!LinkInv'
    BY <1>2, <1>5, LP!LeaveKeeps, LinkAssumptions, SameLink DEF Leave
  <2> QED BY <1>2, <1>3, <1>5, <2>1, SameLink DEF Leave
<1>6. CASE Cut(e)
  BY <1>2, <1>6, LP!CutKeeps, LinkAssumptions DEF Cut
<1>7. CASE \E p \in P : LP!CallSend(e, p)
  BY <1>2, <1>3, <1>7, LP!CallSendKeeps, LinkAssumptions, SameLink, ZenonT(30) DEF LP!CallSend
<1> QED BY <1>1, <1>4, <1>5, <1>6, <1>7

LEMMA UseFrom ==
  ASSUME InOrder, NEW k \in Int, LP!From(Ranks, k), Use(Small)
  PROVE  LP!From(Ranks, k)' /\ LP!HeadFirst(Ranks)' /\ LP!PcHolds'
<1>1. PICK e \in {Device, PC} :
        \/ LP!CallReceive(e) \/ Leave(e) \/ Cut(e)
        \/ \E p \in Small : LP!CallSend(e, p)
  BY DEF Use
<1>2. LP!LinkInv /\ LP!PcHolds /\ LP!HeadFirst(Ranks) /\ Ranks \in [SessionPacket -> Nat]
  BY Packets DEF InOrder
<1>3. /\ op \in [LP!Node -> {"idle", "send", "wait", "receive"}]
      /\ tx = [n \in LP!Node |-> tx[n]] /\ buf = [n \in LP!Node |-> buf[n]]
      /\ pending = [n \in LP!Node |-> pending[n]] /\ asm = [n \in LP!Node |-> asm[n]]
      /\ wire = [n \in LP!Node |-> wire[n]]
  BY <1>2 DEF LP!LinkInv, LP!TypeOK
<1>4. CASE \E p \in Small : LP!CallSend(PC, p)
  BY <1>2, <1>4, LP!CallSendFrom, LinkAssumptions, Packets DEF Small
<1>5. CASE LP!CallReceive(e) \/ Leave(e) \/ Cut(e) \/ \E p \in Small : e = Device /\ LP!CallSend(e, p)
  <2>1. /\ op'[PC] = op[PC] \/ (op[PC] = "idle" /\ op'[PC] = "receive")
        /\ UNCHANGED <<tx[PC], buf[PC]>>
        /\ pending'[Device] \in {pending[Device], LP!NoFrame}
        /\ wire'[Device] \in {wire[Device], << >>}
        /\ asm'[Device] \in {asm[Device], LP!EmptyAsm}
    <3>1. CASE LP!CallReceive(e)
      BY <1>3, <3>1, SameLink DEF LP!CallReceive
    <3>2. CASE Leave(e)
      BY <1>3, <3>2, SameLink DEF Leave
    <3>3. CASE Cut(e)
      BY <1>3, <3>3, SameLink DEF Cut
    <3>4. CASE \E p \in Small : e = Device /\ LP!CallSend(e, p)
      BY <1>3, <3>4, SameLink DEF LP!CallSend
    <3> QED BY <1>5, <3>1, <3>2, <3>3, <3>4
  <2>2. LP!Sending(PC)' = LP!Sending(PC)
    BY <2>1 DEF LP!Sending
  <2> QED BY <1>2, <2>1, <2>2, LP!QuietFrom, LinkAssumptions
<1> QED BY <1>1, <1>4, <1>5

LEMMA UseAbsent ==
  ASSUME LP!LinkInv, NEW P \in SUBSET SessionPacket, Use(P),
         NEW p \in SessionPacket, p \notin P, LP!Absent(p)
  PROVE  LP!Absent(p)'
<1>1. PICK e \in {Device, PC} :
        \/ LP!CallReceive(e) \/ Leave(e) \/ Cut(e)
        \/ \E q \in P : LP!CallSend(e, q)
  BY DEF Use
<1>3. /\ pending = [n \in LP!Node |-> pending[n]] /\ asm = [n \in LP!Node |-> asm[n]]
      /\ wire = [n \in LP!Node |-> wire[n]] /\ inbox = [n \in LP!Node |-> inbox[n]]
  BY DEF LP!LinkInv, LP!TypeOK
<1>4. CASE \E q \in P : LP!CallSend(e, q)
  BY <1>1, <1>4, LP!CallSendAbsent, LinkAssumptions, SameLink
<1>5. CASE LP!CallReceive(e) \/ Leave(e) \/ Cut(e)
  <2>1. /\ UNCHANGED <<tx, buf>>
        /\ \A n \in LP!Node :
             /\ pending'[n] \in {pending[n], LP!NoFrame}
             /\ wire'[n] \in {wire[n], << >>}
             /\ asm'[n] \in {asm[n], LP!EmptyAsm}
             /\ inbox'[n] \in {inbox[n], << >>}
    <3>1. CASE LP!CallReceive(e)
      BY <1>3, <3>1, SameLink DEF LP!CallReceive
    <3>2. CASE Leave(e)
      BY <1>3, <3>2, SameLink DEF Leave
    <3>3. CASE Cut(e)
      BY <1>3, <3>3, SameLink DEF Cut
    <3> QED BY <1>5, <3>1, <3>2, <3>3
  <2> QED BY <2>1, LP!QuietAbsent, LinkAssumptions
<1> QED BY <1>1, <1>4, <1>5

(* A use of the link that neither sends nor applies a request.             *)
LEMMA QuietStream ==
  ASSUME Stream, Use(Small), UNCHANGED written,
         Requested \in Int, Requested' \in Int, Requested <= Requested'
  PROVE  Stream'
<1>1. Small \in SUBSET SessionPacket /\ \A d \in Dispatches : Request(d) \in SessionPacket \ Small
  BY Packets DEF Small
<1>2. /\ LP!LinkInv /\ LP!LinkInv'
      /\ UNCHANGED <<res[Device], inbox[Device]>> \/ res'[Device] # "received"
  BY <1>1, UseLink DEF Stream, InOrder
<1>3. InOrder'
  BY <1>2, UseFrom DEF Stream, InOrder
<1>4. \A d \in Dispatches : Applied(d)' <=> Applied(d)
  BY DEF Applied
<1>5. Known'
  BY <1>1, <1>2, <1>4, UseAbsent, Packets DEF Stream, Known
<1>6. ASSUME NEW d \in Dispatches, LP!From(Ranks, 256 * d + 2)
      PROVE  LP!From(Ranks, 256 * d + 2)'
  <2>1. 256 * d + 2 \in Int
    BY Packets
  <2> QED BY <1>6, <2>1, UseFrom DEF Stream
<1>7. Behind'
  BY <1>4, <1>6 DEF Stream, Behind
<1>8. Taken'
  BY <1>2, <1>4, <1>6 DEF Stream, Taken, Received, LP!Rank
<1> QED BY <1>3, <1>5, <1>7, <1>8 DEF Stream

LEMMA Requests ==
  /\ \A d \in Dispatches :
       /\ Request(d) \in SessionPacket /\ Request(d).sid = d /\ d \in Int
       /\ Fragments[Request(d)] = RequestFrames /\ Ranks[Request(d)] = 256 * d
  /\ \A p \in SessionPacket : Fragments[p] # 1 =>
       p.sid \in Dispatches /\ p = Request(p.sid)
  /\ RequestFrames \in Int /\ 2 <= RequestFrames /\ RequestFrames <= 254
  /\ Typed => current \in Int /\ Requested \in Int
<1>1. Typed => current \in Int /\ Requested \in Int
  <2>1. 0..MaxDispatches \subseteq Int
    BY SessionAssumption
  <2> QED BY <2>1 DEF Requested, Typed
<1>2. ASSUME NEW d \in Dispatches
      PROVE  /\ Request(d) \in SessionPacket /\ Request(d).sid = d /\ d \in Int
             /\ Fragments[Request(d)] = RequestFrames /\ Ranks[Request(d)] = 256 * d
  <2>1. Request(d) \in SessionPacket /\ Request(d).sid = d /\ Request(d).kind = "REQUEST"
    BY Packets
  <2>2. Fragments[Request(d)] = RequestFrames
    BY <2>1, Packets
  <2>3. d \in Int
    BY Packets
  <2> QED BY <2>1, <2>2, <2>3, Packets
<1>3. ASSUME NEW p \in SessionPacket, Fragments[p] # 1
      PROVE  p.sid \in Dispatches /\ p = Request(p.sid)
  <2>1. p.kind = "REQUEST"
    BY <1>3, Packets
  <2> QED BY <2>1, Packets
<1>4. RequestFrames \in Int /\ 2 <= RequestFrames /\ RequestFrames <= 254
  BY SessionAssumption
<1> QED BY <1>1, <1>2, <1>3, <1>4

LEMMA Element ==
  ASSUME NEW S, NEW s \in Seq(S), NEW i \in 1..Len(s)
  PROVE  s[i] \in S
OBVIOUS

(* The device received a request, perhaps with fragments of later ones.    *)
LEMMA ReceivedRequest ==
  ASSUME Typed, Stream, NEW d \in Dispatches, Got(Device, Request(d))
  PROVE  /\ d <= Requested /\ ~Applied(d)
         /\ LP!From(Ranks, 256 * d + 2)
         /\ Spliced(Device) => d < Requested
<1> DEFINE m == inbox[Device]
<1>1. Device \in LP!Node /\ PC \in LP!Node
  BY SameLink
<1>2. /\ m # << >> /\ Len(m) = Fragments[m[1].pkt]
      /\ \A i \in 1..Len(m) : m[i].idx = i
  BY IntactInbox DEF Stream, InOrder, Got, IntactInboxes
<1>3. m \in Seq([pkt : SessionPacket, idx : 1..RequestFrames])
  BY IntactInbox DEF Stream, InOrder, IntactInboxes
<1>0. m[1].pkt = Request(d) /\ res[Device] = "received"
  BY DEF Got
<1>4. m[1].pkt = Request(d) /\ Len(m) = RequestFrames /\ Len(m) # 1
  <2>1. Len(m) = RequestFrames
    BY <1>0, <1>2, Requests
  <2> QED BY <1>0, <2>1, Requests
<1>5. /\ LP!From(Ranks, 256 * d + 2) /\ ~Applied(d)
      /\ \A i \in 1..Len(m) : /\ Fragments[m[i].pkt] > 1
                              /\ LP!Rank(Ranks, m[1]) <= LP!Rank(Ranks, m[i])
  <2>1. d = m[1].pkt.sid
    BY <1>4, Requests
  <2> QED BY <1>0, <1>4, <2>1 DEF Stream, Taken, Received
<1>6. ASSUME NEW i \in 1..Len(m)
      PROVE  m[i].pkt.sid \in Dispatches /\ m[i].pkt = Request(m[i].pkt.sid)
             /\ m[i].pkt.sid <= Requested
  <2>0. m[i] \in [pkt : SessionPacket, idx : 1..RequestFrames]
    BY <1>3, Element
  <2>1. m[i].pkt \in SessionPacket
    BY <2>0
  <2>6. Fragments[m[i].pkt] > 1 /\ ~(1 > 1)
    BY <1>5
  <2>2. m[i].pkt.sid \in Dispatches /\ m[i].pkt = Request(m[i].pkt.sid)
    BY <2>1, <2>6, Requests
  <2>3. ~LP!Absent(Request(m[i].pkt.sid))
    BY <1>1, <2>2 DEF LP!Absent
  <2>4. ~(m[i].pkt.sid > Requested)
    BY <2>2, <2>3 DEF Stream, Known
  <2>5. Requested \in Int /\ m[i].pkt.sid \in Int
    BY <2>2, Requests
  <2> QED BY <2>2, <2>4, <2>5
<1>7. 1 \in 1..Len(m)
  BY <1>4, Requests
<1>8. d <= Requested
  BY <1>4, <1>6, <1>7, Requests
<1>9. ASSUME NEW i \in 1..Len(m), m[i].pkt # m[1].pkt
      PROVE  d < Requested
  <2> DEFINE e == m[i].pkt.sid
  <2>1. e \in Dispatches /\ m[i].pkt = Request(e) /\ e <= Requested /\ e # d
    BY <1>4, <1>6, <1>9
  <2>2. m[i].idx = i /\ m[1].idx = 1 /\ i \in 1..RequestFrames
    <3>1. m[i].idx = i /\ m[1].idx = 1
      BY <1>2, <1>7
    <3> QED BY <1>4, <3>1
  <2>3. LP!Rank(Ranks, m[1]) = 256 * d + 1 /\ LP!Rank(Ranks, m[i]) = 256 * e + i
    <3>1. Ranks[m[1].pkt] = 256 * d /\ Ranks[m[i].pkt] = 256 * e
      BY <1>4, <2>1, Requests
    <3> QED BY <2>2, <3>1 DEF LP!Rank
  <2>6. LP!Rank(Ranks, m[1]) <= LP!Rank(Ranks, m[i])
    BY <1>5
  <2>4. 256 * d + 1 <= 256 * e + i
    BY <2>6, <2>3
  <2>5. d \in Int /\ e \in Int /\ Requested \in Int
    BY <2>1, Requests
  <2> HIDE DEF m, e
  <2> QED BY <2>1, <2>2, <2>4, <2>5, Requests
<1> QED BY <1>5, <1>8, <1>9 DEF Spliced

LEMMA LongReceipt ==
  LP!LinkInv /\ Received(Device) /\ Len(inbox[Device]) # 1 =>
    \E d \in Dispatches : inbox[Device][1].pkt = Request(d) /\ Len(inbox[Device]) = RequestFrames
<1> SUFFICES ASSUME LP!LinkInv, Received(Device), Len(inbox[Device]) # 1
             PROVE  \E d \in Dispatches :
                      inbox[Device][1].pkt = Request(d) /\ Len(inbox[Device]) = RequestFrames
  OBVIOUS
<1>1. /\ inbox[Device] \in Seq([pkt : SessionPacket, idx : 1..RequestFrames])
      /\ inbox[Device] # << >> /\ Len(inbox[Device]) = Fragments[inbox[Device][1].pkt]
  BY IntactInbox DEF Received, IntactInboxes
<1>2. 1 \in 1..Len(inbox[Device])
  BY <1>1
<1>3. inbox[Device][1] \in [pkt : SessionPacket, idx : 1..RequestFrames]
  BY <1>1, <1>2, Element
<1>4. inbox[Device][1].pkt \in SessionPacket
  BY <1>3
<1> QED BY <1>1, <1>4, Requests

LEMMA LongReceiptNext ==
  (LP!LinkInv /\ Received(Device) /\ Len(inbox[Device]) # 1 =>
    \E d \in Dispatches : inbox[Device][1].pkt = Request(d) /\ Len(inbox[Device]) = RequestFrames)'
BY LongReceipt, PTL

(* What ServeWrite applies, and answers.                                   *)
LEMMA WriteAppends ==
  ASSUME Typed, ServeWrite
  PROVE  \E d \in Dispatches, status \in {"OK", "ERROR"}, r \in Write :
           /\ d = dsid /\ Got(Device, Request(d))
           /\ dpc' = "answer" /\ dstatus' = status
           /\ r.unit = unit /\ r.data = d
           /\ (status = "OK" => r.stored = "all") /\ (status = "ERROR" => r.stored = "part")
           /\ r.spliced = Spliced(Device)
           /\ written' = Append(written, r)
           /\ LP!CallSend(Device, Response(d, status))
           /\ UNCHANGED <<dsid, unit, boots, rebooted, pcVars>>
<1>1. dsid \in Dispatches /\ unit \in Units
  BY DEF Typed, ServeWrite
<1>2. Got(Device, Request(dsid))
  BY DEF ServeWrite, Request
<1>3. PICK status \in {"OK", "ERROR"} :
        /\ Answer(status)
        /\ written' = Append(written,
             [unit |-> unit, data |-> dsid,
              stored |-> IF status = "OK" THEN "all" ELSE "part",
              spliced |-> Spliced(Device)])
  BY DEF ServeWrite
<1> DEFINE r == [unit |-> unit, data |-> dsid,
                 stored |-> IF status = "OK" THEN "all" ELSE "part",
                 spliced |-> Spliced(Device)]
<1>4. Spliced(Device) \in BOOLEAN
  BY DEF Spliced
<1>5. r \in Write
  BY <1>1, <1>4 DEF Write
<1>6. LP!CallSend(Device, Response(dsid, status))
  BY <1>3, SameActions DEF Answer
<1>7. /\ r.unit = unit /\ r.data = dsid
      /\ (status = "OK" => r.stored = "all") /\ (status = "ERROR" => r.stored = "part")
      /\ r.spliced = Spliced(Device) /\ written' = Append(written, r)
  BY <1>3
<1>8. dpc' = "answer" /\ dstatus' = status /\ UNCHANGED <<dsid, unit, boots, rebooted, pcVars>>
  BY <1>3 DEF Answer
<1> HIDE DEF r
<1> QED BY <1>1, <1>2, <1>5, <1>6, <1>7, <1>8

LEMMA Appended ==
  ASSUME written \in Seq(Write), NEW r \in Write, written' = Append(written, r)
  PROVE  /\ Len(written') = Len(written) + 1 /\ Len(written) \in Nat
         /\ \A i \in 1..Len(written) : i \in 1..Len(written') /\ written'[i] = written[i]
         /\ \A i \in 1..Len(written') : i \in 1..Len(written) \/ (i = Len(written') /\ written'[i] = r)
         /\ Len(written') \in 1..Len(written') /\ written'[Len(written')] = r
         /\ written' \in Seq(Write)
OBVIOUS

LEMMA WriteStream ==
  ASSUME Typed, Stream, ServeWrite
  PROVE  Stream'
<1>1. PICK d \in Dispatches, status \in {"OK", "ERROR"}, r \in Write :
           /\ d = dsid /\ Got(Device, Request(d))
           /\ r.data = d
           /\ written' = Append(written, r)
           /\ LP!CallSend(Device, Response(d, status))
           /\ UNCHANGED pcVars
  BY WriteAppends
<1>2. d <= Requested /\ LP!From(Ranks, 256 * d + 2)
  BY <1>1, ReceivedRequest
<1>3. Response(d, status) \in Small
  BY <1>1, Packets DEF Small, Response
<1>4. Use(Small)
  BY <1>1, <1>3 DEF Use
<1>5. Small \in SUBSET SessionPacket /\ \A x \in Dispatches : Request(x) \in SessionPacket \ Small
  BY Packets DEF Small
<1>6. LP!LinkInv
  BY DEF Stream, InOrder
<1>7. InOrder'
  <2>1. LP!LinkInv'
    BY <1>4, <1>5, <1>6, UseLink
  <2> QED BY <1>4, <2>1, UseFrom DEF Stream, InOrder
<1>8. res'[Device] # "received"
  BY <1>1, <1>6, SameLink DEF LP!CallSend, LP!LinkInv, LP!TypeOK
<1>9. \A x \in Dispatches : Applied(x)' => Applied(x) \/ x = d
  BY <1>1, Appended DEF Applied, Typed
<1>10. Requested' = Requested
  BY <1>1 DEF Requested, pcVars
<1>11. Known'
  <2> SUFFICES ASSUME NEW x \in Dispatches, x > Requested
               PROVE  LP!Absent(Request(x))' /\ ~Applied(x)'
    BY <1>10 DEF Known
  <2>1. LP!Absent(Request(x)) /\ ~Applied(x)
    BY DEF Stream, Known
  <2>2. x # d
    BY <1>2, Requests
  <2> QED BY <1>4, <1>5, <1>6, <1>9, <2>1, <2>2, UseAbsent
<1>12. Behind'
  <2> SUFFICES ASSUME NEW x \in Dispatches, Applied(x)'
               PROVE  LP!From(Ranks, 256 * x + 2)'
    BY DEF Behind
  <2>1. LP!From(Ranks, 256 * x + 2)
    BY <1>2, <1>9 DEF Stream, Behind
  <2>2. 256 * x + 2 \in Int
    BY Requests
  <2> QED BY <1>4, <2>1, <2>2, UseFrom DEF Stream
<1>13. Taken'
  BY <1>8 DEF Taken, Received
<1> QED BY <1>7, <1>11, <1>12, <1>13 DEF Stream

(* The PC sends the request of its dispatch.                               *)
LEMMA RequestStream ==
  ASSUME Typed, Stream, SendRequest
  PROVE  Stream'
<1>1. PICK c \in Dispatches : c = current
  BY DEF Typed, SendRequest
<1>2. LP!CallSend(PC, Request(c)) /\ UNCHANGED deviceVars
  BY <1>1, SameActions DEF SendRequest, Request
<1>3. Requested = c - 1 /\ Requested' = c /\ c \in Int
  BY <1>1, Requests DEF SendRequest, Requested
<1>4. LP!LinkInv /\ LP!PcHolds /\ LP!From(Ranks, 0) /\ LP!HeadFirst(Ranks)
  BY DEF Stream, InOrder
<1>5. PC \in LP!Node /\ Device \in LP!Node /\ Device # PC
  BY SameLink
<1>6. LP!LinkInv'
  BY <1>2, <1>4, <1>5, LP!CallSendKeeps, LinkAssumptions, Requests
<1>7. ASSUME NEW q \in SessionPacket
      PROVE  Fragments[q] = 1 \/ LP!Absent(q) \/ Ranks[q] + Fragments[q] <= Ranks[Request(c)]
  <2>1. CASE Fragments[q] = 1
    BY <2>1
  <2>2. CASE Fragments[q] # 1
    <3>1. q.sid \in Dispatches /\ q = Request(q.sid)
      BY <2>2, Requests
    <3>2. CASE q.sid > Requested
      BY <3>1, <3>2 DEF Stream, Known
    <3>3. CASE ~(q.sid > Requested)
      <4>0. q.sid \in Int
        BY <3>1, Requests
      <4>1. q.sid <= c - 1
        BY <1>3, <3>3, <4>0
      <4>2. Ranks[q] = 256 * q.sid /\ Fragments[q] = RequestFrames /\ Ranks[Request(c)] = 256 * c
        BY <3>1, Requests
      <4> QED BY <1>3, <4>0, <4>1, <4>2, Requests
    <3> QED BY <3>2, <3>3
  <2> QED BY <2>1, <2>2
<1>8. ASSUME NEW k \in Int, k <= 256 * c + 1, LP!From(Ranks, k)
      PROVE  LP!From(Ranks, k)' /\ LP!HeadFirst(Ranks)' /\ LP!PcHolds'
  BY <1>2, <1>4, <1>7, <1>8, LP!CallSendFrom, LinkAssumptions, Requests, Packets
<1>9. InOrder'
  <2>1. 0 \in Int /\ 0 <= 256 * c + 1
    BY <1>3, Packets
  <2> QED BY <1>4, <1>6, <1>8, <2>1 DEF InOrder
<1>10. \A d \in Dispatches : Applied(d)' <=> Applied(d)
  BY <1>2 DEF Applied, deviceVars
<1>11. Known'
  <2> SUFFICES ASSUME NEW x \in Dispatches, x > c
               PROVE  LP!Absent(Request(x))' /\ ~Applied(x)'
    BY <1>3 DEF Known
  <2>0. x \in Int
    BY Requests
  <2>1. x > Requested
    BY <1>3, <2>0
  <2>2. LP!Absent(Request(x)) /\ ~Applied(x) /\ Request(x) # Request(c)
    <3>1. x # c
      BY <1>3
    <3> QED BY <2>1, <3>1, Requests DEF Stream, Known
  <2> QED BY <1>2, <1>4, <1>5, <1>10, <2>2, LP!CallSendAbsent, LinkAssumptions, Requests
<1>12. ASSUME NEW d \in Dispatches, d <= Requested, LP!From(Ranks, 256 * d + 2)
       PROVE  LP!From(Ranks, 256 * d + 2)'
  <2>1. 256 * d + 2 \in Int /\ 256 * d + 2 <= 256 * c + 1
    BY <1>3, <1>12, Requests
  <2> QED BY <1>8, <1>12, <2>1
<1>13. Behind'
  <2> SUFFICES ASSUME NEW d \in Dispatches, Applied(d)
               PROVE  LP!From(Ranks, 256 * d + 2)'
    BY <1>10 DEF Behind
  <2>1. LP!From(Ranks, 256 * d + 2) /\ ~(d > Requested)
    BY DEF Stream, Behind, Known
  <2> QED BY <1>3, <1>12, <2>1, Requests
<1>14. res'[Device] = res[Device] /\ inbox'[Device] = inbox[Device]
  BY <1>2, <1>4, <1>5 DEF LP!CallSend, LP!LinkInv, LP!TypeOK
<1>15. Taken'
  <2> SUFFICES ASSUME Received(Device), Len(inbox[Device]) # 1,
                      NEW d \in Dispatches, d = inbox[Device][1].pkt.sid
               PROVE  LP!From(Ranks, 256 * d + 2)'
    BY <1>10, <1>14 DEF Stream, Taken, Received, LP!Rank
  <2>1. LP!From(Ranks, 256 * d + 2)
    BY DEF Stream, Taken
  <2>2. inbox[Device][1].pkt = Request(d)
    BY LongReceipt, Requests DEF Stream, InOrder
  <2>3. d <= Requested
    BY <2>2, ReceivedRequest DEF Got, Received
  <2> QED BY <1>12, <2>1, <2>3
<1> QED BY <1>9, <1>11, <1>13, <1>15 DEF Stream

(* The link works.                                                         *)
LEMMA LinkStream ==
  ASSUME Typed, Stream, LinkStep
  PROVE  Stream'
<1>1. LP!Works /\ UNCHANGED <<deviceVars, ppc, current, verdict, result>>
  BY SameLink DEF LinkStep
<1>2. LP!LinkInv /\ LP!PcHolds /\ LP!From(Ranks, 0) /\ LP!HeadFirst(Ranks)
  BY DEF Stream, InOrder
<1>3. LP!LinkInv'
  BY <1>1, <1>2, LP!StepLinkInv, LinkAssumptions DEF LP!Works, LP!Next
<1>4. ASSUME NEW k \in Int, LP!From(Ranks, k)
      PROVE  /\ LP!From(Ranks, k)' /\ LP!HeadFirst(Ranks)' /\ LP!PcHolds'
             /\ \/ UNCHANGED <<res[Device], inbox[Device]>>
                \/ res'[Device] = "received" /\ Len(inbox'[Device]) # 1 =>
                  LET m == inbox'[Device] IN
                    /\ \E r \in Int : r = LP!Rank(Ranks, m[Len(m)]) /\ LP!From(Ranks, r)'
                    /\ \A i \in 1..Len(m) : /\ Fragments[m[i].pkt] > 1
                                            /\ k <= LP!Rank(Ranks, m[i])
                                            /\ LP!Rank(Ranks, m[1]) <= LP!Rank(Ranks, m[i])
  BY <1>1, <1>2, <1>3, <1>4, LP!WorkFrom, LinkAssumptions, Packets
<1>5. InOrder'
  BY <1>2, <1>3, <1>4 DEF InOrder
<1>6. (\A d \in Dispatches : Applied(d)' <=> Applied(d)) /\ Requested' = Requested
  BY <1>1 DEF Applied, Requested, deviceVars
<1>7. Known'
  BY <1>1, <1>2, <1>6, LP!WorkAbsent, LinkAssumptions, Requests DEF Stream, Known
<1>8. ASSUME NEW d \in Dispatches, LP!From(Ranks, 256 * d + 2)
      PROVE  LP!From(Ranks, 256 * d + 2)'
  <2>1. 256 * d + 2 \in Int
    BY Requests
  <2> QED BY <1>4, <1>8, <2>1
<1>9. Behind'
  BY <1>6, <1>8 DEF Stream, Behind
<1>10. Taken'
  <2>1. CASE UNCHANGED <<res[Device], inbox[Device]>>
    BY <1>6, <1>8, <2>1 DEF Stream, Taken, Received, LP!Rank
  <2>2. CASE ~UNCHANGED <<res[Device], inbox[Device]>>
    <3> SUFFICES ASSUME Received(Device)', Len(inbox'[Device]) # 1
                 PROVE  /\ \A i \in 1..Len(inbox'[Device]) :
                             /\ Fragments[inbox'[Device][i].pkt] > 1
                             /\ LP!Rank(Ranks, inbox'[Device][1]) <= LP!Rank(Ranks, inbox'[Device][i])
                        /\ \A d \in Dispatches : d = inbox'[Device][1].pkt.sid =>
                             LP!From(Ranks, 256 * d + 2)' /\ ~Applied(d)'
      BY DEF Taken, LP!Rank
    <3>0. PICK m : m = inbox'[Device]
      OBVIOUS
    <3>1. res'[Device] = "received" /\ Len(m) # 1
      BY <3>0 DEF Received
    <3>2. ASSUME NEW k \in Int, LP!From(Ranks, k)
          PROVE  /\ \E r \in Int : r = LP!Rank(Ranks, m[Len(m)]) /\ LP!From(Ranks, r)'
                 /\ \A i \in 1..Len(m) : /\ Fragments[m[i].pkt] > 1
                                         /\ k <= LP!Rank(Ranks, m[i])
                                         /\ LP!Rank(Ranks, m[1]) <= LP!Rank(Ranks, m[i])
      BY <1>4, <2>2, <3>0, <3>1, <3>2
    <3>3. /\ m \in Seq([pkt : SessionPacket, idx : 1..RequestFrames])
          /\ \A i \in 1..Len(m) : m[i].idx = i
      BY <1>3, <3>0, <3>1, IntactInboxNext DEF IntactInboxes
    <3>4. PICK d \in Dispatches : m[1].pkt = Request(d) /\ Len(m) = RequestFrames
      BY <1>3, <3>0, <3>1, LongReceiptNext DEF Received
    <3>5. 1 \in 1..Len(m) /\ Len(m) \in 1..Len(m)
      BY <3>4, Requests
    <3>6. m[1].pkt.sid = d /\ LP!Rank(Ranks, m[1]) = 256 * d + 1
      BY <3>3, <3>4, <3>5, Requests DEF LP!Rank
    <3>7. LP!From(Ranks, 256 * d + 2)'
      <4>1. PICK r \in Int : r = LP!Rank(Ranks, m[Len(m)]) /\ LP!From(Ranks, r)'
        BY <1>2, <3>2
      <4>2. 256 * d + 1 <= r /\ Fragments[m[Len(m)].pkt] > 1
        BY <1>2, <3>2, <3>5, <3>6, <4>1
      <4>3. PICK x \in Dispatches : m[Len(m)].pkt = Request(x)
        <5>1. m[Len(m)] \in [pkt : SessionPacket, idx : 1..RequestFrames]
          BY <3>3, <3>5, Element
        <5>2. m[Len(m)].pkt \in SessionPacket /\ ~(1 > 1)
          BY <5>1
        <5>3. \A p \in SessionPacket : Fragments[p] > 1 => \E x \in Dispatches : p = Request(x)
          BY Requests
        <5> QED BY <4>2, <5>2, <5>3
      <4>4. r = 256 * x + RequestFrames
        BY <3>3, <3>4, <3>5, <4>1, <4>3, Requests DEF LP!Rank
      <4>5. x \in Int /\ d \in Int
        BY Requests
      <4>6. 256 * d + 2 <= r /\ 256 * d + 2 \in Int
        BY <4>2, <4>4, <4>5, Requests
      <4> QED BY <1>3, <4>1, <4>6, LP!WeakerFromNext, LinkAssumptions, Packets, ZenonT(30)
    <3>8. ~Applied(d)'
      <4> SUFFICES ASSUME Applied(d) PROVE FALSE
        BY <1>6
      <4>1. LP!From(Ranks, 256 * d + 2)
        BY DEF Stream, Behind
      <4>2. d \in Int
        BY Requests
      <4>3. 256 * d + 2 <= 256 * d + 1
        BY <3>2, <3>5, <3>6, <4>1, <4>2
      <4> QED BY <4>2, <4>3
    <3> QED BY <1>2, <3>0, <3>2, <3>6, <3>7, <3>8
  <2> QED BY <2>1, <2>2
<1> QED BY <1>5, <1>7, <1>9, <1>10 DEF Stream

-----------------------------------------------------------------------------
(***************************************************************************)
(* The steps that neither send nor apply a request, and send no OK.        *)
(***************************************************************************)
DeviceQuiet ==
  \/ HelloSent \/ HelloFailed \/ Opened \/ KeepWaiting \/ OpenExpires
  \/ ServeInvalid \/ ServeFails \/ ServeBye
  \/ AnswerSent \/ AnswerFails \/ ByeEnds \/ ManagerSucceeds
  \/ Boot \/ NextUnit

PcQuiet ==
  \/ GotDeviceHello \/ NoDeviceHello \/ AwaitResponse
  \/ ExchangeFails \/ GotResponse \/ GotStranger \/ GotDeviceBye \/ PcByeEnds
  \/ Dispatch

LEMMA StepCases ==
  Next => LinkStep \/ ServeWrite \/ SendRequest \/ DeviceQuiet \/ PcQuiet
BY DEF Next, DeviceStep, PcStep, Operator, DeviceQuiet, PcQuiet

LEMMA Uses ==
  ASSUME NEW P
  PROVE  /\ \A e \in {Device, PC} : Leave(e) \/ Link!CallReceive(e) => Use(P)
         /\ \A e \in {Device, PC}, p \in P : Link!CallSend(e, p) => Use(P)
BY SameActions DEF Use

LEMMA PlainPackets ==
  /\ \A d \in Dispatches :
       /\ Pkt("PC_HELLO", d) \in Plain /\ Pkt("PC_BYE", d) \in Plain
       /\ Pkt("DEVICE_BYE", d) \in Plain /\ Response(d, "ERROR") \in Plain
  /\ Pkt("DEVICE_HELLO", 0) \in Plain
BY Packets DEF Plain, Small, Pkt, Response

LEMMA DeviceUses ==
  ASSUME Typed, DeviceQuiet
  PROVE  Use(Plain) /\ UNCHANGED <<written, pcVars>>
<1> USE Uses
<1>1. CASE HelloSent
  BY <1>1 DEF HelloSent
<1>2. CASE HelloFailed
  BY <1>2 DEF HelloFailed, DeviceStops
<1>3. CASE Opened
  BY <1>3 DEF Opened
<1>4. CASE KeepWaiting
  BY <1>4 DEF KeepWaiting, deviceVars
<1>5. CASE OpenExpires
  BY <1>5 DEF OpenExpires, DeviceStops
<1>6. CASE ServeInvalid
  BY <1>6, PlainPackets DEF ServeInvalid, Answer, Typed
<1>7. CASE ServeFails
  BY <1>7, PlainPackets DEF ServeFails, CloseSession, Typed
<1>8. CASE ServeBye
  BY <1>8 DEF ServeBye, DeviceStops
<1>9. CASE AnswerSent
  BY <1>9, PlainPackets DEF AnswerSent, CloseSession, Typed
<1>10. CASE AnswerFails
  BY <1>10, PlainPackets DEF AnswerFails, CloseSession, Typed
<1>11. CASE ByeEnds
  BY <1>11 DEF ByeEnds, DeviceStops
<1>12. CASE ManagerSucceeds
  BY <1>12 DEF ManagerSucceeds
<1>13. CASE Boot
  BY <1>13, PlainPackets DEF Boot
<1>14. CASE NextUnit
  BY <1>14 DEF NextUnit, Use, Cut
<1> QED BY <1>1, <1>2, <1>3, <1>4, <1>5, <1>6, <1>7, <1>8, <1>9, <1>10, <1>11, <1>12,
           <1>13, <1>14 DEF DeviceQuiet

LEMMA PcUses ==
  ASSUME Typed, PcQuiet
  PROVE  /\ Use(Plain) /\ UNCHANGED deviceVars
         /\ current <= current' /\ current' \in Int
         /\ Requested <= Requested' /\ Requested' \in Int
<1> USE Uses
<1>0. current \in Int /\ Requested \in Int
  BY Requests
<1>1. CASE GotDeviceHello
  BY <1>0, <1>1, PlainPackets DEF GotDeviceHello, Typed, Requested
<1>2. CASE NoDeviceHello
  BY <1>0, <1>2 DEF NoDeviceHello, DispatchEnds, Requested
<1>3. CASE AwaitResponse
  BY <1>0, <1>3 DEF AwaitResponse, Requested
<1>4. CASE ExchangeFails
  BY <1>0, <1>4 DEF ExchangeFails, DispatchEnds, Requested
<1>5. CASE GotResponse
  BY <1>0, <1>5, PlainPackets DEF GotResponse, CloseAfter, Typed, Requested
<1>6. CASE GotStranger
  BY <1>0, <1>6, PlainPackets DEF GotStranger, CloseAfter, Typed, Requested
<1>7. CASE GotDeviceBye
  BY <1>0, <1>7 DEF GotDeviceBye, DispatchEnds, Requested
<1>8. CASE PcByeEnds
  BY <1>0, <1>8 DEF PcByeEnds, DispatchEnds, Requested
<1>9. CASE Dispatch
  BY <1>0, <1>9 DEF Dispatch, Requested
<1> QED BY <1>1, <1>2, <1>3, <1>4, <1>5, <1>6, <1>7, <1>8, <1>9 DEF PcQuiet

-----------------------------------------------------------------------------
LEMMA TypedStep ==
  ASSUME Typed, Next
  PROVE  Typed'
<1>0. /\ MaxDispatches \in Nat /\ MaxBoots \in Nat /\ MaxUnits \in Nat
      /\ boots \in Int /\ current \in Int /\ unit \in Int
  BY SessionAssumption DEF Typed, Units
<1>1. CASE LinkStep
  <2>1. UNCHANGED <<deviceVars, ppc, current, verdict, result>> /\ calm' \subseteq calm
    BY <1>1 DEF LinkStep, Undisturbed
  <2> QED BY <2>1 DEF Typed, deviceVars
<1>2. CASE ServeWrite
  <2>1. dpc' = "answer" /\ dstatus' \in {"OK", "ERROR"} /\ written' \in Seq(Write)
    BY <1>2, WriteAppends, Appended DEF Typed
  <2>2. UNCHANGED <<dsid, unit, boots, rebooted, pcVars>>
    BY <1>2, WriteAppends
  <2>3. dsid \in Dispatches
    BY <1>2 DEF ServeWrite, Typed
  <2> QED BY <2>1, <2>2, <2>3 DEF Typed, pcVars
<1>3. CASE SendRequest
  BY <1>3 DEF SendRequest, Typed, deviceVars
<1>4. CASE DeviceQuiet
  <2>0. UNCHANGED <<written, pcVars>>
    BY <1>4, DeviceUses
  <2>1. CASE Boot
    <3>1. boots' \in 0..MaxBoots
      BY <1>0, <2>1 DEF Boot, Typed
    <3> QED BY <2>0, <2>1, <3>1 DEF Boot, Typed, pcVars
  <2>2. CASE NextUnit
    <3>1. unit' \in Units
      BY <1>0, <2>2 DEF NextUnit, Typed, Units
    <3> QED BY <2>0, <2>2, <3>1 DEF NextUnit, Typed, pcVars
  <2>3. CASE Opened
    <3>1. dsid' \in Dispatches /\ dsid' \in 0..MaxDispatches
      BY <1>0, <2>3 DEF Opened, Dispatches
    <3> QED BY <2>0, <2>3, <3>1 DEF Opened, Typed, pcVars
  <2>4. CASE HelloFailed \/ OpenExpires \/ ServeBye \/ ByeEnds
    <3>1. DeviceStops
      BY <2>4 DEF HelloFailed, OpenExpires, ServeBye, ByeEnds
    <3> QED BY <1>0, <2>0, <3>1 DEF DeviceStops, Typed, pcVars
  <2>5. CASE ManagerSucceeds
    <3>1. rebooted' \subseteq Units \X Dispatches
      BY <2>5 DEF ManagerSucceeds, Typed
    <3> QED BY <1>0, <2>0, <2>5, <3>1 DEF ManagerSucceeds, Typed, pcVars
  <2>6. CASE HelloSent \/ KeepWaiting
    BY <2>0, <2>6 DEF HelloSent, KeepWaiting, Typed, deviceVars, pcVars
  <2>7. CASE ServeInvalid \/ ServeFails \/ AnswerSent \/ AnswerFails
    BY <2>0, <2>7 DEF ServeInvalid, ServeFails, AnswerSent, AnswerFails, Answer, CloseSession,
       Typed, pcVars
  <2> QED BY <1>4, <2>1, <2>2, <2>3, <2>4, <2>5, <2>6, <2>7 DEF DeviceQuiet
<1>5. CASE PcQuiet
  <2>0. UNCHANGED deviceVars
    BY <1>5, PcUses
  <2>1. CASE Dispatch
    <3>1. current' \in Dispatches /\ current' \in 0..MaxDispatches
      BY <1>0, <2>1 DEF Dispatch, Typed, Dispatches
    <3> QED BY <2>0, <2>1, <3>1 DEF Dispatch, Typed, deviceVars
  <2>2. ASSUME NEW v \in {"none", "ok", "failed"}, DispatchEnds(v)
        PROVE  Typed'
    BY <2>0, <2>2 DEF DispatchEnds, Typed, deviceVars
  <2>3. CASE NoDeviceHello \/ ExchangeFails \/ GotDeviceBye \/ PcByeEnds
    BY <2>2, <2>3 DEF NoDeviceHello, ExchangeFails, GotDeviceBye, PcByeEnds, Typed
  <2>4. CASE GotDeviceHello \/ AwaitResponse
    BY <2>0, <2>4 DEF GotDeviceHello, AwaitResponse, Typed, deviceVars
  <2>5. CASE GotResponse \/ GotStranger
    <3>1. PICK v \in {"ok", "failed"} : CloseAfter(v) /\ ppc = "response"
      BY <2>5 DEF GotResponse, GotStranger
    <3> QED BY <2>0, <3>1 DEF CloseAfter, Typed, deviceVars
  <2> QED BY <1>5, <2>1, <2>3, <2>4, <2>5 DEF PcQuiet
<1> QED BY <1>1, <1>2, <1>3, <1>4, <1>5, StepCases

LEMMA StreamStep ==
  ASSUME Typed, Stream, Next
  PROVE  Stream'
<1>1. \A P \in SUBSET Small : Use(P) => Use(Small)
  BY DEF Use
<1>2. Plain \in SUBSET Small
  BY DEF Plain
<1>3. CASE DeviceQuiet
  <2>1. Use(Small) /\ UNCHANGED <<written, pcVars>>
    BY <1>1, <1>2, <1>3, DeviceUses
  <2>2. Requested' = Requested /\ Requested \in Int
    BY <2>1, Requests DEF Requested, pcVars
  <2> QED BY <2>1, <2>2, QuietStream
<1>4. CASE PcQuiet
  <2>1. /\ Use(Small) /\ UNCHANGED deviceVars
        /\ Requested <= Requested' /\ Requested' \in Int /\ Requested \in Int
    BY <1>1, <1>2, <1>4, PcUses, Requests
  <2> QED BY <2>1, QuietStream DEF deviceVars
<1> QED BY <1>3, <1>4, StepCases, LinkStream, WriteStream, RequestStream

LEMMA AnsweredStep ==
  ASSUME Typed, Stream, Answered, Next
  PROVE  Answered'
<1>0. LP!LinkInv /\ current \in Int
  BY Requests DEF Stream, InOrder
<1>1. ASSUME NEW P \in SUBSET SessionPacket, Use(P),
             \A d \in Dispatches : Response(d, "OK") \notin P,
             UNCHANGED written, current <= current', current' \in Int
      PROVE  Answered'
  <2> SUFFICES ASSUME NEW d \in Dispatches
               PROVE  LP!Absent(Response(d, "OK"))' \/ Pure(d)' \/ d < current'
    BY DEF Answered
  <2>1. CASE LP!Absent(Response(d, "OK"))
    BY <1>0, <1>1, <2>1, UseAbsent, Packets
  <2>2. CASE Pure(d)
    BY <1>1, <2>2 DEF Pure
  <2>3. CASE d < current
    BY <1>0, <1>1, <2>3, Requests
  <2> QED BY <2>1, <2>2, <2>3 DEF Answered
<1>2. CASE LinkStep
  <2>1. LP!Works /\ UNCHANGED <<written, current>>
    BY <1>2, SameLink DEF LinkStep, deviceVars
  <2> QED BY <1>0, <2>1, LP!WorkAbsent, LinkAssumptions, Packets DEF Answered, Pure
<1>3. Plain \in SUBSET SessionPacket /\ \A d \in Dispatches : Response(d, "OK") \notin Plain
  BY DEF Plain, Small, Response
<1>4. CASE DeviceQuiet
  BY <1>0, <1>1, <1>3, <1>4, DeviceUses DEF pcVars
<1>5. CASE PcQuiet
  BY <1>1, <1>3, <1>5, PcUses DEF deviceVars
<1>6. CASE SendRequest
  <2>1. PICK c \in Dispatches : c = current
    BY <1>6 DEF Typed, SendRequest
  <2>2. Link!CallSend(PC, Request(c)) /\ UNCHANGED <<written, current>>
    BY <1>6, <2>1 DEF SendRequest, Request, deviceVars
  <2>3. /\ {Request(c)} \in SUBSET SessionPacket
        /\ \A d \in Dispatches : Response(d, "OK") \notin {Request(c)}
    BY Requests DEF Request, Response, Pkt
  <2>4. Use({Request(c)})
    BY <2>2, Uses
  <2> QED BY <1>0, <1>1, <2>2, <2>3, <2>4
<1>7. CASE ServeWrite
  <2>1. PICK d \in Dispatches, status \in {"OK", "ERROR"}, r \in Write :
           /\ d = dsid /\ Got(Device, Request(d))
           /\ r.data = d /\ (status = "OK" => r.stored = "all")
           /\ r.spliced = Spliced(Device)
           /\ written' = Append(written, r)
           /\ LP!CallSend(Device, Response(d, status))
           /\ UNCHANGED pcVars
    BY <1>7, WriteAppends
  <2>2. Use({Response(d, status)}) /\ {Response(d, status)} \in SUBSET SessionPacket
    BY <2>1, Packets DEF Use
  <2> SUFFICES ASSUME NEW x \in Dispatches
               PROVE  LP!Absent(Response(x, "OK"))' \/ Pure(x)' \/ x < current'
    BY DEF Answered
  <2>3. current' = current
    BY <2>1 DEF pcVars
  <2>4. CASE Response(x, "OK") # Response(d, status)
    <3>1. LP!Absent(Response(x, "OK")) => LP!Absent(Response(x, "OK"))'
      BY <1>0, <2>2, <2>4, UseAbsent, Packets
    <3>2. Pure(x) => Pure(x)'
      BY <2>1, Appended DEF Pure, Typed
    <3> QED BY <2>3, <3>1, <3>2 DEF Answered
  <2>5. CASE Response(x, "OK") = Response(d, status)
    <3>1. x = d /\ status = "OK"
      BY <2>5 DEF Response
    <3>2. CASE ~Spliced(Device)
      BY <2>1, <3>1, <3>2, Appended DEF Pure, Typed
    <3>3. CASE Spliced(Device)
      <4>1. d < Requested
        BY <2>1, <3>3, ReceivedRequest
      <4>2. Requested <= current /\ d \in Int /\ Requested \in Int
        BY <1>0, Requests DEF Requested
      <4> QED BY <1>0, <2>3, <3>1, <4>1, <4>2
    <3> QED BY <3>2, <3>3
  <2> QED BY <2>4, <2>5
<1> QED BY <1>2, <1>4, <1>5, <1>6, <1>7, StepCases

(* What was applied stays applied.                                         *)
LEMMA WrittenStays ==
  ASSUME Typed, Next
  PROVE  /\ \A d : Pure(d) => Pure(d)'
         /\ \A u, d : Full(u, d) => Full(u, d)'
<1>1. CASE ServeWrite
  <2>1. PICK r \in Write : written' = Append(written, r)
    BY <1>1, WriteAppends
  <2>2. written \in Seq(Write)
    BY DEF Typed
  <2> QED BY <2>1, <2>2, Appended DEF Pure, Full
<1>2. CASE ~ServeWrite
  <2>1. UNCHANGED written
    BY <1>2, StepCases, DeviceUses, PcUses DEF LinkStep, SendRequest, deviceVars
  <2> QED BY <2>1 DEF Pure, Full
<1> QED BY <1>1, <1>2

LEMMA DeservedStep ==
  ASSUME Typed, Stream, Answered, Deserved, Next
  PROVE  Deserved'
<1>1. CASE UNCHANGED <<ppc, current, verdict, result>>
  BY <1>1, WrittenStays DEF Deserved
<1>2. CASE SendRequest
  BY <1>2, WrittenStays DEF SendRequest, Deserved
<1>3. CASE GotDeviceHello \/ AwaitResponse \/ Dispatch
  BY <1>3, WrittenStays DEF GotDeviceHello, AwaitResponse, Dispatch, Deserved
<1>4. ASSUME NEW v \in {"failed", verdict}, DispatchEnds(v), v = verdict => ppc = "bye"
      PROVE  Deserved'
  <2>1. v = "ok" => Pure(current)
    BY <1>4 DEF Deserved
  <2>2. /\ ppc' = "off" /\ result' = [result EXCEPT ![current] = v]
        /\ result \in [Dispatches -> {"none", "ok", "failed"}]
    BY <1>4 DEF DispatchEnds, Typed
  <2> QED BY <2>1, <2>2, WrittenStays DEF Deserved
<1>5. CASE NoDeviceHello \/ ExchangeFails \/ GotDeviceBye
  <2>1. DispatchEnds("failed")
    BY <1>5 DEF NoDeviceHello, ExchangeFails, GotDeviceBye
  <2>2. ppc' = "off" /\ result' = [result EXCEPT ![current] = "failed"]
        /\ result \in [Dispatches -> {"none", "ok", "failed"}]
    BY <2>1 DEF DispatchEnds, Typed
  <2> QED BY <2>2, WrittenStays DEF Deserved
<1>6. CASE PcByeEnds
  BY <1>4, <1>6 DEF PcByeEnds
<1>7. ASSUME CloseAfter("failed")
      PROVE  Deserved'
  BY <1>7, WrittenStays DEF CloseAfter, Deserved
<1>8. ASSUME Got(PC, Response(current, "OK")), CloseAfter("ok"), ppc = "response"
      PROVE  Deserved'
  <2>1. PICK c \in Dispatches : c = current
    BY <1>8 DEF Typed
  <2>2. ~LP!Absent(Response(c, "OK"))
    <3>1. /\ PC \in LP!Node /\ inbox[PC] # << >>
          /\ inbox[PC] \in Seq([pkt : SessionPacket, idx : 1..RequestFrames])
      BY <1>8, SameLink, IntactInbox DEF Got, Stream, InOrder, IntactInboxes
    <3>2. 1 \in 1..Len(inbox[PC])
      BY <3>1
    <3> QED BY <1>8, <2>1, <3>1, <3>2 DEF Got, LP!Absent
  <2>3. Pure(current)
    <3>1. ~(c < c)
      BY Requests
    <3> QED BY <2>1, <2>2, <3>1 DEF Answered
  <2>4. current' = current /\ result' = result
    BY <1>8 DEF CloseAfter
  <2> QED BY <2>3, <2>4, WrittenStays DEF Deserved
<1>9. CASE GotResponse \/ GotStranger
  BY <1>7, <1>8, <1>9 DEF GotResponse, GotStranger
<1>10. CASE LinkStep \/ ServeWrite \/ DeviceQuiet
  <2>1. UNCHANGED <<ppc, current, verdict, result>>
    BY <1>10, WriteAppends, DeviceUses DEF LinkStep, pcVars
  <2> QED BY <1>1, <2>1
<1>11. CASE PcQuiet
  BY <1>3, <1>5, <1>6, <1>9, <1>11 DEF PcQuiet
<1> QED BY <1>2, <1>10, <1>11, StepCases

LEMMA WrittenOnceStep ==
  ASSUME Typed, Stream, WrittenOnce, Next
  PROVE  WrittenOnce'
<1>1. CASE ServeWrite
  <2>1. PICK d \in Dispatches, r \in Write :
          Got(Device, Request(d)) /\ r.data = d /\ written' = Append(written, r)
    BY <1>1, WriteAppends
  <2>2. \A i \in 1..Len(written) : written[i].data # d
    BY <2>1, ReceivedRequest DEF Applied
  <2>3. written \in Seq(Write)
    BY DEF Typed
  <2> QED BY <2>1, <2>2, <2>3, Appended DEF WrittenOnce
<1>2. CASE ~ServeWrite
  <2>1. UNCHANGED written
    BY <1>2, StepCases, DeviceUses, PcUses DEF LinkStep, SendRequest, deviceVars
  <2> QED BY <2>1 DEF WrittenOnce
<1> QED BY <1>1, <1>2

LEMMA RebootingStep ==
  ASSUME Typed, Rebooting, RebootMeansWritten, Next
  PROVE  Rebooting' /\ RebootMeansWritten'
<1>0. RebootMeansWritten <=> \A u \in Units, d \in Dispatches : <<u, d>> \in rebooted => Full(u, d)
  BY DEF RebootMeansWritten, Full
<1>10. RebootMeansWritten' <=> \A u \in Units, d \in Dispatches : <<u, d>> \in rebooted' => Full(u, d)'
  BY DEF RebootMeansWritten, Full
<1>1. UNCHANGED rebooted => RebootMeansWritten'
  BY <1>0, <1>10, WrittenStays
<1>2. CASE UNCHANGED deviceVars
  BY <1>1, <1>2, WrittenStays DEF Rebooting, deviceVars
<1>3. CASE ServeWrite
  <2>1. PICK d \in Dispatches, status \in {"OK", "ERROR"}, r \in Write :
          /\ d = dsid /\ dpc' = "answer" /\ dstatus' = status
          /\ r.unit = unit /\ r.data = d /\ (status = "OK" => r.stored = "all")
          /\ written' = Append(written, r)
          /\ UNCHANGED <<dsid, unit, rebooted>>
    BY <1>3, WriteAppends
  <2>2. written \in Seq(Write)
    BY DEF Typed
  <2>3. status = "OK" => Full(unit, dsid)'
    BY <2>1, <2>2, Appended DEF Full
  <2> QED BY <1>1, <2>1, <2>3 DEF Rebooting
<1>4. CASE ManagerSucceeds
  <2>1. Full(unit, dsid)
    BY <1>4 DEF ManagerSucceeds, Rebooting
  <2>2. RebootMeansWritten'
    BY <1>0, <1>10, <1>4, <2>1, WrittenStays DEF ManagerSucceeds
  <2>3. Rebooting'
    BY <1>4 DEF ManagerSucceeds, Rebooting
  <2> QED BY <2>2, <2>3
<1>5. CASE AnswerSent
  <2>1. UNCHANGED <<unit, dsid, rebooted>>
    BY <1>5 DEF AnswerSent, CloseSession
  <2>2. dpc' = "reboot" => Full(unit, dsid)
    BY <1>5 DEF AnswerSent, CloseSession, Rebooting
  <2>3. dpc' # "answer"
    BY <1>5 DEF AnswerSent, CloseSession
  <2> QED BY <1>1, <2>1, <2>2, <2>3, WrittenStays DEF Rebooting
<1>6. CASE DeviceQuiet /\ ~ManagerSucceeds /\ ~AnswerSent
  <2>1. UNCHANGED rebooted /\ dpc' # "reboot" /\ (dpc' = "answer" => dstatus' = "ERROR")
    BY <1>6 DEF DeviceQuiet, HelloSent, HelloFailed, Opened, KeepWaiting, OpenExpires, ServeInvalid,
       ServeFails, ServeBye, AnswerFails, ByeEnds, Boot, NextUnit, DeviceStops, Answer, CloseSession,
       deviceVars
  <2> QED BY <1>1, <2>1 DEF Rebooting
<1>7. LinkStep \/ SendRequest \/ PcQuiet => UNCHANGED deviceVars
  BY PcUses DEF LinkStep, SendRequest
<1> QED BY <1>2, <1>3, <1>4, <1>5, <1>6, <1>7, StepCases

-----------------------------------------------------------------------------
LEMMA InitSession == Init => SessionInv
<1> SUFFICES ASSUME Init PROVE SessionInv
  OBVIOUS
<1>1. LP!Init /\ PC \in LP!Node /\ Device \in LP!Node
  BY SameLink DEF Init
<1>2. LP!LinkInv
  BY <1>1, LP!InitLinkInv, LinkAssumptions
<1>3. Typed
  BY SessionAssumption DEF Init, Typed, Units
<1>4. /\ pending[Device] = LP!NoFrame /\ wire[Device] = << >>
      /\ asm[Device].got = << >> /\ ~LP!Sending(PC) /\ res[Device] = "none"
  BY <1>1 DEF LP!Init, LP!Sending, LP!EmptyAsm
<1>5. ~LP!Live(pending[Device])
  BY <1>4 DEF LP!Live, LP!NoFrame, LP!Blank
<1>6. InOrder
  BY <1>2, <1>4, <1>5 DEF InOrder, LP!PcHolds, LP!HeadFirst, LP!From, LP!Ahead, LP!Rising, LP!Sender
<1>7. \A d : ~Applied(d)
  BY DEF Init, Applied
<1>8. ASSUME NEW p \in SessionPacket PROVE LP!Absent(p)
  BY <1>1, <1>8, LP!NoPacketIsNone, LinkAssumptions DEF LP!Init, LP!Absent, LP!EmptyAsm
<1>9. Stream
  BY <1>4, <1>6, <1>7, <1>8, Requests DEF Stream, Known, Behind, Taken, Received
<1>10. Answered
  BY <1>8, Packets DEF Answered
<1>11. Deserved /\ WrittenOnce /\ Rebooting /\ RebootMeansWritten
  BY DEF Init, Deserved, WrittenOnce, Rebooting, RebootMeansWritten
<1> QED BY <1>3, <1>9, <1>10, <1>11 DEF SessionInv

LEMMA StutterSession == SessionInv /\ UNCHANGED vars => SessionInv'
<1> SUFFICES ASSUME SessionInv, UNCHANGED vars PROVE SessionInv'
  OBVIOUS
<1>1. UNCHANGED <<op, tx, buf, asm, pending, wire, res, inbox, faults>>
  BY DEF vars, linkVars
<1>2. Typed' /\ Deserved' /\ WrittenOnce' /\ Rebooting' /\ RebootMeansWritten'
  BY DEF vars, deviceVars, pcVars, SessionInv, Typed, Deserved, WrittenOnce, Rebooting,
         RebootMeansWritten, Pure, Full
<1>3. LP!LinkInv /\ LP!PcHolds /\ LP!HeadFirst(Ranks)
  BY DEF SessionInv, Stream, InOrder
<1>4. LP!LinkInv'
  BY <1>1, <1>3, LP!StepLinkInv, LinkAssumptions DEF LP!vars
<1>5. ASSUME NEW k \in Int, LP!From(Ranks, k)
      PROVE  LP!From(Ranks, k)' /\ LP!HeadFirst(Ranks)' /\ LP!PcHolds'
  <2>1. LP!Sending(PC)' = LP!Sending(PC)
    BY <1>1 DEF LP!Sending
  <2> QED BY <1>1, <1>3, <1>5, <2>1, LP!QuietFrom, LinkAssumptions, Packets
<1>6. ASSUME NEW p \in SessionPacket, LP!Absent(p)
      PROVE  LP!Absent(p)'
  BY <1>1, <1>3, <1>6, LP!QuietAbsent, LinkAssumptions
<1>7. (\A d : Applied(d)' <=> Applied(d)) /\ Requested' = Requested /\ current' = current
      /\ (\A d : Pure(d)' <=> Pure(d))
  BY DEF vars, deviceVars, pcVars, Applied, Requested, Pure
<1>8. InOrder'
  BY <1>4, <1>5 DEF SessionInv, Stream, InOrder
<1>9. \A d \in Dispatches : LP!From(Ranks, 256 * d + 2) => LP!From(Ranks, 256 * d + 2)'
  <2> TAKE d \in Dispatches
  <2>1. 256 * d + 2 \in Int
    BY Requests
  <2> QED BY <1>5, <2>1
<1>10. Known' /\ Answered'
  BY <1>6, <1>7, Packets DEF SessionInv, Stream, Known, Answered
<1>11. Behind'
  BY <1>7, <1>9 DEF SessionInv, Stream, Behind
<1>12. Taken'
  BY <1>1, <1>7, <1>9 DEF SessionInv, Stream, Taken, Received, LP!Rank
<1> QED BY <1>2, <1>8, <1>10, <1>11, <1>12 DEF SessionInv, Stream

LEMMA StepSession == SessionInv /\ [Next]_vars => SessionInv'
<1>1. ASSUME SessionInv, Next
      PROVE  SessionInv'
  BY <1>1, TypedStep, StreamStep, AnsweredStep, DeservedStep, WrittenOnceStep, RebootingStep
  DEF SessionInv
<1> QED BY <1>1, StutterSession

(* The strengthening holds in every reachable state of a station, for      *)
(* every number of dispatches, boots, units, tries and faults, and every   *)
(* timing: what the UART still carries to the device lies behind every     *)
(* request that factory_manager_process applied, and no OK that the PC may *)
(* still receive is undeserved.                                            *)
THEOREM SessionInvariant == Spec => []SessionInv
BY InitSession, StepSession, PTL DEF Spec

(* Both programs and the link keep their state of its type.                *)
THEOREM SessionTypeCorrect == Spec => []TypeOK
<1>1. SessionInv => TypeOK
  BY SameLink DEF SessionInv, Stream, InOrder, Typed, TypeOK
<1> QED BY <1>1, SessionInvariant, PTL

(* A dispatch that reports success (GenericProvisionDispatcher.dispatch    *)
(* returns) wrote all of its data, and only its data, to a unit, whatever  *)
(* was lost, damaged, repeated or late on the UART.                        *)
THEOREM SuccessIsWritten == Spec => []SuccessMeansWritten
<1>1. SessionInv => SuccessMeansWritten
  BY DEF SessionInv, Deserved, Pure, SuccessMeansWritten
<1> QED BY <1>1, SessionInvariant, PTL

(* No write request is applied twice: not by a retry, a late frame, or a   *)
(* second unit or boot that reads what the first left on the UART.         *)
THEOREM WritesHappenOnce == Spec => []WrittenOnce
<1>1. SessionInv => WrittenOnce
  BY DEF SessionInv
<1> QED BY <1>1, SessionInvariant, PTL

(* A unit for which factory_manager_process returns true stored every      *)
(* field of the request it served.                                         *)
THEOREM RebootIsWritten == Spec => []RebootMeansWritten
<1>1. SessionInv => RebootMeansWritten
  BY DEF SessionInv
<1> QED BY <1>1, SessionInvariant, PTL
-----------------------------------------------------------------------------
(***************************************************************************)
(* An undisturbed dispatch that began on a fresh UART.  Until its verdict  *)
(* the two programs are in lockstep: where one is, and what the UART       *)
(* carries to it, is determined by where the other is.                     *)
(***************************************************************************)
Hello == Pkt("DEVICE_HELLO", 0)
Reply(d) == Pkt("PC_HELLO", d)

PartOnly(d) ==
  Applied(d) /\ \A i \in 1..Len(written) : written[i].data = d => written[i].stored = "part"

(* The wire to a node: a frame, and what follows it.                       *)
Carries(e, f, w) == LP!HeadIs(e, f) /\ Tail(wire[e]) = w

Bare == pending[Device] = LP!NoFrame /\ pending[PC] = LP!NoFrame

(* The PC waits for DEVICE_HELLO, and will not get it.                     *)
Doomed == ppc = "hello" /\ op[PC] = "idle" /\ res[PC] # "received"

(* The PC waits for DEVICE_HELLO.                                          *)
Awaiting ==
  /\ ppc = "hello" /\ LP!Receives(PC, Hello, 0)
  /\ wire[Device] = << >>
  /\ \/ dpc \in {"off", "done"} /\ wire[PC] = << >>
     \/ dpc = "hello" /\ LP!Sends(Device, Hello, 1) /\ wire[PC] = << >>
     \/ dpc = "hello" /\ LP!Waits(Device, Hello, 1) /\ Carries(PC, LP!Fragment(Hello, 1), << >>)

(* The PC has it, and answers; w is what it sent.                          *)
Greets(d, w) ==
  \/ w = << >> /\ ppc = "hello" /\ LP!Has(PC, Hello)
  \/ w = << >> /\ ppc = "open" /\ LP!Sends(PC, Reply(d), 1)
  \/ w = <<LP!Fragment(Reply(d), 1)>> /\ ppc = "open" /\ LP!Waits(PC, Reply(d), 1)

Greeted(d, w) ==
  \/ dpc = "hello" /\ LP!Waits(Device, Hello, 1) /\ Carries(Device, LP!Ack(Hello, 1), w)
  \/ dpc = "hello" /\ LP!Sent(Device) /\ wire[Device] = w
  \/ dpc = "wait" /\ LP!Receives(Device, Reply(d), 0) /\ wire[Device] = w

Greeting(d) ==
  /\ wire[PC] = << >>
  /\ \E w \in {<< >>, <<LP!Fragment(Reply(d), 1)>>} : Greets(d, w) /\ Greeted(d, w)

(* The device has PC_HELLO, and the PC goes on to the request.             *)
Joins(d) ==
  \/ dpc = "wait" /\ LP!Has(Device, Reply(d))
  \/ dpc = "serve" /\ dsid = d /\ LP!Receives(Device, Request(d), 0)

Joined(d) ==
  \/ /\ ppc = "open" /\ LP!Waits(PC, Reply(d), 1)
     /\ Carries(PC, LP!Ack(Reply(d), 1), << >>) /\ wire[Device] = << >>
  \/ ppc = "open" /\ LP!Sent(PC) /\ wire[PC] = << >> /\ wire[Device] = << >>
  \/ ppc = "request" /\ LP!Sends(PC, Request(d), 1) /\ wire[PC] = << >> /\ wire[Device] = << >>
  \/ /\ ppc = "request" /\ LP!Waits(PC, Request(d), 1) /\ wire[PC] = << >>
     /\ Carries(Device, LP!Fragment(Request(d), 1), << >>)

Joining(d) == Joins(d) /\ Joined(d)

(* Fragment i of the request: acknowledged, next, on its way.              *)
Fragmented(d, i) ==
  \/ /\ i < RequestFrames
     /\ LP!Receives(Device, Request(d), i) /\ LP!Waits(PC, Request(d), i)
     /\ Carries(PC, LP!Ack(Request(d), i), << >>) /\ wire[Device] = << >>
  \/ /\ i > 1
     /\ LP!Receives(Device, Request(d), i - 1) /\ LP!Sends(PC, Request(d), i)
     /\ wire[PC] = << >> /\ wire[Device] = << >>
  \/ /\ i > 1
     /\ LP!Receives(Device, Request(d), i - 1) /\ LP!Waits(PC, Request(d), i)
     /\ wire[PC] = << >> /\ Carries(Device, LP!Fragment(Request(d), i), << >>)

Moving(d) ==
  /\ dpc = "serve" /\ dsid = d /\ ppc = "request"
  /\ \E i \in 1..RequestFrames : Fragmented(d, i)

(* The device has the whole request, applies it and answers with t.        *)
Answers(d, t, w) ==
  \/ w = << >> /\ dpc = "serve" /\ LP!Has(Device, Request(d))
  \/ /\ w = << >> /\ dpc = "answer" /\ LP!Sends(Device, Response(d, t), 1)
     /\ dstatus = t /\ (t = "ERROR" => PartOnly(d))
  \/ /\ w = <<LP!Fragment(Response(d, t), 1)>> /\ dpc = "answer"
     /\ LP!Waits(Device, Response(d, t), 1)
     /\ dstatus = t /\ (t = "ERROR" => PartOnly(d))

Listens(d, t, w) ==
  \/ /\ ppc = "request" /\ LP!Waits(PC, Request(d), RequestFrames)
     /\ Carries(PC, LP!Ack(Request(d), RequestFrames), w)
  \/ ppc = "request" /\ LP!Sent(PC) /\ wire[PC] = w
  \/ ppc = "response" /\ LP!Receives(PC, Response(d, t), 0) /\ wire[PC] = w

Answering(d) ==
  /\ wire[Device] = << >> /\ dsid = d
  /\ \E t \in {"OK", "ERROR"} : \E w \in {<< >>, <<LP!Fragment(Response(d, t), 1)>>} :
       Answers(d, t, w) /\ Listens(d, t, w)

(* The PC has the answer.                                                  *)
Leaves(d, t) ==
  \/ /\ dpc = "answer" /\ LP!Waits(Device, Response(d, t), 1)
     /\ Carries(Device, LP!Ack(Response(d, t), 1), << >>)
     /\ dstatus = t /\ wire[PC] = << >>
  \/ /\ dpc = "answer" /\ LP!Sent(Device) /\ wire[Device] = << >>
     /\ dstatus = t /\ wire[PC] = << >>
  \/ dpc = "reboot" /\ LP!Sends(Device, Pkt("DEVICE_BYE", d), 1) /\ wire[Device] = << >>
  \/ dpc = "reboot" /\ LP!Waits(Device, Pkt("DEVICE_BYE", d), 1)
     /\ wire[Device] = << >> /\ wire[PC] # << >>
  \/ dpc = "serve" /\ op[Device] = "receive" /\ wire[Device] = << >>

Told(d) ==
  /\ ppc = "response" /\ dsid = d
  /\ \E t \in {"OK", "ERROR"} :
       LP!Has(PC, Response(d, t)) /\ (t = "ERROR" => PartOnly(d)) /\ Leaves(d, t)

Exchange(d) ==
  Awaiting \/ Greeting(d) \/ Joining(d) \/ Moving(d) \/ Answering(d) \/ Told(d)

(* No other frames are about, and no unit has rebooted for it yet.         *)
Together(d) == Bare /\ Exchange(d) /\ \A u \in Units : <<u, d>> \notin rebooted

Lockstep(d) == Doomed \/ Together(d)

(* A dispatch that has its verdict.                                        *)
Over(d) == d # current \/ ppc \in {"off", "bye"}
Unapplied(d) == LP!Absent(Request(d)) /\ ~Applied(d)

Settled(d) == Verdict(d) = "ok" \/ (Verdict(d) = "failed" /\ (PartOnly(d) \/ Unapplied(d)))

(* Nodes that do not run keep nothing of the link, and the device opens    *)
(* with DEVICE_HELLO.                                                      *)
AtRest ==
  /\ ppc = "off" => op[PC] = "idle" /\ pending[PC] = LP!NoFrame
  /\ dpc \in {"off", "done"} => op[Device] = "idle" /\ pending[Device] = LP!NoFrame
  /\ dpc = "hello" /\ op[Device] # "idle" =>
       op[Device] \in {"send", "wait"} /\ tx[Device].pkt = Hello /\ tx[Device].idx = 1

Reports ==
  /\ \A d \in Dispatches : d > current \/ (d = current /\ ppc # "off") => result[d] = "none"
  /\ \A d \in calm : d <= current

(* A dispatch that returned has reported something.                        *)
Decided ==
  /\ ppc = "off" /\ current \in Dispatches => result[current] # "none"
  /\ ppc = "bye" => verdict \in {"ok", "failed"}

Agreed == \A d \in calm : IF Over(d) THEN Settled(d) ELSE Lockstep(d)

CalmInv == AtRest /\ Reports /\ Decided /\ Agreed

-----------------------------------------------------------------------------
(***************************************************************************)
(* The steps of one node.                                                  *)
(***************************************************************************)
LinkBy(e) == LP!Progresses(e) \/ (NothingComing(e) /\ LP!Timeout(e))

Managers == <<deviceVars, ppc, current, verdict, result>>

DeviceMoves == (LinkBy(Device) /\ UNCHANGED Managers) \/ DeviceStep \/ Boot \/ NextUnit
PcMoves == (LinkBy(PC) /\ UNCHANGED Managers) \/ PcStep \/ Dispatch

LEMMA TwoNodes ==
  /\ Device \in LP!Node /\ PC \in LP!Node /\ Device # PC /\ LP!Node = {Device, PC}
  /\ LP!Peer(Device) = PC /\ LP!Peer(PC) = Device
  /\ Link!Peer(Device) = PC /\ Link!Peer(PC) = Device
BY SessionAssumption DEF LP!Node, LP!Peer, Link!Peer

(* Undisturbed, the UART has no faults and no deadline passes early.       *)
LEMMA CalmMoves ==
  ASSUME LP!LinkInv, Next, NEW d, d = current, d \in calm', ppc \notin {"off", "bye"}
  PROVE  DeviceMoves \/ PcMoves
<1>1. CASE LinkStep
  <2>1. d \notin Undisturbed
    BY DEF Undisturbed
  <2>2. UNCHANGED Managers
    BY <1>1 DEF LinkStep, Managers
  <2>3. CASE \E e \in {Device, PC} : Link!Timeout(e) /\ calm' = IF NothingComing(e) THEN calm ELSE Undisturbed
    BY <2>1, <2>2, <2>3, SameActions DEF LinkBy, DeviceMoves, PcMoves
  <2>4. CASE /\ Link!Fault \/ \E e \in {Device, PC} : Link!Send(e) \/ Link!Receive(e)
             /\ calm' = IF faults' = faults THEN calm ELSE Undisturbed
    <3>1. faults' = faults
      BY <2>1, <2>4
    <3>2. faults \in Nat
      BY DEF LP!LinkInv, LP!TypeOK
    <3>3. ~Link!Fault
      <4>1. ~Link!Spend(TRUE)
        BY <3>1, <3>2 DEF Link!Spend
      <4> QED BY <4>1 DEF Link!Fault, Link!Lose, Link!Damage
    <3>4. PICK e \in {Device, PC} : Link!Send(e) \/ Link!Receive(e)
      BY <2>4, <3>3
    <3> QED BY <2>2, <3>1, <3>4, SameActions DEF LP!Progresses, LinkBy, DeviceMoves, PcMoves
  <2> QED BY <1>1, <2>3, <2>4 DEF LinkStep
<1>2. CASE ~LinkStep
  BY <1>2 DEF Next, Operator, DeviceMoves, PcMoves
<1> QED BY <1>1, <1>2

LEMMA DeviceBusy ==
  ASSUME DeviceMoves, op[Device] # "idle", dpc \notin {"off", "done"}
  PROVE  LinkBy(Device) /\ UNCHANGED Managers
BY DEF DeviceMoves, DeviceStep, HelloSent, HelloFailed, Opened, KeepWaiting, OpenExpires,
       ServeWrite, ServeInvalid, ServeFails, ServeBye, AnswerSent, AnswerFails, ByeEnds,
       ManagerSucceeds, Boot, NextUnit, DeviceIdle

LEMMA PcBusy ==
  ASSUME PcMoves, op[PC] # "idle", ppc # "off"
  PROVE  LinkBy(PC) /\ UNCHANGED Managers
BY DEF PcMoves, PcStep, GotDeviceHello, NoDeviceHello, SendRequest, AwaitResponse, ExchangeFails,
       GotResponse, GotStranger, GotDeviceBye, PcByeEnds, Dispatch, PcIdle

LEMMA Keeps ==
  ASSUME NEW e \in LP!Node, NEW n \in LP!Node, n # e, LP!Others(e), NEW p, NEW i
  PROVE  /\ LP!Sends(n, p, i) => LP!Sends(n, p, i)'
         /\ LP!Waits(n, p, i) => LP!Waits(n, p, i)'
         /\ LP!Receives(n, p, i) => LP!Receives(n, p, i)'
         /\ LP!Sent(n) => LP!Sent(n)'
         /\ LP!Has(n, p) => LP!Has(n, p)'
         /\ op'[n] = op[n]
BY DEF LP!Others, LP!Sends, LP!Waits, LP!Receives, LP!Sent, LP!Has

LEMMA NodeSends ==
  ASSUME LP!LinkInv, NEW e \in LP!Node, NEW n \in LP!Node, n # e, NEW p, NEW i,
         LP!Sends(e, p, i), Bare, LinkBy(e)
  PROVE  /\ LP!Waits(e, p, i)' /\ Bare' /\ LP!Others(e)
         /\ wire'[e] = wire[e] /\ wire'[n] = Append(wire[n], LP!Fragment(p, i))
<1>1. LP!Progresses(e)
  BY DEF LinkBy, LP!Sends, LP!Timeout, LP!AwaitTimeout, LP!ReceiveTimeout
<1>2. LP!Peer(e) = n /\ wire = [x \in LP!Node |-> wire[x]]
  BY TwoNodes DEF LP!LinkInv, LP!TypeOK
<1>3. /\ LP!Waits(e, p, i)' /\ pending' = pending /\ LP!Others(e)
      /\ wire' = [wire EXCEPT ![LP!Peer(e)] = Append(@, LP!Fragment(p, i))]
  BY <1>1, LP!SendsMove, LinkAssumptions
<1> QED BY <1>2, <1>3 DEF Bare

LEMMA NodeWaits ==
  ASSUME LP!LinkInv, NEW e \in LP!Node, NEW n \in LP!Node, n # e, NEW p \in SessionPacket,
         NEW i \in 1..Fragments[p], NEW w,
         LP!Waits(e, p, i), Carries(e, LP!Ack(p, i), w), Bare, LinkBy(e)
  PROVE  /\ IF i < Fragments[p] THEN LP!Sends(e, p, i + 1)' ELSE LP!Sent(e)'
         /\ Bare' /\ LP!Others(e)
         /\ wire'[e] = w /\ wire'[n] = wire[n]
<1>1. LP!Progresses(e) /\ LP!HeadIs(e, LP!Ack(p, i)) /\ Tail(wire[e]) = w
  BY DEF LinkBy, NothingComing, Carries, LP!HeadIs
<1>2. wire = [x \in LP!Node |-> wire[x]]
  BY DEF LP!LinkInv, LP!TypeOK
<1>3. /\ IF i < Fragments[p] THEN LP!Sends(e, p, i + 1)' ELSE LP!Sent(e)'
      /\ pending' = pending /\ LP!Others(e)
      /\ wire' = [wire EXCEPT ![e] = Tail(@)]
  BY <1>1, LP!WaitsMove, LinkAssumptions
<1> QED BY <1>1, <1>2, <1>3 DEF Bare

LEMMA NodeTakes ==
  ASSUME LP!LinkInv, NEW e \in LP!Node, NEW n \in LP!Node, n # e, NEW p \in SessionPacket,
         NEW i \in 1..Fragments[p], NEW w,
         LP!Receives(e, p, i - 1), Carries(e, LP!Fragment(p, i), w), Bare, LinkBy(e)
  PROVE  /\ IF i < Fragments[p] THEN LP!Receives(e, p, i)' ELSE LP!Has(e, p)'
         /\ Bare' /\ LP!Others(e)
         /\ wire'[e] = w /\ wire'[n] = Append(wire[n], LP!Ack(p, i))
<1>1. /\ LP!Progresses(e) /\ LP!HeadIs(e, LP!Fragment(p, i)) /\ Tail(wire[e]) = w
      /\ pending[e] = LP!NoFrame
  BY TwoNodes DEF LinkBy, NothingComing, Carries, LP!HeadIs, Bare
<1>2. wire = [x \in LP!Node |-> wire[x]] /\ LP!Peer(e) = n
  BY TwoNodes DEF LP!LinkInv, LP!TypeOK
<1>3. /\ IF i < Fragments[p] THEN LP!Receives(e, p, i)' ELSE LP!Has(e, p)'
      /\ pending'[e] = LP!NoFrame /\ LP!Others(e)
      /\ \A x \in LP!Node \ {e} : pending'[x] = pending[x]
      /\ wire' = [wire EXCEPT ![e] = Tail(@), ![LP!Peer(e)] = Append(@, LP!Ack(p, i))]
  BY <1>1, LP!TakesMove, LinkAssumptions
<1>4. Bare'
  BY <1>3, TwoNodes DEF Bare
<1>5. wire'[e] = w /\ wire'[n] = Append(wire[n], LP!Ack(p, i))
  BY <1>1, <1>2, <1>3
<1> QED BY <1>3, <1>4, <1>5

LEMMA NodeStill ==
  ASSUME LP!LinkInv, NEW e \in LP!Node, NEW n \in LP!Node, n # e, Bare,
         op[e] \in {"wait", "receive"}, wire[e] = << >>, Running(n),
         wire[n] # << >> \/ (op[e] = "receive" /\ op[n] \notin {"wait", "receive"})
  PROVE  ~LinkBy(e)
<1>1. Link!Peer(e) = n /\ pending[e] = LP!NoFrame
  BY TwoNodes DEF Bare
<1>2. ~NothingComing(e)
  BY <1>1 DEF NothingComing
<1>3. ~LP!Progresses(e)
  BY <1>1, LP!NothingToRead, LinkAssumptions DEF LP!Progresses
<1> QED BY <1>2, <1>3 DEF LinkBy

(* Calls that start.                                                       *)
LEMMA NodeCalls ==
  ASSUME LP!LinkInv, NEW e \in LP!Node, Bare
  PROVE  /\ \A p : Link!CallReceive(e) =>
              LP!Receives(e, p, 0)' /\ Bare' /\ LP!Others(e) /\ wire' = wire
         /\ \A p \in SessionPacket : Link!CallSend(e, p) =>
              LP!Sends(e, p, 1)' /\ Bare' /\ LP!Others(e) /\ wire' = wire
<1>0. /\ op \in [LP!Node -> {"idle", "send", "wait", "receive"}]
      /\ tx = [x \in LP!Node |-> tx[x]] /\ buf = [x \in LP!Node |-> buf[x]]
      /\ asm = [x \in LP!Node |-> asm[x]] /\ res = [x \in LP!Node |-> res[x]]
      /\ inbox = [x \in LP!Node |-> inbox[x]]
  BY DEF LP!LinkInv, LP!TypeOK
<1>1. ASSUME Link!CallReceive(e), NEW p
      PROVE  LP!Receives(e, p, 0)' /\ Bare' /\ LP!Others(e) /\ wire' = wire
  <2>1. LP!CallReceive(e)
    BY <1>1, SameActions
  <2>2. LP!Receives(e, p, 0)'
    BY <1>0, <2>1 DEF LP!CallReceive, LP!Receives, LP!EmptyAsm
  <2>3. LP!Others(e)
    BY <1>0, <2>1 DEF LP!CallReceive, LP!Others
  <2> QED BY <2>1, <2>2, <2>3 DEF LP!CallReceive, Bare
<1>2. ASSUME NEW p \in SessionPacket, Link!CallSend(e, p)
      PROVE  LP!Sends(e, p, 1)' /\ Bare' /\ LP!Others(e) /\ wire' = wire
  <2>1. LP!CallSend(e, p)
    BY <1>2, SameActions
  <2>2. LP!Sends(e, p, 1)'
    BY <1>0, <2>1 DEF LP!CallSend, LP!Sends
  <2>3. LP!Others(e)
    BY <1>0, <2>1 DEF LP!CallSend, LP!Others
  <2> QED BY <2>1, <2>2, <2>3 DEF LP!CallSend, Bare
<1> QED BY <1>1, <1>2

LEMMA AppendedTo ==
  ASSUME NEW S, NEW s \in Seq(S), NEW f \in S
  PROVE  /\ Append(s, f) # << >>
         /\ s = << >> => Append(s, f) = <<f>> /\ Head(Append(s, f)) = f /\ Tail(Append(s, f)) = << >>
         /\ s # << >> => Head(Append(s, f)) = Head(s) /\ Tail(Append(s, f)) = Append(Tail(s), f)
<1>1. Append(s, f) # << >>
  <2>1. Len(Append(s, f)) = Len(s) + 1 /\ Len(s) \in Nat /\ Len(<< >>) = 0
    OBVIOUS
  <2> QED BY <2>1
<1>2. ASSUME s = << >>
      PROVE  Append(s, f) = <<f>> /\ Head(Append(s, f)) = f /\ Tail(Append(s, f)) = << >>
  BY <1>2
<1>3. ASSUME s # << >>
      PROVE  Head(Append(s, f)) = Head(s) /\ Tail(Append(s, f)) = Append(Tail(s), f)
  BY <1>3
<1> QED BY <1>1, <1>2, <1>3

LEMMA Appending ==
  ASSUME LP!LinkInv, NEW e \in LP!Node, NEW p \in SessionPacket, NEW i \in 1..Fragments[p],
         NEW f, f \in {LP!Fragment(p, i), LP!Ack(p, i)}
  PROVE  /\ Append(wire[e], f) # << >>
         /\ wire[e] = << >> =>
              Append(wire[e], f) = <<f>> /\ Head(Append(wire[e], f)) = f /\ Tail(Append(wire[e], f)) = << >>
         /\ wire[e] # << >> =>
              /\ Head(Append(wire[e], f)) = Head(wire[e])
              /\ Tail(Append(wire[e], f)) = Append(Tail(wire[e]), f)
<1>1. wire[e] \in Seq(LP!Frame)
  BY DEF LP!LinkInv, LP!TypeOK
<1>2. f \in LP!Frame
  <2>1. LP!Fragment(p, i) \in LP!Frame
    BY LP!FragmentIsGood, LinkAssumptions DEF LP!GoodFrame
  <2>2. LP!Fragment(p, i).seq \in LP!SeqNo /\ "ACK" \in LP!ControlType
    BY <2>1 DEF LP!Frame, LP!ControlType
  <2>3. LP!Ack(p, i) \in LP!Frame
    BY <2>2, LP!ControlIsGood, LinkAssumptions DEF LP!GoodFrame, LP!Ack
  <2> QED BY <2>1, <2>3
<1> QED BY <1>1, <1>2, AppendedTo

LEMMA Singles ==
  ASSUME NEW d \in Dispatches
  PROVE  /\ Hello \in SessionPacket /\ Fragments[Hello] = 1
         /\ Reply(d) \in SessionPacket /\ Fragments[Reply(d)] = 1
         /\ Pkt("DEVICE_BYE", d) \in SessionPacket /\ Fragments[Pkt("DEVICE_BYE", d)] = 1
         /\ \A t \in {"OK", "ERROR"} :
              Response(d, t) \in SessionPacket /\ Fragments[Response(d, t)] = 1
         /\ Request(d) \in SessionPacket /\ Fragments[Request(d)] = RequestFrames
         /\ 1 \in 1..1 /\ 1 \in 1..RequestFrames /\ RequestFrames \in 1..RequestFrames
         /\ 1 < RequestFrames /\ RequestFrames \in Nat
<1>1. /\ Hello.kind # "REQUEST" /\ Reply(d).kind # "REQUEST" /\ Pkt("DEVICE_BYE", d).kind # "REQUEST"
      /\ \A t : Response(d, t).kind # "REQUEST"
  BY DEF Hello, Reply, Pkt, Response
<1>2. /\ Hello \in SessionPacket /\ Reply(d) \in SessionPacket /\ Pkt("DEVICE_BYE", d) \in SessionPacket
      /\ \A t \in {"OK", "ERROR"} : Response(d, t) \in SessionPacket
  BY Packets DEF Hello, Reply
<1>3. Request(d) \in SessionPacket /\ Fragments[Request(d)] = RequestFrames /\ RequestFrames \in 2..254
  BY Packets
<1> QED BY <1>1, <1>2, <1>3, Packets

(* Starting from each position, one node at a time.                        *)
LEMMA AwaitingDevice ==
  ASSUME Typed, LP!LinkInv, AtRest, Bare, Awaiting, DeviceMoves
  PROVE  Bare' /\ Awaiting' /\ UNCHANGED <<current, rebooted>>
<1>0. Device \in LP!Node /\ PC \in LP!Node /\ PC # Device
  BY TwoNodes
<1>1. ppc = "hello" /\ LP!Receives(PC, Hello, 0) /\ wire[Device] = << >>
  BY DEF Awaiting
<1>2. CASE dpc \in {"off", "done"} /\ wire[PC] = << >>
  <2>1. ~LinkBy(Device)
    BY <1>0, <1>2, LP!IdleStays, LinkAssumptions DEF AtRest, LinkBy, LP!Progresses
  <2>2. ~DeviceStep
    BY <1>2 DEF DeviceStep, HelloSent, HelloFailed, Opened, KeepWaiting, OpenExpires,
       ServeWrite, ServeInvalid, ServeFails, ServeBye, AnswerSent, AnswerFails, ByeEnds, ManagerSucceeds
  <2>3. CASE Boot
    <3>1. Link!CallSend(Device, Hello) /\ dpc' = "hello" /\ UNCHANGED <<rebooted, pcVars>>
      BY <2>3 DEF Boot, Hello
    <3>2. Hello \in SessionPacket
      BY Packets DEF Hello
    <3>3. LP!Sends(Device, Hello, 1)' /\ Bare' /\ LP!Others(Device) /\ wire' = wire
      BY <1>0, <3>1, <3>2, NodeCalls
    <3>4. LP!Receives(PC, Hello, 0)'
      BY <1>0, <1>1, <3>3, Keeps
    <3> QED BY <1>1, <1>2, <3>1, <3>3, <3>4 DEF Awaiting, pcVars
  <2>4. CASE NextUnit
    <3>1. /\ wire' = [wire EXCEPT ![Device] = << >>] /\ dpc' = "off"
          /\ UNCHANGED <<op, asm, pending, rebooted, pcVars>>
      BY <2>4 DEF NextUnit
    <3>2. wire'[Device] = << >> /\ wire'[PC] = wire[PC]
      BY <1>0, <3>1 DEF LP!LinkInv, LP!TypeOK
    <3>3. LP!Receives(PC, Hello, 0)' /\ Bare'
      BY <1>1, <3>1 DEF LP!Receives, Bare
    <3> QED BY <1>1, <1>2, <3>1, <3>2, <3>3 DEF Awaiting, pcVars
  <2> QED BY <2>1, <2>2, <2>3, <2>4 DEF DeviceMoves
<1>3. CASE dpc = "hello" /\ LP!Sends(Device, Hello, 1) /\ wire[PC] = << >>
  <2>1. LinkBy(Device) /\ UNCHANGED Managers
    BY <1>3, DeviceBusy DEF LP!Sends
  <2>2. /\ LP!Waits(Device, Hello, 1)' /\ Bare' /\ LP!Others(Device)
        /\ wire'[Device] = << >> /\ wire'[PC] = Append(wire[PC], LP!Fragment(Hello, 1))
    BY <1>0, <1>1, <1>3, <2>1, NodeSends
  <2>3. Hello \in SessionPacket /\ 1 \in 1..Fragments[Hello]
    <3>1. Hello \in SessionPacket /\ Hello.kind # "REQUEST"
      BY Packets DEF Hello, Pkt
    <3> QED BY <3>1, Packets
  <2>4. Carries(PC, LP!Fragment(Hello, 1), << >>)'
    BY <1>0, <1>3, <2>2, <2>3, Appending DEF Carries, LP!HeadIs
  <2>5. LP!Receives(PC, Hello, 0)'
    BY <1>0, <1>1, <2>2, Keeps
  <2> QED BY <1>1, <1>3, <2>1, <2>2, <2>4, <2>5 DEF Awaiting, Managers, deviceVars
<1>4. CASE dpc = "hello" /\ LP!Waits(Device, Hello, 1) /\ Carries(PC, LP!Fragment(Hello, 1), << >>)
  <2>1. LinkBy(Device)
    BY <1>4, DeviceBusy DEF LP!Waits
  <2>2. op[Device] = "wait" /\ wire[PC] # << >> /\ Running(PC)
    BY <1>0, <1>1, <1>4 DEF LP!Waits, Carries, LP!HeadIs, Running
  <2> QED BY <1>0, <1>1, <2>1, <2>2, NodeStill
<1> QED BY <1>2, <1>3, <1>4 DEF Awaiting

LEMMA AwaitingPc ==
  ASSUME Typed, LP!LinkInv, AtRest, Bare, Awaiting, NEW d \in Dispatches, PcMoves
  PROVE  /\ UNCHANGED <<current, rebooted>>
         /\ (Bare' /\ Greeting(d)') \/ Doomed'
<1>0. Device \in LP!Node /\ PC \in LP!Node /\ PC # Device
  BY TwoNodes
<1>1. /\ ppc = "hello" /\ LP!Receives(PC, Hello, 0) /\ wire[Device] = << >> /\ op[PC] = "receive"
  BY DEF Awaiting, LP!Receives
<1>2. LinkBy(PC) /\ UNCHANGED Managers
  BY <1>1, PcBusy
<1>3. CASE wire[PC] = << >>
  <2>1. ~LP!Progresses(PC)
    BY <1>0, <1>1, <1>3, LP!NothingToRead, LinkAssumptions DEF LP!Progresses, Bare
  <2>2. LP!ReceiveTimeout(PC)
    BY <1>1, <1>2, <2>1 DEF LinkBy, LP!Timeout, LP!AwaitTimeout
  <2>3. op'[PC] = "idle" /\ res'[PC] = "timeout"
    BY <1>0, <2>2 DEF LP!ReceiveTimeout, LP!Return, LP!LinkInv, LP!TypeOK
  <2> QED BY <1>1, <1>2, <2>3 DEF Doomed, Managers, deviceVars
<1>4. CASE dpc = "hello" /\ LP!Waits(Device, Hello, 1) /\ Carries(PC, LP!Fragment(Hello, 1), << >>)
  <2>1. Hello \in SessionPacket /\ Fragments[Hello] = 1 /\ 1 \in 1..Fragments[Hello] /\ ~(1 < 1) /\ 1 - 1 = 0
    BY Singles
  <2>2. /\ LP!Has(PC, Hello)' /\ Bare' /\ LP!Others(PC)
        /\ wire'[PC] = << >> /\ wire'[Device] = Append(wire[Device], LP!Ack(Hello, 1))
    BY <1>0, <1>1, <1>2, <1>4, <2>1, NodeTakes
  <2>3. Carries(Device, LP!Ack(Hello, 1), << >>)'
    BY <1>0, <1>1, <2>1, <2>2, Appending DEF Carries, LP!HeadIs
  <2>4. LP!Waits(Device, Hello, 1)'
    BY <1>0, <1>4, <2>2, Keeps
  <2>5. Greets(d, << >>)' /\ Greeted(d, << >>)'
    BY <1>1, <1>2, <1>4, <2>2, <2>3, <2>4 DEF Greets, Greeted, Managers, deviceVars
  <2> QED BY <1>2, <2>2, <2>5 DEF Greeting, Managers, deviceVars
<1> QED BY <1>3, <1>4 DEF Awaiting

LEMMA GreetingDevice ==
  ASSUME Typed, LP!LinkInv, AtRest, Bare, NEW d \in Dispatches, d = current, Greeting(d), DeviceMoves
  PROVE  Bare' /\ (Greeting(d)' \/ Joining(d)') /\ UNCHANGED <<current, rebooted>>
<1>0. Device \in LP!Node /\ PC \in LP!Node /\ PC # Device
  BY TwoNodes
<1>1. wire[PC] = << >>
  BY DEF Greeting
<1>2. PICK w \in {<< >>, <<LP!Fragment(Reply(d), 1)>>} : Greets(d, w) /\ Greeted(d, w)
  BY DEF Greeting
<1>3. ASSUME LP!Others(Device), UNCHANGED ppc
      PROVE  Greets(d, w)'
  BY <1>0, <1>2, <1>3, Keeps DEF Greets
<1>4. Running(PC) /\ (w = << >> => op[PC] \notin {"wait", "receive"})
  <2>1. <<LP!Fragment(Reply(d), 1)>> # << >>
    OBVIOUS
  <2>2. ppc # "off"
    BY <1>2 DEF Greets
  <2>3. w = << >> => op[PC] \notin {"wait", "receive"}
    BY <1>2, <2>1 DEF Greets, LP!Has, LP!Sends
  <2> QED BY <1>0, <2>2, <2>3 DEF Running
<1>5. CASE dpc = "hello" /\ LP!Waits(Device, Hello, 1) /\ Carries(Device, LP!Ack(Hello, 1), w)
  <2>1. LinkBy(Device) /\ UNCHANGED Managers
    BY <1>5, DeviceBusy DEF LP!Waits
  <2>2. Hello \in SessionPacket /\ Fragments[Hello] = 1 /\ 1 \in 1..Fragments[Hello] /\ ~(1 < 1)
    BY Singles
  <2>3. /\ LP!Sent(Device)' /\ Bare' /\ LP!Others(Device)
        /\ wire'[Device] = w /\ wire'[PC] = wire[PC]
    BY <1>0, <1>5, <2>1, <2>2, NodeWaits
  <2>4. Greeted(d, w)' /\ Greets(d, w)'
    BY <1>3, <1>5, <2>1, <2>3 DEF Greeted, Managers, deviceVars
  <2> QED BY <1>1, <2>1, <2>3, <2>4 DEF Greeting, Managers, deviceVars
<1>6. CASE dpc = "hello" /\ LP!Sent(Device) /\ wire[Device] = w
  <2>1. ~LinkBy(Device)
    BY <1>0, <1>6, LP!IdleStays, LinkAssumptions DEF LinkBy, LP!Progresses, LP!Sent
  <2>2. HelloSent
    BY <1>6, <2>1 DEF DeviceMoves, DeviceStep, HelloFailed, Opened, KeepWaiting, OpenExpires,
       ServeWrite, ServeInvalid, ServeFails, ServeBye, AnswerSent, AnswerFails, ByeEnds,
       ManagerSucceeds, Boot, NextUnit, LP!Sent
  <2>3. dpc' = "wait" /\ Link!CallReceive(Device) /\ UNCHANGED <<rebooted, pcVars>>
    BY <2>2 DEF HelloSent
  <2>4. LP!Receives(Device, Reply(d), 0)' /\ Bare' /\ LP!Others(Device) /\ wire' = wire
    BY <1>0, <2>3, NodeCalls
  <2>5. Greeted(d, w)' /\ Greets(d, w)'
    BY <1>3, <1>6, <2>3, <2>4 DEF Greeted, pcVars
  <2> QED BY <1>1, <2>3, <2>4, <2>5 DEF Greeting, pcVars
<1>7. CASE dpc = "wait" /\ LP!Receives(Device, Reply(d), 0) /\ wire[Device] = w
  <2>1. LinkBy(Device) /\ UNCHANGED Managers /\ op[Device] = "receive"
    BY <1>7, DeviceBusy DEF LP!Receives
  <2>2. w # << >>
    BY <1>0, <1>4, <1>7, <2>1, NodeStill
  <2>3. wire[Device] = <<LP!Fragment(Reply(d), 1)>>
    BY <1>2, <1>7, <2>2
  <2>4. Carries(Device, LP!Fragment(Reply(d), 1), << >>)
    BY <2>3 DEF Carries, LP!HeadIs
  <2>5. /\ Reply(d) \in SessionPacket /\ Fragments[Reply(d)] = 1 /\ 1 \in 1..Fragments[Reply(d)]
        /\ ~(1 < 1) /\ 1 - 1 = 0
    BY Singles
  <2>6. /\ LP!Has(Device, Reply(d))' /\ Bare' /\ LP!Others(Device)
        /\ wire'[Device] = << >> /\ wire'[PC] = Append(wire[PC], LP!Ack(Reply(d), 1))
    BY <1>0, <1>7, <2>1, <2>4, <2>5, NodeTakes
  <2>7. Carries(PC, LP!Ack(Reply(d), 1), << >>)'
    BY <1>0, <1>1, <2>5, <2>6, Appending DEF Carries, LP!HeadIs
  <2>8. ppc = "open" /\ LP!Waits(PC, Reply(d), 1)
    BY <1>2, <2>2 DEF Greets
  <2>9. LP!Waits(PC, Reply(d), 1)'
    BY <1>0, <2>6, <2>8, Keeps
  <2>10. Joins(d)' /\ Joined(d)'
    BY <1>7, <2>1, <2>6, <2>7, <2>8, <2>9 DEF Joins, Joined, Managers, deviceVars
  <2> QED BY <2>1, <2>6, <2>10 DEF Joining, Managers, deviceVars
<1> QED BY <1>2, <1>5, <1>6, <1>7 DEF Greeted

LEMMA GreetingPc ==
  ASSUME Typed, LP!LinkInv, AtRest, Bare, NEW d \in Dispatches, d = current, Greeting(d), PcMoves
  PROVE  Bare' /\ Greeting(d)' /\ UNCHANGED <<current, rebooted>>
<1>0. Device \in LP!Node /\ PC \in LP!Node /\ PC # Device
  BY TwoNodes
<1>1. wire[PC] = << >>
  BY DEF Greeting
<1>2. PICK w \in {<< >>, <<LP!Fragment(Reply(d), 1)>>} : Greets(d, w) /\ Greeted(d, w)
  BY DEF Greeting
<1>3. ASSUME LP!Others(PC), UNCHANGED <<wire[Device], dpc>>
      PROVE  Greeted(d, w)'
  BY <1>0, <1>2, <1>3, Keeps DEF Greeted, Carries, LP!HeadIs
<1>9. Reply(d) \in SessionPacket /\ Fragments[Reply(d)] = 1 /\ 1 \in 1..Fragments[Reply(d)]
  BY Singles
<1>4. CASE w = << >> /\ ppc = "hello" /\ LP!Has(PC, Hello)
  <2>1. ~LinkBy(PC)
    BY <1>0, <1>4, LP!IdleStays, LinkAssumptions DEF LinkBy, LP!Progresses, LP!Has
  <2>2. inbox[PC] \in Seq([pkt : SessionPacket, idx : 1..RequestFrames])
    BY <1>0, IntactInbox DEF IntactInboxes
  <2>3. Got(PC, Hello)
    BY <1>4, <2>2 DEF LP!Has, Got
  <2>4. GotDeviceHello
    BY <1>4, <2>1, <2>3 DEF PcMoves, PcStep, Dispatch, NoDeviceHello, SendRequest, AwaitResponse,
       ExchangeFails, GotResponse, GotStranger, GotDeviceBye, PcByeEnds, Hello
  <2>5. ppc' = "open" /\ Link!CallSend(PC, Reply(d)) /\ UNCHANGED <<current, deviceVars>>
    BY <2>4 DEF GotDeviceHello, Reply
  <2>6. LP!Sends(PC, Reply(d), 1)' /\ Bare' /\ LP!Others(PC) /\ wire' = wire
    BY <1>0, <1>9, <2>5, NodeCalls
  <2>7. Greets(d, w)' /\ Greeted(d, w)'
    BY <1>3, <1>4, <2>5, <2>6 DEF Greets, deviceVars
  <2> QED BY <1>1, <2>5, <2>6, <2>7 DEF Greeting, deviceVars
<1>5. CASE w = << >> /\ ppc = "open" /\ LP!Sends(PC, Reply(d), 1)
  <2>1. LinkBy(PC) /\ UNCHANGED Managers
    BY <1>5, PcBusy DEF LP!Sends
  <2>2. /\ LP!Waits(PC, Reply(d), 1)' /\ Bare' /\ LP!Others(PC)
        /\ wire'[PC] = << >> /\ wire'[Device] = Append(wire[Device], LP!Fragment(Reply(d), 1))
    BY <1>0, <1>1, <1>5, <2>1, NodeSends
  <2>3. PICK v : v = <<LP!Fragment(Reply(d), 1)>>
    OBVIOUS
  <2>4. Greets(d, v)'
    BY <1>5, <2>1, <2>2, <2>3 DEF Greets, Managers
  <2>5. CASE dpc = "hello" /\ LP!Waits(Device, Hello, 1) /\ Carries(Device, LP!Ack(Hello, 1), w)
    <3>1. wire[Device] # << >> /\ Head(wire[Device]) = LP!Ack(Hello, 1) /\ Tail(wire[Device]) = << >>
      BY <1>5, <2>5 DEF Carries, LP!HeadIs
    <3>2. /\ wire'[Device] # << >> /\ Head(wire'[Device]) = LP!Ack(Hello, 1)
          /\ Tail(wire'[Device]) = Append(<< >>, LP!Fragment(Reply(d), 1))
      <4>1. PICK f : f = LP!Fragment(Reply(d), 1)
        OBVIOUS
      <4>2. /\ Append(wire[Device], f) # << >>
            /\ Head(Append(wire[Device], f)) = Head(wire[Device])
            /\ Tail(Append(wire[Device], f)) = Append(Tail(wire[Device]), f)
        BY <1>0, <1>9, <3>1, <4>1, Appending
      <4> QED BY <2>2, <3>1, <4>1, <4>2
    <3>3. Carries(Device, LP!Ack(Hello, 1), v)'
      BY <2>3, <3>2 DEF Carries, LP!HeadIs
    <3>4. LP!Waits(Device, Hello, 1)'
      BY <1>0, <2>2, <2>5, Keeps
    <3> QED BY <1>1, <2>1, <2>2, <2>3, <2>4, <2>5, <3>3, <3>4 DEF Greeting, Greeted, Managers, deviceVars
  <2>6. CASE /\ wire[Device] = w
             /\ \/ dpc = "hello" /\ LP!Sent(Device)
                \/ dpc = "wait" /\ LP!Receives(Device, Reply(d), 0)
    <3>1. wire'[Device] = v
      BY <1>0, <1>5, <1>9, <2>2, <2>3, <2>6, Appending
    <3>2. Greeted(d, v)'
      BY <1>0, <2>1, <2>2, <2>6, <3>1, Keeps DEF Greeted, Managers, deviceVars
    <3> QED BY <1>1, <2>1, <2>2, <2>3, <2>4, <3>2 DEF Greeting, Managers, deviceVars
  <2> QED BY <1>2, <2>5, <2>6 DEF Greeted
<1>6. CASE w = <<LP!Fragment(Reply(d), 1)>> /\ ppc = "open" /\ LP!Waits(PC, Reply(d), 1)
  <2>1. LinkBy(PC) /\ op[PC] = "wait"
    BY <1>6, PcBusy DEF LP!Waits
  <2>2. wire[Device] # << >>
    BY <1>2, <1>6 DEF Greeted, Carries, LP!HeadIs
  <2>3. Running(Device)
    BY <1>2 DEF Greeted, Running
  <2> QED BY <1>0, <1>1, <2>1, <2>2, <2>3, NodeStill
<1> QED BY <1>2, <1>4, <1>5, <1>6 DEF Greets

LEMMA JoiningDevice ==
  ASSUME Typed, LP!LinkInv, AtRest, Bare, NEW d \in Dispatches, d = current, Joining(d), DeviceMoves
  PROVE  Bare' /\ (Joining(d)' \/ Moving(d)') /\ UNCHANGED <<current, rebooted>>
<1>0. Device \in LP!Node /\ PC \in LP!Node /\ PC # Device
  BY TwoNodes
<1>1. Joins(d) /\ Joined(d)
  BY DEF Joining
<1>2. CASE dpc = "wait" /\ LP!Has(Device, Reply(d))
  <2>1. ~LinkBy(Device)
    BY <1>0, <1>2, LP!IdleStays, LinkAssumptions DEF LinkBy, LP!Progresses, LP!Has
  <2>2. inbox[Device][1].pkt = Reply(d) /\ res[Device] = "received"
    <3>1. inbox[Device] \in Seq([pkt : SessionPacket, idx : 1..RequestFrames])
      BY <1>0, IntactInbox DEF IntactInboxes
    <3> QED BY <1>2, <3>1 DEF LP!Has
  <2>3. ~NoHelloYet /\ res[Device] # "failed"
    BY <2>2 DEF NoHelloYet, Reply, Pkt
  <2>4. Opened
    BY <1>2, <2>1, <2>3 DEF DeviceMoves, DeviceStep, HelloSent, HelloFailed, KeepWaiting, OpenExpires,
       ServeWrite, ServeInvalid, ServeFails, ServeBye, AnswerSent, AnswerFails, ByeEnds,
       ManagerSucceeds, Boot, NextUnit
  <2>5. PICK s \in Dispatches : Got(Device, Pkt("PC_HELLO", s)) /\ dsid' = s
    BY <2>4 DEF Opened
  <2>6. s = d
    BY <2>2, <2>5 DEF Got, Reply, Pkt
  <2>7. dpc' = "serve" /\ Link!CallReceive(Device) /\ UNCHANGED <<rebooted, pcVars>>
    BY <2>4 DEF Opened
  <2>8. LP!Receives(Device, Request(d), 0)' /\ Bare' /\ LP!Others(Device) /\ wire' = wire
    BY <1>0, <2>7, NodeCalls
  <2>9. Joined(d)'
    BY <1>0, <1>1, <2>7, <2>8, Keeps DEF Joined, Carries, LP!HeadIs, pcVars
  <2> QED BY <2>5, <2>6, <2>7, <2>8, <2>9 DEF Joining, Joins, pcVars
<1>3. CASE dpc = "serve" /\ dsid = d /\ LP!Receives(Device, Request(d), 0)
  <2>1. LinkBy(Device) /\ UNCHANGED Managers /\ op[Device] = "receive"
    BY <1>3, DeviceBusy DEF LP!Receives
  <2>2. Running(PC)
    BY <1>0, <1>1 DEF Joined, Running
  <2>3. CASE wire[Device] = << >>
    <3>1. wire[PC] # << >> \/ op[PC] \notin {"wait", "receive"}
      BY <1>1, <2>3 DEF Joined, Carries, LP!HeadIs, LP!Sent, LP!Sends
    <3> QED BY <1>0, <2>1, <2>2, <2>3, <3>1, NodeStill
  <2>4. CASE /\ ppc = "request" /\ LP!Waits(PC, Request(d), 1) /\ wire[PC] = << >>
             /\ Carries(Device, LP!Fragment(Request(d), 1), << >>)
    <3>1. /\ Request(d) \in SessionPacket /\ Fragments[Request(d)] = RequestFrames
          /\ 1 \in 1..Fragments[Request(d)] /\ 1 < Fragments[Request(d)] /\ 1 - 1 = 0
          /\ 1 \in 1..RequestFrames /\ 1 < RequestFrames
      BY Singles
    <3>2. /\ LP!Receives(Device, Request(d), 1)' /\ Bare' /\ LP!Others(Device)
          /\ wire'[Device] = << >> /\ wire'[PC] = Append(wire[PC], LP!Ack(Request(d), 1))
      BY <1>0, <1>3, <2>1, <2>4, <3>1, NodeTakes
    <3>3. Carries(PC, LP!Ack(Request(d), 1), << >>)'
      BY <1>0, <2>4, <3>1, <3>2, Appending DEF Carries, LP!HeadIs
    <3>4. LP!Waits(PC, Request(d), 1)'
      BY <1>0, <2>4, <3>2, Keeps
    <3>5. Fragmented(d, 1)'
      BY <3>1, <3>2, <3>3, <3>4 DEF Fragmented
    <3>6. Moving(d)'
      BY <1>3, <2>1, <2>4, <3>1, <3>5 DEF Moving, Managers, deviceVars
    <3> QED BY <2>1, <3>2, <3>6 DEF Managers, deviceVars
  <2> QED BY <1>1, <2>3, <2>4 DEF Joined
<1> QED BY <1>1, <1>2, <1>3 DEF Joins

LEMMA JoiningPc ==
  ASSUME Typed, LP!LinkInv, AtRest, Bare, NEW d \in Dispatches, d = current, Joining(d), PcMoves
  PROVE  Bare' /\ Joining(d)' /\ UNCHANGED <<current, rebooted>>
<1>0. Device \in LP!Node /\ PC \in LP!Node /\ PC # Device
  BY TwoNodes
<1>1. Joins(d) /\ Joined(d)
  BY DEF Joining
<1>2. ASSUME LP!Others(PC), UNCHANGED <<dpc, dsid>>
      PROVE  Joins(d)'
  BY <1>0, <1>1, <1>2, Keeps DEF Joins
<1>3. /\ Reply(d) \in SessionPacket /\ Fragments[Reply(d)] = 1 /\ 1 \in 1..Fragments[Reply(d)] /\ ~(1 < 1)
      /\ Request(d) \in SessionPacket /\ 1 \in 1..Fragments[Request(d)]
  BY Singles
<1>4. CASE /\ ppc = "open" /\ LP!Waits(PC, Reply(d), 1)
           /\ Carries(PC, LP!Ack(Reply(d), 1), << >>) /\ wire[Device] = << >>
  <2>1. LinkBy(PC) /\ UNCHANGED Managers
    BY <1>4, PcBusy DEF LP!Waits
  <2>2. /\ LP!Sent(PC)' /\ Bare' /\ LP!Others(PC) /\ wire'[PC] = << >> /\ wire'[Device] = wire[Device]
    BY <1>0, <1>3, <1>4, <2>1, NodeWaits
  <2> QED BY <1>2, <1>4, <2>1, <2>2 DEF Joining, Joined, Managers, deviceVars
<1>5. CASE ppc = "open" /\ LP!Sent(PC) /\ wire[PC] = << >> /\ wire[Device] = << >>
  <2>1. ~LinkBy(PC)
    BY <1>0, <1>5, LP!IdleStays, LinkAssumptions DEF LinkBy, LP!Progresses, LP!Sent
  <2>2. SendRequest
    BY <1>5, <2>1 DEF PcMoves, PcStep, Dispatch, GotDeviceHello, NoDeviceHello, AwaitResponse,
       ExchangeFails, GotResponse, GotStranger, GotDeviceBye, PcByeEnds, LP!Sent
  <2>3. ppc' = "request" /\ Link!CallSend(PC, Request(d)) /\ UNCHANGED <<current, deviceVars>>
    BY <2>2 DEF SendRequest, Request
  <2>4. LP!Sends(PC, Request(d), 1)' /\ Bare' /\ LP!Others(PC) /\ wire' = wire
    BY <1>0, <1>3, <2>3, NodeCalls
  <2> QED BY <1>2, <1>5, <2>3, <2>4 DEF Joining, Joined, deviceVars
<1>6. CASE ppc = "request" /\ LP!Sends(PC, Request(d), 1) /\ wire[PC] = << >> /\ wire[Device] = << >>
  <2>1. LinkBy(PC) /\ UNCHANGED Managers
    BY <1>6, PcBusy DEF LP!Sends
  <2>2. /\ LP!Waits(PC, Request(d), 1)' /\ Bare' /\ LP!Others(PC)
        /\ wire'[PC] = << >> /\ wire'[Device] = Append(wire[Device], LP!Fragment(Request(d), 1))
    BY <1>0, <1>6, <2>1, NodeSends
  <2>3. Carries(Device, LP!Fragment(Request(d), 1), << >>)'
    BY <1>0, <1>3, <1>6, <2>2, Appending DEF Carries, LP!HeadIs
  <2> QED BY <1>2, <1>6, <2>1, <2>2, <2>3 DEF Joining, Joined, Managers, deviceVars
<1>7. CASE /\ ppc = "request" /\ LP!Waits(PC, Request(d), 1) /\ wire[PC] = << >>
           /\ Carries(Device, LP!Fragment(Request(d), 1), << >>)
  <2>1. LinkBy(PC) /\ op[PC] = "wait" /\ wire[Device] # << >>
    BY <1>7, PcBusy DEF LP!Waits, Carries, LP!HeadIs
  <2>2. Running(Device)
    BY <1>1 DEF Joins, Running
  <2> QED BY <1>0, <1>7, <2>1, <2>2, NodeStill
<1> QED BY <1>1, <1>4, <1>5, <1>6, <1>7 DEF Joined

LEMMA MovingDevice ==
  ASSUME Typed, LP!LinkInv, AtRest, Bare, NEW d \in Dispatches, d = current, Moving(d), DeviceMoves
  PROVE  Bare' /\ (Moving(d)' \/ Answering(d)') /\ UNCHANGED <<current, rebooted>>
<1>0. Device \in LP!Node /\ PC \in LP!Node /\ PC # Device
  BY TwoNodes
<1>1. dpc = "serve" /\ dsid = d /\ ppc = "request"
  BY DEF Moving
<1>2. PICK i \in 1..RequestFrames : Fragmented(d, i)
  BY DEF Moving
<1>3. LinkBy(Device) /\ UNCHANGED Managers /\ op[Device] = "receive" /\ Running(PC)
  <2>1. op[Device] = "receive" /\ Running(PC)
    BY <1>0, <1>1, <1>2 DEF Fragmented, LP!Receives, Running
  <2> QED BY <1>1, <2>1, DeviceBusy
<1>4. CASE wire[Device] = << >>
  <2>1. wire[PC] # << >> \/ op[PC] \notin {"wait", "receive"}
    BY <1>2, <1>4 DEF Fragmented, Carries, LP!HeadIs, LP!Sends
  <2> QED BY <1>0, <1>3, <1>4, <2>1, NodeStill
<1>5. CASE /\ LP!Receives(Device, Request(d), i - 1) /\ LP!Waits(PC, Request(d), i)
           /\ wire[PC] = << >> /\ Carries(Device, LP!Fragment(Request(d), i), << >>)
  <2>1. /\ Request(d) \in SessionPacket /\ Fragments[Request(d)] = RequestFrames
        /\ RequestFrames \in Nat
    BY Singles
  <2>2. /\ IF i < Fragments[Request(d)] THEN LP!Receives(Device, Request(d), i)'
           ELSE LP!Has(Device, Request(d))'
        /\ Bare' /\ LP!Others(Device)
        /\ wire'[Device] = << >> /\ wire'[PC] = Append(wire[PC], LP!Ack(Request(d), i))
    BY <1>0, <1>3, <1>5, <2>1, NodeTakes
  <2>3. Carries(PC, LP!Ack(Request(d), i), << >>)'
    BY <1>0, <1>5, <2>1, <2>2, Appending DEF Carries, LP!HeadIs
  <2>4. LP!Waits(PC, Request(d), i)'
    BY <1>0, <1>5, <2>2, Keeps
  <2>5. CASE i < RequestFrames
    <3>1. Fragmented(d, i)'
      BY <2>1, <2>2, <2>3, <2>4, <2>5 DEF Fragmented
    <3> QED BY <1>1, <1>3, <2>2, <3>1 DEF Moving, Managers, deviceVars
  <2>6. CASE i = RequestFrames
    <3>0. PICK w : w = << >>
      OBVIOUS
    <3>1. Answers(d, "OK", w)' /\ Listens(d, "OK", w)'
      BY <1>1, <1>3, <2>1, <2>2, <2>3, <2>4, <2>6, <3>0 DEF Answers, Listens, Managers, deviceVars
    <3> QED BY <1>1, <1>3, <2>2, <3>0, <3>1 DEF Answering, Managers, deviceVars
  <2> QED BY <2>1, <2>5, <2>6
<1> QED BY <1>2, <1>4, <1>5 DEF Fragmented

LEMMA MovingPc ==
  ASSUME Typed, LP!LinkInv, AtRest, Bare, NEW d \in Dispatches, d = current, Moving(d), PcMoves
  PROVE  Bare' /\ Moving(d)' /\ UNCHANGED <<current, rebooted>>
<1>0. Device \in LP!Node /\ PC \in LP!Node /\ PC # Device
  BY TwoNodes
<1>1. dpc = "serve" /\ dsid = d /\ ppc = "request"
  BY DEF Moving
<1>2. PICK i \in 1..RequestFrames : Fragmented(d, i)
  BY DEF Moving
<1>3. LinkBy(PC) /\ UNCHANGED Managers /\ Running(Device)
  <2>1. op[PC] # "idle" /\ Running(Device)
    BY <1>1, <1>2 DEF Fragmented, LP!Waits, LP!Sends, Running
  <2> QED BY <1>1, <2>1, PcBusy
<1>4. /\ Request(d) \in SessionPacket /\ Fragments[Request(d)] = RequestFrames
      /\ RequestFrames \in Nat
  BY Singles
<1>5. CASE /\ i < RequestFrames
           /\ LP!Receives(Device, Request(d), i) /\ LP!Waits(PC, Request(d), i)
           /\ Carries(PC, LP!Ack(Request(d), i), << >>) /\ wire[Device] = << >>
  <2>1. /\ LP!Sends(PC, Request(d), i + 1)' /\ Bare' /\ LP!Others(PC)
        /\ wire'[PC] = << >> /\ wire'[Device] = wire[Device]
    BY <1>0, <1>3, <1>4, <1>5, NodeWaits
  <2>2. LP!Receives(Device, Request(d), i)'
    BY <1>0, <1>5, <2>1, Keeps
  <2>3. PICK j \in 1..RequestFrames : j = i + 1 /\ j - 1 = i /\ j > 1
    BY <1>4, <1>5
  <2>4. Fragmented(d, j)'
    BY <1>5, <2>1, <2>2, <2>3 DEF Fragmented
  <2> QED BY <1>1, <1>3, <2>1, <2>4 DEF Moving, Managers, deviceVars
<1>6. CASE /\ i > 1
           /\ LP!Receives(Device, Request(d), i - 1) /\ LP!Sends(PC, Request(d), i)
           /\ wire[PC] = << >> /\ wire[Device] = << >>
  <2>1. /\ LP!Waits(PC, Request(d), i)' /\ Bare' /\ LP!Others(PC)
        /\ wire'[PC] = << >> /\ wire'[Device] = Append(wire[Device], LP!Fragment(Request(d), i))
    BY <1>0, <1>3, <1>6, NodeSends
  <2>2. LP!Receives(Device, Request(d), i - 1)'
    BY <1>0, <1>6, <2>1, Keeps
  <2>3. Carries(Device, LP!Fragment(Request(d), i), << >>)'
    BY <1>0, <1>4, <1>6, <2>1, Appending DEF Carries, LP!HeadIs
  <2>4. Fragmented(d, i)'
    BY <1>6, <2>1, <2>2, <2>3 DEF Fragmented
  <2> QED BY <1>1, <1>3, <2>1, <2>4 DEF Moving, Managers, deviceVars
<1>7. CASE /\ LP!Waits(PC, Request(d), i)
           /\ wire[PC] = << >> /\ Carries(Device, LP!Fragment(Request(d), i), << >>)
  <2>1. op[PC] = "wait" /\ wire[Device] # << >>
    BY <1>7 DEF LP!Waits, Carries, LP!HeadIs
  <2> QED BY <1>0, <1>3, <1>7, <2>1, NodeStill
<1> QED BY <1>2, <1>5, <1>6, <1>7 DEF Fragmented

LEMMA AnsweringDevice ==
  ASSUME Typed, Stream, AtRest, Bare, NEW d \in Dispatches, d = current, Answering(d), DeviceMoves
  PROVE  Bare' /\ Answering(d)' /\ UNCHANGED <<current, rebooted>>
<1>0. Device \in LP!Node /\ PC \in LP!Node /\ PC # Device /\ LP!LinkInv
  BY TwoNodes DEF Stream, InOrder
<1>1. wire[Device] = << >> /\ dsid = d
  BY DEF Answering
<1>12. PICK t \in {"OK", "ERROR"} :
         \E w \in {<< >>, <<LP!Fragment(Response(d, t), 1)>>} : Answers(d, t, w) /\ Listens(d, t, w)
  BY DEF Answering
<1>2. PICK w \in {<< >>, <<LP!Fragment(Response(d, t), 1)>>} : Answers(d, t, w) /\ Listens(d, t, w)
  BY <1>12
<1>4. Running(PC)
  BY <1>0, <1>2 DEF Listens, Running
<1>5. CASE w = << >> /\ dpc = "serve" /\ LP!Has(Device, Request(d))
  <2>1. ~LinkBy(Device)
    BY <1>0, <1>5, LP!IdleStays, LinkAssumptions DEF LinkBy, LP!Progresses, LP!Has
  <2>2. Got(Device, Request(d)) /\ ~Spliced(Device)
    <3>1. inbox[Device] \in Seq([pkt : SessionPacket, idx : 1..RequestFrames])
      BY <1>0, IntactInbox DEF IntactInboxes
    <3> QED BY <1>5, <3>1 DEF LP!Has, Got, Spliced
  <2>3. res[Device] = "received" /\ inbox[Device][1].pkt = Request(d)
    BY <2>2 DEF Got
  <2>4. ~Sessionless(Request(d)) /\ Request(d).sid = d /\ Request(d).kind = "REQUEST"
    BY DEF Sessionless, Request, Pkt
  <2>5. ~ServeInvalid /\ ~ServeFails /\ ~ServeBye
    BY <1>1, <2>2, <2>3, <2>4 DEF ServeInvalid, ServeFails, ServeBye, Got, Pkt
  <2>6. ServeWrite
    BY <1>5, <2>1, <2>5 DEF DeviceMoves, DeviceStep, HelloSent, HelloFailed, Opened, KeepWaiting,
       OpenExpires, AnswerSent, AnswerFails, ByeEnds, ManagerSucceeds, Boot, NextUnit
  <2>7. PICK x \in Dispatches, status \in {"OK", "ERROR"}, r \in Write :
           /\ x = dsid /\ dpc' = "answer" /\ dstatus' = status
           /\ r.data = x /\ (status = "ERROR" => r.stored = "part")
           /\ written' = Append(written, r)
           /\ LP!CallSend(Device, Response(x, status))
           /\ UNCHANGED <<dsid, rebooted, pcVars>>
    BY <2>6, WriteAppends
  <2>8. ~Applied(d)
    BY <2>2, ReceivedRequest
  <2>9. status = "ERROR" => PartOnly(d)'
    <3>1. written \in Seq(Write)
      BY DEF Typed
    <3>2. \A i \in 1..Len(written) : written[i].data # d
      BY <2>8 DEF Applied
    <3> QED BY <1>1, <2>7, <3>1, <3>2, Appended DEF PartOnly, Applied
  <2>10. /\ LP!Sends(Device, Response(d, status), 1)' /\ Bare' /\ LP!Others(Device) /\ wire' = wire
    <3>1. Response(d, status) \in SessionPacket
      BY <2>7, Singles
    <3>2. Link!CallSend(Device, Response(d, status))
      BY <1>1, <2>6, <2>7 DEF ServeWrite, Answer
    <3> QED BY <1>0, <3>1, <3>2, NodeCalls
  <2>11. Listens(d, status, w)
    BY <1>2, <1>5 DEF Listens, LP!Receives
  <2>12. Listens(d, status, w)'
    BY <1>0, <2>7, <2>10, <2>11, Keeps DEF Listens, Carries, LP!HeadIs, pcVars
  <2>13. Answers(d, status, w)'
    BY <1>5, <2>7, <2>9, <2>10 DEF Answers
  <2>14. w \in {<< >>, <<LP!Fragment(Response(d, status), 1)>>}
    BY <1>5
  <2>15. wire'[Device] = << >> /\ dsid' = d
    BY <1>1, <2>7, <2>10
  <2> QED BY <2>7, <2>10, <2>12, <2>13, <2>14, <2>15 DEF Answering, pcVars
<1>6. CASE /\ w = << >> /\ dpc = "answer" /\ LP!Sends(Device, Response(d, t), 1)
           /\ dstatus = t /\ (t = "ERROR" => PartOnly(d))
  <2>1. LinkBy(Device) /\ UNCHANGED Managers
    BY <1>6, DeviceBusy DEF LP!Sends
  <2>2. /\ LP!Waits(Device, Response(d, t), 1)' /\ Bare' /\ LP!Others(Device)
        /\ wire'[Device] = << >> /\ wire'[PC] = Append(wire[PC], LP!Fragment(Response(d, t), 1))
    BY <1>0, <1>1, <1>6, <2>1, NodeSends
  <2>3. PICK v : v = <<LP!Fragment(Response(d, t), 1)>>
    OBVIOUS
  <2>4. PartOnly(d) => PartOnly(d)'
    BY <2>1 DEF PartOnly, Applied, Managers, deviceVars
  <2>5. Answers(d, t, v)'
    BY <1>6, <2>1, <2>2, <2>3, <2>4 DEF Answers, Managers, deviceVars
  <2>6. Response(d, t) \in SessionPacket /\ 1 \in 1..Fragments[Response(d, t)]
    BY Singles
  <2>7. PICK f : f = LP!Fragment(Response(d, t), 1)
    OBVIOUS
  <2>8. /\ Append(wire[PC], f) # << >>
        /\ wire[PC] = << >> => Append(wire[PC], f) = <<f>>
        /\ wire[PC] # << >> =>
             /\ Head(Append(wire[PC], f)) = Head(wire[PC])
             /\ Tail(Append(wire[PC], f)) = Append(Tail(wire[PC]), f)
    BY <1>0, <2>6, <2>7, Appending
  <2>9. CASE /\ ppc = "request" /\ LP!Waits(PC, Request(d), RequestFrames)
             /\ Carries(PC, LP!Ack(Request(d), RequestFrames), w)
    <3>1. wire[PC] # << >> /\ Head(wire[PC]) = LP!Ack(Request(d), RequestFrames) /\ Tail(wire[PC]) = << >>
      BY <1>6, <2>9 DEF Carries, LP!HeadIs
    <3>2. Append(<< >>, f) = v
      BY <2>3, <2>7
    <3>3. Carries(PC, LP!Ack(Request(d), RequestFrames), v)'
      BY <2>2, <2>7, <2>8, <3>1, <3>2 DEF Carries, LP!HeadIs
    <3>4. LP!Waits(PC, Request(d), RequestFrames)'
      BY <1>0, <2>2, <2>9, Keeps
    <3>5. Listens(d, t, v)'
      BY <2>1, <2>9, <3>3, <3>4 DEF Listens, Managers
    <3> QED BY <1>1, <2>1, <2>2, <2>3, <2>5, <3>5 DEF Answering, Managers, deviceVars
  <2>10. CASE /\ wire[PC] = w
              /\ \/ ppc = "request" /\ LP!Sent(PC)
                 \/ ppc = "response" /\ LP!Receives(PC, Response(d, t), 0)
    <3>1. wire'[PC] = v
      BY <1>6, <2>2, <2>3, <2>7, <2>8, <2>10
    <3>2. Listens(d, t, v)'
      BY <1>0, <2>1, <2>2, <2>10, <3>1, Keeps DEF Listens, Managers
    <3> QED BY <1>1, <2>1, <2>2, <2>3, <2>5, <3>2 DEF Answering, Managers, deviceVars
  <2> QED BY <1>2, <2>9, <2>10 DEF Listens
<1>7. CASE w = <<LP!Fragment(Response(d, t), 1)>> /\ dpc = "answer" /\ LP!Waits(Device, Response(d, t), 1)
  <2>1. LinkBy(Device) /\ op[Device] = "wait"
    BY <1>7, DeviceBusy DEF LP!Waits
  <2>2. wire[PC] # << >>
    <3>1. <<LP!Fragment(Response(d, t), 1)>> # << >>
      OBVIOUS
    <3> QED BY <1>2, <1>7, <3>1 DEF Listens, Carries, LP!HeadIs
  <2> QED BY <1>0, <1>1, <1>4, <2>1, <2>2, NodeStill
<1> QED BY <1>2, <1>5, <1>6, <1>7 DEF Answers

LEMMA AnsweringPc ==
  ASSUME Typed, LP!LinkInv, AtRest, Bare, NEW d \in Dispatches, d = current, Answering(d), PcMoves
  PROVE  Bare' /\ (Answering(d)' \/ Told(d)') /\ UNCHANGED <<current, rebooted>>
<1>0. Device \in LP!Node /\ PC \in LP!Node /\ PC # Device
  BY TwoNodes
<1>1. wire[Device] = << >> /\ dsid = d
  BY DEF Answering
<1>12. PICK t \in {"OK", "ERROR"} :
         \E w \in {<< >>, <<LP!Fragment(Response(d, t), 1)>>} : Answers(d, t, w) /\ Listens(d, t, w)
  BY DEF Answering
<1>2. PICK w \in {<< >>, <<LP!Fragment(Response(d, t), 1)>>} : Answers(d, t, w) /\ Listens(d, t, w)
  BY <1>12
<1>3. UNCHANGED written /\ PartOnly(d) => PartOnly(d)'
  BY DEF PartOnly, Applied
<1>4. ASSUME LP!Others(PC), UNCHANGED deviceVars
      PROVE  Answers(d, t, w)' /\ UNCHANGED <<dsid, rebooted>>
  BY <1>0, <1>2, <1>3, <1>4, Keeps DEF Answers, deviceVars
<1>5. CASE /\ ppc = "request" /\ LP!Waits(PC, Request(d), RequestFrames)
           /\ Carries(PC, LP!Ack(Request(d), RequestFrames), w)
  <2>1. LinkBy(PC) /\ UNCHANGED Managers
    BY <1>5, PcBusy DEF LP!Waits
  <2>2. /\ Request(d) \in SessionPacket /\ RequestFrames \in 1..Fragments[Request(d)]
        /\ ~(RequestFrames < Fragments[Request(d)])
    BY Singles
  <2>3. /\ LP!Sent(PC)' /\ Bare' /\ LP!Others(PC) /\ wire'[PC] = w /\ wire'[Device] = wire[Device]
    BY <1>0, <1>5, <2>1, <2>2, NodeWaits
  <2>4. Listens(d, t, w)' /\ Answers(d, t, w)' /\ dsid' = d /\ wire'[Device] = << >>
    BY <1>1, <1>4, <1>5, <2>1, <2>3 DEF Listens, Managers
  <2> QED BY <1>2, <2>1, <2>3, <2>4 DEF Answering, Managers, deviceVars
<1>6. CASE ppc = "request" /\ LP!Sent(PC) /\ wire[PC] = w
  <2>1. ~LinkBy(PC)
    BY <1>0, <1>6, LP!IdleStays, LinkAssumptions DEF LinkBy, LP!Progresses, LP!Sent
  <2>2. AwaitResponse
    BY <1>6, <2>1 DEF PcMoves, PcStep, Dispatch, GotDeviceHello, NoDeviceHello, SendRequest,
       ExchangeFails, GotResponse, GotStranger, GotDeviceBye, PcByeEnds, LP!Sent
  <2>3. ppc' = "response" /\ Link!CallReceive(PC) /\ UNCHANGED <<current, deviceVars>>
    BY <2>2 DEF AwaitResponse
  <2>4. LP!Receives(PC, Response(d, t), 0)' /\ Bare' /\ LP!Others(PC) /\ wire' = wire
    BY <1>0, <2>3, NodeCalls
  <2>5. Listens(d, t, w)' /\ Answers(d, t, w)' /\ dsid' = d /\ wire'[Device] = << >>
    BY <1>1, <1>4, <1>6, <2>3, <2>4 DEF Listens
  <2> QED BY <1>2, <1>4, <2>3, <2>4, <2>5 DEF Answering
<1>7. CASE ppc = "response" /\ LP!Receives(PC, Response(d, t), 0) /\ wire[PC] = w
  <2>1. LinkBy(PC) /\ UNCHANGED Managers /\ op[PC] = "receive"
    BY <1>7, PcBusy DEF LP!Receives
  <2>2. CASE w = << >>
    <3>1. <<LP!Fragment(Response(d, t), 1)>> # << >>
      OBVIOUS
    <3>2. op[Device] \notin {"wait", "receive"} /\ dpc \notin {"off", "done"}
      BY <1>2, <2>2, <3>1 DEF Answers, LP!Has, LP!Sends
    <3>3. Running(Device)
      BY <3>2 DEF Running
    <3> QED BY <1>0, <1>7, <2>1, <2>2, <3>2, <3>3, NodeStill
  <2>3. CASE w = <<LP!Fragment(Response(d, t), 1)>>
    <3>1. Carries(PC, LP!Fragment(Response(d, t), 1), << >>) /\ w # << >>
      BY <1>7, <2>3 DEF Carries, LP!HeadIs
    <3>2. /\ Response(d, t) \in SessionPacket /\ Fragments[Response(d, t)] = 1
          /\ 1 \in 1..Fragments[Response(d, t)] /\ ~(1 < 1) /\ 1 - 1 = 0
      BY Singles
    <3>3. /\ LP!Has(PC, Response(d, t))' /\ Bare' /\ LP!Others(PC)
          /\ wire'[PC] = << >> /\ wire'[Device] = Append(wire[Device], LP!Ack(Response(d, t), 1))
      BY <1>0, <1>7, <2>1, <3>1, <3>2, NodeTakes
    <3>4. Carries(Device, LP!Ack(Response(d, t), 1), << >>)'
      BY <1>0, <1>1, <3>2, <3>3, Appending DEF Carries, LP!HeadIs
    <3>5. /\ dpc = "answer" /\ LP!Waits(Device, Response(d, t), 1)
          /\ dstatus = t /\ (t = "ERROR" => PartOnly(d))
      BY <1>2, <3>1 DEF Answers
    <3>6. LP!Waits(Device, Response(d, t), 1)'
      BY <1>0, <3>3, <3>5, Keeps
    <3>7. Leaves(d, t)'
      BY <2>1, <3>3, <3>4, <3>5, <3>6 DEF Leaves, Managers, deviceVars
    <3>8. ppc' = "response" /\ dsid' = d /\ (t = "ERROR" => PartOnly(d)')
      BY <1>1, <1>3, <1>7, <2>1, <3>5 DEF Managers, deviceVars
    <3>9. Told(d)'
      BY <3>3, <3>7, <3>8 DEF Told
    <3> QED BY <2>1, <3>3, <3>9 DEF Managers, deviceVars
  <2> QED BY <2>2, <2>3
<1> QED BY <1>2, <1>5, <1>6, <1>7 DEF Listens

LEMMA ToldDevice ==
  ASSUME Typed, LP!LinkInv, AtRest, Bare, NEW d \in Dispatches, d = current, Told(d), DeviceMoves
  PROVE  Bare' /\ Told(d)' /\ UNCHANGED <<current, rebooted>>
<1>0. Device \in LP!Node /\ PC \in LP!Node /\ PC # Device
  BY TwoNodes
<1>1. ppc = "response" /\ dsid = d
  BY DEF Told
<1>2. PICK t \in {"OK", "ERROR"} :
        LP!Has(PC, Response(d, t)) /\ (t = "ERROR" => PartOnly(d)) /\ Leaves(d, t)
  BY DEF Told
<1>3. op[PC] = "idle" /\ Running(PC)
  BY <1>0, <1>1, <1>2 DEF LP!Has, Running
<1>4. ASSUME LP!Others(Device), UNCHANGED <<written, ppc, current, dsid>>, Leaves(d, t)'
      PROVE  Told(d)'
  <2>1. PartOnly(d) => PartOnly(d)'
    BY <1>4 DEF PartOnly, Applied
  <2>2. LP!Has(PC, Response(d, t))'
    BY <1>0, <1>2, <1>4, Keeps
  <2> QED BY <1>1, <1>2, <1>4, <2>1, <2>2 DEF Told
<1>5. CASE /\ dpc = "answer" /\ LP!Waits(Device, Response(d, t), 1)
           /\ Carries(Device, LP!Ack(Response(d, t), 1), << >>)
           /\ dstatus = t /\ wire[PC] = << >>
  <2>1. LinkBy(Device) /\ UNCHANGED Managers
    BY <1>5, DeviceBusy DEF LP!Waits
  <2>2. /\ Response(d, t) \in SessionPacket /\ Fragments[Response(d, t)] = 1
        /\ 1 \in 1..Fragments[Response(d, t)] /\ ~(1 < 1)
    BY Singles
  <2>3. /\ LP!Sent(Device)' /\ Bare' /\ LP!Others(Device)
        /\ wire'[Device] = << >> /\ wire'[PC] = wire[PC]
    BY <1>0, <1>5, <2>1, <2>2, NodeWaits
  <2>4. Leaves(d, t)'
    BY <1>5, <2>1, <2>3 DEF Leaves, Managers, deviceVars
  <2> QED BY <1>4, <2>1, <2>3, <2>4 DEF Managers, deviceVars
<1>6. CASE /\ dpc = "answer" /\ LP!Sent(Device) /\ wire[Device] = << >>
           /\ dstatus = t /\ wire[PC] = << >>
  <2>1. ~LinkBy(Device)
    BY <1>0, <1>6, LP!IdleStays, LinkAssumptions DEF LinkBy, LP!Progresses, LP!Sent
  <2>2. AnswerSent
    BY <1>6, <2>1 DEF DeviceMoves, DeviceStep, HelloSent, HelloFailed, Opened, KeepWaiting, OpenExpires,
       ServeWrite, ServeInvalid, ServeFails, ServeBye, AnswerFails, ByeEnds,
       ManagerSucceeds, Boot, NextUnit, LP!Sent
  <2>3. CASE CloseSession("reboot") /\ UNCHANGED written
    <3>1. /\ dpc' = "reboot" /\ Link!CallSend(Device, Pkt("DEVICE_BYE", d))
          /\ UNCHANGED <<dsid, rebooted, pcVars>>
      BY <1>1, <2>3 DEF CloseSession
    <3>2. Pkt("DEVICE_BYE", d) \in SessionPacket
      BY Singles
    <3>3. LP!Sends(Device, Pkt("DEVICE_BYE", d), 1)' /\ Bare' /\ LP!Others(Device) /\ wire' = wire
      BY <1>0, <3>1, <3>2, NodeCalls
    <3>4. Leaves(d, t)'
      BY <1>6, <3>1, <3>3 DEF Leaves
    <3> QED BY <1>4, <2>3, <3>1, <3>3, <3>4 DEF pcVars
  <2>4. CASE dpc' = "serve" /\ Link!CallReceive(Device) /\ UNCHANGED <<dsid, rebooted, written, pcVars>>
    <3>1. LP!Receives(Device, Hello, 0)' /\ Bare' /\ LP!Others(Device) /\ wire' = wire
      BY <1>0, <2>4, NodeCalls
    <3>2. op'[Device] = "receive"
      BY <3>1 DEF LP!Receives
    <3>3. Leaves(d, t)'
      BY <1>6, <2>4, <3>1, <3>2 DEF Leaves
    <3> QED BY <1>4, <2>4, <3>1, <3>3 DEF pcVars
  <2> QED BY <2>2, <2>3, <2>4 DEF AnswerSent
<1>7. CASE dpc = "reboot" /\ LP!Sends(Device, Pkt("DEVICE_BYE", d), 1) /\ wire[Device] = << >>
  <2>1. LinkBy(Device) /\ UNCHANGED Managers
    BY <1>7, DeviceBusy DEF LP!Sends
  <2>2. /\ LP!Waits(Device, Pkt("DEVICE_BYE", d), 1)' /\ Bare' /\ LP!Others(Device)
        /\ wire'[Device] = << >> /\ wire'[PC] = Append(wire[PC], LP!Fragment(Pkt("DEVICE_BYE", d), 1))
    BY <1>0, <1>7, <2>1, NodeSends
  <2>3. Pkt("DEVICE_BYE", d) \in SessionPacket /\ 1 \in 1..Fragments[Pkt("DEVICE_BYE", d)]
    BY Singles
  <2>4. wire'[PC] # << >>
    BY <1>0, <2>2, <2>3, Appending
  <2>5. Leaves(d, t)'
    BY <1>7, <2>1, <2>2, <2>4 DEF Leaves, Managers, deviceVars
  <2> QED BY <1>4, <2>1, <2>2, <2>5 DEF Managers, deviceVars
<1>8. CASE \/ dpc = "reboot" /\ LP!Waits(Device, Pkt("DEVICE_BYE", d), 1)
              /\ wire[Device] = << >> /\ wire[PC] # << >>
           \/ dpc = "serve" /\ op[Device] = "receive" /\ wire[Device] = << >>
  <2>1. op[Device] \in {"wait", "receive"} /\ op[Device] # "idle" /\ dpc \notin {"off", "done"}
    BY <1>8 DEF LP!Waits
  <2>2. LinkBy(Device)
    BY <2>1, DeviceBusy
  <2> QED BY <1>0, <1>3, <1>8, <2>1, <2>2, NodeStill
<1> QED BY <1>2, <1>5, <1>6, <1>7, <1>8 DEF Leaves

(* The PC has its verdict, and it is the device's.                         *)
LEMMA ToldPc ==
  ASSUME Typed, LP!LinkInv, AtRest, Bare, NEW d \in Dispatches, d = current, Told(d), PcMoves
  PROVE  Over(d)' /\ Settled(d)'
<1>0. Device \in LP!Node /\ PC \in LP!Node /\ PC # Device
  BY TwoNodes
<1>1. ppc = "response"
  BY DEF Told
<1>2. PICK t \in {"OK", "ERROR"} : LP!Has(PC, Response(d, t)) /\ (t = "ERROR" => PartOnly(d))
  BY DEF Told
<1>3. ~LinkBy(PC)
  BY <1>0, <1>2, LP!IdleStays, LinkAssumptions DEF LinkBy, LP!Progresses, LP!Has
<1>4. res[PC] = "received" /\ inbox[PC][1].pkt = Response(d, t)
  <2>1. inbox[PC] \in Seq([pkt : SessionPacket, idx : 1..RequestFrames])
    BY <1>0, IntactInbox DEF IntactInboxes
  <2> QED BY <1>2, <2>1 DEF LP!Has
<1>5. /\ ~Sessionless(Response(d, t)) /\ Response(d, t).sid = d
      /\ Response(d, t) # Pkt("DEVICE_BYE", d)
      /\ \A x \in {"OK", "ERROR"} : Response(d, t) = Response(d, x) => t = x
  BY DEF Sessionless, Response, Pkt
<1>6. ~GotStranger /\ ~GotDeviceBye /\ ~ExchangeFails
  BY <1>1, <1>4, <1>5 DEF GotStranger, GotDeviceBye, ExchangeFails, Got
<1>7. GotResponse
  BY <1>1, <1>3, <1>6 DEF PcMoves, PcStep, Dispatch, GotDeviceHello, NoDeviceHello, SendRequest,
     AwaitResponse, PcByeEnds
<1>8. CloseAfter(IF t = "OK" THEN "ok" ELSE "failed")
  BY <1>4, <1>5, <1>7 DEF GotResponse, Got
<1>9. /\ ppc' = "bye" /\ verdict' = IF t = "OK" THEN "ok" ELSE "failed"
      /\ current' = d /\ UNCHANGED deviceVars
  BY <1>8 DEF CloseAfter
<1>10. PartOnly(d) => PartOnly(d)'
  BY <1>9 DEF PartOnly, Applied, deviceVars
<1>11. Verdict(d)' = IF t = "OK" THEN "ok" ELSE "failed"
  BY <1>9 DEF Verdict
<1> QED BY <1>2, <1>9, <1>10, <1>11 DEF Over, Settled

-----------------------------------------------------------------------------
(***************************************************************************)
(* The steps of the station, disturbed or not.                             *)
(***************************************************************************)
Untouched(n) ==
  op'[n] = op[n] /\ res'[n] = res[n] /\ tx'[n] = tx[n] /\ pending'[n] = pending[n]

LEMMA CallsUntouched ==
  ASSUME LP!LinkInv, NEW e \in LP!Node, NEW n \in LP!Node, n # e
  PROVE  /\ Link!CallReceive(e) \/ Leave(e) => Untouched(n)
         /\ \A p : Link!CallSend(e, p) => Untouched(n)
<1>1. Link!CallReceive(e) => Untouched(n)
  BY SameActions, LP!PeerUntouched, LinkAssumptions DEF Untouched
<1>2. ASSUME NEW p, Link!CallSend(e, p)
      PROVE  Untouched(n)
  BY <1>2, SameActions, LP!PeerUntouched, LinkAssumptions DEF Untouched
<1>3. ASSUME Leave(e)
      PROVE  Untouched(n)
  BY <1>3 DEF Leave, Untouched, LP!LinkInv, LP!TypeOK
<1> QED BY <1>1, <1>2, <1>3

LEMMA DeviceLeavesPc ==
  ASSUME LP!LinkInv, DeviceStep \/ Boot \/ NextUnit
  PROVE  Untouched(PC) /\ UNCHANGED pcVars
<1>0. /\ Link!CallReceive(Device) \/ Leave(Device) => Untouched(PC)
      /\ \A p : Link!CallSend(Device, p) => Untouched(PC)
  BY TwoNodes, CallsUntouched
<1>1. CASE HelloSent \/ HelloFailed \/ Opened \/ KeepWaiting \/ OpenExpires
  BY <1>0, <1>1 DEF HelloSent, HelloFailed, Opened, KeepWaiting, OpenExpires, DeviceStops
<1>2. CASE ServeWrite \/ ServeInvalid \/ ServeFails \/ ServeBye
  BY <1>0, <1>2 DEF ServeWrite, ServeInvalid, ServeFails, ServeBye, Answer, CloseSession, DeviceStops
<1>3. CASE AnswerSent \/ AnswerFails \/ ByeEnds \/ ManagerSucceeds \/ Boot
  BY <1>0, <1>3 DEF AnswerSent, AnswerFails, ByeEnds, ManagerSucceeds, Boot, CloseSession, DeviceStops
<1>4. CASE NextUnit
  BY <1>4 DEF NextUnit, Untouched
<1> QED BY <1>1, <1>2, <1>3, <1>4 DEF DeviceStep

LEMMA PcLeavesDevice ==
  ASSUME LP!LinkInv, PcStep \/ Dispatch
  PROVE  Untouched(Device) /\ UNCHANGED deviceVars
<1>0. /\ Link!CallReceive(PC) \/ Leave(PC) => Untouched(Device)
      /\ \A p : Link!CallSend(PC, p) => Untouched(Device)
  BY TwoNodes, CallsUntouched
<1>1. CASE GotDeviceHello \/ NoDeviceHello \/ SendRequest \/ AwaitResponse \/ Dispatch
  BY <1>0, <1>1 DEF GotDeviceHello, NoDeviceHello, SendRequest, AwaitResponse, Dispatch, DispatchEnds
<1>2. CASE ExchangeFails \/ GotResponse \/ GotStranger \/ GotDeviceBye \/ PcByeEnds
  BY <1>0, <1>2 DEF ExchangeFails, GotResponse, GotStranger, GotDeviceBye, PcByeEnds, DispatchEnds, CloseAfter
<1> QED BY <1>1, <1>2 DEF PcStep

LEMMA LinkLeaves ==
  ASSUME LP!LinkInv, LinkStep
  PROVE  /\ UNCHANGED Managers
         /\ \/ UNCHANGED <<op, res, tx, pending>>
            \/ \E e \in LP!Node : LP!Send(e) \/ LP!Receive(e) \/ LP!Timeout(e)
<1>1. UNCHANGED Managers
  BY DEF LinkStep, Managers
<1>2. Link!Fault => UNCHANGED <<op, res, tx, pending>>
  BY DEF Link!Fault, Link!Lose, Link!Damage
<1>3. ASSUME NEW e \in {Device, PC}, Link!Send(e) \/ Link!Receive(e) \/ Link!Timeout(e)
      PROVE  \E x \in LP!Node : LP!Send(x) \/ LP!Receive(x) \/ LP!Timeout(x)
  BY <1>3, SameActions, TwoNodes
<1> QED BY <1>1, <1>2, <1>3 DEF LinkStep

LEMMA NextMoves ==
  Next => LinkStep \/ (DeviceStep \/ Boot \/ NextUnit) \/ (PcStep \/ Dispatch)
BY DEF Next, Operator

LEMMA AtRestStep ==
  ASSUME Typed, LP!LinkInv, AtRest, Next
  PROVE  AtRest'
<1>0. Device \in LP!Node /\ PC \in LP!Node /\ PC # Device /\ LP!Node = {Device, PC}
  BY TwoNodes
<1>1. CASE LinkStep
  <2>1. UNCHANGED Managers
    BY <1>1, LinkLeaves
  <2>2. CASE UNCHANGED <<op, res, tx, pending>>
    BY <2>1, <2>2 DEF AtRest, Managers, deviceVars
  <2>3. CASE LP!Send(Device) \/ LP!Receive(Device) \/ LP!Timeout(Device)
    <3>1. op[Device] # "idle"
      BY <1>0, <2>3, LP!IdleStays, LinkAssumptions
    <3>2. Untouched(PC)
      BY <1>0, <2>3, LP!PeerUntouched, LinkAssumptions DEF Untouched
    <3>3. CASE dpc = "hello"
      <4>1. op[Device] \in {"send", "wait"} /\ tx[Device].pkt = Hello /\ tx[Device].idx = 1
        BY <3>1, <3>3 DEF AtRest
      <4>2. Fragments[Hello] = 1
        <5>1. Hello \in SessionPacket /\ Hello.kind # "REQUEST"
          BY Packets DEF Hello, Pkt
        <5> QED BY <5>1, Packets
      <4>3. \/ op'[Device] = "idle"
            \/ op'[Device] \in {"send", "wait"} /\ tx'[Device].pkt = Hello /\ tx'[Device].idx = 1
        BY <1>0, <2>3, <4>1, <4>2, LP!SingleSends, LinkAssumptions
      <4> QED BY <2>1, <3>2, <3>3, <4>3 DEF AtRest, Untouched, Managers, deviceVars
    <3>4. CASE dpc # "hello"
      BY <2>1, <3>1, <3>2, <3>4 DEF AtRest, Untouched, Managers, deviceVars
    <3> QED BY <3>3, <3>4
  <2>4. CASE LP!Send(PC) \/ LP!Receive(PC) \/ LP!Timeout(PC)
    <3>1. op[PC] # "idle"
      BY <1>0, <2>4, LP!IdleStays, LinkAssumptions
    <3>2. Untouched(Device)
      BY <1>0, <2>4, LP!PeerUntouched, LinkAssumptions DEF Untouched
    <3> QED BY <2>1, <3>1, <3>2 DEF AtRest, Untouched, Managers, deviceVars
  <2> QED BY <1>0, <1>1, <2>2, <2>3, <2>4, LinkLeaves
<1>2. CASE DeviceStep \/ Boot \/ NextUnit
  <2>1. Untouched(PC) /\ UNCHANGED pcVars
    BY <1>2, DeviceLeavesPc
  <2>2. op = [x \in LP!Node |-> op[x]] /\ tx = [x \in LP!Node |-> tx[x]] /\ pending = [x \in LP!Node |-> pending[x]]
    BY DEF LP!LinkInv, LP!TypeOK
  <2>3. dpc' \in {"off", "done"} => op'[Device] = "idle" /\ pending'[Device] = LP!NoFrame
    <3>1. CASE DeviceStops /\ DeviceIdle
      BY <1>0, <2>2, <3>1, SameLink DEF DeviceStops, Leave, DeviceIdle
    <3>2. CASE ManagerSucceeds
      BY <1>0, <2>2, <3>2, SameLink DEF ManagerSucceeds, Leave, DeviceIdle
    <3>3. CASE NextUnit
      BY <3>3 DEF NextUnit, AtRest
    <3> QED BY <1>2, <3>1, <3>2, <3>3 DEF DeviceStep, HelloSent, HelloFailed, Opened, KeepWaiting,
           OpenExpires, ServeWrite, ServeInvalid, ServeFails, ServeBye, AnswerSent, AnswerFails,
           ByeEnds, Boot, Answer, CloseSession, deviceVars
  <2>4. dpc' = "hello" => op'[Device] = "send" /\ tx'[Device].pkt = Hello /\ tx'[Device].idx = 1
    <3>1. CASE Boot
      <4>1. LP!CallSend(Device, Hello)
        BY <3>1, SameActions DEF Boot, Hello
      <4> QED BY <1>0, <2>2, <4>1 DEF LP!CallSend
    <3>2. CASE ~Boot
      BY <1>2, <3>2 DEF DeviceStep, HelloSent, HelloFailed, Opened, KeepWaiting, ManagerSucceeds,
         OpenExpires, ServeWrite, ServeInvalid, ServeFails, ServeBye, AnswerSent, AnswerFails,
         ByeEnds, Boot, NextUnit, Answer, CloseSession, DeviceStops, deviceVars
    <3> QED BY <3>1, <3>2
  <2> QED BY <2>1, <2>3, <2>4 DEF AtRest, Untouched, pcVars
<1>3. CASE PcStep \/ Dispatch
  <2>1. Untouched(Device) /\ UNCHANGED deviceVars
    BY <1>3, PcLeavesDevice
  <2>2. op = [x \in LP!Node |-> op[x]] /\ pending = [x \in LP!Node |-> pending[x]]
    BY DEF LP!LinkInv, LP!TypeOK
  <2>3. ppc' = "off" => op'[PC] = "idle" /\ pending'[PC] = LP!NoFrame
    <3>1. ASSUME NEW v, DispatchEnds(v), PcIdle
          PROVE  op'[PC] = "idle" /\ pending'[PC] = LP!NoFrame
      BY <1>0, <2>2, <3>1, SameLink DEF DispatchEnds, Leave, PcIdle
    <3> QED BY <1>3, <3>1 DEF PcStep, GotDeviceHello, NoDeviceHello, SendRequest, AwaitResponse,
           ExchangeFails, GotResponse, GotStranger, GotDeviceBye, PcByeEnds, CloseAfter, Dispatch
  <2> QED BY <2>1, <2>3 DEF AtRest, Untouched, deviceVars
<1> QED BY <1>1, <1>2, <1>3, NextMoves

(* What a step of the PC does to its reports.                              *)
LEMMA PcReports ==
  ASSUME Typed, PcStep
  PROVE  /\ UNCHANGED <<current, calm>> /\ ppc # "off"
         /\ \/ UNCHANGED result /\ ppc' # "off" /\ ppc # "bye"
            \/ \E v \in {"failed", verdict} :
                 /\ ppc' = "off" /\ v = IF ppc = "bye" THEN verdict ELSE "failed"
                 /\ result' = [result EXCEPT ![current] = v]
         /\ ppc' = "bye" => verdict' \in {"ok", "failed"}
<1>1. CASE GotDeviceHello \/ SendRequest \/ AwaitResponse \/ GotStranger \/ GotResponse
  BY <1>1 DEF GotDeviceHello, SendRequest, AwaitResponse, GotStranger, GotResponse, CloseAfter
<1>2. CASE NoDeviceHello \/ ExchangeFails \/ GotDeviceBye \/ PcByeEnds
  BY <1>2 DEF NoDeviceHello, ExchangeFails, GotDeviceBye, PcByeEnds, DispatchEnds
<1> QED BY <1>1, <1>2 DEF PcStep

LEMMA CalmAfter ==
  ASSUME Next
  PROVE  \/ calm' \subseteq calm
         \/ Dispatch /\ Fresh /\ calm' = calm \cup {current'}
<1>1. CASE LinkStep
  BY <1>1 DEF LinkStep, Undisturbed
<1>2. CASE DeviceStep \/ Boot \/ NextUnit
  BY <1>2 DEF DeviceStep, HelloSent, HelloFailed, Opened, KeepWaiting, OpenExpires, ServeWrite,
     ServeInvalid, ServeFails, ServeBye, AnswerSent, AnswerFails, ByeEnds, ManagerSucceeds, Boot,
     NextUnit, Answer, CloseSession, DeviceStops, pcVars
<1>3. CASE PcStep
  BY <1>3 DEF PcStep, GotDeviceHello, NoDeviceHello, SendRequest, AwaitResponse, ExchangeFails,
     GotResponse, GotStranger, GotDeviceBye, PcByeEnds, CloseAfter, DispatchEnds
<1>4. CASE Dispatch
  BY <1>4 DEF Dispatch
<1> QED BY <1>1, <1>2, <1>3, <1>4, NextMoves

LEMMA ReportsStep ==
  ASSUME Typed, LP!LinkInv, Reports, Next
  PROVE  Reports'
<1>0. current \in Int /\ \A d \in Dispatches : d \in Int
  BY Requests
<1>1. CASE UNCHANGED <<ppc, current, result>> /\ calm' \subseteq calm
  BY <1>1 DEF Reports
<1>2. CASE PcStep
  <2>1. PcStep /\ UNCHANGED <<current, calm>> /\ ppc # "off"
    BY <1>2, PcReports
  <2>2. CASE UNCHANGED result
    BY <2>1, <2>2 DEF Reports
  <2>3. CASE ppc' = "off" /\ \E v : result' = [result EXCEPT ![current] = v]
    <3>1. \A d \in Dispatches : d > current => result'[d] = result[d]
      BY <1>0, <2>3 DEF Typed
    <3> QED BY <2>1, <2>3, <3>1 DEF Reports
  <2> QED BY <1>2, <2>2, <2>3, PcReports
<1>3. CASE Dispatch
  <2>1. /\ current' = current + 1 /\ ppc' = "hello" /\ result' = result
        /\ calm' \subseteq calm \cup {current + 1}
    BY <1>3 DEF Dispatch
  <2>2. \A d \in calm : d \in Int
    BY <1>0 DEF Typed
  <2> QED BY <1>0, <2>1, <2>2 DEF Reports
<1>4. CASE LinkStep \/ DeviceStep \/ Boot \/ NextUnit
  <2>1. UNCHANGED <<ppc, current, result>>
    BY <1>4, DeviceLeavesPc DEF LinkStep, pcVars
  <2>2. ~Dispatch
    <3>1. CASE LinkStep
      BY <1>0, <3>1 DEF LinkStep, Dispatch
    <3>2. CASE DeviceStep \/ Boot \/ NextUnit
      <4>1. UNCHANGED current
        BY <3>2, DeviceLeavesPc DEF pcVars
      <4> QED BY <1>0, <4>1 DEF Dispatch
    <3> QED BY <1>4, <3>1, <3>2
  <2> QED BY <1>1, <2>1, <2>2, CalmAfter
<1> QED BY <1>2, <1>3, <1>4, NextMoves

LEMMA DecidedStep ==
  ASSUME Typed, LP!LinkInv, Decided, Next
  PROVE  Decided'
<1>1. CASE PcStep
  <2>1. result \in [Dispatches -> {"none", "ok", "failed"}]
    BY DEF Typed
  <2>2. /\ current' = current /\ ppc # "off"
        /\ \/ ppc' # "off"
           \/ \E v \in {"failed", verdict} :
                /\ v = IF ppc = "bye" THEN verdict ELSE "failed"
                /\ result' = [result EXCEPT ![current] = v]
        /\ ppc' = "bye" => verdict' \in {"ok", "failed"}
    BY <1>1, PcReports
  <2> QED BY <2>1, <2>2 DEF Decided
<1>2. CASE Dispatch
  BY <1>2 DEF Dispatch, Decided
<1>3. CASE LinkStep \/ DeviceStep \/ Boot \/ NextUnit
  <2>1. UNCHANGED <<ppc, current, verdict, result>>
    BY <1>3, DeviceLeavesPc DEF LinkStep, pcVars
  <2> QED BY <2>1 DEF Decided
<1> QED BY <1>1, <1>2, <1>3, NextMoves

(* A request that was never sent is not applied, and what was applied in   *)
(* part stays so.                                                          *)
LEMMA UnappliedStep ==
  ASSUME Typed, Stream, Next, NEW d \in Dispatches, Unapplied(d), d # current \/ ~SendRequest
  PROVE  Unapplied(d)'
<1>0. LP!LinkInv /\ Request(d) \in SessionPacket
  BY Requests DEF Stream, InOrder
<1>1. ASSUME NEW P \in SUBSET SessionPacket, Use(P), Request(d) \notin P, UNCHANGED written
      PROVE  Unapplied(d)'
  <2>1. LP!Absent(Request(d))'
    BY <1>0, <1>1, UseAbsent DEF Unapplied
  <2> QED BY <1>1, <2>1 DEF Unapplied, Applied
<1>2. CASE LinkStep
  <2>1. LP!Works /\ UNCHANGED written
    BY <1>2, SameLink DEF LinkStep, deviceVars
  <2>2. LP!Absent(Request(d))'
    BY <1>0, <2>1, LP!WorkAbsent, LinkAssumptions DEF Unapplied
  <2> QED BY <2>1, <2>2 DEF Unapplied, Applied
<1>3. Plain \in SUBSET SessionPacket /\ Request(d) \notin Plain
  BY Packets DEF Plain, Small
<1>4. CASE DeviceQuiet
  BY <1>1, <1>3, <1>4, DeviceUses
<1>5. CASE PcQuiet
  BY <1>1, <1>3, <1>5, PcUses DEF deviceVars
<1>6. CASE SendRequest
  <2>1. PICK c \in Dispatches : c = current
    BY <1>6 DEF Typed, SendRequest
  <2>2. Link!CallSend(PC, Request(c)) /\ UNCHANGED written
    BY <1>6, <2>1 DEF SendRequest, Request, deviceVars
  <2>3. {Request(c)} \in SUBSET SessionPacket /\ Request(d) \notin {Request(c)}
    BY <1>6, <2>1, Requests
  <2>4. Use({Request(c)})
    BY <2>2, Uses
  <2> QED BY <1>1, <2>2, <2>3, <2>4
<1>7. CASE ServeWrite
  <2>1. PICK x \in Dispatches, status \in {"OK", "ERROR"}, r \in Write :
           /\ Got(Device, Request(x)) /\ r.data = x
           /\ written' = Append(written, r)
           /\ LP!CallSend(Device, Response(x, status))
    BY <1>7, WriteAppends
  <2>2. {Response(x, status)} \in SUBSET SessionPacket /\ Request(d) \notin {Response(x, status)}
    <3>1. Response(x, status) \in SessionPacket
      BY <2>1, Packets
    <3>2. Request(d).kind = "REQUEST" /\ Response(x, status).kind = "RESPONSE"
      BY DEF Request, Response, Pkt
    <3>3. Request(d) # Response(x, status)
      BY <3>2
    <3> QED BY <3>1, <3>3
  <2>3. Use({Response(x, status)})
    BY <2>1 DEF Use
  <2>4. LP!Absent(Request(d))'
    BY <1>0, <2>2, <2>3, UseAbsent DEF Unapplied
  <2>5. x # d
    <3>1. /\ inbox[Device] \in Seq([pkt : SessionPacket, idx : 1..RequestFrames])
          /\ inbox[Device] # << >>
      BY <1>0, <2>1, IntactInbox DEF Got, IntactInboxes
    <3>2. 1 \in 1..Len(inbox[Device])
      BY <3>1
    <3>3. inbox[Device][1].pkt # Request(d)
      BY <3>2, TwoNodes DEF Unapplied, LP!Absent
    <3> QED BY <2>1, <3>3 DEF Got
  <2>6. ~Applied(d)'
    BY <2>1, <2>5, Appended DEF Unapplied, Applied, Typed
  <2> QED BY <2>4, <2>6 DEF Unapplied
<1> QED BY <1>2, <1>4, <1>5, <1>6, <1>7, StepCases

LEMMA PartOnlyStep ==
  ASSUME Typed, Stream, Next, NEW d \in Dispatches, PartOnly(d)
  PROVE  PartOnly(d)'
<1>1. CASE ServeWrite
  <2>1. PICK x \in Dispatches, r \in Write :
           Got(Device, Request(x)) /\ r.data = x /\ written' = Append(written, r)
    BY <1>1, WriteAppends
  <2>2. x # d
    BY <2>1, ReceivedRequest DEF PartOnly
  <2>3. written \in Seq(Write)
    BY DEF Typed
  <2> QED BY <2>1, <2>2, <2>3, Appended DEF PartOnly, Applied
<1>2. CASE ~ServeWrite
  <2>1. UNCHANGED written
    BY <1>2, StepCases, DeviceUses, PcUses DEF LinkStep, SendRequest, deviceVars
  <2> QED BY <2>1 DEF PartOnly, Applied
<1> QED BY <1>1, <1>2

(* A verdict stays, whatever the other dispatches and the UART do.         *)
LEMMA SettledStep ==
  ASSUME Typed, Stream, Reports, Next, NEW d \in Dispatches, d \in calm, Over(d), Settled(d)
  PROVE  Over(d)' /\ Settled(d)'
<1>0. current \in Int /\ d \in Int /\ d <= current /\ LP!LinkInv
  BY Requests DEF Reports, Stream, InOrder
<1>1. d # current \/ ~SendRequest
  BY DEF Over, SendRequest
<1>2. Over(d)' /\ Verdict(d)' = Verdict(d)
  <2>1. CASE UNCHANGED <<ppc, current, verdict, result>>
    BY <2>1 DEF Over, Verdict
  <2>2. CASE Dispatch
    <3>1. current' = current + 1 /\ ppc = "off" /\ ppc' = "hello" /\ result' = result
      BY <2>2 DEF Dispatch
    <3> QED BY <1>0, <3>1 DEF Over, Verdict
  <2>3. CASE PcStep
    <3>1. current' = current /\ ppc # "off"
      BY <2>3, PcReports
    <3>2. CASE UNCHANGED result /\ ppc # "bye"
      BY <3>1, <3>2 DEF Over, Verdict
    <3>3. CASE \E v \in {"failed", verdict} :
                 /\ ppc' = "off" /\ v = IF ppc = "bye" THEN verdict ELSE "failed"
                 /\ result' = [result EXCEPT ![current] = v]
      <4>1. result \in [Dispatches -> {"none", "ok", "failed"}]
        BY DEF Typed
      <4>2. CASE d = current
        BY <3>1, <3>3, <4>1, <4>2 DEF Over, Verdict
      <4>3. CASE d # current
        BY <3>1, <3>3, <4>1, <4>3 DEF Over, Verdict
      <4> QED BY <4>2, <4>3
    <3> QED BY <2>3, <3>2, <3>3, PcReports
  <2>4. CASE LinkStep \/ DeviceStep \/ Boot \/ NextUnit
    BY <1>0, <2>1, <2>4, DeviceLeavesPc DEF LinkStep, pcVars
  <2> QED BY <2>2, <2>3, <2>4, NextMoves
<1>3. PartOnly(d) => PartOnly(d)'
  BY PartOnlyStep
<1>4. Unapplied(d) => Unapplied(d)'
  BY <1>1, UnappliedStep
<1> QED BY <1>2, <1>3, <1>4 DEF Settled

-----------------------------------------------------------------------------
(***************************************************************************)
(* The dispatches that nothing disturbs, step by step.                     *)
(***************************************************************************)
LEMMA ExchangeRuns ==
  ASSUME NEW d, Exchange(d)
  PROVE  ppc \in {"hello", "open", "request", "response"}
BY DEF Exchange, Awaiting, Greeting, Greets, Joining, Joined, Moving, Answering, Listens, Told

LEMMA LockstepStep ==
  ASSUME Typed, Stream, AtRest, Next, NEW d \in Dispatches, d = current, d \in calm', Together(d)
  PROVE  IF Over(d)' THEN Settled(d)' ELSE Lockstep(d)'
<1>0. LP!LinkInv /\ Bare /\ Exchange(d) /\ \A u \in Units : <<u, d>> \notin rebooted
  BY DEF Together, Stream, InOrder
<1>1. DeviceMoves \/ PcMoves
  BY <1>0, CalmMoves, ExchangeRuns
<1>2. SUFFICES ASSUME ~(Over(d)' /\ Settled(d)')
               PROVE  ~Over(d)' /\ Lockstep(d)'
  OBVIOUS
<1>3. ASSUME Bare', Exchange(d)', UNCHANGED <<current, rebooted>>
      PROVE  ~Over(d)' /\ Lockstep(d)'
  <2>1. ppc' \in {"hello", "open", "request", "response"}
    BY <1>3 DEF Exchange, Awaiting, Greeting, Greets, Joining, Joined, Moving, Answering, Listens, Told
  <2>2. Together(d)'
    BY <1>0, <1>3 DEF Together
  <2> QED BY <1>3, <2>1, <2>2 DEF Over, Lockstep
<1>4. CASE Awaiting
  <2>1. CASE DeviceMoves
    BY <1>0, <1>3, <1>4, <2>1, AwaitingDevice DEF Exchange
  <2>2. CASE PcMoves
    <3>1. UNCHANGED <<current, rebooted>> /\ ((Bare' /\ Greeting(d)') \/ Doomed')
      BY <1>0, <1>4, <2>2, AwaitingPc
    <3>2. CASE Doomed'
      BY <3>1, <3>2 DEF Doomed, Lockstep, Over
    <3> QED BY <1>3, <3>1, <3>2 DEF Exchange
  <2> QED BY <1>1, <2>1, <2>2
<1>5. CASE Greeting(d)
  <2>1. CASE DeviceMoves
    BY <1>0, <1>3, <1>5, <2>1, GreetingDevice DEF Exchange
  <2>2. CASE PcMoves
    BY <1>0, <1>3, <1>5, <2>2, GreetingPc DEF Exchange
  <2> QED BY <1>1, <2>1, <2>2
<1>6. CASE Joining(d)
  <2>1. CASE DeviceMoves
    BY <1>0, <1>3, <1>6, <2>1, JoiningDevice DEF Exchange
  <2>2. CASE PcMoves
    BY <1>0, <1>3, <1>6, <2>2, JoiningPc DEF Exchange
  <2> QED BY <1>1, <2>1, <2>2
<1>7. CASE Moving(d)
  <2>1. CASE DeviceMoves
    BY <1>0, <1>3, <1>7, <2>1, MovingDevice DEF Exchange
  <2>2. CASE PcMoves
    BY <1>0, <1>3, <1>7, <2>2, MovingPc DEF Exchange
  <2> QED BY <1>1, <2>1, <2>2
<1>8. CASE Answering(d)
  <2>1. CASE DeviceMoves
    BY <1>0, <1>3, <1>8, <2>1, AnsweringDevice DEF Exchange
  <2>2. CASE PcMoves
    BY <1>0, <1>3, <1>8, <2>2, AnsweringPc DEF Exchange
  <2> QED BY <1>1, <2>1, <2>2
<1>9. CASE Told(d)
  <2>1. CASE DeviceMoves
    BY <1>0, <1>3, <1>9, <2>1, ToldDevice DEF Exchange
  <2>2. CASE PcMoves
    BY <1>0, <1>2, <1>9, <2>2, ToldPc
  <2> QED BY <1>1, <2>1, <2>2
<1> QED BY <1>0, <1>4, <1>5, <1>6, <1>7, <1>8, <1>9 DEF Exchange

(* Without DEVICE_HELLO the dispatch fails, and has sent nothing.          *)
LEMMA DoomedStep ==
  ASSUME Typed, Stream, Next, NEW d \in Dispatches, d = current, Doomed
  PROVE  IF Over(d)' THEN Settled(d)' ELSE Lockstep(d)'
<1>0. LP!LinkInv /\ Device \in LP!Node /\ PC \in LP!Node /\ PC # Device /\ LP!Node = {Device, PC}
  BY TwoNodes DEF Stream, InOrder
<1>1. ppc = "hello" /\ op[PC] = "idle" /\ res[PC] # "received" /\ d \in Int
  BY Requests DEF Doomed
<1>2. ASSUME UNCHANGED <<ppc, current, op[PC], res[PC]>>
      PROVE  ~Over(d)' /\ Lockstep(d)'
  BY <1>1, <1>2 DEF Over, Lockstep, Doomed
<1>3. CASE LinkStep
  <2>1. UNCHANGED <<ppc, current>>
    BY <1>0, <1>3, LinkLeaves DEF Managers
  <2>2. CASE UNCHANGED <<op, res, tx, pending>>
    BY <1>2, <2>1, <2>2
  <2>3. CASE \E e \in LP!Node : LP!Send(e) \/ LP!Receive(e) \/ LP!Timeout(e)
    <3>1. PICK e \in LP!Node : LP!Send(e) \/ LP!Receive(e) \/ LP!Timeout(e)
      BY <2>3
    <3>2. e # PC
      BY <1>1, <3>1, LP!IdleStays, LinkAssumptions
    <3>3. op'[PC] = op[PC] /\ res'[PC] = res[PC]
      BY <1>0, <3>1, <3>2, LP!PeerUntouched, LinkAssumptions
    <3> QED BY <1>2, <2>1, <3>3
  <2> QED BY <1>0, <1>3, <2>2, <2>3, LinkLeaves
<1>4. CASE DeviceStep \/ Boot \/ NextUnit
  BY <1>0, <1>2, <1>4, DeviceLeavesPc DEF Untouched, pcVars
<1>5. CASE PcStep \/ Dispatch
  <2>1. NoDeviceHello
    BY <1>1, <1>5 DEF PcStep, GotDeviceHello, SendRequest, AwaitResponse, ExchangeFails, GotResponse,
       GotStranger, GotDeviceBye, PcByeEnds, Dispatch, Got
  <2>2. ppc' = "off" /\ current' = current /\ result' = [result EXCEPT ![current] = "failed"]
    BY <2>1 DEF NoDeviceHello, DispatchEnds
  <2>3. result \in [Dispatches -> {"none", "ok", "failed"}]
    BY DEF Typed
  <2>4. Over(d)' /\ Verdict(d)' = "failed"
    BY <2>2, <2>3 DEF Over, Verdict
  <2>5. Unapplied(d)
    BY <1>1 DEF Stream, Known, Requested, Unapplied
  <2>6. ~SendRequest
    BY <1>1 DEF SendRequest
  <2>7. Unapplied(d)'
    BY <2>5, <2>6, UnappliedStep
  <2> QED BY <2>4, <2>7 DEF Settled
<1> QED BY <1>3, <1>4, <1>5, NextMoves

(* A dispatch that finds nothing on the UART.                              *)
LEMMA FreshStep ==
  ASSUME Typed, Stream, RebootMeansWritten, AtRest, Dispatch, Fresh,
         NEW d \in Dispatches, d = current + 1
  PROVE  ~Over(d)' /\ Lockstep(d)'
<1>0. LP!LinkInv /\ Device \in LP!Node /\ PC \in LP!Node /\ PC # Device
  BY TwoNodes DEF Stream, InOrder
<1>1. /\ ppc = "off" /\ current' = d /\ ppc' = "hello" /\ Link!CallReceive(PC)
      /\ UNCHANGED deviceVars
  BY DEF Dispatch
<1>2. pending[PC] = LP!NoFrame
  BY <1>1 DEF AtRest
<1>3. wire[Device] = << >>
  BY DEF Fresh
<1>4. \A u \in Units : <<u, d>> \notin rebooted
  <2>1. current \in Int /\ ~Applied(d)
    BY <1>1, Requests DEF Stream, Known, Requested
  <2> QED BY <2>1 DEF RebootMeansWritten, Applied
<1>5. ASSUME Bare,
             \/ dpc \in {"off", "done"} /\ wire[PC] = << >>
             \/ dpc = "hello" /\ LP!Waits(Device, Hello, 1) /\ Carries(PC, LP!Fragment(Hello, 1), << >>)
      PROVE  ~Over(d)' /\ Lockstep(d)'
  <2>1. LP!Receives(PC, Hello, 0)' /\ Bare' /\ LP!Others(PC) /\ wire' = wire
    BY <1>0, <1>1, <1>5, NodeCalls
  <2>2. LP!Waits(Device, Hello, 1) => LP!Waits(Device, Hello, 1)'
    BY <1>0, <2>1, Keeps
  <2>3. Carries(PC, LP!Fragment(Hello, 1), << >>) => Carries(PC, LP!Fragment(Hello, 1), << >>)'
    BY <2>1 DEF Carries, LP!HeadIs
  <2>4. Awaiting'
    BY <1>1, <1>3, <1>5, <2>1, <2>2, <2>3 DEF Awaiting, deviceVars
  <2>5. Together(d)'
    BY <1>1, <1>4, <2>1, <2>4 DEF Together, Exchange, deviceVars
  <2> QED BY <1>1, <2>5 DEF Lockstep, Over
<1>6. CASE dpc \in {"off", "done"} /\ wire[PC] = << >>
  BY <1>2, <1>5, <1>6 DEF AtRest, Bare
<1>7. CASE /\ dpc = "hello" /\ op[Device] = "wait" /\ pending[Device] = Link!NoFrame
           /\ wire[PC] = <<Link!Fragment(Pkt("DEVICE_HELLO", 0), 1)>>
  <2>1. Bare
    BY <1>2, <1>7, SameLink DEF Bare
  <2>2. LP!Waits(Device, Hello, 1)
    BY <1>7 DEF AtRest, LP!Waits
  <2>3. PICK f : f = LP!Fragment(Hello, 1)
    OBVIOUS
  <2>4. wire[PC] = <<f>>
    BY <1>7, <2>3 DEF Hello, Link!Fragment, LP!Fragment, Link!SINGLE_SEQ, LP!SINGLE_SEQ,
       Link!DataType, LP!DataType
  <2>5. <<f>> # << >> /\ Head(<<f>>) = f /\ Tail(<<f>>) = << >>
    OBVIOUS
  <2>6. Carries(PC, f, << >>)
    BY <2>4, <2>5 DEF Carries, LP!HeadIs
  <2> QED BY <1>5, <1>7, <2>1, <2>2, <2>3, <2>6
<1> QED BY <1>6, <1>7 DEF Fresh

LEMMA AgreedStep ==
  ASSUME SessionInv, CalmInv, Next, Typed'
  PROVE  Agreed'
<1>0. Typed /\ Stream /\ RebootMeansWritten /\ AtRest /\ Reports /\ Agreed
  BY DEF SessionInv, CalmInv
<1>1. SUFFICES ASSUME NEW d \in calm'
               PROVE  IF Over(d)' THEN Settled(d)' ELSE Lockstep(d)'
  BY DEF Agreed
<1>2. d \in Dispatches
  BY DEF Typed
<1>3. CASE d \in calm /\ Over(d)
  BY <1>0, <1>2, <1>3, SettledStep DEF Agreed
<1>4. CASE d \in calm /\ ~Over(d)
  <2>1. d = current /\ Lockstep(d)
    BY <1>0, <1>4 DEF Over, Agreed
  <2>2. CASE Doomed
    BY <1>0, <1>2, <2>1, <2>2, DoomedStep
  <2>3. CASE Together(d)
    BY <1>0, <1>2, <2>1, <2>3, LockstepStep
  <2> QED BY <2>1, <2>2, <2>3 DEF Lockstep
<1>5. CASE d \notin calm
  <2>1. Dispatch /\ Fresh /\ d = current + 1
    BY <1>5, CalmAfter DEF Dispatch
  <2> QED BY <1>0, <1>2, <2>1, FreshStep
<1> QED BY <1>3, <1>4, <1>5

LEMMA InitCalm == Init => CalmInv
<1> SUFFICES ASSUME Init PROVE CalmInv
  OBVIOUS
<1>1. ppc = "off" /\ dpc = "off" /\ calm = {} /\ result = [d \in Dispatches |-> "none"]
  BY DEF Init
<1>2. op = [n \in LP!Node |-> "idle"] /\ pending = [n \in LP!Node |-> LP!NoFrame]
  BY SameLink DEF Init, LP!Init
<1>3. AtRest
  BY <1>1, <1>2, TwoNodes DEF AtRest
<1>4. Reports /\ Agreed
  BY <1>1 DEF Reports, Agreed
<1>5. Decided
  <2>1. current = 0 /\ 0 \notin Dispatches
    BY SessionAssumption DEF Init, Dispatches
  <2> QED BY <1>1, <2>1 DEF Decided
<1> QED BY <1>3, <1>4, <1>5 DEF CalmInv

LEMMA StutterCalm == CalmInv /\ UNCHANGED vars => CalmInv'
<1> SUFFICES ASSUME CalmInv, UNCHANGED vars PROVE CalmInv'
  OBVIOUS
<1>0. /\ UNCHANGED <<op, tx, buf, asm, pending, wire, res, inbox, faults>>
      /\ UNCHANGED <<dpc, dsid, dstatus, unit, boots, written, rebooted>>
      /\ UNCHANGED <<ppc, current, verdict, result, calm>>
  BY DEF vars, linkVars, deviceVars, pcVars
<1>1. AtRest' /\ Reports' /\ Decided'
  BY <1>0 DEF CalmInv, AtRest, Reports, Decided
<1>2. ASSUME NEW e, NEW p, NEW i, NEW w
      PROVE  /\ LP!Sends(e, p, i)' = LP!Sends(e, p, i) /\ LP!Waits(e, p, i)' = LP!Waits(e, p, i)
             /\ LP!Receives(e, p, i)' = LP!Receives(e, p, i) /\ LP!Sent(e)' = LP!Sent(e)
             /\ LP!Has(e, p)' = LP!Has(e, p) /\ Carries(e, p, w)' = Carries(e, p, w)
  BY <1>0 DEF LP!Sends, LP!Waits, LP!Receives, LP!Sent, LP!Has, Carries, LP!HeadIs
<1>3. ASSUME NEW d
      PROVE  /\ PartOnly(d)' = PartOnly(d) /\ Unapplied(d)' = Unapplied(d)
             /\ Over(d)' = Over(d) /\ Verdict(d)' = Verdict(d)
  BY <1>0 DEF PartOnly, Applied, Unapplied, LP!Absent, Over, Verdict
<1>4. ASSUME NEW d
      PROVE  Exchange(d)' = Exchange(d)
  <2>1. Awaiting' = Awaiting
    BY <1>0, <1>2 DEF Awaiting
  <2>2. Greeting(d)' = Greeting(d)
    <3>1. \A w : Greets(d, w)' = Greets(d, w)
      BY <1>0, <1>2 DEF Greets
    <3>2. \A w : Greeted(d, w)' = Greeted(d, w)
      BY <1>0, <1>2 DEF Greeted
    <3> QED BY <1>0, <3>1, <3>2 DEF Greeting
  <2>3. Joining(d)' = Joining(d)
    BY <1>0, <1>2 DEF Joining, Joins, Joined
  <2>4. Moving(d)' = Moving(d)
    BY <1>0, <1>2 DEF Moving, Fragmented
  <2>5. Answering(d)' = Answering(d)
    <3>1. \A t, w : Answers(d, t, w)' = Answers(d, t, w)
      BY <1>0, <1>2, <1>3 DEF Answers
    <3>2. \A t, w : Listens(d, t, w)' = Listens(d, t, w)
      BY <1>0, <1>2 DEF Listens
    <3> QED BY <1>0, <3>1, <3>2 DEF Answering
  <2>6. Told(d)' = Told(d)
    <3>1. \A t : Leaves(d, t)' = Leaves(d, t)
      BY <1>0, <1>2 DEF Leaves
    <3> QED BY <1>0, <1>2, <1>3, <3>1 DEF Told
  <2> QED BY <2>1, <2>2, <2>3, <2>4, <2>5, <2>6 DEF Exchange
<1>5. ASSUME NEW d
      PROVE  Settled(d)' = Settled(d) /\ Lockstep(d)' = Lockstep(d)
  BY <1>0, <1>3, <1>4 DEF Settled, Lockstep, Doomed, Together, Bare
<1>6. Agreed'
  BY <1>0, <1>3, <1>5 DEF CalmInv, Agreed
<1> QED BY <1>1, <1>6 DEF CalmInv

LEMMA StepCalm == SessionInv /\ SessionInv' /\ CalmInv /\ [Next]_vars => CalmInv'
<1>1. CASE Next
  BY <1>1, AtRestStep, ReportsStep, DecidedStep, AgreedStep DEF SessionInv, CalmInv, Stream, InOrder
<1> QED BY <1>1, StutterCalm

-----------------------------------------------------------------------------
(* GenericProvisionDispatcher.dispatch and factory_manager_process are in  *)
(* lockstep from DEVICE_HELLO to the verdict of every dispatch that begins *)
(* on a fresh UART and is not disturbed, whatever happened before and      *)
(* whatever happens to the BYEs and to later dispatches.                   *)
THEOREM CalmInvariant == Spec => []CalmInv
<1>1. Spec => [](SessionInv /\ CalmInv)
  BY InitSession, StepSession, InitCalm, StepCalm, PTL DEF Spec
<1> QED BY <1>1, PTL

(* When such a dispatch reports failure, no unit stored all of its data:   *)
(* the factory data may be handed to another unit.                         *)
THEOREM FailureIsUnwritten == Spec => []FailedMeansUnwritten
<1>1. SessionInv /\ CalmInv => FailedMeansUnwritten
  <2> SUFFICES ASSUME SessionInv, CalmInv, NEW d \in calm, result[d] = "failed",
                      NEW i \in 1..Len(written), written[i].data = d
               PROVE  written[i].stored = "part"
    BY DEF FailedMeansUnwritten
  <2>1. d \in Dispatches /\ Typed /\ Reports /\ Agreed
    BY DEF SessionInv, CalmInv, Typed
  <2>2. ~(d = current /\ ppc # "off")
    BY <2>1 DEF Reports
  <2>3. Settled(d) /\ Verdict(d) = "failed"
    BY <2>1, <2>2 DEF Agreed, Over, Verdict
  <2>4. PartOnly(d) \/ Unapplied(d)
    BY <2>3 DEF Settled
  <2> QED BY <2>4 DEF PartOnly, Unapplied, Applied
<1> QED BY <1>1, SessionInvariant, CalmInvariant, PTL

(* When the unit of such a dispatch reboots as provisioned                 *)
(* (factory_manager_process returns true), the dispatch reported success,  *)
(* or only has its BYE left to send.                                       *)
THEOREM RebootIsReported == Spec => []RebootMeansReported
<1>1. SessionInv /\ CalmInv => RebootMeansReported
  <2> SUFFICES ASSUME SessionInv, CalmInv, NEW d \in calm, NEW u \in Units, <<u, d>> \in rebooted
               PROVE  result[d] = "ok" \/ (current = d /\ ppc = "bye" /\ verdict = "ok")
    BY DEF RebootMeansReported
  <2>1. d \in Dispatches /\ d \in Int /\ Typed /\ Stream /\ Agreed /\ RebootMeansWritten
    BY Requests DEF SessionInv, CalmInv, Typed
  <2>2. PICK i \in 1..Len(written) : written[i].data = d /\ written[i].stored = "all"
    BY <2>1 DEF RebootMeansWritten
  <2>3. ~PartOnly(d) /\ ~Unapplied(d)
    BY <2>2 DEF PartOnly, Unapplied, Applied
  <2>4. CASE Over(d)
    BY <2>1, <2>3, <2>4 DEF Agreed, Settled, Verdict
  <2>5. CASE ~Over(d)
    <3>1. ~Doomed
      BY <2>1, <2>2, <2>5 DEF Over, Doomed, Stream, Known, Requested, Applied
    <3> QED BY <2>1, <2>5, <3>1 DEF Agreed, Lockstep, Together
  <2> QED BY <2>4, <2>5
<1> QED BY <1>1, SessionInvariant, CalmInvariant, PTL

-----------------------------------------------------------------------------
(***************************************************************************)
(* The station implements Provisioning.                                    *)
(***************************************************************************)
LEMMA ApplicationsAppended ==
  ASSUME Typed, NEW r \in Write, written' = Append(written, r), NEW x
  PROVE  Applications(x)' = IF r.data = x THEN Applications(x) \cup {r} ELSE Applications(x)
<1>1. /\ Len(written') = Len(written) + 1 /\ Len(written) \in Nat
      /\ \A i \in 1..Len(written) : i \in 1..Len(written') /\ written'[i] = written[i]
      /\ \A i \in 1..Len(written') : i \in 1..Len(written) \/ (i = Len(written') /\ written'[i] = r)
      /\ Len(written') \in 1..Len(written') /\ written'[Len(written')] = r
  BY Appended DEF Typed
<1>2. ASSUME NEW w
      PROVE  w \in Applications(x)' <=> w \in Applications(x) \/ (w = r /\ r.data = x)
  <2>1. w \in Applications(x)' <=> \E i \in 1..Len(written') : written'[i] = w /\ written'[i].data = x
    BY DEF Applications
  <2>2. w \in Applications(x) <=> \E i \in 1..Len(written) : written[i] = w /\ written[i].data = x
    BY DEF Applications
  <2>3. ASSUME NEW i \in 1..Len(written'), written'[i] = w, written'[i].data = x
        PROVE  w \in Applications(x) \/ (w = r /\ r.data = x)
    BY <1>1, <2>2, <2>3
  <2>4. ASSUME NEW i \in 1..Len(written), written[i] = w, written[i].data = x
        PROVE  w \in Applications(x)'
    BY <1>1, <2>1, <2>4
  <2>5. ASSUME w = r, r.data = x
        PROVE  w \in Applications(x)'
    BY <1>1, <2>1, <2>5
  <2> QED BY <2>2, <2>3, <2>4, <2>5, <2>1
<1> QED BY <1>2

LEMMA ApplicationsSay ==
  /\ \A d : Applied(d) <=> Applications(d) # {}
  /\ \A d : Pure(d) <=> \E r \in Applications(d) : Station!Complete(r)
  /\ \A u, d : Full(u, d) <=> \E r \in Applications(d) : r.unit = u /\ r.stored = "all"
  /\ \A d : PartOnly(d) => \A r \in Applications(d) : r.stored = "part"
BY DEF Applied, Pure, Full, PartOnly, Applications, Station!Complete

(* What was said is still said, unless the dispatch in progress got its    *)
(* verdict.                                                                *)
LEMMA SaidStays ==
  ASSUME UNCHANGED <<ppc, current, verdict, result>>
  PROVE  Said' = Said
BY DEF Said, Verdict

LEMMA StoredStays ==
  ASSUME UNCHANGED written
  PROVE  Stored' = Stored
BY DEF Stored, Applications

Stands == UNCHANGED <<current, calm, Said, Stored, unit, rebooted>>

LEMMA InProgress ==
  ASSUME Typed, Reports, ppc \notin {"off", "bye"}
  PROVE  Station!Open /\ current \in Dispatches
BY DEF Typed, Reports, Station!Open, Station!Dispatch, Dispatches, Said, Verdict

LEMMA LinkStation ==
  ASSUME Typed, Reports, LP!LinkInv, LinkStep
  PROVE  Stands \/ Station!Disturb
<1>1. UNCHANGED <<dpc, dsid, dstatus, unit, boots, written, rebooted, ppc, current, verdict, result>>
  BY LinkLeaves DEF Managers, deviceVars
<1>2. Said' = Said /\ Stored' = Stored
  BY <1>1, SaidStays, StoredStays
<1>3. calm' = calm \/ calm' = Undisturbed
  BY DEF LinkStep
<1>4. CASE calm' = calm
  BY <1>1, <1>2, <1>4 DEF Stands
<1>5. CASE calm' = Undisturbed /\ ppc \in {"off", "bye"}
  <2>1. calm' = calm
    BY <1>5 DEF Undisturbed
  <2> QED BY <1>4, <2>1
<1>6. CASE calm' = Undisturbed /\ ppc \notin {"off", "bye"}
  <2>1. calm' = calm \ {current}
    BY <1>6 DEF Undisturbed
  <2> QED BY <1>1, <1>2, <1>6, <2>1, InProgress DEF Station!Disturb
<1> QED BY <1>3, <1>4, <1>5, <1>6

LEMMA WriteStation ==
  ASSUME SessionInv, CalmInv, ServeWrite
  PROVE  \E d \in Dispatches : Station!Store(d)
<1>0. /\ Typed /\ Stream /\ Deserved /\ Reports /\ Agreed
  BY DEF SessionInv, CalmInv
<1>1. PICK d \in Dispatches, r \in Write :
        /\ Got(Device, Request(d)) /\ r.unit = unit /\ r.data = d /\ r.spliced = Spliced(Device)
        /\ written' = Append(written, r) /\ UNCHANGED <<unit, rebooted, pcVars>>
  BY <1>0, WriteAppends
<1>2. d <= Requested /\ ~Applied(d) /\ (Spliced(Device) => d < Requested)
  BY <1>0, <1>1, ReceivedRequest
<1>3. d <= current /\ (r.spliced => d < current)
  <2>1. current \in Int /\ Requested \in Int /\ d \in Int /\ Requested <= current
    BY <1>0, Requests DEF Requested
  <2> QED BY <1>1, <1>2, <2>1
<1>4. Stored[d] = {}
  BY <1>2, ApplicationsSay DEF Stored
<1>5. Stored' = [Stored EXCEPT ![d] = {r}]
  <2>1. \A x \in Dispatches :
          Applications(x)' = IF r.data = x THEN Applications(x) \cup {r} ELSE Applications(x)
    BY <1>0, <1>1, ApplicationsAppended
  <2>2. Applications(d) = {}
    BY <1>2, ApplicationsSay
  <2>3. \A x \in Dispatches : Applications(x)' = IF x = d THEN {r} ELSE Applications(x)
    BY <1>1, <2>1, <2>2
  <2> QED BY <2>3 DEF Stored
<1>6. d \in calm => d = current /\ Station!Open
  <2> SUFFICES ASSUME d \in calm PROVE d = current /\ Station!Open
    OBVIOUS
  <2>1. ~LP!Absent(Request(d))
    <3>1. /\ inbox[Device] \in Seq([pkt : SessionPacket, idx : 1..RequestFrames])
          /\ inbox[Device] # << >>
      BY <1>0, <1>1, IntactInbox DEF Stream, InOrder, Got, IntactInboxes
    <3>2. 1 \in 1..Len(inbox[Device])
      BY <3>1
    <3> QED BY <1>1, <3>2, TwoNodes DEF LP!Absent, Got
  <2>2. ~PartOnly(d) /\ ~Unapplied(d)
    BY <1>2, <2>1 DEF PartOnly, Unapplied
  <2>3. Verdict(d) # "ok"
    BY <1>0, <1>2 DEF Deserved, Verdict, Pure, Applied
  <2>4. ~Over(d)
    BY <1>0, <2>2, <2>3 DEF Agreed, Settled
  <2> QED BY <1>0, <2>4, InProgress DEF Over
<1>7. UNCHANGED <<current, calm, Said, unit, rebooted>>
  <2>1. UNCHANGED <<ppc, current, verdict, result, calm>>
    BY <1>1 DEF pcVars
  <2> QED BY <1>1, <2>1, SaidStays
<1>8. /\ r.stored \in {"all", "part"} /\ r.spliced \in BOOLEAN
      /\ r = [unit |-> unit, data |-> d, stored |-> r.stored, spliced |-> r.spliced]
  BY <1>1 DEF Write
<1> QED BY <1>3, <1>4, <1>5, <1>6, <1>7, <1>8 DEF Station!Store

LEMMA RebootStation ==
  ASSUME SessionInv, CalmInv, RebootMeansReported', ManagerSucceeds
  PROVE  \E d \in Dispatches : Station!Reboot(d)
<1>1. PICK d \in Dispatches : d = dsid
  BY DEF SessionInv, Typed, ManagerSucceeds
<1>2. /\ rebooted' = rebooted \cup {<<unit, d>>}
      /\ UNCHANGED <<unit, written>> /\ UNCHANGED <<ppc, current, verdict, result, calm>>
  BY <1>1 DEF ManagerSucceeds, pcVars
<1>3. \E r \in Stored[d] : r.unit = unit /\ r.stored = "all"
  <2>1. Full(unit, d)
    BY <1>1 DEF ManagerSucceeds, SessionInv, Rebooting
  <2> QED BY <2>1, ApplicationsSay DEF Stored
<1>4. d \in calm => Said[d] = "ok"
  <2> SUFFICES ASSUME d \in calm PROVE Said[d] = "ok"
    OBVIOUS
  <2>1. unit \in Units /\ <<unit, d>> \in rebooted'
    BY <1>2 DEF SessionInv, Typed
  <2>2. result'[d] = "ok" \/ (current' = d /\ ppc' = "bye" /\ verdict' = "ok")
    BY <1>2, <2>1 DEF RebootMeansReported
  <2>3. ppc = "bye" /\ d = current => result[d] = "none"
    BY DEF CalmInv, Reports
  <2> QED BY <1>2, <2>2, <2>3 DEF Said, Verdict
<1>5. Said' = Said /\ Stored' = Stored
  BY <1>2, SaidStays, StoredStays
<1> QED BY <1>2, <1>3, <1>4, <1>5 DEF Station!Reboot

LEMMA DeviceStation ==
  ASSUME SessionInv, CalmInv, RebootMeansReported', DeviceStep \/ Boot \/ NextUnit
  PROVE  Stands \/ [Station!Next]_(Station!vars)
<1>0. LP!LinkInv
  BY DEF SessionInv, Stream, InOrder
<1>1. UNCHANGED <<ppc, current, verdict, result, calm>>
  BY <1>0, DeviceLeavesPc DEF pcVars
<1>2. CASE ServeWrite
  BY <1>2, WriteStation DEF Station!Next, Station!Dispatch, Dispatches
<1>3. CASE ManagerSucceeds
  BY <1>3, RebootStation DEF Station!Next, Station!Dispatch, Dispatches
<1>4. CASE NextUnit
  <2>1. UNCHANGED <<written, rebooted>> /\ unit < MaxUnits /\ unit' = unit + 1
    BY <1>4 DEF NextUnit
  <2>2. Station!NextUnit
    BY <1>1, <2>1, SaidStays, StoredStays DEF Station!NextUnit
  <2> QED BY <2>2 DEF Station!Next
<1>5. CASE (DeviceStep \/ Boot) /\ ~ServeWrite /\ ~ManagerSucceeds
  <2>1. UNCHANGED <<written, unit, rebooted>>
    BY <1>5 DEF DeviceStep, HelloSent, HelloFailed, Opened, KeepWaiting, OpenExpires, ServeInvalid,
       ServeFails, ServeBye, AnswerSent, AnswerFails, ByeEnds, Boot, Answer, CloseSession,
       DeviceStops, deviceVars
  <2> QED BY <1>1, <2>1, SaidStays, StoredStays DEF Stands
<1> QED BY <1>2, <1>3, <1>4, <1>5

LEMMA PcStation ==
  ASSUME SessionInv, CalmInv, SessionInv', CalmInv', PcStep
  PROVE  Stands \/ \E v \in {"ok", "failed"} : Station!Decide(v)
<1>0. Typed /\ Reports /\ Decided /\ LP!LinkInv
  BY DEF SessionInv, CalmInv, Stream, InOrder
<1>1. /\ UNCHANGED <<current, calm>> /\ ppc # "off"
      /\ \/ UNCHANGED result /\ ppc' # "off" /\ ppc # "bye"
         \/ \E v \in {"failed", verdict} :
              /\ ppc' = "off" /\ v = IF ppc = "bye" THEN verdict ELSE "failed"
              /\ result' = [result EXCEPT ![current] = v]
      /\ ppc' = "bye" => verdict' \in {"ok", "failed"}
  BY <1>0, PcReports
<1>2. UNCHANGED <<dpc, dsid, dstatus, unit, boots, written, rebooted>> /\ Stored' = Stored
  BY <1>0, PcLeavesDevice, StoredStays DEF deviceVars
<1>3. result \in [Dispatches -> {"none", "ok", "failed"}] /\ current \in Dispatches
  BY <1>0, <1>1 DEF Typed
<1>4. CASE UNCHANGED result /\ ppc' \notin {"off", "bye"} /\ ppc # "bye"
  <2>1. Said' = Said
    BY <1>1, <1>4 DEF Said, Verdict
  <2> QED BY <1>1, <1>2, <2>1 DEF Stands
<1>5. CASE ppc = "bye"
  <2>1. ppc' = "off" /\ result' = [result EXCEPT ![current] = verdict]
    BY <1>1, <1>5
  <2>2. Said' = Said
    BY <1>1, <1>3, <1>5, <2>1 DEF Said, Verdict
  <2> QED BY <1>1, <1>2, <2>2 DEF Stands
<1>6. CASE ppc # "bye" /\ ppc' \in {"off", "bye"}
  <2>1. PICK v \in {"ok", "failed"} : v = Verdict(current)'
    BY <1>1, <1>3, <1>6 DEF Verdict
  <2>2. Said' = [Said EXCEPT ![current] = v]
    <3>1. \A d \in Dispatches : d # current => Verdict(d)' = Verdict(d)
      BY <1>1, <1>3 DEF Verdict
    <3> QED BY <1>1, <1>3, <2>1, <3>1 DEF Said
  <2>3. Station!Open
    BY <1>0, <1>1, <1>6, InProgress
  <2>4. v = "ok" => \E r \in Stored[current] : Station!Complete(r)
    <3> SUFFICES ASSUME v = "ok" PROVE Pure(current)
      BY <1>3, ApplicationsSay DEF Stored
    <3>1. Pure(current)'
      BY <1>1, <1>3, <2>1 DEF SessionInv, Deserved, Verdict
    <3> QED BY <1>1, <1>2, <3>1 DEF Pure
  <2>5. v = "failed" /\ current \in calm => \A r \in Stored[current] : r.stored = "part"
    <3> SUFFICES ASSUME v = "failed", current \in calm
                 PROVE  PartOnly(current) \/ ~Applied(current)
      BY <1>3, ApplicationsSay DEF Stored
    <3>1. Over(current)'
      BY <1>6 DEF Over
    <3>2. Settled(current)'
      BY <1>1, <3>1 DEF CalmInv, Agreed
    <3>3. PartOnly(current)' \/ ~Applied(current)'
      BY <2>1, <3>2 DEF Settled, Unapplied
    <3> QED BY <1>1, <1>2, <3>3 DEF PartOnly, Applied
  <2>6. Station!Decide(v)
    BY <1>1, <1>2, <2>2, <2>3, <2>4, <2>5 DEF Station!Decide
  <2> QED BY <2>6
<1> QED BY <1>1, <1>4, <1>5, <1>6

LEMMA DispatchStation ==
  ASSUME Typed, LP!LinkInv, Decided, Dispatch
  PROVE  Station!Start
<1>1. /\ ppc = "off" /\ current' = current + 1 /\ ppc' = "hello" /\ result' = result
      /\ current < MaxDispatches /\ calm' \in {calm, calm \cup {current'}}
  BY DEF Dispatch
<1>2. UNCHANGED <<unit, written, rebooted>>
  BY DEF Dispatch, deviceVars
<1>3. Said' = Said
  BY <1>1 DEF Said, Verdict
<1>4. ~Station!Open
  BY <1>1 DEF Decided, Station!Open, Station!Dispatch, Dispatches, Said, Verdict
<1>5. current' \in 1..MaxDispatches
  BY <1>1, SessionAssumption DEF Typed
<1> QED BY <1>1, <1>2, <1>3, <1>4, <1>5, StoredStays DEF Station!Start, Station!Dispatch

(* The whole station, whatever its UART does, is a station that promises   *)
(* what Provisioning says: one dispatch at a time, one verdict for each,   *)
(* its data applied at most once and never mixed while it is in progress,  *)
(* and, until something disturbs it, the same outcome on both sides.       *)
THEOREM StationImplemented == Spec => StationSpec
<1>1. Init => Station!Init
  <2> SUFFICES ASSUME Init PROVE Station!Init
    OBVIOUS
  <2>1. /\ unit = 1 /\ written = << >> /\ rebooted = {} /\ ppc = "off" /\ current = 0
        /\ result = [d \in Dispatches |-> "none"] /\ calm = {}
    BY DEF Init
  <2>2. Said = [d \in Dispatches |-> "none"]
    BY <2>1 DEF Said, Verdict
  <2>3. Stored = [d \in Dispatches |-> {}]
    BY <2>1 DEF Stored, Applications
  <2> QED BY <2>1, <2>2, <2>3 DEF Station!Init, Station!Dispatch, Dispatches
<1>2. SessionInv /\ CalmInv /\ (SessionInv /\ CalmInv /\ RebootMeansReported)' /\ [Next]_vars
        => [Station!Next]_(Station!vars)
  <2> SUFFICES ASSUME SessionInv, CalmInv, SessionInv', CalmInv', RebootMeansReported', [Next]_vars
               PROVE  [Station!Next]_(Station!vars)
    OBVIOUS
  <2>0. Typed /\ LP!LinkInv /\ Reports /\ Decided
    BY DEF SessionInv, CalmInv, Stream, InOrder
  <2>1. Stands => [Station!Next]_(Station!vars)
    BY DEF Stands, Station!vars
  <2>2. CASE LinkStep
    BY <2>0, <2>1, <2>2, LinkStation DEF Station!Next
  <2>3. CASE DeviceStep \/ Boot \/ NextUnit
    BY <2>1, <2>3, DeviceStation
  <2>4. CASE PcStep
    BY <2>1, <2>4, PcStation DEF Station!Next
  <2>5. CASE Dispatch
    BY <2>0, <2>5, DispatchStation DEF Station!Next
  <2>6. CASE UNCHANGED vars
    <3>1. UNCHANGED <<unit, written, rebooted>> /\ UNCHANGED <<ppc, current, verdict, result, calm>>
      BY <2>6 DEF vars, deviceVars, pcVars
    <3> QED BY <2>1, <3>1, SaidStays, StoredStays DEF Stands
  <2> QED BY <2>2, <2>3, <2>4, <2>5, <2>6, NextMoves
<1> QED BY <1>1, <1>2, SessionInvariant, CalmInvariant, RebootIsReported, PTL
        DEF Spec, StationSpec, Station!Spec

=============================================================================
