--------------------------- MODULE FrameLinkProofs ---------------------------
(***************************************************************************)
(* LinkInv is inductive: for every set of packets, fragment count, number  *)
(* of tries and of faults, and whatever types the UART makes of others, a  *)
(* receive call that succeeds returns a whole, gapless packet              *)
(* (WholePacket).  What follows about the order of fragments and about     *)
(* undisturbed exchanges is for a UART that leaves types alone.            *)
(***************************************************************************)
EXTENDS FrameLink, TLAPS

(* Whatever is put into a buffer or on the UART by this module's actions.  *)
Genuine(f)   == WellFormed(f) /\ (TypeFaults = {} => Typed(f))
GoodFrame(f) == f \in Frame /\ Genuine(f)
GoodWire(w)  == w \in Seq(Frame) /\ \A i \in 1..Len(w) : Genuine(w[i])

LEMMA PeerInNode ==
  ASSUME NEW e \in Node
  PROVE  Peer(e) \in Node /\ Peer(e) # e
BY NodesDiffer DEF Node, Peer

LEMMA BlankIsGood == GoodFrame(Blank) /\ GoodFrame(NoFrame)
<1>1. 0 \in SeqNo /\ 0 \in 0..MaxFrames
  BY PacketAssumption DEF SeqNo
<1>2. GoodFrame(Blank)
  BY <1>1 DEF GoodFrame, Genuine, WellFormed, Typed, Frame, FrameType, Blank, DataType
<1>3. GoodFrame(NoFrame)
  BY <1>2 DEF GoodFrame, Genuine, WellFormed, Typed, Frame, NoFrame
<1> QED BY <1>2, <1>3

LEMMA ControlIsGood ==
  ASSUME NEW t \in ControlType, NEW s \in SeqNo
  PROVE  GoodFrame(Control(t, s))
BY PacketAssumption DEF GoodFrame, Genuine, WellFormed, Typed, Frame, FrameType, Control, SeqNo,
                        DataType, ControlType

LEMMA FragmentIsGood ==
  ASSUME NEW p \in Packet, NEW i \in 1..FrameCount[p]
  PROVE  GoodFrame(Fragment(p, i))
<1>1. FrameCount[p] \in 1..MaxFrames /\ MaxFrames \in Nat
  BY PacketAssumption
<1>2. Fragment(p, i) \in Frame
  BY <1>1 DEF Frame, FrameType, Fragment, SeqNo, DataType, ControlType
<1>3. Fragment(p, i).pkt = p /\ Fragment(p, i).idx = i
  BY DEF Fragment
<1>4. p # NoPacket
  BY PacketAssumption
<1>5. Typed(Fragment(p, i))
  BY <1>3, <1>4 DEF Typed
<1> QED BY <1>2, <1>3, <1>5 DEF GoodFrame, Genuine, WellFormed

(* A damaged payload fails the CRC; a damaged type leaves no data frame    *)
(* that has the type it was sent with.                                     *)
LEMMA PayloadDamagedIsGood ==
  ASSUME NEW f, GoodFrame(f), NEW g \in PayloadDamaged(f)
  PROVE  GoodFrame(g) /\ ~g.ok /\ g.pkt = f.pkt
<1>1. PICK s \in SeqNo : g = [f EXCEPT !.ok = FALSE, !.seq = s]
  <2>1. (IF f.type = "SINGLE" THEN {SINGLE_SEQ} ELSE SeqNo) \subseteq SeqNo
    BY DEF SeqNo
  <2> QED BY <2>1 DEF PayloadDamaged
<1>2. g \in Frame /\ ~g.ok /\ g.pkt = f.pkt /\ g.idx = f.idx /\ g.type = f.type
  BY <1>1 DEF GoodFrame, Frame
<1> QED BY <1>2 DEF GoodFrame, Genuine, WellFormed, Typed

LEMMA SeqAsIsSeq ==
  ASSUME NEW f \in Frame, NEW t
  PROVE  SeqAs(f, t) \subseteq SeqNo
<1>1. {0, PROTOCOL_VERSION, SINGLE_SEQ, f.seq} \subseteq SeqNo
  BY PacketAssumption DEF SeqNo, Frame
<1> QED BY <1>1 DEF SeqAs

LEMMA TypeDamagedIsGood ==
  ASSUME NEW f, GoodFrame(f), Typed(f), NEW g \in TypeDamaged(f)
  PROVE  GoodFrame(g) /\ TypeFaults # {} /\ g.pkt = f.pkt
<1>1. PICK t \in FrameType \ {f.type}, s \in SeqNo :
        <<f.type, t>> \in TypeFaults /\ g = [f EXCEPT !.type = t, !.seq = s]
  <2>1. PICK t \in {u \in FrameType \ {f.type} : <<f.type, u>> \in TypeFaults} :
          g \in {[f EXCEPT !.type = t, !.seq = s] : s \in SeqAs(f, t)}
    BY DEF TypeDamaged
  <2>2. PICK s \in SeqAs(f, t) : g = [f EXCEPT !.type = t, !.seq = s]
    BY <2>1
  <2>3. s \in SeqNo
    BY SeqAsIsSeq DEF GoodFrame
  <2> QED BY <2>1, <2>2, <2>3
<1>2. g \in Frame /\ g.pkt = f.pkt /\ g.idx = f.idx /\ g.type = t
  BY <1>1 DEF GoodFrame, Frame
<1>3. ~(g.type \in DataType /\ Typed(g))
  BY <1>1, <1>2 DEF Typed
<1> QED BY <1>1, <1>2, <1>3 DEF GoodFrame, Genuine, WellFormed

LEMMA DamagedIsGood ==
  ASSUME NEW f, GoodFrame(f),
         NEW g \in PayloadDamaged(f) \cup (IF Typed(f) THEN TypeDamaged(f) ELSE {})
  PROVE  GoodFrame(g) /\ g.pkt = f.pkt /\ (TypeFaults = {} => ~g.ok)
BY PayloadDamagedIsGood, TypeDamagedIsGood

(* Wires under the operations of the actions.                              *)
LEMMA WireTail ==
  ASSUME NEW w, GoodWire(w), w # << >>
  PROVE  GoodWire(Tail(w)) /\ GoodFrame(Head(w))
BY DEF GoodWire, GoodFrame

LEMMA WireAppend ==
  ASSUME NEW w, GoodWire(w), NEW f, GoodFrame(f)
  PROVE  GoodWire(Append(w, f))
BY DEF GoodWire, GoodFrame

LEMMA WireNoReply ==
  ASSUME NEW w, GoodWire(w)
  PROVE  GoodWire(w \o << >>)
BY DEF GoodWire

LEMMA WireReply ==
  ASSUME NEW w, GoodWire(w), NEW f, GoodFrame(f)
  PROVE  GoodWire(w \o <<f>>)
BY DEF GoodWire, GoodFrame

LEMMA WirePut ==
  ASSUME NEW w, GoodWire(w), w # << >>, NEW f, GoodFrame(f)
  PROVE  GoodWire(<<f>> \o Tail(w))
BY DEF GoodWire, GoodFrame

-----------------------------------------------------------------------------
(***************************************************************************)
(* LinkInv, cut along the state that the actions change together.          *)
(***************************************************************************)
SenderOK ==
  /\ op \in [Node -> {"idle", "send", "wait", "receive"}]
  /\ tx \in [Node -> [pkt : Packet \cup {NoPacket}, idx : 1..MaxFrames,
                      tries : 0..(MaxTries - 1)]]
  /\ \A e \in Node : op[e] \in {"send", "wait"} =>
       tx[e].pkt \in Packet /\ tx[e].idx <= FrameCount[tx[e].pkt]
  /\ buf \in [Node -> Frame]
  /\ \A e \in Node : Genuine(buf[e])

OutcomeOK ==
  /\ res   \in [Node -> {"none", "sent", "received", "timeout", "failed"}]
  /\ inbox \in [Node -> Seq(Piece)]
  /\ WholePacket
  /\ \A e \in Node : TypeFaults = {} => Untouched(inbox[e])

Sober(a) == Prefix(a) /\ (TypeFaults = {} => Untouched(a.got))

AssemblyOK ==
  /\ asm \in [Node -> Asm]
  /\ \A e \in Node : Sober(asm[e])

PendingOK == \A e \in Node : GoodFrame(pending[e])

WiresOK == \A e \in Node : GoodWire(wire[e])

Domains ==
  /\ pending = [e \in Node |-> pending[e]]
  /\ wire    = [e \in Node |-> wire[e]]

LEMMA LinkInvParts ==
  LinkInv <=> /\ SenderOK /\ OutcomeOK /\ AssemblyOK /\ PendingOK /\ WiresOK
              /\ Domains /\ faults \in Nat
<1> DEFINE Rest == WholePacket /\ TypeOK
           Frames == \A e \in Node : /\ Genuine(buf[e]) /\ Genuine(pending[e])
                                     /\ \A i \in 1..Len(wire[e]) : Genuine(wire[e][i])
           Pieces == \A e \in Node : TypeFaults = {} =>
                                        Untouched(asm[e].got) /\ Untouched(inbox[e])
           Prefixes == \A e \in Node : Prefix(asm[e])
<1>1. LinkInv <=> Rest /\ Frames /\ Pieces /\ Prefixes
  <2>1. CASE TypeFaults = {}
    BY <2>1 DEF LinkInv, FramesWellFormed, TypesKept, Genuine
  <2>2. CASE TypeFaults # {}
    BY <2>2 DEF LinkInv, FramesWellFormed, Genuine
  <2> QED BY <2>1, <2>2
<1>2. AssemblyOK <=> asm \in [Node -> Asm] /\ Prefixes
                     /\ \A e \in Node : TypeFaults = {} => Untouched(asm[e].got)
  BY DEF AssemblyOK, Sober
<1> HIDE DEF Prefixes
<1> QED BY <1>1, <1>2
    DEF TypeOK, SenderOK, OutcomeOK, PendingOK, WiresOK, Domains, GoodFrame, GoodWire

LEMMA LinkInvPartsNext ==
  LinkInv' <=> /\ SenderOK' /\ OutcomeOK' /\ AssemblyOK' /\ PendingOK' /\ WiresOK'
               /\ Domains' /\ (faults \in Nat)'
BY LinkInvParts, PTL

LEMMA ReturnKeepsOutcome ==
  ASSUME OutcomeOK, NEW e \in Node, NEW m \in Seq(Piece), TypeFaults = {} => Untouched(m),
         NEW r \in {"sent", "received", "timeout", "failed"}, Return(e, r, m),
         r = "received" => Whole(m)
  PROVE  OutcomeOK'
BY DEF OutcomeOK, WholePacket, Return

LEMMA NothingIsUntouched == << >> \in Seq(Piece) /\ Untouched(<< >>)
BY DEF Untouched

LEMMA FailKeepsOutcome ==
  ASSUME OutcomeOK, NEW e \in Node,
         NEW r \in {"sent", "timeout", "failed"}, Return(e, r, << >>)
  PROVE  OutcomeOK'
BY NothingIsUntouched DEF OutcomeOK, WholePacket, Return

LEMMA RetryKeepsSender ==
  ASSUME SenderOK, OutcomeOK, NEW e \in Node, op[e] \in {"send", "wait"},
         NEW left, GoodFrame(left), RetryOrFail(e, left)
  PROVE  SenderOK' /\ OutcomeOK'
<1>1. CASE TriesLeft(e)
  <2>1. SenderOK'
    <3>1. [tx[e] EXCEPT !.tries = @ + 1] \in
            [pkt : Packet \cup {NoPacket}, idx : 1..MaxFrames, tries : 0..(MaxTries - 1)]
      BY <1>1, BoundsAssumption DEF SenderOK, TriesLeft, NextTry
    <3>2. tx' = [tx EXCEPT ![e] = [tx[e] EXCEPT !.tries = @ + 1]]
      BY <1>1 DEF RetryOrFail, NextTry
    <3> QED BY <1>1, <3>1, <3>2 DEF SenderOK, RetryOrFail, GoodFrame
  <2>2. OutcomeOK'
    BY <1>1 DEF OutcomeOK, WholePacket, RetryOrFail
  <2> QED BY <2>1, <2>2
<1>2. CASE ~TriesLeft(e)
  <2>1. Return(e, "failed", << >>)
    BY <1>2 DEF RetryOrFail
  <2>2. OutcomeOK'
    BY <2>1, FailKeepsOutcome
  <2>3. NoTx \in [pkt : Packet \cup {NoPacket}, idx : 1..MaxFrames,
                 tries : 0..(MaxTries - 1)]
    BY PacketAssumption, BoundsAssumption DEF NoTx
  <2>4. SenderOK'
    BY <1>2, <2>1, <2>3, BlankIsGood DEF SenderOK, RetryOrFail, Return, GoodFrame
  <2> QED BY <2>2, <2>4
<1> QED BY <1>1, <1>2

LEMMA RaiseKeepsSender ==
  ASSUME SenderOK, OutcomeOK, NEW e \in Node, Raise(e)
  PROVE  SenderOK' /\ OutcomeOK'
<1>1. Return(e, "failed", << >>)
  BY DEF Raise
<1>2. OutcomeOK'
  BY <1>1, FailKeepsOutcome
<1>3. NoTx \in [pkt : Packet \cup {NoPacket}, idx : 1..MaxFrames,
               tries : 0..(MaxTries - 1)]
  BY PacketAssumption, BoundsAssumption DEF NoTx
<1>4. SenderOK'
  BY <1>1, <1>3, BlankIsGood DEF SenderOK, Raise, Return, GoodFrame
<1> QED BY <1>2, <1>4

-----------------------------------------------------------------------------
(***************************************************************************)
(* Calls and sending.                                                      *)
(***************************************************************************)
LEMMA EmptyAsmIsSober == EmptyAsm \in Asm /\ Sober(EmptyAsm)
<1>1. EmptyAsm.got = << >> /\ EmptyAsm.total = 0 /\ EmptyAsm.seq = 0
  BY DEF EmptyAsm
<1>2. EmptyAsm \in Asm
  BY PacketAssumption, NothingIsUntouched DEF EmptyAsm, Asm
<1>3. Prefix(EmptyAsm)
  BY <1>1 DEF Prefix, Gapless
<1> QED BY <1>1, <1>2, <1>3, NothingIsUntouched DEF Sober

LEMMA CallSendKeeps ==
  ASSUME LinkInv, NEW e \in Node, NEW p \in Packet, CallSend(e, p)
  PROVE  LinkInv'
<1>1. SenderOK /\ OutcomeOK /\ AssemblyOK /\ PendingOK /\ WiresOK /\ Domains /\ faults \in Nat
  BY LinkInvParts
<1>2. FrameCount[p] \in 1..MaxFrames
  BY PacketAssumption
<1>3. GoodFrame(Fragment(p, 1))
  BY <1>2, FragmentIsGood
<1>4. SenderOK'
  <2>1. [pkt |-> p, idx |-> 1, tries |-> 0] \in
          [pkt : Packet \cup {NoPacket}, idx : 1..MaxFrames, tries : 0..(MaxTries - 1)]
    BY PacketAssumption, BoundsAssumption
  <2> QED BY <1>1, <1>2, <1>3, <2>1 DEF SenderOK, CallSend, GoodFrame
<1>5. OutcomeOK'
  BY <1>1, NothingIsUntouched DEF OutcomeOK, WholePacket, CallSend
<1>6. AssemblyOK' /\ PendingOK' /\ WiresOK' /\ Domains' /\ (faults \in Nat)'
  BY <1>1 DEF AssemblyOK, PendingOK, WiresOK, Domains, CallSend
<1> QED BY <1>4, <1>5, <1>6, LinkInvPartsNext

LEMMA CallReceiveKeeps ==
  ASSUME LinkInv, NEW e \in Node, CallReceive(e)
  PROVE  LinkInv'
<1>1. SenderOK /\ OutcomeOK /\ AssemblyOK /\ PendingOK /\ WiresOK /\ Domains /\ faults \in Nat
  BY LinkInvParts
<1>2. SenderOK'
  BY <1>1 DEF SenderOK, CallReceive
<1>3. OutcomeOK'
  BY <1>1, NothingIsUntouched DEF OutcomeOK, WholePacket, CallReceive
<1>5. AssemblyOK'
  BY <1>1, EmptyAsmIsSober DEF AssemblyOK, CallReceive
<1>6. PendingOK' /\ WiresOK' /\ Domains' /\ (faults \in Nat)'
  BY <1>1 DEF PendingOK, WiresOK, Domains, CallReceive
<1> QED BY <1>2, <1>3, <1>5, <1>6, LinkInvPartsNext

LEMMA WriteFrameKeeps ==
  ASSUME LinkInv, NEW e \in Node, WriteFrame(e)
  PROVE  LinkInv'
<1>1. SenderOK /\ OutcomeOK /\ AssemblyOK /\ PendingOK /\ WiresOK /\ Domains /\ faults \in Nat
  BY LinkInvParts
<1>2. GoodFrame(buf[e])
  BY <1>1 DEF SenderOK, GoodFrame
<1>3. SenderOK'
  BY <1>1, BlankIsGood DEF SenderOK, WriteFrame, GoodFrame
<1>4. WiresOK'
  BY <1>1, <1>2, PeerInNode, WireAppend DEF WiresOK, Domains, WriteFrame
<1>5. Domains'
  BY <1>1, PeerInNode DEF Domains, WriteFrame
<1>6. OutcomeOK' /\ AssemblyOK' /\ PendingOK' /\ (faults \in Nat)'
  BY <1>1 DEF OutcomeOK, WholePacket, AssemblyOK, PendingOK, WriteFrame
<1> QED BY <1>3, <1>4, <1>5, <1>6, LinkInvPartsNext

LEMMA WriteFailsKeeps ==
  ASSUME LinkInv, NEW e \in Node, WriteFails(e)
  PROVE  LinkInv'
<1>1. SenderOK /\ OutcomeOK /\ AssemblyOK /\ PendingOK /\ WiresOK /\ Domains /\ faults \in Nat
  BY LinkInvParts
<1>2. GoodFrame(buf[e])
  BY <1>1 DEF SenderOK, GoodFrame
<1>3. SenderOK' /\ OutcomeOK'
  <2>1. CASE e = Device
    BY <1>1, <1>2, <2>1, RetryKeepsSender DEF WriteFails
  <2>2. CASE e # Device
    BY <1>1, <2>2, RaiseKeepsSender DEF WriteFails
  <2> QED BY <2>1, <2>2
<1>4. (faults \in Nat)'
  BY <1>1 DEF WriteFails, Spend
<1>5. AssemblyOK' /\ PendingOK' /\ WiresOK' /\ Domains'
  BY <1>1 DEF AssemblyOK, PendingOK, WiresOK, Domains, WriteFails
<1> QED BY <1>3, <1>4, <1>5, LinkInvPartsNext

(* Reading the oldest frame leaves good wires and yields a good frame.     *)
LEMMA AwaitKeepsWires ==
  ASSUME WiresOK, Domains, NEW e \in Node, NEW f \in Oldest(e), Await(e)
  PROVE  WiresOK' /\ wire' = [n \in Node |-> wire'[n]] /\ GoodFrame(f)
<1>1. wire[e] # << >> /\ f = Head(wire[e])
  BY DEF Oldest
<1>2. GoodWire(Tail(wire[e])) /\ GoodFrame(f)
  BY <1>1, WireTail DEF WiresOK
<1> QED BY <1>2 DEF WiresOK, Domains, Await

LEMMA GetAckKeeps ==
  ASSUME LinkInv, NEW e \in Node, GetAck(e)
  PROVE  LinkInv'
<1>1. SenderOK /\ OutcomeOK /\ AssemblyOK /\ PendingOK /\ WiresOK /\ Domains /\ faults \in Nat
  BY LinkInvParts
<1>2. PICK f \in Oldest(e) : Await(e)
  BY DEF GetAck
<1>3. WiresOK' /\ wire' = [n \in Node |-> wire'[n]]
  BY <1>1, <1>2, AwaitKeepsWires
<1>4. tx[e].pkt \in Packet /\ tx[e].idx \in 1..FrameCount[tx[e].pkt]
      /\ FrameCount[tx[e].pkt] \in 1..MaxFrames
  BY <1>1, <1>2, PacketAssumption DEF SenderOK, Await
<1>5. SenderOK' /\ OutcomeOK'
  <2>1. CASE tx[e].idx < FrameCount[tx[e].pkt]
    <3>1. GoodFrame(Fragment(tx[e].pkt, tx[e].idx + 1))
      BY <1>4, <2>1, FragmentIsGood
    <3>2. /\ op' = [op EXCEPT ![e] = "send"]
          /\ tx' = [tx EXCEPT ![e] = [pkt |-> @.pkt, idx |-> @.idx + 1, tries |-> 0]]
          /\ buf' = [buf EXCEPT ![e] = Fragment(tx[e].pkt, tx[e].idx + 1)]
          /\ UNCHANGED <<res, inbox>>
      BY <2>1 DEF GetAck
    <3>3. SenderOK'
      <4> DEFINE next == [pkt |-> tx[e].pkt, idx |-> tx[e].idx + 1, tries |-> 0]
      <4>1. next \in
              [pkt : Packet \cup {NoPacket}, idx : 1..MaxFrames, tries : 0..(MaxTries - 1)]
        BY <1>4, <2>1, PacketAssumption, BoundsAssumption
      <4>2. next.pkt = tx[e].pkt /\ next.idx = tx[e].idx + 1
        OBVIOUS
      <4>3. tx' = [tx EXCEPT ![e] = next]
        BY <3>2
      <4> HIDE DEF next
      <4> QED BY <1>1, <1>4, <2>1, <3>1, <3>2, <4>1, <4>2, <4>3 DEF SenderOK, GoodFrame
    <3>4. OutcomeOK'
      BY <1>1, <3>2 DEF OutcomeOK, WholePacket
    <3> QED BY <3>3, <3>4
  <2>2. CASE ~(tx[e].idx < FrameCount[tx[e].pkt])
    <3>1. /\ Return(e, "sent", << >>)
          /\ tx' = [tx EXCEPT ![e] = NoTx]
          /\ buf' = [buf EXCEPT ![e] = Blank]
      BY <2>2 DEF GetAck
    <3>2. NoTx \in [pkt : Packet \cup {NoPacket}, idx : 1..MaxFrames,
                   tries : 0..(MaxTries - 1)]
      BY PacketAssumption, BoundsAssumption DEF NoTx
    <3>3. OutcomeOK'
      BY <1>1, <3>1, FailKeepsOutcome
    <3>4. SenderOK'
      BY <1>1, <3>1, <3>2, BlankIsGood DEF SenderOK, Return, GoodFrame
    <3> QED BY <3>3, <3>4
  <2> QED BY <2>1, <2>2
<1>6. AssemblyOK' /\ PendingOK' /\ Domains' /\ (faults \in Nat)'
  BY <1>1, <1>3 DEF AssemblyOK, PendingOK, Domains, GetAck
<1> QED BY <1>3, <1>5, <1>6, LinkInvPartsNext

LEMMA GetNackKeeps ==
  ASSUME LinkInv, NEW e \in Node, GetNack(e)
  PROVE  LinkInv'
<1>1. SenderOK /\ OutcomeOK /\ AssemblyOK /\ PendingOK /\ WiresOK /\ Domains /\ faults \in Nat
  BY LinkInvParts
<1>2. PICK f \in Oldest(e) :
        Await(e) /\ RetryOrFail(e, IF e = Device THEN f ELSE buf[e])
  BY DEF GetNack
<1>3. WiresOK' /\ wire' = [n \in Node |-> wire'[n]] /\ GoodFrame(f)
  BY <1>1, <1>2, AwaitKeepsWires
<1>4. GoodFrame(IF e = Device THEN f ELSE buf[e])
  BY <1>1, <1>3 DEF SenderOK, GoodFrame
<1>5. SenderOK' /\ OutcomeOK'
  BY <1>1, <1>2, <1>4, RetryKeepsSender DEF Await
<1>6. AssemblyOK' /\ PendingOK' /\ Domains' /\ (faults \in Nat)'
  BY <1>1, <1>3 DEF AssemblyOK, PendingOK, Domains, GetNack
<1> QED BY <1>3, <1>5, <1>6, LinkInvPartsNext

LEMMA SkipControlKeeps ==
  ASSUME LinkInv, NEW e \in Node, SkipControl(e)
  PROVE  LinkInv'
<1>1. SenderOK /\ OutcomeOK /\ AssemblyOK /\ PendingOK /\ WiresOK /\ Domains /\ faults \in Nat
  BY LinkInvParts
<1>2. PICK f \in Oldest(e) :
        Await(e) /\ buf' = IF e = Device THEN [buf EXCEPT ![e] = f] ELSE buf
  BY DEF SkipControl
<1>3. WiresOK' /\ wire' = [n \in Node |-> wire'[n]] /\ GoodFrame(f)
  BY <1>1, <1>2, AwaitKeepsWires
<1>4. SenderOK'
  BY <1>1, <1>2, <1>3 DEF SenderOK, SkipControl, GoodFrame
<1>5. OutcomeOK' /\ AssemblyOK' /\ PendingOK' /\ Domains' /\ (faults \in Nat)'
  BY <1>1, <1>3 DEF OutcomeOK, WholePacket, AssemblyOK, PendingOK, Domains, SkipControl
<1> QED BY <1>3, <1>4, <1>5, LinkInvPartsNext

LEMMA SetAsideKeeps ==
  ASSUME LinkInv, NEW e \in Node, SetAside(e)
  PROVE  LinkInv'
<1>1. SenderOK /\ OutcomeOK /\ AssemblyOK /\ PendingOK /\ WiresOK /\ Domains /\ faults \in Nat
  BY LinkInvParts
<1>2. PICK f \in Oldest(e) :
        /\ Await(e)
        /\ pending' = IF pending[e] = NoFrame THEN [pending EXCEPT ![e] = f] ELSE pending
        /\ buf' = IF e = Device THEN [buf EXCEPT ![e] = f] ELSE buf
  BY DEF SetAside
<1>3. WiresOK' /\ wire' = [n \in Node |-> wire'[n]] /\ GoodFrame(f)
  BY <1>1, <1>2, AwaitKeepsWires
<1>4. SenderOK'
  BY <1>1, <1>2, <1>3 DEF SenderOK, SetAside, GoodFrame
<1>5. PendingOK' /\ pending' = [n \in Node |-> pending'[n]]
  BY <1>1, <1>2, <1>3 DEF PendingOK, Domains
<1>6. OutcomeOK' /\ AssemblyOK' /\ Domains' /\ (faults \in Nat)'
  BY <1>1, <1>3, <1>5 DEF OutcomeOK, WholePacket, AssemblyOK, Domains, SetAside
<1> QED BY <1>3, <1>4, <1>5, <1>6, LinkInvPartsNext

LEMMA AwaitUnreadableKeeps ==
  ASSUME LinkInv, NEW e \in Node, AwaitUnreadable(e)
  PROVE  LinkInv'
<1>1. SenderOK /\ OutcomeOK /\ AssemblyOK /\ PendingOK /\ WiresOK /\ Domains /\ faults \in Nat
  BY LinkInvParts
<1>2. PICK f \in Oldest(e) :
        Await(e) /\ IF e = Device THEN RetryOrFail(e, f) ELSE Raise(e)
  BY DEF AwaitUnreadable
<1>3. WiresOK' /\ wire' = [n \in Node |-> wire'[n]] /\ GoodFrame(f)
  BY <1>1, <1>2, AwaitKeepsWires
<1>4. SenderOK' /\ OutcomeOK'
  <2>1. CASE e = Device
    BY <1>1, <1>2, <1>3, <2>1, RetryKeepsSender DEF Await
  <2>2. CASE e # Device
    BY <1>1, <1>2, <2>2, RaiseKeepsSender
  <2> QED BY <2>1, <2>2
<1>5. AssemblyOK' /\ PendingOK' /\ Domains' /\ (faults \in Nat)'
  BY <1>1, <1>3 DEF AssemblyOK, PendingOK, Domains, AwaitUnreadable
<1> QED BY <1>3, <1>4, <1>5, LinkInvPartsNext

LEMMA AwaitTimeoutKeeps ==
  ASSUME LinkInv, NEW e \in Node, AwaitTimeout(e)
  PROVE  LinkInv'
<1>1. SenderOK /\ OutcomeOK /\ AssemblyOK /\ PendingOK /\ WiresOK /\ Domains /\ faults \in Nat
  BY LinkInvParts
<1>2. SenderOK' /\ OutcomeOK'
  <2>1. CASE e = Device
    <3>1. PICK left \in {Blank, buf[e]} : RetryOrFail(e, left)
      BY <2>1 DEF AwaitTimeout
    <3>2. GoodFrame(left)
      BY <1>1, BlankIsGood DEF SenderOK, GoodFrame
    <3> QED BY <1>1, <3>1, <3>2, RetryKeepsSender DEF AwaitTimeout
  <2>2. CASE e # Device
    BY <1>1, <2>2, RaiseKeepsSender DEF AwaitTimeout
  <2> QED BY <2>1, <2>2
<1>3. AssemblyOK' /\ PendingOK' /\ WiresOK' /\ Domains' /\ (faults \in Nat)'
  BY <1>1 DEF AssemblyOK, PendingOK, WiresOK, Domains, AwaitTimeout
<1> QED BY <1>2, <1>3, LinkInvPartsNext

-----------------------------------------------------------------------------
(***************************************************************************)
(* Receiving.                                                              *)
(***************************************************************************)
LEMMA LoadKeepsFrames ==
  ASSUME WiresOK, PendingOK, Domains, NEW e \in Node, NEW f \in NextFrame(e),
         NEW reply, reply = << >> \/ (\E c : GoodFrame(c) /\ reply = <<c>>),
         Load(e, reply)
  PROVE  WiresOK' /\ PendingOK' /\ Domains' /\ GoodFrame(f)
<1>1. Peer(e) \in Node /\ Peer(e) # e
  BY PeerInNode
<1>2. GoodFrame(f)
  BY WireTail DEF NextFrame, Oldest, WiresOK, PendingOK
<1>3. pending[e] = NoFrame => wire[e] # << >>
  BY DEF NextFrame, Oldest
<1>4. GoodWire(IF pending[e] # NoFrame THEN wire[e] ELSE Tail(wire[e]))
  BY <1>3, WireTail DEF WiresOK
<1>5. GoodWire(wire[Peer(e)] \o reply)
  <2>1. GoodWire(wire[Peer(e)])
    BY <1>1 DEF WiresOK
  <2>2. CASE reply = << >>
    BY <2>1, <2>2, WireNoReply
  <2>3. CASE \E c : GoodFrame(c) /\ reply = <<c>>
    BY <2>1, <2>3, WireReply
  <2> QED BY <2>2, <2>3
<1>6. \A n \in Node : wire'[n] = IF n = e
                                 THEN IF pending[e] # NoFrame THEN wire[e] ELSE Tail(wire[e])
                                 ELSE IF n = Peer(e) THEN wire[Peer(e)] \o reply
                                 ELSE wire[n]
  BY <1>1 DEF Load, Domains
<1>7. WiresOK'
  BY <1>4, <1>5, <1>6 DEF WiresOK
<1>8. PendingOK'
  BY BlankIsGood DEF PendingOK, Domains, Load
<1>9. Domains'
  BY DEF Domains, Load
<1> QED BY <1>2, <1>7, <1>8, <1>9

(* The receive call fails: its assembly is dropped.                        *)
LEMMA FailKeepsReceiver ==
  ASSUME SenderOK, OutcomeOK, AssemblyOK, NEW e \in Node,
         NEW r \in {"timeout", "failed"}, Return(e, r, << >>),
         asm' = [asm EXCEPT ![e] = EmptyAsm], UNCHANGED <<tx, buf>>
  PROVE  SenderOK' /\ OutcomeOK' /\ AssemblyOK'
<1>1. OutcomeOK'
  BY FailKeepsOutcome
<1>2. SenderOK'
  BY DEF SenderOK, Return
<1>3. AssemblyOK'
  BY EmptyAsmIsSober DEF AssemblyOK
<1> QED BY <1>1, <1>2, <1>3

(* What an assembler makes of the data frames it accepts is a gapless      *)
(* prefix, and a whole packet once complete: of the fragmenter's frames    *)
(* (TypedKeepsPrefix), and of those that were misread (MisreadKeepsPrefix).*)
LEMMA AcceptedSeq ==
  ASSUME NEW a \in Asm, Prefix(a), NEW f \in Frame, f.type = "CONSECUTIVE", Accepts(a, f)
  PROVE  /\ a.seq \in 0..MaxFrames /\ a.total \in Nat /\ a.got \in Seq(Piece)
         /\ f.seq = Len(a.got) /\ a.seq = Len(a.got)
         /\ a.got # << >> /\ a.got[1] # Misread /\ Gapless(a.got)
         /\ a.total > 1 /\ a.total >= FrameCount[a.got[1].pkt]
         /\ Untouched(a.got) => a.total = FrameCount[a.got[1].pkt]
         /\ a.got[1].pkt \in Packet /\ FrameCount[a.got[1].pkt] \in 1..MaxFrames
         /\ a.seq + 1 \in 0..MaxFrames
<1>1. /\ a.seq \in 0..MaxFrames /\ a.total \in Nat /\ a.got \in Seq(Piece)
      /\ f.seq = Len(a.got) /\ a.seq = Len(a.got)
      /\ a.got # << >> /\ a.got[1] # Misread /\ Gapless(a.got)
      /\ a.total > 1 /\ a.total >= FrameCount[a.got[1].pkt]
      /\ Untouched(a.got) => a.total = FrameCount[a.got[1].pkt]
  BY DEF Asm, Accepts, Prefix
<1>2. a.got[1].pkt \in Packet /\ FrameCount[a.got[1].pkt] \in 1..MaxFrames
  <2>1. a.got[1] \in Piece
    BY <1>1
  <2>2. a.got[1].pkt \in Packet
    BY <1>1, <2>1 DEF Piece, Chunk
  <2> QED BY <2>2, PacketAssumption
<1>3. MaxFrames \in 1..254 /\ f.seq \in 0..(MaxFrames - 1) \cup {1, 255}
  BY PacketAssumption DEF Frame, SeqNo, PROTOCOL_VERSION, SINGLE_SEQ
<1>4. f.seq = 1 => MaxFrames > 1
  <2> SUFFICES ASSUME f.seq = 1 PROVE MaxFrames > 1
    OBVIOUS
  <2>1. Untouched(a.got)
    BY <1>1 DEF Untouched
  <2> QED BY <1>1, <1>2, <1>3, <2>1
<1>5. a.seq + 1 \in 0..MaxFrames
  <2>1. a.seq = f.seq /\ a.seq \in 0..MaxFrames
    BY <1>1
  <2> QED BY <1>3, <1>4, <2>1
<1> QED BY <1>1, <1>2, <1>5

(* A piece more.                                                           *)
LEMMA AppendPiece ==
  ASSUME NEW s \in Seq(Piece), s # << >>, Gapless(s), NEW c \in Piece,
         c = Misread \/ c.idx = Len(s) + 1
  PROVE  /\ Append(s, c) \in Seq(Piece) /\ Append(s, c) # << >>
         /\ Append(s, c)[1] = s[1] /\ Len(Append(s, c)) = Len(s) + 1
         /\ Gapless(Append(s, c))
         /\ Untouched(Append(s, c)) <=> Untouched(s) /\ c # Misread
<1> DEFINE v == Append(s, c)
<1>1. /\ v \in Seq(Piece) /\ v # << >> /\ v[1] = s[1] /\ Len(v) = Len(s) + 1
      /\ v[Len(s) + 1] = c /\ \A i \in 1..Len(s) : v[i] = s[i]
  OBVIOUS
<1>2. \A i \in 1..Len(v) : i \in 1..Len(s) \/ i = Len(s) + 1
  BY <1>1
<1>3. Len(s) + 1 \in 1..Len(v) /\ \A i \in 1..Len(s) : i \in 1..Len(v)
  BY <1>1
<1> HIDE DEF v
<1>4. Gapless(v)
  BY <1>1, <1>2 DEF Gapless
<1>5. Untouched(v) <=> Untouched(s) /\ c # Misread
  BY <1>1, <1>2, <1>3 DEF Untouched
<1> QED BY <1>1, <1>4, <1>5 DEF v

LEMMA OnePiece ==
  ASSUME NEW c \in Piece, c = Misread \/ c.idx = 1
  PROVE  /\ <<c>> \in Seq(Piece) /\ <<c>> # << >> /\ Len(<<c>>) = 1 /\ <<c>>[1] = c
         /\ Gapless(<<c>>) /\ (Untouched(<<c>>) <=> c # Misread)
<1> DEFINE v == <<c>>
<1>1. v \in Seq(Piece) /\ v # << >> /\ Len(v) = 1 /\ v[1] = c
  OBVIOUS
<1> HIDE DEF v
<1>2. Gapless(v) /\ (Untouched(v) <=> c # Misread)
  BY <1>1 DEF Gapless, Untouched
<1> QED BY <1>1, <1>2 DEF v

LEMMA TypedKeepsPrefix ==
  ASSUME NEW a \in Asm, Prefix(a), NEW f, GoodFrame(f), Typed(f),
         f.type \in DataType, Accepts(a, f), NEW b \in Assemble(a, f)
  PROVE  /\ b.got \in Seq(Piece) /\ (Untouched(a.got) => Untouched(b.got))
         /\ Complete(b) => Whole(b.got)
         /\ ~Complete(b) => b \in Asm /\ Prefix(b)
<1> DEFINE chunk == [pkt |-> f.pkt, idx |-> f.idx]
<1>1. /\ f.pkt \in Packet /\ f.idx \in 1..FrameCount[f.pkt]
      /\ f = Fragment(f.pkt, f.idx)
      /\ FrameCount[f.pkt] \in 1..MaxFrames /\ MaxFrames \in Nat
  BY PacketAssumption DEF GoodFrame, Genuine, WellFormed, Accepts
<1>2. /\ f.type = IF FrameCount[f.pkt] = 1 THEN "SINGLE"
                  ELSE IF f.idx = 1 THEN "FIRST" ELSE "CONSECUTIVE"
      /\ f.seq = IF FrameCount[f.pkt] = 1 THEN SINGLE_SEQ ELSE f.idx - 1
  BY <1>1 DEF Fragment
<1>3. chunk \in Piece /\ chunk # Misread /\ chunk.pkt = f.pkt /\ chunk.idx = f.idx
  BY <1>1, PacketAssumption DEF Chunk, Piece, Misread
<1>4. CASE f.type = "SINGLE"
  <2>1. b = [seq |-> 0, total |-> 1, got |-> <<chunk>>]
    BY <1>4 DEF Assemble
  <2>2. FrameCount[f.pkt] = 1 /\ f.idx = 1
    BY <1>1, <1>2, <1>4
  <2>3. b.got = <<chunk>> /\ b.total = 1
    BY <2>1
  <2> HIDE DEF chunk
  <2> QED BY <1>3, <2>2, <2>3, OnePiece DEF Complete, Whole
<1>5. CASE f.type = "FIRST"
  <2>1. b = [seq |-> 1, total |-> FrameCount[f.pkt], got |-> <<chunk>>]
    BY <1>5 DEF Assemble
  <2>2. FrameCount[f.pkt] > 1 /\ f.idx = 1
    BY <1>1, <1>2, <1>5
  <2> HIDE DEF chunk
  <2>3. b.got = <<chunk>> /\ b.total = FrameCount[f.pkt] /\ b.seq = 1
    BY <2>1
  <2>4. /\ <<chunk>> \in Seq(Piece) /\ <<chunk>> # << >> /\ Len(<<chunk>>) = 1
        /\ <<chunk>>[1] = chunk /\ Gapless(<<chunk>>) /\ Untouched(<<chunk>>)
    BY <1>3, <2>2, OnePiece
  <2>5. b \in Asm
    <3>1. 1 \in 0..MaxFrames /\ FrameCount[f.pkt] \in Nat
      BY <1>1
    <3> QED BY <2>1, <2>4, <3>1 DEF Asm
  <2>6. Prefix(b)
    BY <1>1, <1>3, <2>2, <2>3, <2>4 DEF Prefix
  <2>7. ~Complete(b)
    BY <1>1, <2>2, <2>3, <2>4 DEF Complete
  <2> QED BY <2>3, <2>4, <2>5, <2>6, <2>7
<1>6. CASE f.type = "CONSECUTIVE"
  <2>1. b = [seq |-> a.seq + 1, total |-> a.total, got |-> Append(a.got, chunk)]
    BY <1>6 DEF Assemble, Totals
  <2>2. /\ a.seq \in 0..MaxFrames /\ a.total \in Nat /\ a.got \in Seq(Piece)
        /\ f.seq = Len(a.got) /\ a.seq = Len(a.got)
        /\ a.got # << >> /\ a.got[1] # Misread /\ Gapless(a.got)
        /\ a.total > 1 /\ a.total >= FrameCount[a.got[1].pkt]
        /\ Untouched(a.got) => a.total = FrameCount[a.got[1].pkt]
        /\ FrameCount[a.got[1].pkt] \in 1..MaxFrames
        /\ a.seq + 1 \in 0..MaxFrames
    BY <1>6, AcceptedSeq DEF GoodFrame
  <2>3. f.idx = Len(a.got) + 1
    <3>1. f.seq = f.idx - 1
      BY <1>2, <1>6
    <3> QED BY <1>1, <2>2, <3>1
  <2> HIDE DEF chunk
  <2>4. /\ b.got \in Seq(Piece) /\ b.got # << >> /\ b.got[1] = a.got[1]
        /\ Len(b.got) = Len(a.got) + 1 /\ Gapless(b.got)
        /\ Untouched(b.got) <=> Untouched(a.got)
        /\ b.seq = a.seq + 1 /\ b.total = a.total
    BY <1>3, <2>1, <2>2, <2>3, AppendPiece
  <2>5. b \in Asm
    <3>1. Append(a.got, chunk) \in Seq(Piece)
      BY <2>1, <2>4
    <3> QED BY <2>1, <2>2, <3>1 DEF Asm
  <2>6. Prefix(b)
    BY <2>2, <2>4 DEF Prefix
  <2>7. Complete(b) => Whole(b.got)
    BY <2>2, <2>4 DEF Complete, Whole
  <2> QED BY <2>4, <2>5, <2>6, <2>7
<1> QED BY <1>4, <1>5, <1>6 DEF DataType

LEMMA MisreadKeepsPrefix ==
  ASSUME NEW a \in Asm, Prefix(a), NEW f \in Frame, ~Typed(f),
         f.type \in DataType, Accepts(a, f), NEW b \in Assemble(a, f)
  PROVE  /\ b.got \in Seq(Piece)
         /\ Complete(b) => Whole(b.got)
         /\ ~Complete(b) => b \in Asm /\ Prefix(b)
<1>1. Misread \in Piece
  BY DEF Piece
<1>2. CASE f.type = "SINGLE"
  <2>1. b = [seq |-> 0, total |-> 1, got |-> <<Misread>>]
    BY <1>2 DEF Assemble
  <2> QED BY <1>1, <2>1, OnePiece DEF Complete, Whole
<1>3. CASE f.type = "FIRST"
  BY <1>3 DEF Accepts
<1>4. CASE f.type = "CONSECUTIVE"
  <2>1. PICK n \in {a.total, a.total + 1} :
          b = [seq |-> a.seq + 1, total |-> n, got |-> Append(a.got, Misread)]
    BY <1>4 DEF Assemble, Totals
  <2>2. /\ a.seq \in 0..MaxFrames /\ a.total \in Nat /\ a.got \in Seq(Piece)
        /\ a.seq = Len(a.got)
        /\ a.got # << >> /\ a.got[1] # Misread /\ Gapless(a.got)
        /\ a.total > 1 /\ a.total >= FrameCount[a.got[1].pkt]
        /\ FrameCount[a.got[1].pkt] \in 1..MaxFrames
        /\ a.seq + 1 \in 0..MaxFrames
    BY <1>4, AcceptedSeq
  <2>3. MaxFrames \in Nat
    BY PacketAssumption
  <2>4. /\ b.got \in Seq(Piece) /\ b.got # << >> /\ b.got[1] = a.got[1]
        /\ Len(b.got) = Len(a.got) + 1 /\ Gapless(b.got)
        /\ ~Untouched(b.got)
        /\ b.seq = a.seq + 1 /\ b.total = n
    BY <1>1, <2>1, <2>2, AppendPiece
  <2>5. b \in Asm
    <3>1. Append(a.got, Misread) \in Seq(Piece) /\ n \in Nat
      BY <2>1, <2>2, <2>4
    <3> QED BY <2>1, <2>2, <3>1 DEF Asm
  <2>6. Prefix(b)
    BY <2>1, <2>2, <2>3, <2>4 DEF Prefix
  <2>7. Complete(b) => Whole(b.got)
    <3>1. FrameCount[a.got[1].pkt] <= n
      BY <2>1, <2>2, <2>3
    <3> QED BY <2>2, <2>4, <3>1 DEF Complete, Whole
  <2> QED BY <2>4, <2>5, <2>6, <2>7
<1> QED BY <1>2, <1>3, <1>4 DEF DataType

LEMMA AssembleKeepsPrefix ==
  ASSUME NEW a \in Asm, Sober(a), NEW f, GoodFrame(f),
         f.type \in DataType, Accepts(a, f), NEW b \in Assemble(a, f)
  PROVE  /\ b.got \in Seq(Piece) /\ (TypeFaults = {} => Untouched(b.got))
         /\ Complete(b) => Whole(b.got)
         /\ ~Complete(b) => b \in Asm /\ Sober(b)
<1>1. CASE Typed(f)
  BY <1>1, TypedKeepsPrefix DEF Sober
<1>2. CASE ~Typed(f)
  <2>1. TypeFaults # {}
    BY <1>2 DEF GoodFrame, Genuine
  <2> QED BY <1>2, <2>1, MisreadKeepsPrefix DEF Sober, GoodFrame
<1> QED BY <1>1, <1>2

LEMMA ReceiveControlKeeps ==
  ASSUME LinkInv, NEW e \in Node, ReceiveControl(e)
  PROVE  LinkInv'
<1>1. SenderOK /\ OutcomeOK /\ AssemblyOK /\ PendingOK /\ WiresOK /\ Domains /\ faults \in Nat
  BY LinkInvParts
<1>2. PICK f \in NextFrame(e) : Load(e, << >>)
  BY DEF ReceiveControl
<1>3. WiresOK' /\ PendingOK' /\ Domains'
  BY <1>1, <1>2, LoadKeepsFrames
<1>4. SenderOK' /\ OutcomeOK' /\ AssemblyOK' /\ (faults \in Nat)'
  BY <1>1 DEF SenderOK, OutcomeOK, WholePacket, AssemblyOK, ReceiveControl
<1> QED BY <1>3, <1>4, LinkInvPartsNext

LEMMA ReceiveUndecodableKeeps ==
  ASSUME LinkInv, NEW e \in Node, ReceiveUndecodable(e)
  PROVE  LinkInv'
<1>1. SenderOK /\ OutcomeOK /\ AssemblyOK /\ PendingOK /\ WiresOK /\ Domains /\ faults \in Nat
  BY LinkInvParts
<1>2. PICK f \in NextFrame(e) : Load(e, << >>)
  BY DEF ReceiveUndecodable
<1>3. WiresOK' /\ PendingOK' /\ Domains'
  BY <1>1, <1>2, LoadKeepsFrames
<1>4. SenderOK' /\ OutcomeOK' /\ AssemblyOK' /\ (faults \in Nat)'
  BY <1>1, FailKeepsReceiver DEF ReceiveUndecodable
<1> QED BY <1>3, <1>4, LinkInvPartsNext

(* The replies to a data frame are control frames.                         *)
LEMMA ReplyIsGood ==
  ASSUME NEW t \in ControlType, NEW f \in Frame, NEW lost \in BOOLEAN,
         NEW reply, reply = IF lost THEN << >> ELSE <<Control(t, f.seq)>>
  PROVE  reply = << >> \/ (\E c : GoodFrame(c) /\ reply = <<c>>)
<1>1. GoodFrame(Control(t, f.seq))
  BY ControlIsGood DEF Frame
<1> QED BY <1>1

(* The next frame is good before it is consumed.                           *)
LEMMA NextFrameIsGood ==
  ASSUME WiresOK, PendingOK, NEW e \in Node, NEW f \in NextFrame(e)
  PROVE  GoodFrame(f)
BY WireTail DEF NextFrame, Oldest, WiresOK, PendingOK

LEMMA ReceiveDuplicateKeeps ==
  ASSUME LinkInv, NEW e \in Node, ReceiveDuplicate(e)
  PROVE  LinkInv'
<1>1. SenderOK /\ OutcomeOK /\ AssemblyOK /\ PendingOK /\ WiresOK /\ Domains /\ faults \in Nat
  BY LinkInvParts
<1>2. PICK f \in NextFrame(e), lost \in BOOLEAN :
        /\ Load(e, IF lost THEN << >> ELSE <<Control("ACK", f.seq)>>)
        /\ Spend(lost)
        /\ IF lost /\ e = PC
           THEN Return(e, "failed", << >>) /\ asm' = [asm EXCEPT ![e] = EmptyAsm]
           ELSE UNCHANGED <<op, res, inbox, asm>>
        /\ UNCHANGED <<tx, buf>>
  BY DEF ReceiveDuplicate
<1>3. WiresOK' /\ PendingOK' /\ Domains'
  <2> DEFINE reply == IF lost THEN << >> ELSE <<Control("ACK", f.seq)>>
  <2>1. reply = << >> \/ (\E c : GoodFrame(c) /\ reply = <<c>>)
    BY <1>1, NextFrameIsGood, ReplyIsGood DEF GoodFrame, ControlType
  <2>2. Load(e, reply)
    BY <1>2
  <2> HIDE DEF reply
  <2> QED BY <1>1, <2>1, <2>2, LoadKeepsFrames
<1>4. SenderOK' /\ OutcomeOK' /\ AssemblyOK'
  <2>1. CASE lost /\ e = PC
    BY <1>1, <1>2, <2>1, FailKeepsReceiver
  <2>2. CASE ~(lost /\ e = PC)
    BY <1>1, <1>2, <2>2 DEF SenderOK, OutcomeOK, WholePacket, AssemblyOK
  <2> QED BY <2>1, <2>2
<1>5. (faults \in Nat)'
  BY <1>1, <1>2 DEF Spend
<1> QED BY <1>3, <1>4, <1>5, LinkInvPartsNext

LEMMA ReceiveRejectedKeeps ==
  ASSUME LinkInv, NEW e \in Node, ReceiveRejected(e)
  PROVE  LinkInv'
<1>1. SenderOK /\ OutcomeOK /\ AssemblyOK /\ PendingOK /\ WiresOK /\ Domains /\ faults \in Nat
  BY LinkInvParts
<1>2. PICK f \in NextFrame(e) : Load(e, <<Control("NACK", f.seq)>>)
  BY DEF ReceiveRejected
<1>3. WiresOK' /\ PendingOK' /\ Domains'
  <2>1. GoodFrame(Control("NACK", f.seq))
    BY <1>1, NextFrameIsGood, ControlIsGood DEF GoodFrame, Frame, ControlType
  <2> QED BY <1>1, <1>2, <2>1, LoadKeepsFrames
<1>4. SenderOK' /\ OutcomeOK' /\ AssemblyOK' /\ (faults \in Nat)'
  BY <1>1, FailKeepsReceiver DEF ReceiveRejected
<1> QED BY <1>3, <1>4, LinkInvPartsNext

LEMMA ReceiveAcceptedKeeps ==
  ASSUME LinkInv, NEW e \in Node, ReceiveAccepted(e)
  PROVE  LinkInv'
<1>1. SenderOK /\ OutcomeOK /\ AssemblyOK /\ PendingOK /\ WiresOK /\ Domains /\ faults \in Nat
  BY LinkInvParts
<1>2. PICK f \in NextFrame(e), lost \in BOOLEAN :
        /\ Load(e, IF lost THEN << >> ELSE <<Control("ACK", f.seq)>>)
        /\ f.type \in DataType /\ Accepts(asm[e], f)
        /\ Spend(lost)
        /\ \E b \in Assemble(asm[e], f) :
             \/ /\ lost
                /\ Return(e, "failed", << >>)
                /\ asm' = [asm EXCEPT ![e] = EmptyAsm]
             \/ /\ ~lost /\ Complete(b)
                /\ Return(e, "received", b.got)
                /\ asm' = [asm EXCEPT ![e] = EmptyAsm]
             \/ /\ ~lost /\ ~Complete(b)
                /\ asm' = [asm EXCEPT ![e] = b]
                /\ UNCHANGED <<op, res, inbox>>
        /\ UNCHANGED <<tx, buf>>
  BY DEF ReceiveAccepted
<1>3. GoodFrame(f)
  BY <1>1, NextFrameIsGood
<1>4. WiresOK' /\ PendingOK' /\ Domains'
  <2> DEFINE reply == IF lost THEN << >> ELSE <<Control("ACK", f.seq)>>
  <2>1. reply = << >> \/ (\E c : GoodFrame(c) /\ reply = <<c>>)
    BY <1>3, ReplyIsGood DEF GoodFrame, ControlType
  <2>2. Load(e, reply)
    BY <1>2
  <2> HIDE DEF reply
  <2> QED BY <1>1, <2>1, <2>2, LoadKeepsFrames
<1>5. PICK b \in Assemble(asm[e], f) :
        \/ /\ lost
           /\ Return(e, "failed", << >>)
           /\ asm' = [asm EXCEPT ![e] = EmptyAsm]
        \/ /\ ~lost /\ Complete(b)
           /\ Return(e, "received", b.got)
           /\ asm' = [asm EXCEPT ![e] = EmptyAsm]
        \/ /\ ~lost /\ ~Complete(b)
           /\ asm' = [asm EXCEPT ![e] = b]
           /\ UNCHANGED <<op, res, inbox>>
  BY <1>2
<1>6. /\ b.got \in Seq(Piece) /\ (TypeFaults = {} => Untouched(b.got))
      /\ Complete(b) => Whole(b.got)
      /\ ~Complete(b) => b \in Asm /\ Sober(b)
  <2>1. asm[e] \in Asm /\ Sober(asm[e])
    BY <1>1 DEF AssemblyOK
  <2> QED BY <1>2, <1>3, <2>1, AssembleKeepsPrefix
<1>7. SenderOK' /\ OutcomeOK' /\ AssemblyOK'
  <2>1. CASE lost
    BY <1>1, <1>2, <1>5, <2>1, FailKeepsReceiver
  <2>2. CASE ~lost /\ Complete(b)
    <3>1. /\ Return(e, "received", b.got)
          /\ asm' = [asm EXCEPT ![e] = EmptyAsm]
      BY <1>5, <2>2
    <3>3. OutcomeOK'
      BY <1>1, <1>6, <2>2, <3>1, ReturnKeepsOutcome
    <3>4. SenderOK'
      BY <1>1, <1>2, <3>1 DEF SenderOK, Return
    <3>5. AssemblyOK'
      BY <1>1, <3>1, EmptyAsmIsSober DEF AssemblyOK
    <3> QED BY <3>3, <3>4, <3>5
  <2>3. CASE ~lost /\ ~Complete(b)
    <3>1. asm' = [asm EXCEPT ![e] = b] /\ UNCHANGED <<op, tx, buf, res, inbox>>
      BY <1>2, <1>5, <2>3
    <3>2. AssemblyOK'
      BY <1>1, <1>6, <2>3, <3>1 DEF AssemblyOK
    <3>3. SenderOK' /\ OutcomeOK'
      BY <1>1, <3>1 DEF SenderOK, OutcomeOK, WholePacket
    <3> QED BY <3>2, <3>3
  <2> QED BY <2>1, <2>2, <2>3
<1>8. (faults \in Nat)'
  BY <1>1, <1>2 DEF Spend
<1> QED BY <1>4, <1>7, <1>8, LinkInvPartsNext

LEMMA ReceiveTimeoutKeeps ==
  ASSUME LinkInv, NEW e \in Node, ReceiveTimeout(e)
  PROVE  LinkInv'
<1>1. SenderOK /\ OutcomeOK /\ AssemblyOK /\ PendingOK /\ WiresOK /\ Domains /\ faults \in Nat
  BY LinkInvParts
<1>2. SenderOK' /\ OutcomeOK' /\ AssemblyOK'
  BY <1>1, FailKeepsReceiver DEF ReceiveTimeout
<1>3. PendingOK' /\ WiresOK' /\ Domains' /\ (faults \in Nat)'
  BY <1>1 DEF PendingOK, WiresOK, Domains, ReceiveTimeout
<1> QED BY <1>2, <1>3, LinkInvPartsNext

-----------------------------------------------------------------------------
(***************************************************************************)
(* The UART's faults.                                                      *)
(***************************************************************************)
LEMMA FaultKeeps ==
  ASSUME LinkInv, Fault
  PROVE  LinkInv'
<1>1. SenderOK /\ OutcomeOK /\ AssemblyOK /\ PendingOK /\ WiresOK /\ Domains /\ faults \in Nat
  BY LinkInvParts
<1>2. PICK e \in Node : Lose(e) \/ Damage(e)
  BY DEF Fault
<1>3. UNCHANGED <<op, tx, buf, asm, pending, res, inbox>> /\ (faults \in Nat)'
  <2>1. CASE Lose(e)
    BY <1>1, <2>1 DEF Lose, Spend
  <2>2. CASE Damage(e)
    BY <1>1, <2>2 DEF Damage, Spend
  <2> QED BY <1>2, <2>1, <2>2
<1>4. SenderOK' /\ OutcomeOK' /\ AssemblyOK' /\ PendingOK'
  BY <1>1, <1>3 DEF SenderOK, OutcomeOK, WholePacket, AssemblyOK, PendingOK
<1>5. WiresOK' /\ wire' = [n \in Node |-> wire'[n]]
  <2>1. CASE Lose(e)
    BY <1>1, <2>1, WireTail DEF WiresOK, Domains, Lose
  <2>2. CASE Damage(e)
    <3>1. PICK f \in Oldest(e) :
            \E g \in PayloadDamaged(f) \cup (IF Typed(f) THEN TypeDamaged(f) ELSE {}) :
              wire' = [wire EXCEPT ![e] = <<g>> \o Tail(@)]
      BY <2>2 DEF Damage
    <3>2. wire[e] # << >> /\ GoodWire(wire[e]) /\ GoodFrame(f)
      BY <1>1, WireTail DEF Oldest, WiresOK
    <3>3. PICK g : GoodFrame(g) /\ wire' = [wire EXCEPT ![e] = <<g>> \o Tail(@)]
      BY <3>1, <3>2, DamagedIsGood
    <3>4. GoodWire(<<g>> \o Tail(wire[e]))
      BY <3>2, <3>3, WirePut
    <3> QED BY <1>1, <3>3, <3>4 DEF WiresOK, Domains
  <2> QED BY <1>2, <2>1, <2>2
<1>6. Domains'
  BY <1>1, <1>3, <1>5 DEF Domains
<1> QED BY <1>3, <1>4, <1>5, <1>6, LinkInvPartsNext

-----------------------------------------------------------------------------
LEMMA InitLinkInv == Init => LinkInv
<1> SUFFICES ASSUME Init PROVE LinkInv
  OBVIOUS
<1>1. SenderOK
  <2>1. NoTx \in [pkt : Packet \cup {NoPacket}, idx : 1..MaxFrames,
                 tries : 0..(MaxTries - 1)]
    BY PacketAssumption, BoundsAssumption DEF NoTx
  <2> QED BY <2>1, BlankIsGood DEF Init, SenderOK, GoodFrame
<1>2. OutcomeOK
  BY NothingIsUntouched DEF Init, OutcomeOK, WholePacket
<1>3. AssemblyOK
  BY EmptyAsmIsSober DEF Init, AssemblyOK
<1>4. PendingOK /\ WiresOK /\ Domains /\ faults \in Nat
  BY BlankIsGood DEF Init, PendingOK, WiresOK, GoodWire, Domains
<1> QED BY <1>1, <1>2, <1>3, <1>4, LinkInvParts

LEMMA StepLinkInv == LinkInv /\ [Next]_vars => LinkInv'
<1> SUFFICES ASSUME LinkInv, [Next]_vars PROVE LinkInv'
  OBVIOUS
<1>1. CASE Fault
  BY <1>1, FaultKeeps
<1>2. ASSUME NEW e \in Node, Call(e) PROVE LinkInv'
  BY <1>2, CallSendKeeps, CallReceiveKeeps DEF Call
<1>3. ASSUME NEW e \in Node, Send(e) PROVE LinkInv'
  BY <1>3, WriteFrameKeeps, WriteFailsKeeps, GetAckKeeps, GetNackKeeps,
     SkipControlKeeps, SetAsideKeeps, AwaitUnreadableKeeps DEF Send
<1>4. ASSUME NEW e \in Node, Receive(e) PROVE LinkInv'
  BY <1>4, ReceiveControlKeeps, ReceiveUndecodableKeeps, ReceiveDuplicateKeeps,
     ReceiveRejectedKeeps, ReceiveAcceptedKeeps DEF Receive
<1>5. ASSUME NEW e \in Node, Timeout(e) PROVE LinkInv'
  BY <1>5, AwaitTimeoutKeeps, ReceiveTimeoutKeeps DEF Timeout
<1>6. CASE UNCHANGED vars
  BY <1>6 DEF vars, LinkInv, TypeOK, FramesWellFormed, WholePacket, TypesKept
<1> QED BY <1>1, <1>2, <1>3, <1>4, <1>5, <1>6 DEF Next

(* The strengthening holds in every reachable state of the link, for every *)
(* packet set, fragment count and bound and whatever the UART makes of     *)
(* payloads and types: data frames that kept their type and pass the CRC   *)
(* are the fragmenter's, every assembly in progress is a gapless prefix,   *)
(* and where types are left alone nothing is ever misread.                 *)
THEOREM LinkInvariant == Spec => []LinkInv
BY InitLinkInv, StepLinkInv, PTL DEF Spec

(* Every variable of the link keeps its type; in particular a sender never *)
(* counts MaxTries tries nor walks past the packet's last fragment.        *)
THEOREM TypeCorrect == Spec => []TypeOK
<1>1. LinkInv => TypeOK
  BY DEF LinkInv
<1> QED BY <1>1, LinkInvariant, PTL

(* A receive call that succeeds (receive_one_packet, receive_packet)       *)
(* returned consecutive fragments from the first on, as many as announced, *)
(* whatever was lost, damaged, repeated or left over on the UART; a frame  *)
(* whose type was damaged, which neither program notices, counts as one of *)
(* them or makes up the packet by itself.                                  *)
THEOREM WholePackets == Spec => []WholePacket
<1>1. LinkInv => WholePacket
  BY DEF LinkInv
<1> QED BY <1>1, LinkInvariant, PTL

-----------------------------------------------------------------------------
(***************************************************************************)
(* Fragments in order.  On its way from the PC to the device no undamaged  *)
(* fragment overtakes another or comes back: whatever the retries, losses  *)
(* and stale frames, what the device can still assemble follows what it    *)
(* assembled.  Packets are ranked by K as their users send them.           *)
(***************************************************************************)

(* The fragments that can still be assembled, ranked: K gives each packet  *)
(* the rank of its fragment 0.                                             *)
Live(f) == f.ok /\ f.type \in {"FIRST", "CONSECUTIVE"}
Rank(K, x) == K[x.pkt] + x.idx

(* What the PC is still to send of a packet of several fragments.          *)
Sender == IF Sending(PC) /\ FrameCount[tx[PC].pkt] > 1 THEN {tx[PC]} ELSE {}

(* In a frame set aside, a wire and what is to be sent, ranks start at k   *)
(* and never fall.                                                         *)
Rising(K, k, p, w, now) ==
  /\ Live(p) => k <= Rank(K, p)
  /\ \A i \in 1..Len(w) : Live(w[i]) =>
       /\ k <= Rank(K, w[i])
       /\ Live(p) => Rank(K, p) <= Rank(K, w[i])
       /\ \A j \in 1..Len(w) : i < j /\ Live(w[j]) => Rank(K, w[i]) <= Rank(K, w[j])
  /\ \A t \in now :
       /\ k <= Rank(K, t)
       /\ Live(p) => Rank(K, p) <= Rank(K, t)
       /\ \A i \in 1..Len(w) : Live(w[i]) => Rank(K, w[i]) <= Rank(K, t)

Ahead(K, k) == Rising(K, k, pending[Device], wire[Device], Sender)

From(K, k) ==
  /\ Ahead(K, k)
  /\ \A i \in 1..Len(asm[Device].got) :
       FrameCount[asm[Device].got[i].pkt] > 1 /\ k <= Rank(K, asm[Device].got[i])

HeadFirst(K) ==
  asm[Device].got # << >> => From(K, Rank(K, asm[Device].got[1]))

PcHolds == Sending(PC) => buf[PC] = Fragment(tx[PC].pkt, tx[PC].idx)

-----------------------------------------------------------------------------
LEMMA RisingTail ==
  ASSUME NEW K, NEW k, NEW p, NEW w \in Seq(Frame), w # << >>, NEW now,
         Rising(K, k, p, w, now)
  PROVE  Rising(K, k, p, Tail(w), now)
<1>1. /\ Len(Tail(w)) = Len(w) - 1
      /\ \A i \in 1..Len(Tail(w)) : i + 1 \in 1..Len(w) /\ Tail(w)[i] = w[i + 1]
  OBVIOUS
<1> HIDE DEF Rank, Live
<1> DEFINE v == Tail(w)
<1>2. \A i, j \in 1..Len(v) : i < j => i + 1 < j + 1
  OBVIOUS
<1>3. \A i \in 1..Len(v) : i + 1 \in 1..Len(w) /\ v[i] = w[i + 1]
  BY <1>1
<1> HIDE DEF v
<1> QED BY <1>2, <1>3 DEF Rising, v

LEMMA RisingDrop ==
  ASSUME NEW K, NEW k, NEW p, NEW q, ~Live(q), NEW w, NEW now,
         Rising(K, k, p, w, now)
  PROVE  Rising(K, k, q, w, now)
BY DEF Rising

(* The frame set aside is consumed.                                        *)
LEMMA RisingAside ==
  ASSUME NEW K, NEW k, NEW p, Live(p), NEW q, ~Live(q), NEW w, NEW now,
         Rising(K, k, p, w, now)
  PROVE  k <= Rank(K, p) /\ Rising(K, Rank(K, p), q, w, now)
BY DEF Rising

(* The oldest frame is set aside.                                          *)
LEMMA RisingSetAside ==
  ASSUME NEW K, NEW k, NEW p, ~Live(p), NEW w \in Seq(Frame), w # << >>, NEW now,
         Rising(K, k, p, w, now)
  PROVE  Rising(K, k, Head(w), Tail(w), now)
<1>1. Head(w) = w[1] /\ 1 \in 1..Len(w)
  OBVIOUS
<1> DEFINE v == Tail(w)
<1>2. \A i \in 1..Len(v) : i + 1 \in 1..Len(w) /\ v[i] = w[i + 1] /\ 1 < i + 1
  OBVIOUS
<1>3. Rising(K, k, p, v, now)
  BY RisingTail
<1> HIDE DEF v
<1> QED BY <1>1, <1>2, <1>3 DEF Rising

LEMMA RisingHead ==
  ASSUME NEW K, NEW k, NEW p, ~Live(p), NEW w \in Seq(Frame), w # << >>, NEW now,
         Live(Head(w)), Rising(K, k, p, w, now)
  PROVE  k <= Rank(K, Head(w)) /\ Rising(K, Rank(K, Head(w)), p, Tail(w), now)
BY RisingSetAside, RisingAside

(* A frame that cannot be assembled arrives.                               *)
LEMMA RisingReply ==
  ASSUME NEW K, NEW k, NEW p, NEW w \in Seq(Frame), NEW now, NEW f \in Frame, ~Live(f),
         Rising(K, k, p, w, now)
  PROVE  Rising(K, k, p, Append(w, f), now)
<1> DEFINE v == Append(w, f)
<1>1. Len(v) = Len(w) + 1 /\ v[Len(w) + 1] = f /\ \A i \in 1..Len(w) : v[i] = w[i]
  OBVIOUS
<1>2. \A i \in 1..Len(v) : Live(v[i]) => i \in 1..Len(w) /\ v[i] = w[i]
  BY <1>1
<1> HIDE DEF v
<1> QED BY <1>2 DEF Rising, v

(* The sender's fragment arrives.                                          *)
LEMMA RisingWrite ==
  ASSUME NEW K, NEW k, NEW p, NEW w \in Seq(Frame), NEW t, NEW f \in Frame,
         Rank(K, f) = Rank(K, t), Rank(K, t) \in Int, Rising(K, k, p, w, {t})
  PROVE  Rising(K, k, p, Append(w, f), {t})
<1> DEFINE v == Append(w, f)
<1>1. Len(v) = Len(w) + 1 /\ v[Len(w) + 1] = f /\ \A i \in 1..Len(w) : v[i] = w[i]
  OBVIOUS
<1>2. \A i \in 1..Len(v) : \/ i \in 1..Len(w) /\ v[i] = w[i]
                           \/ i = Len(w) + 1 /\ v[i] = f
  BY <1>1
<1>3. Rank(K, t) <= Rank(K, t)
  OBVIOUS
<1> HIDE DEF v
<1> QED BY <1>2, <1>3 DEF Rising, v

(* The sender goes on, or stops.                                           *)
LEMMA RisingSender ==
  ASSUME NEW K, NEW k \in Int, NEW p, NEW w, NEW now, NEW next,
         Live(p) => Rank(K, p) \in Int,
         \A i \in 1..Len(w) : Live(w[i]) => Rank(K, w[i]) \in Int,
         \A t \in next : \E s \in now :
            Rank(K, s) \in Int /\ Rank(K, t) \in Int /\ Rank(K, s) <= Rank(K, t),
         Rising(K, k, p, w, now)
  PROVE  Rising(K, k, p, w, next)
<1>1. ASSUME NEW t \in next
      PROVE  /\ k <= Rank(K, t)
             /\ Live(p) => Rank(K, p) <= Rank(K, t)
             /\ \A i \in 1..Len(w) : Live(w[i]) => Rank(K, w[i]) <= Rank(K, t)
  <2>1. PICK s \in now :
          Rank(K, s) \in Int /\ Rank(K, t) \in Int /\ Rank(K, s) <= Rank(K, t)
    OBVIOUS
  <2>2. /\ k <= Rank(K, s)
        /\ Live(p) => Rank(K, p) <= Rank(K, s)
        /\ \A i \in 1..Len(w) : Live(w[i]) => Rank(K, w[i]) <= Rank(K, s)
    BY DEF Rising
  <2> QED BY <2>1, <2>2
<1> QED BY <1>1 DEF Rising

(* The oldest frame is damaged.                                            *)
LEMMA RisingDamage ==
  ASSUME NEW K, NEW k, NEW p, NEW w \in Seq(Frame), w # << >>, NEW now,
         NEW f \in Frame, ~Live(f), Rising(K, k, p, w, now)
  PROVE  Rising(K, k, p, <<f>> \o Tail(w), now)
<1> DEFINE v == <<f>> \o Tail(w)
<1>1. Len(v) = Len(w) /\ v[1] = f /\ \A i \in 2..Len(w) : v[i] = w[i]
  OBVIOUS
<1>2. \A i \in 1..Len(v) : Live(v[i]) => i \in 1..Len(w) /\ v[i] = w[i]
  BY <1>1
<1> HIDE DEF v
<1> QED BY <1>1, <1>2 DEF Rising

LEMMA RisingFrom ==
  ASSUME NEW K, NEW k \in Int, NEW l \in Int, l <= k, NEW p, NEW w, NEW now,
         Live(p) => Rank(K, p) \in Int,
         \A i \in 1..Len(w) : Live(w[i]) => Rank(K, w[i]) \in Int,
         \A t \in now : Rank(K, t) \in Int,
         Rising(K, k, p, w, now)
  PROVE  Rising(K, l, p, w, now)
BY DEF Rising

(* Where types are left alone every piece is a chunk and an assembly is of *)
(* the length its first one announced.                                     *)
LEMMA IntactLink ==
  ASSUME TypeFaults = {}, LinkInv, NEW e \in Node
  PROVE  /\ asm[e].got \in Seq(Chunk) /\ inbox[e] \in Seq(Chunk)
         /\ asm[e].got # << >> => asm[e].total = FrameCount[asm[e].got[1].pkt]
         /\ res[e] = "received" => Len(inbox[e]) = FrameCount[inbox[e][1].pkt]
<1>1. /\ asm[e] \in Asm /\ Prefix(asm[e]) /\ Untouched(asm[e].got)
      /\ inbox[e] \in Seq(Piece) /\ Untouched(inbox[e])
      /\ res[e] = "received" => Whole(inbox[e])
  BY LinkInvParts DEF AssemblyOK, Sober, OutcomeOK, WholePacket
<1>2. ASSUME NEW m \in Seq(Piece), Untouched(m)
      PROVE  m \in Seq(Chunk)
  <2>1. \A i \in 1..Len(m) : m[i] \in Chunk
    BY <1>2 DEF Untouched, Piece
  <2> QED BY <1>2, <2>1
<1>3. asm[e].got \in Seq(Chunk) /\ inbox[e] \in Seq(Chunk)
  BY <1>1, <1>2 DEF Asm
<1>4. asm[e].got # << >> => asm[e].total = FrameCount[asm[e].got[1].pkt]
  BY <1>1 DEF Prefix
<1>5. ASSUME res[e] = "received" PROVE Len(inbox[e]) = FrameCount[inbox[e][1].pkt]
  <2>1. Whole(inbox[e])
    BY <1>1, <1>5
  <2>2. 1 \in 1..Len(inbox[e])
    BY <1>1, <2>1 DEF Whole
  <2>3. inbox[e][1] # Misread
    BY <1>1, <2>2 DEF Untouched
  <2> QED BY <1>1, <2>1, <2>3 DEF Whole
<1> QED BY <1>3, <1>4, <1>5

LEMMA LiveRank ==
  ASSUME TypeFaults = {}, NEW K \in [Packet -> Nat], NEW f, GoodFrame(f), Live(f)
  PROVE  /\ f.pkt \in Packet /\ FrameCount[f.pkt] > 1 /\ f.idx \in 1..FrameCount[f.pkt]
         /\ Rank(K, f) \in Int
         /\ f = Fragment(f.pkt, f.idx)
<1>1. f.pkt \in Packet /\ f.idx \in 1..FrameCount[f.pkt] /\ f = Fragment(f.pkt, f.idx)
  BY DEF GoodFrame, Genuine, WellFormed, Live, DataType
<1>2. FrameCount[f.pkt] \in 1..MaxFrames
  BY <1>1, PacketAssumption
<1>3. FrameCount[f.pkt] > 1
  BY <1>1, <1>2 DEF Fragment, Live
<1>4. K[f.pkt] \in Nat /\ f.idx \in Int
  BY <1>1
<1> QED BY <1>1, <1>3, <1>4 DEF Rank

LEMMA RanksAreInts ==
  ASSUME TypeFaults = {}, NEW K \in [Packet -> Nat], LinkInv
  PROVE  /\ Live(pending[Device]) => Rank(K, pending[Device]) \in Int
         /\ \A i \in 1..Len(wire[Device]) :
              Live(wire[Device][i]) => Rank(K, wire[Device][i]) \in Int
         /\ \A t \in Sender : t = tx[PC] /\ Rank(K, t) \in Int
         /\ \A i \in 1..Len(asm[Device].got) : Rank(K, asm[Device].got[i]) \in Int
<1>1. SenderOK /\ AssemblyOK /\ PendingOK /\ WiresOK /\ Device \in Node /\ PC \in Node
  BY LinkInvParts DEF Node
<1>2. GoodFrame(pending[Device]) /\ GoodWire(wire[Device])
  BY <1>1 DEF PendingOK, WiresOK
<1>3. \A i \in 1..Len(wire[Device]) : GoodFrame(wire[Device][i])
  BY <1>2 DEF GoodWire, GoodFrame
<1>4. Sending(PC) => /\ tx[PC].pkt \in Packet /\ K[tx[PC].pkt] \in Nat
                     /\ tx[PC].idx \in Int
  BY <1>1 DEF SenderOK, Sending
<1>5. \A t \in Sender : t = tx[PC] /\ Rank(K, t) \in Int
  BY <1>4 DEF Sender, Rank
<1>6. asm[Device].got \in Seq(Chunk)
  BY <1>1, IntactLink
<1>7. \A i \in 1..Len(asm[Device].got) :
        asm[Device].got[i].pkt \in Packet /\ asm[Device].got[i].idx \in 1..MaxFrames
  <2>1. \A i \in 1..Len(asm[Device].got) : asm[Device].got[i] \in Chunk
    BY <1>6
  <2> QED BY <2>1 DEF Chunk
<1>8. \A i \in 1..Len(asm[Device].got) : Rank(K, asm[Device].got[i]) \in Int
  BY <1>7 DEF Rank
<1> QED BY <1>2, <1>3, <1>5, <1>8, LiveRank

(* The PC writes and waits.                                                *)
LEMMA SenderMoves ==
  ASSUME TypeFaults = {}, NEW K \in [Packet -> Nat], NEW k \in Int, LinkInv, LinkInv', Ahead(K, k),
         UNCHANGED <<pending[Device], wire[Device]>>,
         Sender' # {} => /\ Sending(PC) /\ tx'[PC].pkt = tx[PC].pkt
                         /\ tx'[PC].idx \in {tx[PC].idx, tx[PC].idx + 1}
  PROVE  Ahead(K, k)'
<1>1. \A t \in Sender' : \E s \in Sender :
        Rank(K, s) \in Int /\ Rank(K, t) \in Int /\ Rank(K, s) <= Rank(K, t)
  <2> SUFFICES ASSUME Sender' # {}
               PROVE  /\ Sender' = {tx'[PC]} /\ Sender = {tx[PC]}
                      /\ Rank(K, tx[PC]) \in Int /\ Rank(K, tx'[PC]) \in Int
                      /\ Rank(K, tx[PC]) <= Rank(K, tx'[PC])
    BY Zenon
  <2>1. Sender' = {tx'[PC]} /\ Sender = {tx[PC]}
    BY DEF Sender
  <2>2. SenderOK /\ SenderOK' /\ PC \in Node
    BY LinkInvParts, LinkInvPartsNext DEF Node
  <2>3. tx[PC].pkt \in Packet /\ K[tx[PC].pkt] \in Nat /\ tx[PC].idx \in Int
    BY <2>2 DEF SenderOK, Sending
  <2> QED BY <2>1, <2>3 DEF Rank
<1>2. Rising(K, k, pending[Device], wire[Device], Sender')
  BY <1>1, RanksAreInts, RisingSender DEF Ahead
<1> QED BY <1>2 DEF Ahead

LEMMA PcSendAhead ==
  ASSUME TypeFaults = {}, NEW K \in [Packet -> Nat], NEW k \in Int,
         LinkInv, LinkInv', PcHolds, Ahead(K, k),
         Send(PC) \/ AwaitTimeout(PC)
  PROVE  Ahead(K, k)' /\ PcHolds'
<1>1. SenderOK /\ SenderOK' /\ WiresOK /\ Domains /\ PC \in Node /\ Device \in Node
  BY LinkInvParts, LinkInvPartsNext DEF Node
<1>2. Peer(PC) = Device /\ Device # PC
  BY NodesDiffer DEF Peer
<1>3. CASE WriteFrame(PC)
  <2>1. /\ wire'[Device] = Append(wire[Device], buf[PC])
        /\ tx' = tx /\ pending' = pending /\ buf' = buf
        /\ Sending(PC) /\ Sending(PC)'
    BY <1>1, <1>2, <1>3 DEF WriteFrame, Domains, Sending, SenderOK
  <2>2. Sender' = Sender
    BY <2>1 DEF Sender
  <2>3. buf[PC] = Fragment(tx[PC].pkt, tx[PC].idx) /\ buf[PC] \in Frame
        /\ wire[Device] \in Seq(Frame)
    BY <1>1, <2>1 DEF PcHolds, SenderOK, WiresOK, GoodWire
  <2>4. CASE FrameCount[tx[PC].pkt] > 1
    <3>1. Sender = {tx[PC]} /\ Rank(K, buf[PC]) = Rank(K, tx[PC])
      BY <2>1, <2>3, <2>4 DEF Sender, Rank, Fragment
    <3> QED BY <2>1, <2>2, <2>3, <3>1, RanksAreInts, RisingWrite DEF Ahead, PcHolds
  <2>5. CASE ~(FrameCount[tx[PC].pkt] > 1)
    <3>1. FrameCount[tx[PC].pkt] = 1
      BY <1>1, <2>1, <2>5, PacketAssumption DEF SenderOK, Sending
    <3>2. ~Live(buf[PC])
      BY <2>3, <3>1 DEF Live, Fragment
    <3> QED BY <2>1, <2>2, <2>3, <3>2, RisingReply DEF Ahead, PcHolds
  <2> QED BY <2>4, <2>5
<1>4. CASE GetAck(PC)
  <2>1. UNCHANGED <<pending[Device], wire[Device]>> /\ Sending(PC)
    BY <1>1, <1>2, <1>4 DEF GetAck, Await, Sending, Domains
  <2>2. CASE tx[PC].idx < FrameCount[tx[PC].pkt]
    <3>1. /\ tx'[PC].pkt = tx[PC].pkt /\ tx'[PC].idx = tx[PC].idx + 1
          /\ buf'[PC] = Fragment(tx[PC].pkt, tx[PC].idx + 1)
      BY <1>1, <1>4, <2>2 DEF GetAck, SenderOK
    <3> QED BY <2>1, <3>1, SenderMoves DEF PcHolds
  <2>3. CASE ~(tx[PC].idx < FrameCount[tx[PC].pkt])
    <3>1. ~Sending(PC)'
      BY <1>1, <1>4, <2>3 DEF GetAck, SenderOK, Return, Sending
    <3> QED BY <2>1, <3>1, SenderMoves DEF PcHolds, Sender
  <2> QED BY <2>2, <2>3
<1>5. CASE GetNack(PC)
  <2>1. UNCHANGED <<pending[Device], wire[Device]>> /\ Sending(PC)
    BY <1>1, <1>2, <1>5 DEF GetNack, Await, Sending, Domains
  <2>2. RetryOrFail(PC, buf[PC])
    BY <1>2, <1>5 DEF GetNack
  <2>3. CASE TriesLeft(PC)
    <3>1. tx'[PC].pkt = tx[PC].pkt /\ tx'[PC].idx = tx[PC].idx /\ buf'[PC] = buf[PC]
      BY <1>1, <2>2, <2>3 DEF RetryOrFail, SenderOK
    <3> QED BY <2>1, <3>1, SenderMoves DEF PcHolds
  <2>4. CASE ~TriesLeft(PC)
    <3>1. ~Sending(PC)'
      BY <1>1, <2>2, <2>4 DEF RetryOrFail, SenderOK, Return, Sending
    <3> QED BY <2>1, <3>1, SenderMoves DEF PcHolds, Sender
  <2> QED BY <2>3, <2>4
<1>6. CASE SkipControl(PC) \/ SetAside(PC)
  <2>1. /\ UNCHANGED <<pending[Device], wire[Device], op, tx, buf>>
        /\ Sending(PC)
    BY <1>1, <1>2, <1>6 DEF SkipControl, SetAside, Await, Sending, Domains
  <2> QED BY <2>1, SenderMoves DEF PcHolds, Sending
<1>7. CASE WriteFails(PC) \/ AwaitUnreadable(PC) \/ AwaitTimeout(PC)
  <2>1. UNCHANGED <<pending[Device], wire[Device]>> /\ Raise(PC)
    BY <1>1, <1>2, <1>7 DEF WriteFails, AwaitUnreadable, AwaitTimeout, Await, Domains
  <2>2. ~Sending(PC)'
    BY <1>1, <2>1 DEF Raise, Return, Sending, SenderOK
  <2> QED BY <2>1, <2>2, SenderMoves DEF PcHolds, Sender
<1> QED BY <1>3, <1>4, <1>5, <1>6, <1>7 DEF Send

(* The device reads the oldest frame while it waits for flow control.      *)
LEMMA DeviceSendAhead ==
  ASSUME NEW K \in [Packet -> Nat], NEW k \in Int, LinkInv, Ahead(K, k),
         Send(Device) \/ AwaitTimeout(Device)
  PROVE  Ahead(K, k)' /\ (PcHolds => PcHolds')
<1>1. SenderOK /\ WiresOK /\ Domains /\ PC \in Node /\ Device \in Node
      /\ Peer(Device) = PC /\ Device # PC
  BY LinkInvParts, NodesDiffer DEF Node, Peer
<1>2. op'[PC] = op[PC] /\ tx'[PC] = tx[PC] /\ buf'[PC] = buf[PC]
  BY <1>1 DEF Send, WriteFrame, WriteFails, GetAck, GetNack, SkipControl, SetAside,
     AwaitUnreadable, AwaitTimeout, RetryOrFail, Return, SenderOK
<1>3. Sender' = Sender /\ (PcHolds => PcHolds')
  BY <1>2 DEF Sender, Sending, PcHolds
<1>4. CASE WriteFrame(Device) \/ WriteFails(Device) \/ AwaitTimeout(Device)
  <2>1. UNCHANGED <<pending[Device], wire[Device]>>
    BY <1>1, <1>4 DEF WriteFrame, WriteFails, AwaitTimeout, Domains
  <2> QED BY <1>3, <2>1 DEF Ahead
<1>5. CASE \/ GetAck(Device) \/ GetNack(Device) \/ SkipControl(Device)
           \/ AwaitUnreadable(Device)
  <2>1. /\ wire[Device] # << >> /\ wire'[Device] = Tail(wire[Device])
        /\ UNCHANGED pending
    BY <1>1, <1>5 DEF GetAck, GetNack, SkipControl, AwaitUnreadable, Await, Oldest, Domains
  <2>2. wire[Device] \in Seq(Frame)
    BY <1>1 DEF WiresOK, GoodWire
  <2> QED BY <1>3, <2>1, <2>2, RisingTail DEF Ahead
<1>6. CASE SetAside(Device)
  <2>1. /\ wire[Device] # << >> /\ wire'[Device] = Tail(wire[Device])
        /\ pending'[Device] = IF pending[Device] = NoFrame THEN Head(wire[Device])
                              ELSE pending[Device]
    BY <1>1, <1>6 DEF SetAside, Await, Oldest, Domains
  <2>2. wire[Device] \in Seq(Frame)
    BY <1>1 DEF WiresOK, GoodWire
  <2>3. ~Live(NoFrame)
    BY DEF Live, NoFrame, Blank
  <2> QED BY <1>3, <2>1, <2>2, <2>3, RisingTail, RisingSetAside DEF Ahead
<1> QED BY <1>4, <1>5, <1>6 DEF Send

(* The PC's answers are flow control.                                      *)
LEMMA PcReceiveAhead ==
  ASSUME NEW K \in [Packet -> Nat], NEW k \in Int, LinkInv, Ahead(K, k),
         Receive(PC) \/ ReceiveTimeout(PC)
  PROVE  Ahead(K, k)' /\ PcHolds'
<1>1. SenderOK /\ WiresOK /\ PendingOK /\ Domains /\ PC \in Node /\ Device \in Node
      /\ Peer(PC) = Device /\ Device # PC
  BY LinkInvParts, NodesDiffer DEF Node, Peer
<1>2. op[PC] = "receive" /\ op'[PC] \in {"idle", "receive"}
  BY <1>1 DEF Receive, ReceiveTimeout, ReceiveControl, ReceiveUndecodable, ReceiveDuplicate,
     ReceiveRejected, ReceiveAccepted, Load, Return, SenderOK
<1>3. Sender' = Sender /\ PcHolds'
  BY <1>2 DEF Sender, Sending, PcHolds
<1>4. CASE ReceiveTimeout(PC)
  <2>1. pending'[Device] = pending[Device] /\ wire'[Device] = wire[Device]
    BY <1>4 DEF ReceiveTimeout
  <2> QED BY <1>3, <2>1 DEF Ahead
<1>5. CASE Receive(PC)
  <2>1. PICK f, t, reply :
          /\ f \in NextFrame(PC) /\ t \in ControlType
          /\ reply \in {<< >>, <<Control(t, f.seq)>>} /\ Load(PC, reply)
    BY <1>5 DEF Receive, ReceiveControl, ReceiveUndecodable, ReceiveDuplicate,
       ReceiveRejected, ReceiveAccepted, ControlType
  <2>2. Control(t, f.seq) \in Frame /\ ~Live(Control(t, f.seq))
    <3>1. f \in Frame
      BY <1>1, <2>1, NextFrameIsGood DEF GoodFrame
    <3> QED BY <2>1, <3>1, ControlIsGood DEF GoodFrame, Frame, Live, Control, ControlType
  <2>3. pending'[Device] = pending[Device] /\ wire'[Device] = wire[Device] \o reply
        /\ wire[Device] \in Seq(Frame)
    BY <1>1, <2>1 DEF Load, Domains, WiresOK, GoodWire
  <2>4. CASE reply = << >>
    <3>1. wire'[Device] = wire[Device]
      BY <2>3, <2>4
    <3> QED BY <1>3, <2>3, <3>1 DEF Ahead
  <2>5. CASE reply = <<Control(t, f.seq)>>
    <3> DEFINE c == Control(t, f.seq)
    <3>1. c \in Frame /\ ~Live(c)
      BY <2>2
    <3>2. reply = <<c>>
      BY <2>5
    <3> HIDE DEF c
    <3>3. wire'[Device] = Append(wire[Device], c)
      BY <2>3, <3>1, <3>2
    <3>4. Rising(K, k, pending[Device], Append(wire[Device], c), Sender)
      BY <2>3, <3>1, RisingReply DEF Ahead
    <3>5. pending'[Device] = pending[Device]
      BY <2>3
    <3> QED BY <1>3, <3>3, <3>4, <3>5 DEF Ahead
  <2> QED BY <2>1, <2>4, <2>5
<1> QED BY <1>4, <1>5

LEMMA FaultAhead ==
  ASSUME TypeFaults = {}, NEW K \in [Packet -> Nat], NEW k \in Int, LinkInv, Ahead(K, k), Fault
  PROVE  Ahead(K, k)' /\ (PcHolds => PcHolds')
<1>1. WiresOK /\ Domains /\ Device \in Node
  BY LinkInvParts DEF Node
<1>2. PICK e \in Node : Lose(e) \/ Damage(e)
  BY DEF Fault
<1>3. UNCHANGED <<op, tx, buf, pending>>
  BY <1>2 DEF Lose, Damage
<1>4. Sender' = Sender /\ (PcHolds => PcHolds')
  BY <1>3 DEF Sender, Sending, PcHolds
<1>5. CASE e # Device
  <2>1. wire'[Device] = wire[Device]
    BY <1>1, <1>2, <1>5 DEF Lose, Damage, Domains
  <2> QED BY <1>3, <1>4, <2>1 DEF Ahead
<1>6. CASE e = Device
  <2>1. wire[Device] # << >> /\ wire[Device] \in Seq(Frame)
    BY <1>1, <1>2, <1>6 DEF Lose, Damage, Oldest, WiresOK, GoodWire
  <2>2. CASE Lose(e)
    <3>1. wire'[Device] = Tail(wire[Device])
      BY <1>1, <1>6, <2>2 DEF Lose, Domains
    <3> QED BY <1>3, <1>4, <2>1, <3>1, RisingTail DEF Ahead
  <2>3. CASE Damage(e)
    <3>1. PICK f \in Oldest(e) :
            \E g \in PayloadDamaged(f) \cup (IF Typed(f) THEN TypeDamaged(f) ELSE {}) :
              wire' = [wire EXCEPT ![e] = <<g>> \o Tail(@)]
      BY <2>3 DEF Damage
    <3>2. GoodFrame(f)
      BY <1>1, <1>6, <2>1, <3>1, WireTail DEF Oldest, WiresOK
    <3>3. PICK g : /\ g \in Frame /\ ~Live(g)
                   /\ wire' = [wire EXCEPT ![e] = <<g>> \o Tail(@)]
      BY <3>1, <3>2, DamagedIsGood DEF GoodFrame, Live
    <3>4. wire'[Device] = <<g>> \o Tail(wire[Device])
      BY <1>1, <1>6, <3>3 DEF Domains
    <3> QED BY <1>3, <1>4, <2>1, <3>3, <3>4, RisingDamage DEF Ahead
  <2> QED BY <1>2, <2>2, <2>3
<1> QED BY <1>5, <1>6

(* The device consumes its next frame f.                                   *)
LEMMA LoadAhead ==
  ASSUME NEW K \in [Packet -> Nat], NEW k \in Int, LinkInv, Ahead(K, k),
         NEW f \in NextFrame(Device), NEW reply, Load(Device, reply),
         UNCHANGED <<tx, buf>>, op'[PC] = op[PC]
  PROVE  /\ Ahead(K, k)' /\ (PcHolds => PcHolds')
         /\ Live(f) => k <= Rank(K, f) /\ Ahead(K, Rank(K, f))'
<1>1. WiresOK /\ PendingOK /\ Domains /\ PC \in Node /\ Device \in Node
      /\ Peer(Device) = PC /\ Device # PC
  BY LinkInvParts, NodesDiffer DEF Node, Peer
<1>2. Sender' = Sender /\ (PcHolds => PcHolds')
  BY DEF Sender, Sending, PcHolds
<1>3. ~Live(NoFrame) /\ pending'[Device] = NoFrame
  BY <1>1 DEF Live, NoFrame, Blank, Load, Domains
<1>4. CASE pending[Device] # NoFrame
  <2>1. f = pending[Device] /\ wire'[Device] = wire[Device]
    BY <1>1, <1>4 DEF NextFrame, Load, Domains
  <2> QED BY <1>2, <1>3, <2>1, RisingDrop, RisingAside DEF Ahead
<1>5. CASE pending[Device] = NoFrame
  <2>1. /\ wire[Device] # << >> /\ f = Head(wire[Device])
        /\ wire'[Device] = Tail(wire[Device]) /\ wire[Device] \in Seq(Frame)
    BY <1>1, <1>5 DEF NextFrame, Oldest, Load, Domains, WiresOK, GoodWire
  <2> QED BY <1>2, <1>3, <1>5, <2>1, RisingTail, RisingHead DEF Ahead
<1> QED BY <1>4, <1>5

(* What an assembly in progress becomes with a frame it accepts.           *)
LEMMA AssembleRanks ==
  ASSUME TypeFaults = {}, NEW f, GoodFrame(f), f.type \in DataType,
         NEW a \in Asm, Prefix(a), a.got \in Seq(Chunk),
         Accepts(a, f), NEW b \in Assemble(a, f)
  PROVE  \/ ~Live(f) /\ b.got # << >> /\ Len(b.got) = 1 /\ Complete(b)
         \/ /\ Live(f) /\ b.got # << >>
            /\ FrameCount[f.pkt] > 1
            /\ b.got[Len(b.got)] = [pkt |-> f.pkt, idx |-> f.idx]
            /\ \/ a.got # << >> /\ b.got = Append(a.got, [pkt |-> f.pkt, idx |-> f.idx])
               \/ b.got = <<[pkt |-> f.pkt, idx |-> f.idx]>> /\ ~Complete(b)
<1>1. f.ok /\ f.pkt \in Packet /\ f.idx \in 1..FrameCount[f.pkt] /\ f = Fragment(f.pkt, f.idx)
      /\ FrameCount[f.pkt] \in 1..MaxFrames /\ Typed(f)
  BY PacketAssumption DEF GoodFrame, Genuine, WellFormed, Accepts
<1> DEFINE chunk == [pkt |-> f.pkt, idx |-> f.idx]
<1>2. CASE f.type = "SINGLE"
  <2>1. b = [seq |-> 0, total |-> 1, got |-> <<chunk>>]
    BY <1>1, <1>2 DEF Assemble
  <2> QED BY <1>2, <2>1 DEF Live, Complete
<1>3. CASE f.type = "FIRST"
  <2>1. b = [seq |-> 1, total |-> FrameCount[f.pkt], got |-> <<chunk>>]
    BY <1>1, <1>3 DEF Assemble
  <2>2. FrameCount[f.pkt] > 1
    BY <1>1, <1>3 DEF Fragment
  <2> QED BY <1>1, <1>3, <2>1, <2>2 DEF Live, Complete
<1>4. CASE f.type = "CONSECUTIVE"
  <2>1. b.got = Append(a.got, chunk)
    <3>1. b = [seq |-> a.seq + 1, total |-> a.total, got |-> Append(a.got, chunk)]
      BY <1>1, <1>4 DEF Assemble, Totals
    <3> QED BY <3>1
  <2>2. FrameCount[f.pkt] > 1
    BY <1>1, <1>4 DEF Fragment
  <2>3. a.got # << >>
    BY <1>4 DEF Accepts, Prefix
  <2>4. Append(a.got, chunk) # << >> /\ Append(a.got, chunk)[Len(Append(a.got, chunk))] = chunk
    BY <2>3
  <2> HIDE DEF chunk
  <2> QED BY <1>1, <1>4, <2>1, <2>2, <2>3, <2>4 DEF Live, chunk
<1> QED BY <1>2, <1>3, <1>4 DEF DataType

(* The assembly after the frame, if its ranks started at k before it.      *)
LEMMA AcceptedFrom ==
  ASSUME TypeFaults = {}, NEW K \in [Packet -> Nat], NEW k \in Int, LinkInv, LinkInv', From(K, k),
         HeadFirst(K), ReceiveAccepted(Device)
  PROVE  /\ From(K, k)' /\ HeadFirst(K)' /\ (PcHolds => PcHolds')
         /\ \/ UNCHANGED <<res[Device], inbox[Device]>>
            \/ res'[Device] = "received" /\ Len(inbox'[Device]) # 1 =>
              LET m == inbox'[Device] IN
                /\ \E r \in Int : r = Rank(K, m[Len(m)]) /\ From(K, r)'
                /\ \A i \in 1..Len(m) : /\ FrameCount[m[i].pkt] > 1
                                        /\ k <= Rank(K, m[i])
                                        /\ Rank(K, m[1]) <= Rank(K, m[i])
<1>1. SenderOK /\ OutcomeOK /\ AssemblyOK /\ WiresOK /\ PendingOK /\ Domains
      /\ PC \in Node /\ Device \in Node /\ Device # PC
  BY LinkInvParts, NodesDiffer DEF Node
<1> PICK a : a = asm[Device]
  OBVIOUS
<1>2. PICK f \in NextFrame(Device), lost \in BOOLEAN :
        /\ Load(Device, IF lost THEN << >> ELSE <<Control("ACK", f.seq)>>)
        /\ f.type \in DataType /\ Accepts(a, f)
        /\ \E b \in Assemble(a, f) :
             \/ /\ lost
                /\ Return(Device, "failed", << >>)
                /\ asm' = [asm EXCEPT ![Device] = EmptyAsm]
             \/ /\ ~lost /\ Complete(b)
                /\ Return(Device, "received", b.got)
                /\ asm' = [asm EXCEPT ![Device] = EmptyAsm]
             \/ /\ ~lost /\ ~Complete(b)
                /\ asm' = [asm EXCEPT ![Device] = b]
                /\ UNCHANGED <<op, res, inbox>>
        /\ UNCHANGED <<tx, buf>>
  BY DEF ReceiveAccepted
<1>0. PICK b \in Assemble(a, f) :
        \/ /\ lost
           /\ Return(Device, "failed", << >>)
           /\ asm' = [asm EXCEPT ![Device] = EmptyAsm]
        \/ /\ ~lost /\ Complete(b)
           /\ Return(Device, "received", b.got)
           /\ asm' = [asm EXCEPT ![Device] = EmptyAsm]
        \/ /\ ~lost /\ ~Complete(b)
           /\ asm' = [asm EXCEPT ![Device] = b]
           /\ UNCHANGED <<op, res, inbox>>
  BY <1>2
<1> DEFINE c == [pkt |-> f.pkt, idx |-> f.idx]
<1>3. GoodFrame(f) /\ a \in Asm /\ Prefix(a) /\ a.got \in Seq(Chunk)
  BY <1>1, NextFrameIsGood, IntactLink DEF AssemblyOK, Sober
<1>4. \/ ~Live(f) /\ b.got # << >> /\ Len(b.got) = 1 /\ Complete(b)
      \/ /\ Live(f) /\ b.got # << >>
         /\ FrameCount[f.pkt] > 1
         /\ b.got[Len(b.got)] = c
         /\ \/ a.got # << >> /\ b.got = Append(a.got, c)
            \/ b.got = <<c>> /\ ~Complete(b)
  BY <1>0, <1>2, <1>3, AssembleRanks
<1>5. op'[PC] = op[PC]
  BY <1>0, <1>1, <1>2 DEF Return, SenderOK
<1>6. /\ Ahead(K, k)' /\ (PcHolds => PcHolds')
      /\ Live(f) => k <= Rank(K, f) /\ Ahead(K, Rank(K, f))'
      /\ a.got # << >> /\ Live(f) =>
           Rank(K, a.got[1]) <= Rank(K, f) /\ Ahead(K, Rank(K, a.got[1]))'
  <2>1. Ahead(K, k) /\ UNCHANGED <<tx, buf>>
    BY <1>0, <1>2 DEF From
  <2>2. a.got # << >> => Rank(K, a.got[1]) \in Int /\ Ahead(K, Rank(K, a.got[1]))
    BY <1>3, RanksAreInts DEF HeadFirst, From
  <2> QED BY <1>0, <1>2, <1>5, <2>1, <2>2, LoadAhead
<1>7. Live(f) => Rank(K, f) = Rank(K, c) /\ Rank(K, f) \in Int
  BY <1>3, LiveRank DEF Rank
(* Every chunk of b has a rank of at least k, and of its first's.          *)
<1>8. Live(f) => \A i \in 1..Len(b.got) : /\ FrameCount[b.got[i].pkt] > 1
                                          /\ k <= Rank(K, b.got[i])
                                          /\ Rank(K, b.got[1]) <= Rank(K, b.got[i])
  <2> SUFFICES ASSUME Live(f)
               PROVE  \A i \in 1..Len(b.got) : /\ FrameCount[b.got[i].pkt] > 1
                                               /\ k <= Rank(K, b.got[i])
                                               /\ Rank(K, b.got[1]) <= Rank(K, b.got[i])
    OBVIOUS
  <2>0. c.pkt = f.pkt
    OBVIOUS
  <2>1. CASE a.got # << >> /\ b.got = Append(a.got, c)
    <3>1. \A i \in 1..Len(a.got) : /\ FrameCount[a.got[i].pkt] > 1
                                   /\ k <= Rank(K, a.got[i])
                                   /\ Rank(K, a.got[1]) <= Rank(K, a.got[i])
      BY <2>1 DEF From, HeadFirst
    <3>2. /\ Len(b.got) = Len(a.got) + 1 /\ b.got[Len(a.got) + 1] = c /\ b.got[1] = a.got[1]
          /\ \A i \in 1..Len(a.got) : b.got[i] = a.got[i]
      <4> HIDE DEF c
      <4> QED BY <1>3, <2>1
    <3> HIDE DEF c
    <3> QED BY <1>3, <1>4, <1>6, <1>7, <2>0, <2>1, <3>1, <3>2
  <2>2. CASE b.got = <<c>>
    <3>1. Len(b.got) = 1 /\ b.got[1] = c
      BY <2>2
    <3>2. \A i \in 1..Len(b.got) : i = 1
      BY <3>1
    <3> HIDE DEF c
    <3> QED BY <1>4, <1>6, <1>7, <2>0, <2>2, <3>1, <3>2
  <2> QED BY <1>4, <2>1, <2>2
<1>9. Live(f) => Ahead(K, Rank(K, b.got[1]))'
  <2>1. a.got # << >> => Append(a.got, c)[1] = a.got[1]
    BY <1>3
  <2>2. <<c>>[1] = c
    OBVIOUS
  <2> HIDE DEF c
  <2> QED BY <1>4, <1>6, <1>7, <2>1, <2>2
<1>10. CASE asm' = [asm EXCEPT ![Device] = EmptyAsm]
  <2>1. asm'[Device].got = << >>
    BY <1>1, <1>10 DEF AssemblyOK, EmptyAsm
  <2>2. From(K, k)' /\ HeadFirst(K)'
    BY <1>6, <2>1 DEF From, HeadFirst
  <2>3. ASSUME res'[Device] = "received", Len(inbox'[Device]) # 1
        PROVE  LET m == inbox'[Device] IN
                /\ \E r \in Int : r = Rank(K, m[Len(m)]) /\ From(K, r)'
                /\ \A i \in 1..Len(m) : /\ FrameCount[m[i].pkt] > 1
                                        /\ k <= Rank(K, m[i])
                                        /\ Rank(K, m[1]) <= Rank(K, m[i])
    <3>1. inbox'[Device] = b.got
      <4>1. CASE lost
        BY <1>0, <1>1, <1>2, <2>3, <4>1 DEF Return, OutcomeOK
      <4>2. CASE ~lost /\ Complete(b)
        BY <1>0, <1>1, <1>2, <2>3, <4>2 DEF Return, OutcomeOK
      <4>3. CASE ~lost /\ ~Complete(b)
        <5>0. asm' = [asm EXCEPT ![Device] = b]
          BY <1>0, <4>3
        <5>1. asm'[Device] = b
          BY <1>1, <5>0 DEF AssemblyOK
        <5>2. b.got # << >>
          BY <1>4
        <5> QED BY <2>1, <5>1, <5>2
      <4> QED BY <4>1, <4>2, <4>3
    <3> HIDE DEF c
    <3>2. Live(f)
      BY <1>4, <2>3, <3>1
    <3>3. Rank(K, b.got[Len(b.got)]) = Rank(K, f)
      BY <1>4, <1>7, <3>2
    <3>4. Ahead(K, Rank(K, f))'
      BY <1>6, <3>2
    <3>5. From(K, Rank(K, f))'
      BY <2>1, <3>4 DEF From
    <3> QED BY <1>7, <1>8, <3>1, <3>2, <3>3, <3>5
  <2> QED BY <1>6, <2>2, <2>3
<1>11. CASE ~lost /\ ~Complete(b)
  <2>1. asm'[Device] = b /\ UNCHANGED <<res, inbox>> /\ Live(f)
    <3>1. asm' = [asm EXCEPT ![Device] = b] /\ UNCHANGED <<res, inbox>>
      BY <1>0, <1>11
    <3> QED BY <1>1, <1>4, <1>11, <3>1 DEF AssemblyOK
  <2>2. b.got # << >>
    BY <1>4
  <2> HIDE DEF c
  <2>3. From(K, k)' /\ HeadFirst(K)'
    BY <1>6, <1>8, <1>9, <2>1, <2>2 DEF From, HeadFirst
  <2> QED BY <1>6, <2>1, <2>3
<1> QED BY <1>0, <1>2, <1>10, <1>11

(* The assembly keeps its fragments, or drops them.                        *)
LEMMA SameAssembly ==
  ASSUME TypeFaults = {}, NEW K \in [Packet -> Nat], NEW k \in Int,
         LinkInv, From(K, k), HeadFirst(K),
         asm'[Device] \in {asm[Device], EmptyAsm},
         \A l \in Int : Ahead(K, l) => Ahead(K, l)'
  PROVE  From(K, k)' /\ HeadFirst(K)'
<1> PICK a : a = asm[Device]
  OBVIOUS
<1>1. Ahead(K, k)'
  BY DEF From
<1>2. CASE asm'[Device] = EmptyAsm
  <2>1. asm'[Device].got = << >>
    BY <1>2 DEF EmptyAsm
  <2> QED BY <1>1, <2>1 DEF From, HeadFirst
<1>3. CASE asm'[Device] = asm[Device] /\ a.got = << >>
  BY <1>1, <1>3 DEF From, HeadFirst
<1>4. CASE asm'[Device] = asm[Device] /\ a.got # << >>
  <2>1. From(K, Rank(K, a.got[1])) /\ Rank(K, a.got[1]) \in Int
    <3>1. 1 \in 1..Len(a.got)
      <4>1. a.got \in Seq(Chunk)
        BY IntactLink DEF Node
      <4> QED BY <1>4, <4>1
    <3> QED BY <1>4, <3>1, RanksAreInts DEF HeadFirst
  <2>2. Ahead(K, Rank(K, a.got[1]))'
    BY <2>1 DEF From
  <2>3. From(K, Rank(K, a.got[1]))' /\ From(K, k)'
    BY <1>1, <1>4, <2>1, <2>2 DEF From
  <2> QED BY <1>4, <2>3 DEF HeadFirst
<1> QED BY <1>2, <1>3, <1>4

(* A step of the link, no call, as a run of it takes one.                  *)
Works == Fault \/ \E e \in Node : Send(e) \/ Receive(e) \/ Timeout(e)

LEMMA OtherWorkAhead ==
  ASSUME TypeFaults = {}, NEW K \in [Packet -> Nat], NEW k \in Int,
         LinkInv, LinkInv', PcHolds, Ahead(K, k),
         Works, ~ReceiveAccepted(Device)
  PROVE  Ahead(K, k)' /\ PcHolds'
<1>1. SenderOK /\ OutcomeOK /\ AssemblyOK /\ PC \in Node /\ Device \in Node /\ Device # PC
      /\ Node = {Device, PC}
  BY LinkInvParts, NodesDiffer DEF Node
<1>2. CASE Fault
  BY <1>2, FaultAhead
<1>3. CASE Send(PC) \/ AwaitTimeout(PC)
  BY <1>3, PcSendAhead
<1>4. CASE Send(Device) \/ AwaitTimeout(Device)
  BY <1>4, DeviceSendAhead
<1>5. CASE Receive(PC) \/ ReceiveTimeout(PC)
  BY <1>5, PcReceiveAhead
<1>6. CASE ReceiveTimeout(Device)
  <2>1. UNCHANGED <<tx, buf, pending, wire>> /\ op'[PC] = op[PC]
    BY <1>1, <1>6 DEF ReceiveTimeout, Return, SenderOK
  <2>2. Sender' = Sender /\ PcHolds'
    BY <2>1 DEF Sender, Sending, PcHolds
  <2> QED BY <2>1, <2>2 DEF Ahead
<1>7. CASE Receive(Device)
  <2>1. PICK f, reply : f \in NextFrame(Device) /\ Load(Device, reply)
    BY <1>7 DEF Receive, ReceiveControl, ReceiveUndecodable, ReceiveDuplicate,
       ReceiveRejected, ReceiveAccepted
  <2>2. UNCHANGED <<tx, buf>> /\ op'[PC] = op[PC]
    BY <1>1, <1>7 DEF Receive, ReceiveControl, ReceiveUndecodable, ReceiveDuplicate,
       ReceiveRejected, ReceiveAccepted, Return, SenderOK
  <2> QED BY <2>1, <2>2, LoadAhead
<1> QED BY <1>1, <1>2, <1>3, <1>4, <1>5, <1>6, <1>7 DEF Works, Timeout

LEMMA OtherWorkOutcome ==
  ASSUME LinkInv, Works, ~ReceiveAccepted(Device)
  PROVE  /\ asm'[Device] \in {asm[Device], EmptyAsm}
         /\ UNCHANGED <<res[Device], inbox[Device]>> \/ res'[Device] # "received"
<1>1. SenderOK /\ OutcomeOK /\ AssemblyOK /\ PC \in Node /\ Device \in Node /\ Device # PC
      /\ Node = {Device, PC}
  BY LinkInvParts, NodesDiffer DEF Node
<1>2. CASE Fault
  BY <1>2 DEF Fault, Lose, Damage
<1>3. ASSUME NEW e \in Node, Send(e) \/ AwaitTimeout(e)
      PROVE  /\ asm' = asm
             /\ UNCHANGED <<res[Device], inbox[Device]>> \/ res'[Device] # "received"
  BY <1>1, <1>3 DEF Send, WriteFrame, WriteFails, GetAck, GetNack, SkipControl, SetAside,
     AwaitUnreadable, AwaitTimeout, RetryOrFail, Raise, Return, OutcomeOK
<1>4. CASE Receive(PC) \/ ReceiveTimeout(PC)
  <2>1. asm'[Device] = asm[Device]
    BY <1>1, <1>4 DEF Receive, ReceiveControl, ReceiveUndecodable, ReceiveDuplicate,
       ReceiveRejected, ReceiveAccepted, ReceiveTimeout, AssemblyOK
  <2>2. UNCHANGED <<res[Device], inbox[Device]>>
    BY <1>1, <1>4 DEF Receive, ReceiveControl, ReceiveUndecodable, ReceiveDuplicate,
       ReceiveRejected, ReceiveAccepted, ReceiveTimeout, Return, OutcomeOK
  <2> QED BY <2>1, <2>2
<1>5. CASE Receive(Device) \/ ReceiveTimeout(Device)
  <2>1. asm'[Device] \in {asm[Device], EmptyAsm}
    BY <1>1, <1>5 DEF Receive, ReceiveControl, ReceiveUndecodable, ReceiveDuplicate,
       ReceiveRejected, ReceiveTimeout, AssemblyOK
  <2>2. UNCHANGED <<res[Device], inbox[Device]>> \/ res'[Device] # "received"
    BY <1>1, <1>5 DEF Receive, ReceiveControl, ReceiveUndecodable, ReceiveDuplicate,
       ReceiveRejected, ReceiveTimeout, Return, OutcomeOK
  <2> QED BY <2>1, <2>2
<1> QED BY <1>1, <1>2, <1>3, <1>4, <1>5 DEF Works, Timeout

LEMMA WorkFrom ==
  ASSUME TypeFaults = {}, NEW K \in [Packet -> Nat], NEW k \in Int, LinkInv, LinkInv', PcHolds,
         From(K, k), HeadFirst(K), Works
  PROVE  /\ From(K, k)' /\ HeadFirst(K)' /\ PcHolds'
         /\ \/ UNCHANGED <<res[Device], inbox[Device]>>
            \/ res'[Device] = "received" /\ Len(inbox'[Device]) # 1 =>
              LET m == inbox'[Device] IN
                /\ \E r \in Int : r = Rank(K, m[Len(m)]) /\ From(K, r)'
                /\ \A i \in 1..Len(m) : /\ FrameCount[m[i].pkt] > 1
                                        /\ k <= Rank(K, m[i])
                                        /\ Rank(K, m[1]) <= Rank(K, m[i])
<1>1. CASE ReceiveAccepted(Device)
  BY <1>1, AcceptedFrom
<1>2. CASE ~ReceiveAccepted(Device)
  <2>1. ASSUME NEW l \in Int, Ahead(K, l) PROVE Ahead(K, l)'
    BY <1>2, <2>1, OtherWorkAhead
  <2>2. PcHolds'
    BY <1>2, OtherWorkAhead DEF From
  <2>3. From(K, k)' /\ HeadFirst(K)'
    BY <1>2, <2>1, OtherWorkOutcome, SameAssembly
  <2> QED BY <1>2, <2>2, <2>3, OtherWorkOutcome
<1> QED BY <1>1, <1>2

(* Packet p is nowhere in the link.                                        *)
Absent(p) ==
  \A e \in Node :
    /\ tx[e].pkt # p /\ buf[e].pkt # p /\ pending[e].pkt # p
    /\ \A i \in 1..Len(wire[e]) : wire[e][i].pkt # p
    /\ \A i \in 1..Len(asm[e].got) : asm[e].got[i].pkt # p
    /\ \A i \in 1..Len(inbox[e]) : inbox[e][i].pkt # p

SenderLacks(p) == \A e \in Node : tx[e].pkt # p /\ buf[e].pkt # p
WireLacks(p) ==
  \A e \in Node : pending[e].pkt # p /\ \A i \in 1..Len(wire[e]) : wire[e][i].pkt # p
ReceiverLacks(p) ==
  \A e \in Node : /\ \A i \in 1..Len(asm[e].got) : asm[e].got[i].pkt # p
                  /\ \A i \in 1..Len(inbox[e]) : inbox[e][i].pkt # p

LEMMA AbsentParts ==
  ASSUME NEW p
  PROVE  /\ Absent(p) <=> SenderLacks(p) /\ WireLacks(p) /\ ReceiverLacks(p)
         /\ Absent(p)' <=> SenderLacks(p)' /\ WireLacks(p)' /\ ReceiverLacks(p)'
BY DEF Absent, SenderLacks, WireLacks, ReceiverLacks

LEMMA NoPacketIsNone ==
  ASSUME NEW p \in Packet
  PROVE  NoPacket # p /\ Blank.pkt # p /\ NoFrame.pkt # p /\ NoTx.pkt # p
         /\ \A t, s : Control(t, s).pkt # p
BY PacketAssumption DEF Blank, NoFrame, NoTx, Control

LEMMA TailLacks ==
  ASSUME NEW p, NEW w \in Seq(Frame), w # << >>, \A i \in 1..Len(w) : w[i].pkt # p
  PROVE  Head(w).pkt # p /\ \A i \in 1..Len(Tail(w)) : Tail(w)[i].pkt # p
<1>1. Head(w) = w[1] /\ 1 \in 1..Len(w)
  OBVIOUS
<1> DEFINE v == Tail(w)
<1>2. \A i \in 1..Len(v) : i + 1 \in 1..Len(w) /\ v[i] = w[i + 1]
  OBVIOUS
<1> HIDE DEF v
<1> QED BY <1>1, <1>2 DEF v

LEMMA AppendLacks ==
  ASSUME NEW p, NEW S, NEW w \in Seq(S), NEW f, f.pkt # p, \A i \in 1..Len(w) : w[i].pkt # p
  PROVE  \A i \in 1..Len(Append(w, f)) : Append(w, f)[i].pkt # p
<1> DEFINE v == Append(w, f)
<1>1. \A i \in 1..Len(v) : \/ i \in 1..Len(w) /\ v[i] = w[i]
                           \/ v[i] = f
  OBVIOUS
<1> HIDE DEF v
<1> QED BY <1>1 DEF v

(* A failed try, or a raised one, brings no packet.                        *)
LEMMA RetryLacks ==
  ASSUME NEW p \in Packet, LinkInv, SenderLacks(p), ReceiverLacks(p), NEW e \in Node,
         NEW left, left.pkt # p, RetryOrFail(e, left) \/ Raise(e), UNCHANGED asm
  PROVE  SenderLacks(p)' /\ ReceiverLacks(p)'
<1>1. SenderOK /\ OutcomeOK
  BY LinkInvParts
<1>2. \A n \in Node : tx'[n].pkt = tx[n].pkt \/ tx'[n] = NoTx
  <2>1. tx' = [tx EXCEPT ![e].tries = NextTry(e)] \/ tx' = [tx EXCEPT ![e] = NoTx]
    BY DEF RetryOrFail, Raise
  <2> QED BY <1>1, <2>1 DEF SenderOK
<1>3. \A n \in Node : buf'[n] \in {buf[n], left, Blank}
  BY <1>1 DEF RetryOrFail, Raise, SenderOK
<1>4. SenderLacks(p)'
  BY <1>2, <1>3, NoPacketIsNone DEF SenderLacks
<1>5. \A n \in Node : inbox'[n] = inbox[n] \/ inbox'[n] = << >>
  BY <1>1 DEF RetryOrFail, Raise, Return, OutcomeOK
<1> QED BY <1>4, <1>5 DEF ReceiverLacks

LEMMA SendAbsent ==
  ASSUME NEW p \in Packet, LinkInv, Absent(p), NEW e \in Node, Send(e) \/ AwaitTimeout(e)
  PROVE  Absent(p)'
<1>1. SenderOK /\ OutcomeOK /\ AssemblyOK /\ WiresOK /\ PendingOK /\ Domains
      /\ SenderLacks(p) /\ WireLacks(p) /\ ReceiverLacks(p)
  BY LinkInvParts, AbsentParts
<1>2. Peer(e) \in Node /\ Peer(e) # e /\ UNCHANGED asm
      /\ \A n \in Node : wire[n] \in Seq(Frame)
  BY <1>1, PeerInNode DEF Send, WriteFrame, WriteFails, GetAck, GetNack, SkipControl, SetAside,
     AwaitUnreadable, AwaitTimeout, WiresOK, GoodWire
<1>3. CASE WriteFrame(e)
  <2>1. SenderLacks(p)' /\ ReceiverLacks(p)'
    BY <1>1, <1>2, <1>3, NoPacketIsNone DEF SenderLacks, ReceiverLacks, WriteFrame, SenderOK
  <2>2. \A i \in 1..Len(Append(wire[Peer(e)], buf[e])) : Append(wire[Peer(e)], buf[e])[i].pkt # p
    BY <1>1, <1>2, AppendLacks DEF SenderLacks, WireLacks
  <2>3. \A n \in Node : wire'[n] = IF n = Peer(e) THEN Append(wire[Peer(e)], buf[e]) ELSE wire[n]
    BY <1>1, <1>2, <1>3 DEF WriteFrame, Domains
  <2>4. WireLacks(p)'
    BY <1>1, <1>3, <2>2, <2>3 DEF WireLacks, WriteFrame
  <2> QED BY <2>1, <2>4, AbsentParts
<1>4. CASE WriteFails(e) \/ AwaitTimeout(e)
  <2>1. WireLacks(p)'
    BY <1>1, <1>4 DEF WireLacks, WriteFails, AwaitTimeout
  <2>2. \E left : left.pkt # p /\ (RetryOrFail(e, left) \/ Raise(e))
    BY <1>1, <1>4, NoPacketIsNone DEF WriteFails, AwaitTimeout, SenderLacks
  <2> QED BY <1>1, <1>2, <2>1, <2>2, RetryLacks, AbsentParts
<1>5. ASSUME Await(e), NEW f \in Oldest(e),
             pending' = pending \/ pending' = [pending EXCEPT ![e] = f]
      PROVE  f.pkt # p /\ WireLacks(p)'
  <2>1. wire[e] # << >> /\ f = Head(wire[e])
    BY <1>5 DEF Oldest
  <2>2. f.pkt # p /\ \A i \in 1..Len(Tail(wire[e])) : Tail(wire[e])[i].pkt # p
    BY <1>1, <1>2, <2>1, TailLacks DEF WireLacks
  <2>3. \A n \in Node : /\ wire'[n] = IF n = e THEN Tail(wire[e]) ELSE wire[n]
                        /\ pending'[n] = pending[n] \/ pending'[n] = f
    BY <1>1, <1>5 DEF Await, Domains
  <2> QED BY <1>1, <2>2, <2>3 DEF WireLacks
<1>6. CASE GetAck(e)
  <2>1. PICK f \in Oldest(e) : Await(e) /\ pending' = pending
    BY <1>6 DEF GetAck
  <2>2. SenderLacks(p)'
    <3>1. CASE tx[e].idx < FrameCount[tx[e].pkt]
      BY <1>1, <1>6, <3>1 DEF GetAck, SenderLacks, SenderOK, Fragment
    <3>2. CASE ~(tx[e].idx < FrameCount[tx[e].pkt])
      BY <1>1, <1>6, <3>2, NoPacketIsNone DEF GetAck, SenderLacks, SenderOK
    <3> QED BY <3>1, <3>2
  <2>3. \A n \in Node : inbox'[n] = inbox[n] \/ inbox'[n] = << >>
    BY <1>1, <1>6 DEF GetAck, Return, OutcomeOK
  <2>4. ReceiverLacks(p)'
    BY <1>1, <1>2, <2>3 DEF ReceiverLacks
  <2> QED BY <1>5, <2>1, <2>2, <2>4, AbsentParts
<1>7. CASE GetNack(e) \/ AwaitUnreadable(e)
  <2>1. PICK f \in Oldest(e) : Await(e) /\ pending' = pending
          /\ \/ RetryOrFail(e, f) \/ RetryOrFail(e, buf[e]) \/ Raise(e)
    BY <1>7 DEF GetNack, AwaitUnreadable
  <2>2. f.pkt # p /\ WireLacks(p)' /\ buf[e].pkt # p
    BY <1>1, <1>5, <2>1 DEF SenderLacks
  <2> QED BY <1>1, <1>2, <2>1, <2>2, RetryLacks, AbsentParts
<1>8. CASE SkipControl(e) \/ SetAside(e)
  <2>1. PICK f \in Oldest(e) :
          /\ Await(e) /\ (pending' = pending \/ pending' = [pending EXCEPT ![e] = f])
          /\ buf' = buf \/ buf' = [buf EXCEPT ![e] = f]
    BY <1>8 DEF SkipControl, SetAside
  <2>2. f.pkt # p /\ WireLacks(p)'
    BY <1>5, <2>1
  <2>3. SenderLacks(p)'
    BY <1>1, <1>8, <2>1, <2>2 DEF SkipControl, SetAside, SenderLacks, SenderOK
  <2>4. ReceiverLacks(p)'
    BY <1>1, <1>2, <1>8 DEF SkipControl, SetAside, ReceiverLacks
  <2> QED BY <2>2, <2>3, <2>4, AbsentParts
<1> QED BY <1>3, <1>4, <1>6, <1>7, <1>8 DEF Send

(* The assembler adds one piece, of the frame's packet or of none.         *)
LEMMA PieceAssembled ==
  ASSUME NEW p \in Packet, NEW f, f.pkt # p, NEW a, NEW b \in Assemble(a, f)
  PROVE  \E c : c.pkt # p /\ (b.got = <<c>> \/ b.got = Append(a.got, c))
<1> DEFINE c == IF Typed(f) THEN [pkt |-> f.pkt, idx |-> f.idx] ELSE Misread
<1>1. c.pkt # p
  BY PacketAssumption DEF Misread
<1>2. CASE f.type = "FIRST"
  <2>1. b = [seq |-> 1, total |-> FrameCount[f.pkt], got |-> <<c>>]
    BY <1>2 DEF Assemble
  <2>2. b.got = <<c>>
    BY <2>1
  <2> QED BY <1>1, <2>2
<1>3. CASE f.type = "CONSECUTIVE"
  <2>1. PICK n : b = [seq |-> a.seq + 1, total |-> n, got |-> Append(a.got, c)]
    BY <1>3 DEF Assemble
  <2>2. b.got = Append(a.got, c)
    BY <2>1
  <2> QED BY <1>1, <2>2
<1>4. CASE f.type \notin {"FIRST", "CONSECUTIVE"}
  <2>1. b = [seq |-> 0, total |-> 1, got |-> <<c>>]
    BY <1>4 DEF Assemble
  <2>2. b.got = <<c>>
    BY <2>1
  <2> QED BY <1>1, <2>2
<1> QED BY <1>2, <1>3, <1>4

LEMMA ReceiveAbsent ==
  ASSUME NEW p \in Packet, LinkInv, Absent(p), NEW e \in Node, Receive(e) \/ ReceiveTimeout(e)
  PROVE  Absent(p)'
<1>1. SenderOK /\ OutcomeOK /\ AssemblyOK /\ WiresOK /\ PendingOK /\ Domains
      /\ SenderLacks(p) /\ WireLacks(p) /\ ReceiverLacks(p)
  BY LinkInvParts, AbsentParts
<1>2. Peer(e) \in Node /\ Peer(e) # e /\ SenderLacks(p)'
      /\ \A n \in Node : wire[n] \in Seq(Frame)
  BY <1>1, PeerInNode DEF Receive, ReceiveTimeout, ReceiveControl, ReceiveUndecodable,
     ReceiveDuplicate, ReceiveRejected, ReceiveAccepted, WiresOK, GoodWire, SenderLacks
<1>3. ASSUME \A n \in Node : asm'[n] = asm[n] \/ asm'[n] = EmptyAsm,
             \A n \in Node : inbox'[n] = inbox[n] \/ inbox'[n] = << >>
      PROVE  ReceiverLacks(p)'
  BY <1>1, <1>3 DEF ReceiverLacks, EmptyAsm
<1>4. CASE ReceiveTimeout(e)
  <2>1. WireLacks(p)'
    BY <1>1, <1>4 DEF WireLacks, ReceiveTimeout
  <2>2. ReceiverLacks(p)'
    BY <1>1, <1>3, <1>4 DEF ReceiveTimeout, Return, AssemblyOK, OutcomeOK
  <2> QED BY <1>2, <2>1, <2>2, AbsentParts
<1>5. CASE Receive(e)
  <2>1. PICK f, t, reply :
          /\ f \in NextFrame(e) /\ t \in ControlType
          /\ reply \in {<< >>, <<Control(t, f.seq)>>} /\ Load(e, reply)
          /\ \/ /\ \A n \in Node : asm'[n] = asm[n] \/ asm'[n] = EmptyAsm
                /\ \A n \in Node : inbox'[n] = inbox[n] \/ inbox'[n] = << >>
             \/ \E b \in Assemble(asm[e], f) :
                  /\ \A n \in Node : asm'[n] = asm[n] \/ asm'[n] = EmptyAsm \/ asm'[n] = b
                  /\ \A n \in Node : inbox'[n] = inbox[n] \/ inbox'[n] = << >>
                                     \/ inbox'[n] = b.got
    <3>1. CASE ReceiveAccepted(e)
      <4>1. PICK f \in NextFrame(e), lost \in BOOLEAN :
              /\ Load(e, IF lost THEN << >> ELSE <<Control("ACK", f.seq)>>)
              /\ \E b \in Assemble(asm[e], f) :
                   \/ /\ lost
                      /\ Return(e, "failed", << >>)
                      /\ asm' = [asm EXCEPT ![e] = EmptyAsm]
                   \/ /\ ~lost /\ Complete(b)
                      /\ Return(e, "received", b.got)
                      /\ asm' = [asm EXCEPT ![e] = EmptyAsm]
                   \/ /\ ~lost /\ ~Complete(b)
                      /\ asm' = [asm EXCEPT ![e] = b]
                      /\ UNCHANGED <<op, res, inbox>>
        BY <3>1 DEF ReceiveAccepted
      <4>2. PICK b \in Assemble(asm[e], f) :
              /\ \/ asm' = asm \/ asm' = [asm EXCEPT ![e] = EmptyAsm]
                 \/ asm' = [asm EXCEPT ![e] = b]
              /\ \/ inbox' = inbox \/ inbox' = [inbox EXCEPT ![e] = << >>]
                 \/ inbox' = [inbox EXCEPT ![e] = b.got]
        BY <4>1 DEF Return
      <4>3. asm = [n \in Node |-> asm[n]] /\ inbox = [n \in Node |-> inbox[n]]
        BY <1>1 DEF AssemblyOK, OutcomeOK
      <4>4. \A n \in Node : asm'[n] = asm[n] \/ asm'[n] = EmptyAsm \/ asm'[n] = b
        BY <4>2, <4>3
      <4>5. \A n \in Node : inbox'[n] = inbox[n] \/ inbox'[n] = << >> \/ inbox'[n] = b.got
        BY <4>2, <4>3
      <4> QED BY <4>1, <4>4, <4>5 DEF ControlType
    <3>2. CASE ~ReceiveAccepted(e)
      <4>1. /\ \A n \in Node : asm'[n] = asm[n] \/ asm'[n] = EmptyAsm
            /\ \A n \in Node : inbox'[n] = inbox[n] \/ inbox'[n] = << >>
        BY <1>1, <1>5, <3>2 DEF Receive, ReceiveControl, ReceiveUndecodable,
           ReceiveDuplicate, ReceiveRejected, Return, AssemblyOK, OutcomeOK
      <4>2. \E f, t, reply :
              /\ f \in NextFrame(e) /\ t \in ControlType
              /\ reply \in {<< >>, <<Control(t, f.seq)>>}
              /\ Load(e, reply)
        BY <1>5, <3>2 DEF Receive, ReceiveControl, ReceiveUndecodable, ReceiveDuplicate,
           ReceiveRejected, ControlType
      <4> QED BY <4>1, <4>2
    <3> QED BY <3>1, <3>2
  <2>2. f.pkt # p /\ GoodFrame(f)
    <3>1. GoodFrame(f) /\ f \in NextFrame(e)
      BY <1>1, <2>1, NextFrameIsGood
    <3>2. CASE pending[e] # NoFrame
      BY <1>1, <3>1, <3>2 DEF NextFrame, WireLacks
    <3>3. CASE pending[e] = NoFrame
      BY <1>1, <1>2, <3>1, <3>3, TailLacks DEF NextFrame, Oldest, WireLacks
    <3> QED BY <3>2, <3>3
  <2>3. WireLacks(p)'
    <3>1. \A n \in Node :
            /\ pending'[n] = pending[n] \/ pending'[n] = NoFrame
            /\ wire'[n] = IF n = e THEN IF pending[e] # NoFrame THEN wire[e] ELSE Tail(wire[e])
                          ELSE IF n = Peer(e) THEN wire[Peer(e)] \o reply ELSE wire[n]
      BY <1>1, <1>2, <2>1 DEF Load, Domains
    <3>2. pending[e] = NoFrame =>
            wire[e] # << >> /\ \A i \in 1..Len(Tail(wire[e])) : Tail(wire[e])[i].pkt # p
      BY <1>1, <1>2, <2>1, TailLacks DEF NextFrame, Oldest, WireLacks
    <3>3. \A i \in 1..Len(wire[Peer(e)] \o reply) : (wire[Peer(e)] \o reply)[i].pkt # p
      <4>1. CASE reply = << >>
        <5>1. wire[Peer(e)] \o reply = wire[Peer(e)]
          BY <1>2, <4>1
        <5> QED BY <1>1, <1>2, <5>1 DEF WireLacks
      <4>2. CASE reply = <<Control(t, f.seq)>>
        <5> DEFINE c == Control(t, f.seq)
        <5>1. c.pkt # p /\ reply = <<c>>
          BY <4>2, NoPacketIsNone
        <5> HIDE DEF c
        <5>2. wire[Peer(e)] \o reply = Append(wire[Peer(e)], c)
          BY <1>2, <5>1
        <5> QED BY <1>1, <1>2, <5>1, <5>2, AppendLacks DEF WireLacks
      <4> QED BY <2>1, <4>1, <4>2
    <3> QED BY <1>1, <3>1, <3>2, <3>3, NoPacketIsNone DEF WireLacks
  <2>4. ReceiverLacks(p)'
    <3>1. CASE /\ \A n \in Node : asm'[n] = asm[n] \/ asm'[n] = EmptyAsm
               /\ \A n \in Node : inbox'[n] = inbox[n] \/ inbox'[n] = << >>
      BY <1>3, <3>1
    <3>2. CASE \E b \in Assemble(asm[e], f) :
                 /\ \A n \in Node : asm'[n] = asm[n] \/ asm'[n] = EmptyAsm \/ asm'[n] = b
                 /\ \A n \in Node : inbox'[n] = inbox[n] \/ inbox'[n] = << >>
                                    \/ inbox'[n] = b.got
      <4> PICK a : a = asm[e]
        OBVIOUS
      <4>0. PICK b \in Assemble(a, f) :
              /\ \A n \in Node : asm'[n] = asm[n] \/ asm'[n] = EmptyAsm \/ asm'[n] = b
              /\ \A n \in Node : inbox'[n] = inbox[n] \/ inbox'[n] = << >> \/ inbox'[n] = b.got
        BY <3>2
      <4>1. a.got \in Seq(Piece) /\ \A i \in 1..Len(a.got) : a.got[i].pkt # p
        BY <1>1 DEF ReceiverLacks, AssemblyOK, Asm
      <4>2. PICK c : c.pkt # p /\ (b.got = <<c>> \/ b.got = Append(a.got, c))
        BY <2>2, PieceAssembled
      <4>3. \A i \in 1..Len(b.got) : b.got[i].pkt # p
        <5>1. CASE b.got = <<c>>
          BY <4>2, <5>1
        <5>2. CASE b.got = Append(a.got, c)
          BY <4>1, <4>2, <5>2, AppendLacks
        <5> QED BY <4>2, <5>1, <5>2
      <4>4. \A n \in Node : /\ asm'[n] = asm[n] \/ asm'[n] = EmptyAsm \/ asm'[n] = b
                            /\ inbox'[n] = inbox[n] \/ inbox'[n] = << >> \/ inbox'[n] = b.got
        BY <4>0
      <4>5. \A n \in Node : asm'[n].got \in {asm[n].got, << >>, b.got}
        BY <4>4 DEF EmptyAsm
      <4> SUFFICES ASSUME NEW n \in Node
                   PROVE  /\ \A i \in 1..Len(asm'[n].got) : asm'[n].got[i].pkt # p
                          /\ \A i \in 1..Len(inbox'[n]) : inbox'[n][i].pkt # p
        BY DEF ReceiverLacks
      <4>6. \A i \in 1..Len(<< >>) : << >>[i].pkt # p
        OBVIOUS
      <4>7. \A i \in 1..Len(asm'[n].got) : asm'[n].got[i].pkt # p
        BY <1>1, <4>3, <4>5, <4>6 DEF ReceiverLacks
      <4>8. \A i \in 1..Len(inbox'[n]) : inbox'[n][i].pkt # p
        BY <1>1, <4>3, <4>4, <4>6 DEF ReceiverLacks
      <4> QED BY <4>7, <4>8
    <3> QED BY <2>1, <3>1, <3>2
  <2> QED BY <1>2, <2>3, <2>4, AbsentParts
<1> QED BY <1>4, <1>5

LEMMA FaultAbsent ==
  ASSUME NEW p \in Packet, LinkInv, Absent(p), Fault
  PROVE  Absent(p)'
<1>1. WiresOK /\ Domains /\ SenderLacks(p) /\ WireLacks(p) /\ ReceiverLacks(p)
  BY LinkInvParts, AbsentParts
<1>2. PICK e \in Node : Lose(e) \/ Damage(e)
  BY DEF Fault
<1>3. UNCHANGED <<op, tx, buf, asm, pending, res, inbox>>
  BY <1>2 DEF Lose, Damage
<1>4. SenderLacks(p)' /\ ReceiverLacks(p)'
  BY <1>1, <1>3 DEF SenderLacks, ReceiverLacks
<1>5. wire[e] # << >> /\ wire[e] \in Seq(Frame) /\ \A i \in 1..Len(wire[e]) : wire[e][i].pkt # p
  BY <1>1, <1>2 DEF Lose, Damage, Oldest, WiresOK, GoodWire, WireLacks
<1>6. \A n \in Node : n # e => wire'[n] = wire[n]
  BY <1>1, <1>2 DEF Lose, Damage, Domains
<1>7. \A i \in 1..Len(wire'[e]) : wire'[e][i].pkt # p
  <2>1. CASE Lose(e)
    <3>1. wire'[e] = Tail(wire[e])
      BY <1>1, <2>1 DEF Lose, Domains
    <3> QED BY <1>5, <3>1, TailLacks
  <2>2. CASE Damage(e)
    <3>1. PICK f \in Oldest(e) :
            \E g \in PayloadDamaged(f) \cup (IF Typed(f) THEN TypeDamaged(f) ELSE {}) :
              wire' = [wire EXCEPT ![e] = <<g>> \o Tail(@)]
      BY <2>2 DEF Damage
    <3>2. f = Head(wire[e]) /\ GoodFrame(f) /\ f.pkt # p
      BY <1>1, <1>5, <3>1, WireTail, TailLacks DEF Oldest, WiresOK
    <3>3. PICK g : g.pkt # p /\ wire' = [wire EXCEPT ![e] = <<g>> \o Tail(@)]
      BY <3>1, <3>2, DamagedIsGood
    <3>4. wire'[e] = <<g>> \o Tail(wire[e])
      BY <1>1, <3>3 DEF Domains
    <3> DEFINE v == <<g>> \o Tail(wire[e])
    <3>5. \A i \in 1..Len(v) : v[i] = g \/ (i \in 1..Len(wire[e]) /\ v[i] = wire[e][i])
      BY <1>5
    <3> HIDE DEF v
    <3> QED BY <1>5, <3>3, <3>4, <3>5 DEF v
  <2> QED BY <1>2, <2>1, <2>2
<1>8. WireLacks(p)'
  BY <1>1, <1>3, <1>6, <1>7 DEF WireLacks
<1> QED BY <1>4, <1>8, AbsentParts

LEMMA WorkAbsent ==
  ASSUME NEW p \in Packet, LinkInv, Absent(p), Works
  PROVE  Absent(p)'
BY SendAbsent, ReceiveAbsent, FaultAbsent DEF Works, Timeout

(* What calls, and a user that leaves the link, change.                    *)
LEMMA QuietFrom ==
  ASSUME TypeFaults = {}, NEW K \in [Packet -> Nat], NEW k \in Int, LinkInv, PcHolds,
         From(K, k), HeadFirst(K),
         Sending(PC)' = Sending(PC), UNCHANGED <<tx[PC], buf[PC]>>,
         pending'[Device] \in {pending[Device], NoFrame},
         wire'[Device] \in {wire[Device], << >>},
         asm'[Device] \in {asm[Device], EmptyAsm}
  PROVE  From(K, k)' /\ HeadFirst(K)' /\ PcHolds'
<1>1. Sender' = Sender /\ PcHolds'
  BY DEF Sender, PcHolds
<1>2. ASSUME NEW l \in Int, Ahead(K, l) PROVE Ahead(K, l)'
  <2>1. Rising(K, l, pending'[Device], wire[Device], Sender)
    BY <1>2, RisingDrop DEF Ahead, Live, NoFrame, Blank
  <2>2. Rising(K, l, pending'[Device], << >>, Sender)
    BY <2>1 DEF Rising
  <2> QED BY <1>1, <2>1, <2>2 DEF Ahead
<1> QED BY <1>1, <1>2, SameAssembly

(* The PC starts to send p, of one fragment or ranked after all that was   *)
(* sent.                                                                   *)
LEMMA CallSendFrom ==
  ASSUME TypeFaults = {}, NEW K \in [Packet -> Nat], NEW k \in Int,
         LinkInv, From(K, k), HeadFirst(K),
         NEW p \in Packet, CallSend(PC, p),
         \/ FrameCount[p] = 1
         \/ /\ k <= K[p] + 1
            /\ \A q \in Packet :
                 FrameCount[q] = 1 \/ Absent(q) \/ K[q] + FrameCount[q] <= K[p]
  PROVE  From(K, k)' /\ HeadFirst(K)' /\ PcHolds'
<1>1. SenderOK /\ OutcomeOK /\ AssemblyOK /\ WiresOK /\ PendingOK
      /\ PC \in Node /\ Device \in Node /\ Device # PC
  BY LinkInvParts, NodesDiffer DEF Node
<1>2. /\ UNCHANGED <<pending, wire, asm>> /\ Sending(PC)'
      /\ tx'[PC] = [pkt |-> p, idx |-> 1, tries |-> 0]
      /\ buf'[PC] = Fragment(p, 1)
  BY <1>1 DEF CallSend, SenderOK, Sending
<1>3. PcHolds' /\ ~Sending(PC)
  BY <1>2 DEF PcHolds, CallSend, Sending
<1>4. FrameCount[p] \in 1..MaxFrames /\ K[p] \in Nat
  BY PacketAssumption
<1>5. CASE FrameCount[p] = 1
  <2>1. Sender' = Sender
    BY <1>2, <1>3, <1>5 DEF Sender
  <2> QED BY <1>2, <1>3, <2>1, SameAssembly DEF Ahead
<1>6. CASE FrameCount[p] # 1
  <2>1. Sender = {} /\ Sender' = {tx'[PC]} /\ Rank(K, tx'[PC]) = K[p] + 1
    BY <1>2, <1>3, <1>4, <1>6 DEF Sender, Rank
  <2>2. \A q \in Packet : FrameCount[q] = 1 \/ Absent(q) \/ K[q] + FrameCount[q] <= K[p]
    BY <1>6
  <2>3. ASSUME NEW f, GoodFrame(f), Live(f), ~Absent(f.pkt) PROVE Rank(K, f) <= K[p] + 1
    <3>1. f.pkt \in Packet /\ FrameCount[f.pkt] > 1 /\ f.idx \in 1..FrameCount[f.pkt]
          /\ FrameCount[f.pkt] \in Int /\ K[f.pkt] \in Nat
      BY <2>3, LiveRank, PacketAssumption
    <3>2. K[f.pkt] + FrameCount[f.pkt] <= K[p]
      BY <2>2, <2>3, <3>1
    <3> QED BY <1>4, <3>1, <3>2 DEF Rank
  <2>4. GoodFrame(pending[Device]) /\ GoodWire(wire[Device])
    BY <1>1 DEF PendingOK, WiresOK
  <2>5. Live(pending[Device]) => Rank(K, pending[Device]) <= K[p] + 1
    BY <1>1, <2>3, <2>4 DEF Absent
  <2>6. \A i \in 1..Len(wire[Device]) :
          Live(wire[Device][i]) => Rank(K, wire[Device][i]) <= K[p] + 1
    <3>1. \A i \in 1..Len(wire[Device]) : GoodFrame(wire[Device][i])
      BY <2>4 DEF GoodWire, GoodFrame
    <3> QED BY <1>1, <2>3, <3>1 DEF Absent
  <2>7. ASSUME NEW l \in Int, l <= K[p] + 1, Ahead(K, l) PROVE Ahead(K, l)'
    <3>1. Rising(K, l, pending[Device], wire[Device], {tx'[PC]})
      BY <2>1, <2>5, <2>6, <2>7 DEF Ahead, Rising
    <3> QED BY <1>2, <2>1, <3>1 DEF Ahead
  <2>8. From(K, k)'
    BY <1>2, <1>6, <2>7 DEF From
  <2>9. HeadFirst(K)'
    <3> SUFFICES ASSUME asm[Device].got # << >> PROVE HeadFirst(K)'
      BY <1>2 DEF HeadFirst
    <3> PICK c : c = asm[Device].got[1]
      OBVIOUS
    <3>1. /\ asm[Device].got \in Seq(Chunk) /\ Gapless(asm[Device].got)
          /\ Untouched(asm[Device].got) /\ 1 \in 1..Len(asm[Device].got)
      BY <1>1, IntactLink DEF AssemblyOK, Sober, Prefix
    <3>2. c \in Chunk /\ c.idx = 1 /\ FrameCount[c.pkt] > 1 /\ ~Absent(c.pkt)
      BY <1>1, <3>1 DEF Gapless, Untouched, From, Absent
    <3>3. c.pkt \in Packet
      BY <3>2 DEF Chunk
    <3>4. FrameCount[c.pkt] \in Int /\ K[c.pkt] \in Nat
      BY <3>3, PacketAssumption
    <3>5. Rank(K, c) \in Int /\ Rank(K, c) <= K[p] + 1
      <4>1. K[c.pkt] + FrameCount[c.pkt] <= K[p]
        BY <2>2, <3>2, <3>3, <3>4
      <4> QED BY <1>4, <3>2, <3>4, <4>1 DEF Rank
    <3>6. From(K, Rank(K, c))
      BY DEF HeadFirst
    <3>7. Ahead(K, Rank(K, c))'
      BY <2>7, <3>5, <3>6 DEF From
    <3> QED BY <1>2, <3>6, <3>7 DEF HeadFirst, From
  <2> QED BY <1>3, <2>8, <2>9
<1> QED BY <1>5, <1>6

LEMMA WeakerFrom ==
  ASSUME TypeFaults = {}, NEW K \in [Packet -> Nat], NEW k \in Int, NEW l \in Int, l <= k, LinkInv,
         From(K, k)
  PROVE  From(K, l)
BY RanksAreInts, RisingFrom DEF From, Ahead

LEMMA WeakerFromNext ==
  ASSUME TypeFaults = {}, NEW K \in [Packet -> Nat], NEW k \in Int, NEW l \in Int, l <= k
  PROVE  LinkInv' /\ From(K, k)' => From(K, l)'
<1>1. LinkInv /\ From(K, k) => From(K, l)
  BY WeakerFrom
<1> QED BY <1>1, PTL

(* A user that leaves: what was set aside and received is dropped.         *)
LEMMA LeaveKeeps ==
  ASSUME LinkInv, NEW e \in Node,
         pending' = [pending EXCEPT ![e] = NoFrame], res' = [res EXCEPT ![e] = "none"],
         inbox' = [inbox EXCEPT ![e] = << >>], UNCHANGED <<op, tx, buf, asm, wire, faults>>
  PROVE  LinkInv'
<1>1. SenderOK /\ OutcomeOK /\ AssemblyOK /\ PendingOK /\ WiresOK /\ Domains /\ faults \in Nat
  BY LinkInvParts
<1>2. OutcomeOK'
  BY <1>1, NothingIsUntouched DEF OutcomeOK, WholePacket
<1>3. PendingOK' /\ Domains'
  BY <1>1, BlankIsGood DEF PendingOK, Domains
<1>4. SenderOK' /\ AssemblyOK' /\ WiresOK' /\ (faults \in Nat)'
  BY <1>1 DEF SenderOK, AssemblyOK, WiresOK
<1> QED BY <1>2, <1>3, <1>4, LinkInvPartsNext

(* Another device on the cable: what was sent to the last one is lost.     *)
LEMMA CutKeeps ==
  ASSUME LinkInv, NEW e \in Node, wire' = [wire EXCEPT ![e] = << >>],
         UNCHANGED <<op, tx, buf, asm, pending, res, inbox, faults>>
  PROVE  LinkInv'
<1>1. SenderOK /\ OutcomeOK /\ AssemblyOK /\ PendingOK /\ WiresOK /\ Domains /\ faults \in Nat
  BY LinkInvParts
<1>0. GoodWire(<< >>)
  BY DEF GoodWire
<1>4. \A n \in Node : wire'[n] = IF n = e THEN << >> ELSE wire[n]
  BY <1>1 DEF Domains
<1>5. Domains'
  BY <1>1 DEF Domains
<1>2. WiresOK'
  BY <1>0, <1>1, <1>4 DEF WiresOK
<1>3. SenderOK' /\ OutcomeOK' /\ AssemblyOK' /\ PendingOK' /\ (faults \in Nat)'
  BY <1>1 DEF SenderOK, OutcomeOK, WholePacket, AssemblyOK, PendingOK
<1> QED BY <1>2, <1>3, <1>5, LinkInvPartsNext

LEMMA QuietAbsent ==
  ASSUME NEW p \in Packet, LinkInv, Absent(p), UNCHANGED <<tx, buf>>,
         \A e \in Node : /\ pending'[e] \in {pending[e], NoFrame}
                         /\ wire'[e] \in {wire[e], << >>}
                         /\ asm'[e] \in {asm[e], EmptyAsm}
                         /\ inbox'[e] \in {inbox[e], << >>}
  PROVE  Absent(p)'
BY NoPacketIsNone DEF Absent, EmptyAsm

LEMMA CallSendAbsent ==
  ASSUME NEW p \in Packet, LinkInv, Absent(p), NEW q \in Packet, q # p, NEW e \in Node,
         CallSend(e, q)
  PROVE  Absent(p)'
<1>1. SenderOK /\ OutcomeOK
  BY LinkInvParts
<1>2. \A n \in Node : /\ tx'[n].pkt \in {tx[n].pkt, q}
                      /\ buf'[n].pkt \in {buf[n].pkt, q}
                      /\ inbox'[n] \in {inbox[n], << >>}
  BY <1>1 DEF CallSend, SenderOK, OutcomeOK, Fragment
<1>3. UNCHANGED <<asm, pending, wire>>
  BY DEF CallSend
<1> QED BY <1>2, <1>3 DEF Absent

-----------------------------------------------------------------------------
(***************************************************************************)
(* An exchange in which nothing is lost, damaged or late: every step of a  *)
(* node is then determined by its call and the oldest frame on its wire.   *)
(***************************************************************************)
Ack(p, i) == Control("ACK", Fragment(p, i).seq)

Sends(e, p, i) ==
  op[e] = "send" /\ tx[e].pkt = p /\ tx[e].idx = i /\ buf[e] = Fragment(p, i)
Waits(e, p, i) == op[e] = "wait" /\ tx[e].pkt = p /\ tx[e].idx = i
Sent(e) == op[e] = "idle" /\ res[e] = "sent"

(* The assembler holds the first i fragments of p; all of them.            *)
Receives(e, p, i) ==
  /\ op[e] = "receive" /\ Len(asm[e].got) = i
  /\ \A k \in 1..i : asm[e].got[k].pkt = p
Has(e, p) ==
  /\ op[e] = "idle" /\ res[e] = "received" /\ inbox[e] # << >>
  /\ \A k \in 1..Len(inbox[e]) : inbox[e][k].pkt = p

HeadIs(e, f) == wire[e] # << >> /\ Head(wire[e]) = f

(* A node's step leaves its peer's calls alone.                            *)
Others(e) ==
  \A n \in Node \ {e} :
    /\ op'[n] = op[n] /\ tx'[n] = tx[n] /\ buf'[n] = buf[n] /\ asm'[n] = asm[n]
    /\ res'[n] = res[n] /\ inbox'[n] = inbox[n]

Progresses(e) == (Send(e) \/ Receive(e)) /\ faults' = faults

LEMMA SpendsFault ==
  ASSUME LinkInv, faults' = faults
  PROVE  ~Spend(TRUE)
<1>1. faults \in Nat
  BY DEF LinkInv, TypeOK
<1> QED BY <1>1 DEF Spend

LEMMA IdleStays ==
  ASSUME NEW e \in Node, op[e] = "idle"
  PROVE  ~Send(e) /\ ~Receive(e) /\ ~Timeout(e)
<1>1. ~Send(e)
  BY DEF Send, WriteFrame, WriteFails, GetAck, GetNack, SkipControl, SetAside, AwaitUnreadable, Await
<1>2. ~Receive(e)
  BY DEF Receive, ReceiveControl, ReceiveUndecodable, ReceiveDuplicate, ReceiveRejected,
         ReceiveAccepted, Load
<1>3. ~Timeout(e)
  BY DEF Timeout, AwaitTimeout, ReceiveTimeout
<1> QED BY <1>1, <1>2, <1>3

LEMMA NothingToRead ==
  ASSUME NEW e \in Node, op[e] \in {"wait", "receive"}, wire[e] = << >>, pending[e] = NoFrame
  PROVE  ~Send(e) /\ ~Receive(e)
<1>1. Oldest(e) = {} /\ NextFrame(e) = {}
  BY DEF Oldest, NextFrame
<1>2. ~Send(e)
  BY <1>1 DEF Send, WriteFrame, WriteFails, GetAck, GetNack, SkipControl, SetAside, AwaitUnreadable
<1>3. ~Receive(e)
  BY <1>1 DEF Receive, ReceiveControl, ReceiveUndecodable, ReceiveDuplicate, ReceiveRejected,
         ReceiveAccepted
<1> QED BY <1>2, <1>3

LEMMA SendsMove ==
  ASSUME LinkInv, NEW e \in Node, NEW p, NEW i, Sends(e, p, i), Progresses(e)
  PROVE  /\ Waits(e, p, i)' /\ pending' = pending /\ Others(e)
         /\ wire' = [wire EXCEPT ![Peer(e)] = Append(@, Fragment(p, i))]
<1>1. op[e] = "send" /\ buf[e] = Fragment(p, i)
  BY DEF Sends
<1>2. ~Receive(e)
  BY <1>1 DEF Receive, ReceiveControl, ReceiveUndecodable, ReceiveDuplicate, ReceiveRejected,
         ReceiveAccepted, Load
<1>3. WriteFrame(e)
  BY <1>1, <1>2, SpendsFault DEF Progresses, Send, WriteFails, GetAck, GetNack, SkipControl, SetAside,
     AwaitUnreadable, Await
<1>4. /\ op \in [Node -> {"idle", "send", "wait", "receive"}] /\ tx = [n \in Node |-> tx[n]]
      /\ buf = [n \in Node |-> buf[n]]
  BY DEF LinkInv, TypeOK
<1>5. wire' = [wire EXCEPT ![Peer(e)] = Append(@, Fragment(p, i))] /\ pending' = pending
  BY <1>1, <1>3 DEF WriteFrame
<1>6. Waits(e, p, i)'
  BY <1>3, <1>4 DEF WriteFrame, Sends, Waits
<1>7. Others(e)
  BY <1>3, <1>4 DEF WriteFrame, Others
<1> QED BY <1>5, <1>6, <1>7

LEMMA WaitsMove ==
  ASSUME LinkInv, NEW e \in Node, NEW p \in Packet, NEW i \in 1..FrameCount[p],
         Waits(e, p, i), HeadIs(e, Ack(p, i)), Progresses(e)
  PROVE  /\ IF i < FrameCount[p] THEN Sends(e, p, i + 1)' ELSE Sent(e)'
         /\ pending' = pending /\ Others(e)
         /\ wire' = [wire EXCEPT ![e] = Tail(@)]
<1>1. op[e] = "wait" /\ tx[e].pkt = p /\ tx[e].idx = i /\ Oldest(e) = {Ack(p, i)}
  BY DEF Waits, HeadIs, Oldest
<1>2. ~Receive(e)
  BY <1>1 DEF Receive, ReceiveControl, ReceiveUndecodable, ReceiveDuplicate, ReceiveRejected,
         ReceiveAccepted, Load
<1>3. /\ Ack(p, i).type = "ACK" /\ Ack(p, i).seq = Expected(e) /\ Ack(p, i).ok = TRUE
      /\ Readable(e, Ack(p, i)) /\ IsControl(e, Ack(p, i))
  BY <1>1 DEF Ack, Control, Expected, Readable, IsControl, ControlType
<1>4. GetAck(e)
  BY <1>1, <1>2, <1>3 DEF Progresses, Send, WriteFrame, WriteFails, GetNack, SkipControl, SetAside,
     AwaitUnreadable, ControlType
<1>5. /\ op \in [Node -> {"idle", "send", "wait", "receive"}] /\ tx = [n \in Node |-> tx[n]]
      /\ buf = [n \in Node |-> buf[n]] /\ res = [n \in Node |-> res[n]]
      /\ inbox = [n \in Node |-> inbox[n]]
  BY DEF LinkInv, TypeOK
<1>6. wire' = [wire EXCEPT ![e] = Tail(@)] /\ pending' = pending /\ asm' = asm
  BY <1>4 DEF GetAck, Await
<1>7. CASE i < FrameCount[p]
  <2>1. /\ op' = [op EXCEPT ![e] = "send"]
        /\ tx' = [tx EXCEPT ![e] = [pkt |-> @.pkt, idx |-> @.idx + 1, tries |-> 0]]
        /\ buf' = [buf EXCEPT ![e] = Fragment(p, i + 1)] /\ res' = res /\ inbox' = inbox
    BY <1>1, <1>4, <1>7 DEF GetAck
  <2> QED BY <1>1, <1>5, <1>6, <1>7, <2>1 DEF Sends, Others
<1>8. CASE ~(i < FrameCount[p])
  <2>1. /\ op' = [op EXCEPT ![e] = "idle"] /\ res' = [res EXCEPT ![e] = "sent"]
        /\ inbox' = [inbox EXCEPT ![e] = << >>]
        /\ tx' = [tx EXCEPT ![e] = NoTx] /\ buf' = [buf EXCEPT ![e] = Blank]
    BY <1>1, <1>4, <1>8 DEF GetAck, Return
  <2> QED BY <1>5, <1>6, <1>8, <2>1 DEF Sent, Others
<1> QED BY <1>7, <1>8

LEMMA TakesMove ==
  ASSUME TypeFaults = {}, LinkInv, NEW e \in Node, NEW p \in Packet, NEW i \in 1..FrameCount[p],
         Receives(e, p, i - 1), HeadIs(e, Fragment(p, i)), pending[e] = NoFrame, Progresses(e)
  PROVE  /\ IF i < FrameCount[p] THEN Receives(e, p, i)' ELSE Has(e, p)'
         /\ pending'[e] = NoFrame /\ Others(e)
         /\ \A n \in Node \ {e} : pending'[n] = pending[n]
         /\ wire' = [wire EXCEPT ![e] = Tail(@), ![Peer(e)] = Append(@, Ack(p, i))]
<1> DEFINE f == Fragment(p, i)
           a == asm[e]
<1>0. FrameCount[p] \in 1..254 /\ i \in Nat
  BY PacketAssumption
<1>1. op[e] = "receive" /\ NextFrame(e) = {f}
  BY DEF Receives, NextFrame, HeadIs, Oldest
<1>2. ~Send(e)
  BY <1>1 DEF Send, WriteFrame, WriteFails, GetAck, GetNack, SkipControl, SetAside, AwaitUnreadable, Await
<1>3. /\ f.ok = TRUE /\ f.type \in DataType /\ f.pkt = p /\ f.idx = i
      /\ ~Undecodable(e, f) /\ f.type \notin ControlType
      /\ f.type = IF FrameCount[p] = 1 THEN "SINGLE" ELSE IF i = 1 THEN "FIRST" ELSE "CONSECUTIVE"
      /\ f.type # "SINGLE" => f.seq = i - 1
      /\ Typed(f)
  <2>1. Typed(f)
    BY FragmentIsGood DEF GoodFrame, Genuine
  <2> QED BY <2>1, PacketAssumption DEF Fragment, DataType, ControlType, Undecodable
<1>4. /\ a \in Asm /\ a.got \in Seq(Chunk) /\ Len(a.got) = i - 1 /\ a.seq = i - 1
      /\ i > 1 => a.got # << >> /\ a.total = FrameCount[p]
      /\ a.got \in Seq(Chunk) /\ a.seq \in Nat
  <2>1. a \in Asm /\ Prefix(a) /\ Len(a.got) = i - 1
    BY DEF LinkInv, TypeOK, Receives
  <2>2. a.got \in Seq(Chunk) /\ a.seq = i - 1
    BY <2>1, IntactLink DEF Prefix
  <2>3. ASSUME i > 1 PROVE a.got # << >> /\ a.total = FrameCount[p]
    <3>1. a.got # << >> /\ 1 \in 1..(i - 1)
      BY <1>0, <2>1, <2>3
    <3>2. a.got[1].pkt = p
      BY <3>1 DEF Receives
    <3> QED BY <3>1, <3>2, IntactLink
  <2> QED BY <1>0, <2>1, <2>2, <2>3
<1>5. ~Duplicate(a, f) /\ Accepts(a, f) /\ ~MayOverflow(a, f)
  <2>1. f.type = "CONSECUTIVE" => i > 1 /\ FrameCount[p] > 1
    BY <1>0, <1>3
  <2> HIDE DEF f, a
  <2> QED BY <1>0, <1>3, <1>4, <2>1 DEF Duplicate, Accepts, Fits, MayOverflow
<1>6. ReceiveAccepted(e)
  BY <1>1, <1>2, <1>3, <1>5 DEF Progresses, Receive, ReceiveControl, ReceiveUndecodable,
     ReceiveDuplicate, ReceiveRejected
<1> DEFINE chunk == [pkt |-> p, idx |-> i]
<1>7. PICK b \in Assemble(a, f) :
        /\ wire' = [wire EXCEPT ![e] = Tail(@), ![Peer(e)] = @ \o <<Ack(p, i)>>]
        /\ pending' = [pending EXCEPT ![e] = NoFrame] /\ UNCHANGED <<tx, buf>>
        /\ \/ Complete(b) /\ Return(e, "received", b.got) /\ asm' = [asm EXCEPT ![e] = EmptyAsm]
           \/ ~Complete(b) /\ asm' = [asm EXCEPT ![e] = b] /\ UNCHANGED <<op, res, inbox>>
  <2>1. PICK lost \in BOOLEAN :
          /\ Load(e, IF lost THEN << >> ELSE <<Control("ACK", f.seq)>>)
          /\ Spend(lost) /\ UNCHANGED <<tx, buf>>
          /\ \E b \in Assemble(a, f) :
               \/ lost
               \/ ~lost /\ Complete(b) /\ Return(e, "received", b.got)
                  /\ asm' = [asm EXCEPT ![e] = EmptyAsm]
               \/ ~lost /\ ~Complete(b) /\ asm' = [asm EXCEPT ![e] = b]
                  /\ UNCHANGED <<op, res, inbox>>
    BY <1>1, <1>6 DEF ReceiveAccepted
  <2>2. lost = FALSE
    BY <2>1, SpendsFault DEF Progresses
  <2>3. /\ wire' = [wire EXCEPT ![e] = Tail(@), ![Peer(e)] = @ \o <<Ack(p, i)>>]
        /\ pending' = [pending EXCEPT ![e] = NoFrame]
    BY <2>1, <2>2 DEF Load, Ack
  <2> QED BY <2>1, <2>2, <2>3
<1>8. b.got = (IF f.type = "CONSECUTIVE" THEN Append(a.got, chunk) ELSE <<chunk>>)
      /\ b.total = FrameCount[p]
  <2>1. CASE f.type = "SINGLE"
    <3>1. b = [seq |-> 0, total |-> 1, got |-> <<chunk>>]
      BY <1>3, <2>1 DEF Assemble
    <3> QED BY <1>3, <2>1, <3>1
  <2>2. CASE f.type = "FIRST"
    <3>1. b = [seq |-> 1, total |-> FrameCount[p], got |-> <<chunk>>]
      BY <1>3, <2>2 DEF Assemble
    <3> QED BY <2>2, <3>1
  <2>3. CASE f.type = "CONSECUTIVE"
    <3>1. b = [seq |-> a.seq + 1, total |-> a.total, got |-> Append(a.got, chunk)]
      BY <1>3, <2>3 DEF Assemble, Totals
    <3>2. i > 1
      BY <1>0, <1>3, <2>3
    <3> QED BY <1>4, <2>3, <3>1, <3>2
  <2> QED BY <1>3, <2>1, <2>2, <2>3 DEF DataType
<1>10. /\ Len(b.got) = i
       /\ \A k \in 1..i : b.got[k].pkt = p
  <2>1. CASE f.type = "CONSECUTIVE"
    <3>1. \A k \in 1..(i - 1) : a.got[k].pkt = p
      BY DEF Receives
    <3>2. chunk.pkt = p
      OBVIOUS
    <3> HIDE DEF chunk, a, f
    <3> QED BY <1>0, <1>4, <1>8, <2>1, <3>1, <3>2
  <2>2. CASE f.type # "CONSECUTIVE"
    <3>1. i = 1
      BY <1>0, <1>3, <2>2
    <3> QED BY <1>8, <2>2, <3>1
  <2> QED BY <2>1, <2>2
<1>11. /\ op \in [Node -> {"idle", "send", "wait", "receive"}] /\ asm = [n \in Node |-> asm[n]]
       /\ res = [n \in Node |-> res[n]] /\ inbox = [n \in Node |-> inbox[n]]
       /\ pending = [n \in Node |-> pending[n]] /\ wire \in [Node -> Seq(Frame)]
  BY DEF LinkInv, TypeOK
<1>12. wire' = [wire EXCEPT ![e] = Tail(@), ![Peer(e)] = Append(@, Ack(p, i))]
  <2>1. Peer(e) \in Node /\ Peer(e) # e
    BY PeerInNode
  <2>2. wire[Peer(e)] \o <<Ack(p, i)>> = Append(wire[Peer(e)], Ack(p, i))
    BY <1>11, <2>1
  <2> QED BY <1>7, <1>11, <2>1, <2>2
<1>13. pending'[e] = NoFrame /\ \A n \in Node \ {e} : pending'[n] = pending[n]
  BY <1>7, <1>11
<1> HIDE DEF a, f, chunk
<1>14. Complete(b) <=> ~(i < FrameCount[p])
  <2>1. Complete(b) <=> i = FrameCount[p]
    BY <1>8, <1>10 DEF Complete
  <2>2. FrameCount[p] \in Int /\ i \in Int /\ i <= FrameCount[p]
    BY <1>0
  <2> QED BY <2>1, <2>2
<1>15. CASE Complete(b)
  <2>1. /\ op' = [op EXCEPT ![e] = "idle"] /\ res' = [res EXCEPT ![e] = "received"]
        /\ inbox' = [inbox EXCEPT ![e] = b.got] /\ asm' = [asm EXCEPT ![e] = EmptyAsm]
    BY <1>7, <1>15 DEF Return
  <2>2. b.got # << >>
    BY <1>0, <1>10
  <2>3. Has(e, p)'
    BY <1>10, <1>11, <2>1, <2>2 DEF Has
  <2>4. Others(e)
    BY <1>7, <1>11, <2>1 DEF Others
  <2> QED BY <1>12, <1>13, <1>14, <1>15, <2>3, <2>4
<1>16. CASE ~Complete(b)
  <2>1. asm' = [asm EXCEPT ![e] = b] /\ UNCHANGED <<op, res, inbox>>
    BY <1>7, <1>16
  <2>2. Receives(e, p, i)'
    BY <1>1, <1>10, <1>11, <2>1 DEF Receives
  <2>3. Others(e)
    BY <1>7, <1>11, <2>1 DEF Others
  <2> QED BY <1>12, <1>13, <1>14, <1>16, <2>2, <2>3
<1> QED BY <1>15, <1>16

(* What a node's step cannot touch, whatever happens on the UART.          *)
LEMMA PeerUntouched ==
  ASSUME LinkInv, NEW e \in Node, NEW n \in Node, n # e,
         \/ Send(e) \/ Receive(e) \/ Timeout(e) \/ CallReceive(e)
         \/ \E p : CallSend(e, p)
  PROVE  op'[n] = op[n] /\ res'[n] = res[n] /\ tx'[n] = tx[n] /\ pending'[n] = pending[n]
<1>0. /\ op = [x \in Node |-> op[x]] /\ res = [x \in Node |-> res[x]]
      /\ tx = [x \in Node |-> tx[x]] /\ pending = [x \in Node |-> pending[x]]
  BY DEF LinkInv, TypeOK
<1> DEFINE Kept == op'[n] = op[n] /\ res'[n] = res[n] /\ tx'[n] = tx[n] /\ pending'[n] = pending[n]
<1>1. ASSUME NEW left, RetryOrFail(e, left), UNCHANGED pending
      PROVE  Kept
  BY <1>0, <1>1 DEF RetryOrFail, Return
<1>2. ASSUME Raise(e), UNCHANGED pending
      PROVE  Kept
  BY <1>0, <1>2 DEF Raise, Return
<1>3. CASE WriteFrame(e) \/ WriteFails(e)
  BY <1>0, <1>1, <1>2, <1>3 DEF WriteFrame, WriteFails
<1>4. CASE GetAck(e)
  BY <1>0, <1>4 DEF GetAck, Return
<1>5. CASE GetNack(e) \/ AwaitUnreadable(e) \/ AwaitTimeout(e)
  BY <1>1, <1>2, <1>5 DEF GetNack, AwaitUnreadable, AwaitTimeout
<1>6. CASE SkipControl(e) \/ SetAside(e)
  BY <1>0, <1>6 DEF SkipControl, SetAside
<1>7. CASE Receive(e)
  <2>1. pending' = [pending EXCEPT ![e] = NoFrame]
    BY <1>7 DEF Receive, ReceiveControl, ReceiveUndecodable, ReceiveDuplicate, ReceiveRejected,
       ReceiveAccepted, Load
  <2>2. tx' = tx
    BY <1>7 DEF Receive, ReceiveControl, ReceiveUndecodable, ReceiveDuplicate, ReceiveRejected,
       ReceiveAccepted
  <2>3. \/ UNCHANGED <<op, res>>
        \/ \E r : op' = [op EXCEPT ![e] = "idle"] /\ res' = [res EXCEPT ![e] = r]
    BY <1>7 DEF Receive, ReceiveControl, ReceiveUndecodable, ReceiveDuplicate, ReceiveRejected,
       ReceiveAccepted, Return
  <2> QED BY <1>0, <2>1, <2>2, <2>3
<1>8. CASE ReceiveTimeout(e)
  BY <1>0, <1>8 DEF ReceiveTimeout, Return
<1>9. CASE CallReceive(e) \/ \E p : CallSend(e, p)
  BY <1>0, <1>9 DEF CallReceive, CallSend
<1> QED BY <1>3, <1>4, <1>5, <1>6, <1>7, <1>8, <1>9 DEF Send, Timeout

(* A packet of one fragment is being sent until the call ends.             *)
LEMMA SingleSends ==
  ASSUME LinkInv, NEW e \in Node, op[e] \in {"send", "wait"},
         FrameCount[tx[e].pkt] = 1, tx[e].idx = 1, Send(e) \/ Receive(e) \/ Timeout(e)
  PROVE  \/ op'[e] = "idle"
         \/ op'[e] \in {"send", "wait"} /\ tx'[e].pkt = tx[e].pkt /\ tx'[e].idx = 1
<1>0. /\ op = [x \in Node |-> op[x]]
      /\ tx \in [Node -> [pkt : Packet \cup {NoPacket}, idx : 1..MaxFrames,
                          tries : 0..(MaxTries - 1)]]
  BY DEF LinkInv, TypeOK
<1> DEFINE Goal == \/ op'[e] = "idle"
                   \/ op'[e] \in {"send", "wait"} /\ tx'[e].pkt = tx[e].pkt /\ tx'[e].idx = 1
<1>1. ASSUME NEW left, RetryOrFail(e, left) \/ Raise(e)
      PROVE  Goal
  BY <1>0, <1>1 DEF RetryOrFail, Raise, Return
<1>2. ~Receive(e) /\ ~ReceiveTimeout(e)
  BY DEF Receive, ReceiveControl, ReceiveUndecodable, ReceiveDuplicate, ReceiveRejected,
         ReceiveAccepted, Load, ReceiveTimeout
<1>3. CASE WriteFrame(e)
  BY <1>0, <1>3 DEF WriteFrame
<1>4. CASE WriteFails(e) \/ GetNack(e) \/ AwaitUnreadable(e) \/ AwaitTimeout(e)
  BY <1>1, <1>4 DEF WriteFails, GetNack, AwaitUnreadable, AwaitTimeout
<1>5. CASE GetAck(e)
  BY <1>0, <1>5 DEF GetAck, Return
<1>6. CASE SkipControl(e) \/ SetAside(e)
  BY <1>0, <1>6 DEF SkipControl, SetAside
<1> QED BY <1>2, <1>3, <1>4, <1>5, <1>6 DEF Send, Timeout

=============================================================================
