------------------------------ MODULE FrameLink ------------------------------
(***************************************************************************)
(* The stop-and-wait link under every factory session.  Two nodes share a  *)
(* UART: the device runs send_current_packet / wait_flow_control /         *)
(* receive_one_packet of device/src/factory_session.c over the fragmenter  *)
(* and assembler of factory_frame.c, the PC runs FrameLink.send_packet /   *)
(* _wait_flow_control / receive_packet of pc/src/frame/link.py.            *)
(*                                                                         *)
(* The two programs mirror each other but are not equal:                   *)
(*   - the device has ONE static frame, `frame`, that it fills with the    *)
(*     fragment to send and that wait_flow_control initialises and reads   *)
(*     into, so a retry writes whatever that wait left there;              *)
(*   - the device counts a timeout as a failed try, the PC raises it;      *)
(*   - the PC checks the CRC of every frame it reads, the device only when *)
(*     it decodes flow control or assembles data.                          *)
(*                                                                         *)
(* A packet is a value of Packet that needs FrameCount[p] fragments; a     *)
(* fragment stands for the bytes it carries.  The UART loses frames (the   *)
(* magic or the size was damaged, bytes were dropped), damages payloads    *)
(* (ok = FALSE: the CRC does not match, the sequence byte may differ) and, *)
(* as TypeFaults says, the type byte, which no CRC covers: the frame is    *)
(* then read as one of another type, its bytes in the places of that type. *)
(***************************************************************************)
EXTENDS Integers, Sequences

CONSTANTS
  Device, PC,   (* The two ends of the UART.                               *)
  Packet,       (* Packets the session layers hand to the link.            *)
  FrameCount,   (* Number of fragments of each packet.                     *)
  MaxFrames,    (* Bound: fragments of the largest packet.                 *)
  MaxTries,     (* Tries for one frame (3 in both programs).               *)
  MaxBacklog,   (* Bound: stale frames on the UART when a send call starts. *)
  MaxFaults,    (* Bound: lost or damaged frames and failed writes.        *)
  LateReplies,  (* TRUE: a deadline may pass as a frame arrives.           *)
  TypeFaults,   (* The types <<t, u>> such that the UART may make u of t.  *)
  NoPacket      (* Content of a frame that carries no packet data.         *)

Node == {Device, PC}
Peer(e) == IF e = Device THEN PC ELSE Device

SINGLE_SEQ == 255       (* Sequence number reported for a SINGLE frame.    *)
PROTOCOL_VERSION == 1   (* The first byte of every packet.                 *)

ASSUME NodesDiffer == Device # PC
ASSUME PacketAssumption ==
  /\ NoPacket \notin Packet
  /\ MaxFrames \in 1..254
  /\ FrameCount \in [Packet -> 1..MaxFrames]
ASSUME BoundsAssumption ==
  /\ MaxTries \in Nat \ {0}
  /\ MaxBacklog \in Nat
  /\ MaxFaults \in Nat
  /\ LateReplies \in BOOLEAN

DataType    == {"SINGLE", "FIRST", "CONSECUTIVE"}
ControlType == {"ACK", "NACK"}
FrameType   == DataType \cup ControlType \cup {"NONE"}
ASSUME TypeFaultsAssumption == TypeFaults \subseteq FrameType \X FrameType

SeqNo       == 0..(MaxFrames - 1) \cup {PROTOCOL_VERSION, SINGLE_SEQ}

Frame == [type : FrameType,
          seq  : SeqNo,
          pkt  : Packet \cup {NoPacket},
          idx  : 0..MaxFrames,
          ok   : BOOLEAN]

(* One fragment's worth of packet bytes; bytes read under another type     *)
(* than they were sent with are of no fragment.                            *)
Chunk == [pkt : Packet, idx : 1..MaxFrames]
Misread == [pkt |-> NoPacket, idx |-> 0]
Piece == Chunk \cup {Misread}

(* factory_frame_init: valid magic, type 0, size 0.  The PC rejects it.    *)
Blank == [type |-> "NONE", seq |-> 0, pkt |-> NoPacket, idx |-> 0, ok |-> TRUE]

Control(t, s) == [type |-> t, seq |-> s, pkt |-> NoPacket, idx |-> 0, ok |-> TRUE]

(* The i-th frame the fragmenter yields for packet p.                      *)
Fragment(p, i) ==
  [type |-> IF FrameCount[p] = 1 THEN "SINGLE"
            ELSE IF i = 1 THEN "FIRST" ELSE "CONSECUTIVE",
   seq  |-> IF FrameCount[p] = 1 THEN SINGLE_SEQ ELSE i - 1,
   pkt  |-> p, idx |-> i, ok |-> TRUE]

NoFrame == [Blank EXCEPT !.ok = FALSE]

(* The frame has the type it was sent with.                                *)
Typed(f) ==
  IF f.pkt = NoPacket THEN f.type \notin DataType
  ELSE f.idx \in 1..FrameCount[f.pkt] /\ f.type = Fragment(f.pkt, f.idx).type

-----------------------------------------------------------------------------
VARIABLES
  op,       (* What the node's link is doing.                              *)
  tx,       (* Packet being sent, its current fragment, tries made.        *)
  buf,      (* The frame the next write transmits: the device's static     *)
            (* `frame`, the PC's local one.                                *)
  asm,      (* Assembler: expected sequence, FIRST's total, bytes so far.  *)
  pending,  (* The one data frame set aside while waiting for an ACK.      *)
  wire,     (* Frames on their way TO the node, oldest first.              *)
  res,      (* Outcome of the node's last link call.                       *)
  inbox,    (* Packet returned by the node's last receive call.            *)
  faults    (* Faults injected so far.                                     *)

vars == <<op, tx, buf, asm, pending, wire, res, inbox, faults>>

Asm == [seq : 0..MaxFrames, total : Nat, got : Seq(Piece)]
EmptyAsm == [seq |-> 0, total |-> 0, got |-> << >>]
NoTx == [pkt |-> NoPacket, idx |-> 1, tries |-> 0]

TypeOK ==
  /\ op      \in [Node -> {"idle", "send", "wait", "receive"}]
  /\ tx      \in [Node -> [pkt : Packet \cup {NoPacket}, idx : 1..MaxFrames,
                           tries : 0..(MaxTries - 1)]]
  /\ \A e \in Node : op[e] \in {"send", "wait"} =>
       tx[e].pkt \in Packet /\ tx[e].idx <= FrameCount[tx[e].pkt]
  /\ buf     \in [Node -> Frame]
  /\ asm     \in [Node -> Asm]
  /\ pending \in [Node -> Frame]
  /\ wire    \in [Node -> Seq(Frame)]
  /\ res     \in [Node -> {"none", "sent", "received", "timeout", "failed"}]
  /\ inbox   \in [Node -> Seq(Piece)]
  /\ faults  \in Nat

Init ==
  /\ op      = [e \in Node |-> "idle"]
  /\ tx      = [e \in Node |-> NoTx]
  /\ buf     = [e \in Node |-> Blank]
  /\ asm     = [e \in Node |-> EmptyAsm]
  /\ pending = [e \in Node |-> NoFrame]
  /\ wire    = [e \in Node |-> << >>]
  /\ res     = [e \in Node |-> "none"]
  /\ inbox   = [e \in Node |-> << >>]
  /\ faults  = 0

-----------------------------------------------------------------------------
(***************************************************************************)
(* Calls and returns.                                                      *)
(***************************************************************************)

(* send_packet: the fragmenter is set up and yields its first frame.       *)
CallSend(e, p) ==
  /\ op[e] = "idle"
  /\ Len(wire[e]) + Len(wire[Peer(e)]) <= MaxBacklog
  /\ op'  = [op EXCEPT ![e] = "send"]
  /\ tx'  = [tx EXCEPT ![e] = [pkt |-> p, idx |-> 1, tries |-> 0]]
  /\ buf' = [buf EXCEPT ![e] = Fragment(p, 1)]
  /\ res' = [res EXCEPT ![e] = "none"]
  /\ inbox' = [inbox EXCEPT ![e] = << >>]
  /\ UNCHANGED <<asm, pending, wire, faults>>

(* receive_one_packet / receive_packet: a fresh assembler.                 *)
CallReceive(e) ==
  /\ op[e] = "idle"
  /\ op'  = [op EXCEPT ![e] = "receive"]
  /\ asm' = [asm EXCEPT ![e] = EmptyAsm]
  /\ res' = [res EXCEPT ![e] = "none"]
  /\ inbox' = [inbox EXCEPT ![e] = << >>]
  /\ UNCHANGED <<tx, buf, pending, wire, faults>>

(* The call ends with outcome r and leaves the packet m (if any) behind.   *)
Return(e, r, m) ==
  /\ op'    = [op EXCEPT ![e] = "idle"]
  /\ res'   = [res EXCEPT ![e] = r]
  /\ inbox' = [inbox EXCEPT ![e] = m]

(* Spends one fault if the write (or the UART) failed.                     *)
Spend(failed) ==
  /\ failed => faults < MaxFaults
  /\ faults' = IF failed THEN faults + 1 ELSE faults

NextTry_Uncounted(e) == tx[e].tries
TriesLeft_OffByOne(e) == tx[e].tries < MaxTries

NextTry(e) == tx[e].tries + 1
TriesLeft(e) == NextTry(e) < MaxTries

(* A failed try on the device: `left` is what the static frame now holds.  *)
RetryOrFail(e, left) ==
  IF TriesLeft(e)
  THEN /\ op'  = [op EXCEPT ![e] = "send"]
       /\ tx'  = [tx EXCEPT ![e].tries = NextTry(e)]
       /\ buf' = [buf EXCEPT ![e] = left]
       /\ UNCHANGED <<res, inbox>>
  ELSE /\ Return(e, "failed", << >>)
       /\ tx'  = [tx EXCEPT ![e] = NoTx]
       /\ buf' = [buf EXCEPT ![e] = Blank]

(* An exception out of send_packet on the PC.                              *)
Raise(e) ==
  /\ Return(e, "failed", << >>)
  /\ tx'  = [tx EXCEPT ![e] = NoTx]
  /\ buf' = [buf EXCEPT ![e] = Blank]

-----------------------------------------------------------------------------
(***************************************************************************)
(* Sending.                                                                *)
(***************************************************************************)

(* write_frame, then the entry into wait_flow_control, whose first act on  *)
(* the device is factory_frame_init(frame).                                *)
WriteFrame(e) ==
  /\ op[e] = "send"
  /\ op'   = [op EXCEPT ![e] = "wait"]
  /\ wire' = [wire EXCEPT ![Peer(e)] = Append(@, buf[e])]
  /\ buf'  = IF e = Device THEN [buf EXCEPT ![e] = Blank] ELSE buf
  /\ UNCHANGED <<tx, asm, pending, res, inbox, faults>>

(* The UART write fails: a failed try on the device (`frame` is intact),   *)
(* FrameIOError on the PC.                                                 *)
WriteFails(e) ==
  /\ op[e] = "send"
  /\ Spend(TRUE)
  /\ IF e = Device THEN RetryOrFail(e, buf[e]) ELSE Raise(e)
  /\ UNCHANGED <<asm, pending, wire>>

Expected(e) == Fragment(tx[e].pkt, tx[e].idx).seq

(* Flow control for its reader: the device asks for the size, too, which   *)
(* only a frame without packet data has.                                   *)
IsControl(e, f) == f.type \in ControlType /\ (e = Device => f.pkt = NoPacket)

(* What the reader of flow control sees: the device decodes control frames *)
(* with their CRC and takes any other frame as data, the PC decodes all.   *)
Readable(e, f) ==
  IF e = Device THEN IsControl(e, f) => f.ok
  ELSE f.ok /\ f.type # "NONE"

Oldest(e) == IF wire[e] = << >> THEN {} ELSE {Head(wire[e])}

(* wait_flow_control reads the oldest frame on the wire.                   *)
Await(e) ==
  /\ op[e] = "wait"
  /\ wire' = [wire EXCEPT ![e] = Tail(@)]

(* The awaited ACK: the next fragment, or the packet is sent.              *)
GetAck(e) ==
  \E f \in Oldest(e) :
    /\ Await(e)
    /\ Readable(e, f) /\ IsControl(e, f) /\ f.type = "ACK" /\ f.seq = Expected(e)
    /\ IF tx[e].idx < FrameCount[tx[e].pkt]
       THEN /\ op'  = [op EXCEPT ![e] = "send"]
            /\ tx'  = [tx EXCEPT ![e] = [pkt |-> @.pkt, idx |-> @.idx + 1, tries |-> 0]]
            /\ buf' = [buf EXCEPT ![e] = Fragment(tx[e].pkt, tx[e].idx + 1)]
            /\ UNCHANGED <<res, inbox>>
       ELSE /\ Return(e, "sent", << >>)
            /\ tx'  = [tx EXCEPT ![e] = NoTx]
            /\ buf' = [buf EXCEPT ![e] = Blank]
    /\ UNCHANGED <<asm, pending, faults>>

(* The awaited NACK: the frame is written again, but the device's `frame`  *)
(* now holds the NACK.                                                     *)
GetNack(e) ==
  \E f \in Oldest(e) :
    /\ Await(e)
    /\ Readable(e, f) /\ IsControl(e, f) /\ f.type = "NACK" /\ f.seq = Expected(e)
    /\ RetryOrFail(e, IF e = Device THEN f ELSE buf[e])
    /\ UNCHANGED <<asm, pending, faults>>

(* Flow control for another frame is skipped.                              *)
SkipControl(e) ==
  \E f \in Oldest(e) :
    /\ Await(e)
    /\ Readable(e, f) /\ IsControl(e, f) /\ f.seq # Expected(e)
    /\ buf' = IF e = Device THEN [buf EXCEPT ![e] = f] ELSE buf
    /\ UNCHANGED <<op, tx, asm, pending, res, inbox, faults>>

(* A frame that is not flow control: the first is set aside for the next   *)
(* receive, later ones are dropped without an answer.                      *)
SetAside(e) ==
  \E f \in Oldest(e) :
    /\ Await(e)
    /\ Readable(e, f) /\ ~IsControl(e, f)
    /\ pending' = IF pending[e] = NoFrame THEN [pending EXCEPT ![e] = f]
                  ELSE pending
    /\ buf' = IF e = Device THEN [buf EXCEPT ![e] = f] ELSE buf
    /\ UNCHANGED <<op, tx, asm, res, inbox, faults>>

(* Damaged flow control on the device (-4), any undecodable frame on the PC.*)
AwaitUnreadable(e) ==
  \E f \in Oldest(e) :
    /\ Await(e)
    /\ ~Readable(e, f)
    /\ IF e = Device THEN RetryOrFail(e, f) ELSE Raise(e)
    /\ UNCHANGED <<asm, pending, faults>>

(* The flow control deadline passes.  The device's `frame` was initialised *)
(* for a read that brought nothing (-3); it still holds the last frame     *)
(* skipped when that frame came just before the deadline (-5).             *)
AwaitTimeout(e) ==
  /\ op[e] = "wait"
  /\ IF e = Device
     THEN \E left \in {Blank, buf[e]} :
            (left = Blank \/ LateReplies) /\ RetryOrFail(e, left)
     ELSE Raise(e)
  /\ UNCHANGED <<asm, pending, wire, faults>>

-----------------------------------------------------------------------------
(***************************************************************************)
(* Receiving.                                                              *)
(***************************************************************************)

(* load_next_rx_frame: the frame set aside first, then the wire.           *)
NextFrame(e) == IF pending[e] # NoFrame THEN {pending[e]} ELSE Oldest(e)

(* The next frame is consumed and `reply` is written in answer.            *)
Load(e, reply) ==
  /\ op[e] = "receive"
  /\ pending' = [pending EXCEPT ![e] = NoFrame]
  /\ wire' = [wire EXCEPT ![e] = IF pending[e] # NoFrame THEN @ ELSE Tail(@),
                          ![Peer(e)] = @ \o reply]

(* The PC cannot decode the frame at all, or it is a FIRST frame without   *)
(* room for its sequence; the device finds no sequence.                    *)
Undecodable(e, f) ==
  IF e = Device THEN f.type = "NONE"
  ELSE ~f.ok \/ f.type = "NONE" \/ (f.type = "FIRST" /\ f.pkt = NoPacket)

(* Retransmissions of fragments this assembler already has.                *)
Duplicate(a, f) ==
  \/ f.type = "CONSECUTIVE" /\ f.seq < a.seq
  \/ f.type = "FIRST" /\ a.seq > 0 /\ f.seq = 0

(* A chunk fits if the total has room for it; flow control read as data    *)
(* has no bytes.                                                           *)
Fits(a, f) == f.pkt = NoPacket \/ Len(a.got) + 1 <= a.total

Accepts_AnyOrder(a, f) ==
  /\ f.ok
  /\ f.type = "FIRST" => Typed(f) /\ f.seq = 0
  /\ f.type = "CONSECUTIVE" => a.total # 0 /\ Fits(a, f)

Accepts_NoCrc(a, f) ==
  /\ f.type = "FIRST" => Typed(f) /\ f.seq = 0
  /\ f.type = "CONSECUTIVE" => a.total # 0 /\ f.seq = a.seq /\ Fits(a, f)

(* assembler_process / FrameAssembler.process succeeds.  What is read as   *)
(* FIRST but is not is too short, or begins with a byte that is not 0 and  *)
(* announces more than the capacity; any SINGLE will do.                   *)
Accepts(a, f) ==
  /\ f.ok
  /\ f.type = "FIRST" => Typed(f) /\ f.seq = 0
  /\ f.type = "CONSECUTIVE" => a.total # 0 /\ f.seq = a.seq /\ Fits(a, f)

(* A packet read as CONSECUTIVE may have more bytes than the last fragment *)
(* that is due, and is refused then; or fewer bytes than the fragment that *)
(* is due, and one more must come.                                         *)
MayOverflow(a, f) ==
  f.type = "CONSECUTIVE" /\ ~Typed(f) /\ f.pkt # NoPacket /\ Len(a.got) + 1 = a.total

Totals(a, f) ==
  IF Typed(f) THEN {a.total}
  ELSE {a.total + 1} \cup (IF f.pkt = NoPacket THEN {} ELSE {a.total})

(* What the assembler may hold then.                                       *)
Assemble(a, f) ==
  LET chunk == IF Typed(f) THEN [pkt |-> f.pkt, idx |-> f.idx] ELSE Misread
  IN  CASE f.type = "FIRST" ->
             {[seq |-> 1, total |-> FrameCount[f.pkt], got |-> <<chunk>>]}
        [] f.type = "CONSECUTIVE" ->
             {[seq |-> a.seq + 1, total |-> n, got |-> Append(a.got, chunk)] :
                n \in Totals(a, f)}
        [] OTHER -> {[seq |-> 0, total |-> 1, got |-> <<chunk>>]}

Complete(a) == Len(a.got) = a.total

(* ACK and NACK frames are skipped while receiving.                        *)
ReceiveControl(e) ==
  \E f \in NextFrame(e) :
    /\ Load(e, << >>)
    /\ ~Undecodable(e, f) /\ f.type \in ControlType
    /\ UNCHANGED <<op, tx, buf, asm, res, inbox, faults>>

(* The read raises (PC) or the type is unknown (device): no answer.        *)
ReceiveUndecodable(e) ==
  \E f \in NextFrame(e) :
    /\ Load(e, << >>)
    /\ Undecodable(e, f)
    /\ Return(e, "failed", << >>)
    /\ asm' = [asm EXCEPT ![e] = EmptyAsm]
    /\ UNCHANGED <<tx, buf, faults>>

(* A retransmission is acknowledged again.  The device ignores a failing   *)
(* write, the PC raises it.                                                *)
ReceiveDuplicate(e) ==
  \E f \in NextFrame(e), lost \in BOOLEAN :
    /\ Load(e, IF lost THEN << >> ELSE <<Control("ACK", f.seq)>>)
    /\ ~Undecodable(e, f) /\ f.type \in DataType
    /\ Duplicate(asm[e], f)
    /\ Spend(lost)
    /\ IF lost /\ e = PC
       THEN Return(e, "failed", << >>) /\ asm' = [asm EXCEPT ![e] = EmptyAsm]
       ELSE UNCHANGED <<op, res, inbox, asm>>
    /\ UNCHANGED <<tx, buf>>

(* The assembler refuses the frame: NACK, and the receive call fails.      *)
ReceiveRejected(e) ==
  \E f \in NextFrame(e) :
    /\ Load(e, <<Control("NACK", f.seq)>>)
    /\ ~Undecodable(e, f) /\ f.type \in DataType
    /\ ~Duplicate(asm[e], f)
    /\ ~Accepts(asm[e], f) \/ MayOverflow(asm[e], f)
    /\ Return(e, "failed", << >>)
    /\ asm' = [asm EXCEPT ![e] = EmptyAsm]
    /\ UNCHANGED <<tx, buf, faults>>

(* The assembler takes the frame: ACK, and the packet may be complete.  A  *)
(* failing ACK write fails the call even then.                             *)
ReceiveAccepted(e) ==
  \E f \in NextFrame(e), lost \in BOOLEAN :
    /\ Load(e, IF lost THEN << >> ELSE <<Control("ACK", f.seq)>>)
    /\ ~Undecodable(e, f) /\ f.type \in DataType
    /\ ~Duplicate(asm[e], f) /\ Accepts(asm[e], f)
    /\ Spend(lost)
    /\ \E a \in Assemble(asm[e], f) :
         \/ /\ lost
            /\ Return(e, "failed", << >>)
            /\ asm' = [asm EXCEPT ![e] = EmptyAsm]
         \/ /\ ~lost /\ Complete(a)
            /\ Return(e, "received", a.got)
            /\ asm' = [asm EXCEPT ![e] = EmptyAsm]
         \/ /\ ~lost /\ ~Complete(a)
            /\ asm' = [asm EXCEPT ![e] = a]
            /\ UNCHANGED <<op, res, inbox>>
    /\ UNCHANGED <<tx, buf>>

(* No frame before the read deadline (or the UART read fails).             *)
ReceiveTimeout(e) ==
  /\ op[e] = "receive"
  /\ pending[e] = NoFrame
  /\ Return(e, "timeout", << >>)
  /\ asm' = [asm EXCEPT ![e] = EmptyAsm]
  /\ UNCHANGED <<tx, buf, pending, wire, faults>>

-----------------------------------------------------------------------------
(***************************************************************************)
(* The UART.  Only the oldest frame is hit: a fault matters when the frame *)
(* would be read.                                                          *)
(***************************************************************************)
Lose(e) ==
  /\ wire[e] # << >>
  /\ Spend(TRUE)
  /\ wire' = [wire EXCEPT ![e] = Tail(@)]
  /\ UNCHANGED <<op, tx, buf, asm, pending, res, inbox>>

(* A payload byte, the sequence number included: the CRC tells.            *)
PayloadDamaged(f) ==
  {[f EXCEPT !.ok = FALSE, !.seq = s] :
     s \in IF f.type = "SINGLE" THEN {SINGLE_SEQ} ELSE SeqNo}

(* The sequence number that is read when the type of f has become t: the   *)
(* fifth byte of the payload for FIRST (flow control has none, and the     *)
(* device's buffer 0), the first byte for the others -- of a SINGLE frame  *)
(* the packet's version, of a FIRST frame the size's highest byte.         *)
SeqAs(f, t) ==
  CASE t = "SINGLE" -> {SINGLE_SEQ}
    [] t = "FIRST"  -> IF f.pkt = NoPacket THEN {0} ELSE SeqNo
    [] OTHER        -> IF ~f.ok THEN SeqNo
                       ELSE {CASE f.type = "SINGLE" -> PROTOCOL_VERSION
                               [] f.type = "FIRST"  -> 0
                               [] OTHER             -> f.seq}

(* The type byte, once per frame: the CRC is of the payload only and does  *)
(* not tell.                                                               *)
TypeDamaged(f) ==
  UNION {{[f EXCEPT !.type = t, !.seq = s] : s \in SeqAs(f, t)} :
           t \in {u \in FrameType \ {f.type} : <<f.type, u>> \in TypeFaults}}

Damage(e) ==
  /\ Spend(TRUE)
  /\ \E f \in Oldest(e) :
       /\ f.type # "NONE"
       /\ \E g \in PayloadDamaged(f)
                   \cup (IF Typed(f) THEN TypeDamaged(f) ELSE {}) :
            wire' = [wire EXCEPT ![e] = <<g>> \o Tail(@)]
  /\ UNCHANGED <<op, tx, buf, asm, pending, res, inbox>>

Fault == \E e \in Node : Lose(e) \/ Damage(e)

Send(e) ==
  \/ WriteFrame(e) \/ WriteFails(e)
  \/ GetAck(e) \/ GetNack(e) \/ SkipControl(e) \/ SetAside(e)
  \/ AwaitUnreadable(e)

Receive(e) ==
  \/ ReceiveControl(e) \/ ReceiveUndecodable(e) \/ ReceiveDuplicate(e)
  \/ ReceiveRejected(e) \/ ReceiveAccepted(e)

Timeout(e) == AwaitTimeout(e) \/ ReceiveTimeout(e)

Call(e) == CallReceive(e) \/ \E p \in Packet : CallSend(e, p)

Next ==
  \/ Fault
  \/ \E e \in Node : Call(e) \/ Send(e) \/ Receive(e) \/ Timeout(e)

Spec == Init /\ [][Next]_vars

-----------------------------------------------------------------------------
(***************************************************************************)
(* What the assembler guarantees, whatever the peer, the timing and the    *)
(* faults.                                                                 *)
(***************************************************************************)

(* A sequence of chunks without gap, repetition or reordering: one that    *)
(* was misread takes the place of one fragment.                            *)
Gapless(m) == \A i \in 1..Len(m) : m[i] = Misread \/ m[i].idx = i

Untouched(m) == \A i \in 1..Len(m) : m[i] # Misread

(* What a receive call may return: consecutive fragments from the first    *)
(* on, as many as the packet announced by its first frame; or one frame    *)
(* that was misread as a packet.                                           *)
Whole(m) ==
  /\ m # << >>
  /\ Gapless(m)
  /\ IF m[1] = Misread
     THEN Len(m) = 1
     ELSE /\ FrameCount[m[1].pkt] <= Len(m)
          /\ Untouched(m) => Len(m) = FrameCount[m[1].pkt]

(* A receive call that succeeds (receive_one_packet,                       *)
(* FrameLink.receive_packet) returns a whole packet: duplicates, losses,   *)
(* stale frames and damaged payloads never leave a gap or a repetition.    *)
(* The type byte is not protected: a frame misread as SINGLE is returned   *)
(* as a packet, and one misread as CONSECUTIVE takes the place of a        *)
(* fragment or comes beside all of them, but leaves none out.              *)
WholePacket == \A e \in Node : res[e] = "received" => Whole(inbox[e])

(* Undamaged data frames that kept their type are the fragmenter's.        *)
WellFormed(f) ==
  f.ok /\ f.type \in DataType /\ Typed(f) =>
    f.pkt \in Packet /\ f.idx \in 1..FrameCount[f.pkt] /\ f = Fragment(f.pkt, f.idx)

FramesWellFormed ==
  \A e \in Node :
    /\ WellFormed(buf[e])
    /\ WellFormed(pending[e])
    /\ \A i \in 1..Len(wire[e]) : WellFormed(wire[e][i])

(* A partial assembly: a gapless prefix as long as the expected sequence   *)
(* number, of the length its first fragment announced; more is due once a  *)
(* misread frame brought fewer bytes than the fragment in whose place it is.*)
Prefix(a) ==
  /\ Gapless(a.got)
  /\ a.seq = Len(a.got)
  /\ a.got = << >> => a.total = 0
  /\ a.got # << >> =>
       /\ a.got[1] # Misread
       /\ a.total > 1 /\ a.total >= FrameCount[a.got[1].pkt]
       /\ Untouched(a.got) => a.total = FrameCount[a.got[1].pkt]

(* On a UART that leaves types alone every frame is read as it was sent.   *)
TypesKept ==
  \A e \in Node :
    /\ Typed(buf[e]) /\ Typed(pending[e])
    /\ \A i \in 1..Len(wire[e]) : Typed(wire[e][i])
    /\ Untouched(asm[e].got) /\ Untouched(inbox[e])

(* The inductive strengthening of WholePacket: every undamaged data frame  *)
(* of the type it was sent with, in a buffer, set aside or on the UART, is *)
(* the fragmenter's, and every assembly in progress (FrameAssembler,       *)
(* factory_frame_assembler_context_t) is a prefix as long as its expected  *)
(* sequence number says, with a gap only where a frame was misread -- and  *)
(* no frame is, on a UART that leaves types alone.                         *)
LinkInv ==
  /\ TypeOK
  /\ FramesWellFormed
  /\ \A e \in Node : Prefix(asm[e])
  /\ WholePacket
  /\ TypeFaults = {} => TypesKept

(* A retry transmits the fragment it retries: what the sender is about to  *)
(* write is always the fragment awaiting its ACK (send_current_packet's    *)
(* loop around write_frame).  The device's shared static frame breaks it.  *)
RetryResendsFragment ==
  \A e \in Node : op[e] = "send" => buf[e] = Fragment(tx[e].pkt, tx[e].idx)

-----------------------------------------------------------------------------
(***************************************************************************)
(* Progress.  A node that is to write does or fails, and its wait for flow *)
(* control has one absolute deadline per try whatever arrives meanwhile.   *)
(* A receive call has none: every frame restarts its read timeout.         *)
(***************************************************************************)
Fairness ==
  \A e \in Node : /\ WF_vars(WriteFrame(e) \/ WriteFails(e))
                  /\ WF_vars(AwaitTimeout(e))

FairSpec == Spec /\ Fairness

Sending(e) == op[e] \in {"send", "wait"}

(* Every send call ends, however the peer answers: no stream of NACKs,     *)
(* stale flow control or data frames keeps send_current_packet or          *)
(* FrameLink.send_packet in its retry loop.                                *)
SendReturns == \A e \in Node : []<>~Sending(e)

=============================================================================
