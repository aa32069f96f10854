----------------------------- MODULE Thermostat -----------------------------
(***************************************************************************)
(* The thermostat's dispatcher (models/thermostat/dispatcher.py): the      *)
(* provision worker writes the factory data as records over the serial     *)
(* stream, with no answer from the device, while the widget may close and  *)
(* open the stream; a thread of its own reads the stream and logs lines.   *)
(***************************************************************************)
EXTENDS SerialStream

CONSTANTS
  Absent, Fine, Bad,  (* A value of the factory data: none, one that can   *)
                      (* be encoded, one that cannot.                      *)
  Newline,            (* Numbers of the received bytes that end a line ... *)
  CarriageReturn      (* ... and of those that a line drops at its end.    *)

ASSUME BytesAssumption == Newline \cap CarriageReturn = {}

VARIABLES
  place,    (* Where dispatch() is.                                        *)
  records,  (* Indices of the records left to send.                        *)
  sent,     (* Indices of those written to the port.                       *)
  outcome,  (* How the last dispatch ended.                                *)
  rest,     (* _rx_buffer.                                                 *)
  lines     (* Lines logged (history).                                     *)

dispatchVars == <<place, records, sent, outcome>>
rxVars       == <<rest, lines>>
vars         == <<streamVars, dispatchVars, rxVars>>

(* The items in the order of their index; other names for a key stand for  *)
(* the same one.                                                           *)
Items == <<"cd_cert", "pai_cert", "dac_cert", "dac_private_key",
           "dac_public_key", "iteration_count", "passcode", "salt",
           "spake2p_verifier_w0", "spake2p_verifier_L">>
Verifier == "spake2p_verifier"
W0       == "spake2p_verifier_w0"
L        == "spake2p_verifier_L"
Indices  == [i \in 1..Len(Items) |-> i - 1]

(* Factory data of every kind for a certificate, a number and the verifier *)
FactoryData ==
  {[k \in Range(Items) \cup {Verifier} |->
      IF k \in DOMAIN odd THEN odd[k] ELSE Fine] :
    odd \in [{"dac_cert", "passcode", W0, L, Verifier} -> {Absent, Fine, Bad}]}

(* _expand_combined_verifier: the combined value stands in for the split   *)
(* ones if one of them is missing.                                         *)
HasSplit(data) == data[W0] # Absent /\ data[L] # Absent
Expanded(data) ==
  IF HasSplit(data) THEN data ELSE [data EXCEPT ![W0] = Fine, ![L] = Fine]

(* The first value, in order, that cannot be sent decides: one that is     *)
(* missing returns FALSE, one that cannot be encoded raises.               *)
Encoding(data) ==
  LET faulty == {i \in 1..Len(Items) : Expanded(data)[Items[i]] # Fine}
      first  == CHOOSE i \in faulty : \A j \in faulty : i <= j
  IN CASE ~HasSplit(data) /\ data[Verifier] # Fine -> "raised"
       [] faulty = {} -> "sent"
       [] OTHER -> IF Expanded(data)[Items[first]] = Absent THEN "refused" ELSE "raised"

Encodings == {Encoding(data) : data \in FactoryData}
-----------------------------------------------------------------------------
Ends(how) == place' = "idle" /\ records' = <<>> /\ outcome' = how

(* Nothing is written before every item is found and encoded.              *)
Dispatch ==
  /\ place = "idle"
  /\ sent' = <<>>
  /\ IF ~IsConnected
     THEN Ends("refused")
     ELSE \E encoding \in Encodings :
            IF encoding = "sent"
            THEN place' = "write" /\ records' = Indices /\ outcome' = "none"
            ELSE Ends(encoding)
  /\ UNCHANGED <<streamVars, rxVars>>

(* stream.write(): the connection is asked for, the reader thread used     *)
(* after it and without the lock.                                          *)
WriteRefused_Continues ==
  IF Len(records) = 1 THEN Ends("sent")
  ELSE records' = Tail(records) /\ UNCHANGED <<place, outcome>>
WriteRefused == Ends("refused")

Write ==
  /\ place = "write"
  /\ IF IsConnected THEN place' = "hand" /\ UNCHANGED <<records, outcome>>
     ELSE WriteRefused
  /\ UNCHANGED <<sent, streamVars, rxVars>>

Hand ==
  /\ place = "hand" /\ held # 0
  /\ sent' = Append(sent, Head(records))
  /\ IF Len(records) = 1
     THEN Ends("sent")
     ELSE place' = "write" /\ records' = Tail(records) /\ UNCHANGED outcome
  /\ UNCHANGED <<streamVars, rxVars>>

(* The field is None by now, the port is closed, or the write fails.       *)
HandFails ==
  /\ place = "hand"
  /\ Ends("raised")
  /\ UNCHANGED <<sent, streamVars, rxVars>>

(* A line without the carriage return before its newline.                  *)
Stripped(line) ==
  IF line # <<>> /\ Last(line) \in CarriageReturn THEN Front(line) ELSE line

(* _handle_rx_chunk: what follows the last newline waits in the buffer.    *)
Line_KeepsRest(state, byte) ==
  IF byte \in Newline
  THEN [state EXCEPT !.lines = Append(@, Stripped(state.rest))]
  ELSE [state EXCEPT !.rest = Append(@, byte)]

Line(state, byte) ==
  IF byte \in Newline
  THEN [rest |-> <<>>, lines |-> Append(state.lines, Stripped(state.rest))]
  ELSE [state EXCEPT !.rest = Append(@, byte)]

(* _reader_loop, with the chunk that read() returns.                       *)
ReaderLoop ==
  /\ Return
  /\ LET handled == FoldLeft(Line, [rest |-> rest, lines |-> lines], result)
     IN rest' = handled.rest /\ lines' = handled.lines
  /\ UNCHANGED dispatchVars
-----------------------------------------------------------------------------
Init ==
  /\ StreamInit
  /\ place = "idle" /\ records = <<>> /\ sent = <<>> /\ outcome = "none"
  /\ rest = <<>> /\ lines = <<>>

Next ==
  \/ StreamNext /\ UNCHANGED <<dispatchVars, rxVars>>
  \/ Dispatch \/ Write \/ Hand \/ HandFails
  \/ ReaderLoop

Spec == Init /\ [][Next]_vars /\ StreamFairness
-----------------------------------------------------------------------------
ThermostatTypeOK ==
  /\ place \in {"idle", "write", "hand"}
  /\ records \in Seq(0..9) /\ sent \in Seq(0..9)
  /\ outcome \in {"none", "sent", "refused", "raised"}
  /\ rest \in Seq(1..MaxBytes) /\ lines \in Seq(Seq(1..MaxBytes))

(* What ends a line and is not of it: the newline, and a carriage return   *)
(* that comes directly before it.                                          *)
EndsLine(b) ==
  \/ b \in Newline
  \/ b \in CarriageReturn /\ b + 1 \in Newline \cap (1..taken)

(* However the bytes fall into chunks, the log loses none but those that   *)
(* end a line: the lines and the buffer are the other bytes read, a        *)
(* carriage return anywhere else included, and no line runs over a newline *)
(* (_handle_rx_chunk).                                                     *)
LinesAreOfBytes ==
  /\ FlattenSeq(lines) \o rest =
       SelectSeq([i \in 1..taken |-> i], LAMBDA b : ~EndsLine(b))
  /\ Len(lines) = Cardinality(Newline \cap (1..taken))

(* The dispatcher's state is of its types, its log complete.               *)
LogInv == ThermostatTypeOK /\ LinesAreOfBytes

(* dispatch() says TRUE if and only if every record was written, once and  *)
(* in the order of the indices; the records of a dispatch that fails are a *)
(* proper prefix, so that the last one is never written alone.             *)
SuccessMeansAllSent ==
  /\ IsPrefix(sent, Indices)
  /\ outcome = "sent" => sent = Indices
  /\ outcome \in {"refused", "raised"} => sent # Indices
=============================================================================
