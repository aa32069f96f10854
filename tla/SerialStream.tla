---------------------------- MODULE SerialStream ----------------------------
(***************************************************************************)
(* The serial byte stream (stream/serial.py) with the widget that opens    *)
(* and closes it (view/widget/serial_settings.py).  Threads: the GUI       *)
(* thread (clicks), the widget's thread (one open or close), a pySerial    *)
(* reader thread for each port opened, and the thread that reads the       *)
(* stream.  Bytes are numbered as they arrive.                             *)
(* Assumed of pySerial: a reader told to stop leaves its read -- its       *)
(* timeout is one second -- before the two seconds its join waits.         *)
(***************************************************************************)
EXTENDS Naturals, SequencesExt

CONSTANTS
  MaxOpens,  (* Bound: ports opened, numbered.                             *)
  MaxBytes,  (* Bound: bytes that arrive.                                  *)
  MaxChunk,  (* Bytes the port hands over at once, at most.                *)
  Size       (* Bytes a read asks for.                                     *)

ASSUME StreamAssumption ==
  /\ MaxOpens \in Nat /\ MaxBytes \in Nat /\ MaxChunk \in Nat /\ Size \in Nat \ {0}

VARIABLES
  held,     (* The port and reader the fields hold, set together; or 0.    *)
  flag,     (* _is_connected.                                              *)
  opened,   (* Ports opened so far.                                        *)
  isOpen,   (* serial_port.is_open of each.                                *)
  reader,   (* Where the reader thread of each is ...                      *)
  told,     (* ... and those told to stop.                                 *)
  strays,   (* Ports that were lost before open() held them (history).     *)
  menu,     (* Whether the port menu holds a port.                         *)
  shown,    (* Connection state the widget shows.                          *)
  busy,     (* _is_transitioning.                                          *)
  opener,   (* The widget's thread: where, what for, with which port.      *)
  arrived, queue, buffer,   (* Bytes received, _reader_queue and _buffer.  *)
  reading, result, taken    (* The read in progress; bytes returned.       *)

linkVars   == <<held, flag, opened, isOpen, reader, told, strays>>
widgetVars == <<menu, shown, busy, opener>>
byteVars   == <<arrived, queue, buffer, reading, result, taken>>
streamVars == <<linkVars, widgetVars, byteVars>>

Port   == 1..MaxOpens
Opener == [at : {"none", "start", "join", "dial", "greet", "adopt", "done"},
           connects : BOOLEAN, port : Port \cup {0}]
NoThread == [at |-> "none", connects |-> FALSE, port |-> 0]

(* is_connected(): the fields are read under the lock, the thread and the  *)
(* port asked after it.                                                    *)
IsConnected ==
  held # 0 /\ isOpen[held] /\ reader[held] \notin {"none", "dead"} /\ flag
-----------------------------------------------------------------------------
(* The widget, on the GUI thread.  _update_indicator and _update_controls  *)
(* each ask the stream; one answer stands for both.                        *)
Shown == IF IsConnected THEN "connected" ELSE "disconnected"

(* Refresh: disabled while the widget shows a connection or a transition.  *)
RefreshPorts ==
  /\ ~busy /\ shown = "disconnected"
  /\ menu' \in BOOLEAN
  /\ shown' = Shown
  /\ UNCHANGED <<busy, opener, linkVars, byteVars>>

(* Whether it is to connect is asked again after the transition began: a   *)
(* click on "Disconnect" connects if the cable was lost meanwhile.         *)
Click ==
  /\ ~busy
  /\ shown = "connected" \/ menu
  /\ IsConnected \/ (menu /\ opened < MaxOpens)
  /\ busy' = TRUE
  /\ shown' = "connecting"
  /\ opener' = [at |-> "start", connects |-> ~IsConnected, port |-> 0]
  /\ UNCHANGED <<menu, linkVars, byteVars>>

(* _finish_transition, queued by after(0) from the thread's finally.       *)
FinishTransition ==
  /\ opener.at = "done"
  /\ opener' = NoThread
  /\ busy' = FALSE
  /\ shown' = Shown
  /\ UNCHANGED <<menu, linkVars, byteVars>>
-----------------------------------------------------------------------------
(* The widget's thread: _do_connect and open(), or _do_disconnect and      *)
(* close().                                                                *)

Thread(at, port) == opener' = [opener EXCEPT !.at = at, !.port = port]

(* close() takes the port out of the fields, under the lock, and tells its *)
(* reader to stop.  open() with a connection that is there changes nothing *)
StartClose ==
  /\ opener.at = "start"
  /\ IF opener.connects /\ (IsConnected \/ ~menu)
     THEN Thread("done", 0) /\ UNCHANGED linkVars
     ELSE /\ Thread("join", held)
          /\ told' = told \cup ({held} \ {0})
          /\ held' = 0 /\ flag' = FALSE
          /\ UNCHANGED <<opened, isOpen, reader, strays>>
  /\ UNCHANGED <<menu, shown, busy, byteVars>>

(* ReaderThread.close(): joins the reader, closes the port; errors are     *)
(* raised at the end, and open() then opens nothing.                       *)
Joined_NoWait(port) == TRUE
Joined(port) == port # 0 => reader[port] = "dead"

JoinReader ==
  /\ opener.at = "join" /\ Joined(opener.port)
  /\ isOpen' = [c \in Port |-> isOpen[c] /\ c # opener.port]
  /\ \/ Thread(IF opener.connects THEN "dial" ELSE "done", 0)
     \/ opener.port # 0 /\ Thread("done", 0)
  /\ UNCHANGED <<held, flag, opened, reader, told, strays, menu, shown, busy, byteVars>>

(* An open that fails closes what the fields hold -- nothing -- and raises *)
(* out of the widget's thread; its finally still ends the transition.      *)
GiveUp_NoFinally == Thread("none", 0) /\ held' = 0 /\ flag' = FALSE
GiveUp == Thread("done", 0) /\ held' = 0 /\ flag' = FALSE

OpenPort ==
  /\ opener.at = "dial"
  /\ opened' = opened + 1
  /\ isOpen' = [isOpen EXCEPT ![opened'] = TRUE]
  /\ reader' = [reader EXCEPT ![opened'] = "fresh"]
  /\ Thread("greet", opened')
  /\ UNCHANGED <<held, flag, told, strays, menu, shown, busy, byteVars>>

OpenPortFails ==
  /\ opener.at = "dial"
  /\ GiveUp
  /\ UNCHANGED <<opened, isOpen, reader, told, strays, menu, shown, busy, byteVars>>

(* connect() waits for connection_made and raises if the reader has ended. *)
(* The port nobody holds is closed with the last reference to it.          *)
Connect ==
  /\ opener.at = "greet" /\ reader[opener.port] # "fresh"
  /\ IF reader[opener.port] = "running"
     THEN Thread("adopt", opener.port) /\ UNCHANGED <<held, flag, isOpen, strays>>
     ELSE /\ GiveUp
          /\ isOpen' = [isOpen EXCEPT ![opener.port] = FALSE]
          /\ strays' = strays \cup {opener.port}
  /\ UNCHANGED <<opened, reader, told, menu, shown, busy, byteVars>>

Adopt ==
  /\ opener.at = "adopt"
  /\ held' = opener.port /\ flag' = TRUE
  /\ Thread("done", 0)
  /\ UNCHANGED <<opened, isOpen, reader, told, strays, menu, shown, busy, byteVars>>
-----------------------------------------------------------------------------
(* The reader thread of port c: pySerial's run() with _Protocol.           *)

ReaderGoes(c, from, to) ==
  /\ reader[c] = from
  /\ reader' = [reader EXCEPT ![c] = to]
  /\ UNCHANGED <<held, opened, isOpen, told, strays, widgetVars, byteVars>>

ConnectionMade(c) == ReaderGoes(c, "fresh", "running") /\ flag' = TRUE
LoseCable(c)      == ReaderGoes(c, "running", "leaving") /\ UNCHANGED flag
Stop(c)           == c \in told /\ LoseCable(c)
ConnectionLost(c) == ReaderGoes(c, "leaving", "lost") /\ flag' = FALSE
Die(c)            == ReaderGoes(c, "lost", "dead") /\ UNCHANGED flag

(* data_received: the chunk joins the queue, which no open or close clears *)
DataReceived(c) == \E n \in 1..MaxChunk :
  /\ reader[c] = "running" /\ arrived + n <= MaxBytes
  /\ queue' = Append(queue, [i \in 1..n |-> arrived + i])
  /\ arrived' = arrived + n
  /\ UNCHANGED <<buffer, reading, result, taken, linkVars, widgetVars>>
-----------------------------------------------------------------------------
(* read(size, timeout), by the one thread that reads the stream.           *)
First(s, n) == SubSeq(s, 1, n)
After(s, n) == SubSeq(s, n + 1, Len(s))
Room        == Size - Len(result)

ReadBuffered ==
  /\ ~reading /\ IsConnected
  /\ LET n == IF Size < Len(buffer) THEN Size ELSE Len(buffer)
     IN result' = First(buffer, n) /\ buffer' = After(buffer, n)
  /\ reading' = TRUE
  /\ UNCHANGED <<arrived, queue, taken, linkVars, widgetVars>>

(* What a chunk holds beyond the room left is kept for the next read.      *)
Surplus_Dropped(chunk) == buffer
Surplus(chunk) ==
  IF Len(chunk) > Room THEN buffer \o After(chunk, Room) ELSE buffer

TakeChunk ==
  /\ reading /\ Room > 0 /\ queue # <<>>
  /\ LET chunk == Head(queue)
     IN /\ result' = result \o (IF Len(chunk) > Room THEN First(chunk, Room) ELSE chunk)
        /\ buffer' = Surplus(chunk)
  /\ queue' = Tail(queue)
  /\ UNCHANGED <<arrived, reading, taken, linkVars, widgetVars>>

(* All the bytes asked for, or those there are when the time is out.       *)
Return ==
  /\ reading
  /\ reading' = FALSE /\ result' = <<>> /\ taken' = taken + Len(result)
  /\ UNCHANGED <<arrived, queue, buffer, linkVars, widgetVars>>
-----------------------------------------------------------------------------
StreamInit ==
  /\ held = 0 /\ flag = FALSE /\ opened = 0 /\ told = {} /\ strays = {}
  /\ isOpen = [c \in Port |-> FALSE] /\ reader = [c \in Port |-> "none"]
  /\ menu \in BOOLEAN /\ shown = "disconnected" /\ busy = FALSE /\ opener = NoThread
  /\ arrived = 0 /\ queue = <<>> /\ buffer = <<>>
  /\ reading = FALSE /\ result = <<>> /\ taken = 0

OpenerNext == StartClose \/ JoinReader \/ OpenPort \/ OpenPortFails \/ Connect \/ Adopt

ReaderNext(c) ==
  ConnectionMade(c) \/ Stop(c) \/ ConnectionLost(c) \/ Die(c)

StreamNext ==
  \/ RefreshPorts \/ Click \/ FinishTransition
  \/ OpenerNext
  \/ \E c \in Port : ReaderNext(c) \/ LoseCable(c) \/ DataReceived(c)
  \/ ReadBuffered \/ TakeChunk

(* The GUI thread handles its events; threads that can go on, go on.       *)
StreamFairness ==
  /\ WF_streamVars(FinishTransition)
  /\ WF_streamVars(OpenerNext)
  /\ \A c \in Port : WF_streamVars(ReaderNext(c))
-----------------------------------------------------------------------------
TypeOK ==
  /\ held \in Port \cup {0} /\ flag \in BOOLEAN /\ opened \in 0..MaxOpens
  /\ isOpen \in [Port -> BOOLEAN]
  /\ reader \in [Port -> {"none", "fresh", "running", "leaving", "lost", "dead"}]
  /\ told \subseteq Port /\ strays \subseteq Port
  /\ menu \in BOOLEAN /\ shown \in {"connected", "disconnected", "connecting"}
  /\ busy \in BOOLEAN /\ opener \in Opener
  /\ arrived \in 0..MaxBytes /\ taken \in 0..MaxBytes /\ reading \in BOOLEAN
  /\ queue \in Seq(Seq(1..MaxBytes)) /\ buffer \in Seq(1..MaxBytes)
  /\ result \in Seq(1..MaxBytes)

(* The byte that arrived just before the k-th chunk of the queue, or would *)
(* have: all before the first chunk are returned, read or carried over.    *)
Before(k) ==
  IF k = 1 THEN taken + Len(result) + Len(buffer) ELSE queue[k - 1][Len(queue[k - 1])]

(* Bytes are read in the order they arrived, none twice and none lost,     *)
(* whatever the chunks, the sizes and the timeouts of the reads and the    *)
(* connections they came over: what a read has so far, what is carried     *)
(* over for the next one and the chunks in the queue follow on each other, *)
(* up to the last byte that arrived.                                       *)
BytesInOrder ==
  /\ \A i \in 1..Len(result) : result[i] = taken + i
  /\ \A i \in 1..Len(buffer) : buffer[i] = taken + Len(result) + i
  /\ \A k \in 1..Len(queue) :
       queue[k] # <<>> /\ \A i \in 1..Len(queue[k]) : queue[k][i] = Before(k) + i
  /\ Before(Len(queue) + 1) = arrived

(* While the reader of the port the stream holds runs, the flag is set:    *)
(* the end of an earlier reader never makes a live connection look closed. *)
(* Excepted are readers that ended before open() held their port, which    *)
(* nothing joins: such a late connection_lost does clear the flag of the   *)
(* next connection.                                                        *)
FlagIsOfHeldPort == held # 0 /\ reader[held] = "running" /\ strays = {} => flag

(* At most one reader can receive.                                         *)
OneReader == \A c, d \in Port \ strays :
  reader[c] \in {"fresh", "running"} /\ reader[d] \in {"fresh", "running"} => c = d

StreamInv == TypeOK /\ BytesInOrder /\ FlagIsOfHeldPort /\ OneReader

(* The widget leaves every transition, whether the port opens, fails or is *)
(* lost meanwhile: the Connect button never stays disabled.                *)
TransitionEnds == busy ~> ~busy
=============================================================================
