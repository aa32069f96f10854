---------------------------- MODULE SerialProofs ----------------------------
(***************************************************************************)
(* Proofs about the serial stream and the thermostat's dispatch over it,   *)
(* for any number of openings, bytes and faults: at most one reader is     *)
(* alive and its connection is seen; every byte is read once and in order; *)
(* success means that all records were written.                            *)
(***************************************************************************)
EXTENDS Thermostat, SequenceTheorems, TLAPS

(* The types of the connection's variables.                                *)
LinkTypes ==
  /\ held \in Port \cup {0} /\ flag \in BOOLEAN /\ opened \in 0..MaxOpens
  /\ reader \in [Port -> {"none", "fresh", "running", "leaving", "lost", "dead"}]
  /\ strays \subseteq Port
  /\ opener \in Opener

Alive(c)  == reader[c] \notin {"none", "dead"}
HoldsPort == opener.at \in {"join", "greet", "adopt"}

(* Whose thread is alive is the port the stream holds or the one the       *)
(* widget's thread closes or opens -- and while that has one, the stream   *)
(* has none.                                                               *)
Owners ==
  /\ \A c \in Port : reader[c] = "none" <=> c > opened
  /\ opener.at \in {"join", "dial", "greet", "adopt"} => held = 0
  /\ opener.at \in {"greet", "adopt"} => opener.port = opened /\ opened > 0
  /\ opener.at # "none" => busy
  /\ opener.at = "dial" => opener.connects
  /\ opener.at \in {"start", "join", "dial"} /\ opener.connects => opened < MaxOpens
  /\ \A c \in Port \ strays : Alive(c) => c = held \/ (HoldsPort /\ c = opener.port)

ConnInv == LinkTypes /\ Owners /\ FlagIsOfHeldPort

LEMMA ConnInit == Init => ConnInv
<1> SUFFICES ASSUME Init PROVE ConnInv OBVIOUS
<1>1. opener \in Opener
  BY DEF Init, StreamInit, Opener, NoThread
<1>2. flag \in BOOLEAN /\ strays \subseteq Port
  BY DEF Init, StreamInit
<1>3. held \in Port \cup {0} /\ opened \in 0..MaxOpens
  BY StreamAssumption DEF Init, StreamInit
<1>4. reader \in [Port -> {"none", "fresh", "running", "leaving", "lost", "dead"}]
  BY DEF Init, StreamInit
<1>5. Owners /\ FlagIsOfHeldPort
  BY StreamAssumption
  DEF Init, StreamInit, Owners, Alive, HoldsPort, FlagIsOfHeldPort, NoThread, Port
<1> QED BY <1>1, <1>2, <1>3, <1>4, <1>5 DEF ConnInv, LinkTypes

LEMMA ThreadFields ==
  ASSUME opener \in Opener, NEW port \in Port \cup {0},
         NEW at \in {"none", "start", "join", "dial", "greet", "adopt", "done"},
         Thread(at, port)
  PROVE  /\ opener' \in Opener
         /\ opener'.at = at /\ opener'.port = port /\ opener'.connects = opener.connects
BY DEF Thread, Opener

(* A step of a reader thread.                                              *)
LEMMA ReaderStep ==
  ASSUME ConnInv, NEW c \in Port, ReaderNext(c) \/ LoseCable(c)
  PROVE  ConnInv'
<1> USE DEF ConnInv, LinkTypes
<1>1. UNCHANGED <<held, opened, strays, opener, busy>> /\ Alive(c)
  BY DEF ReaderNext, ReaderGoes, ConnectionMade, LoseCable, Stop, ConnectionLost, Die, widgetVars, Alive
<1>2. /\ LinkTypes'
      /\ reader'[c] # "none" /\ \A d \in Port \ {c} : reader'[d] = reader[d]
  BY <1>1 DEF ReaderNext, ReaderGoes, ConnectionMade, LoseCable, Stop, ConnectionLost, Die
<1>3. Owners'
  BY <1>1, <1>2 DEF Owners, Alive, HoldsPort
<1>4. FlagIsOfHeldPort'
  <2>1. CASE ConnectionLost(c)
    <3> SUFFICES ASSUME held # 0, strays = {}, reader'[held] = "running" PROVE FALSE
      BY <1>1 DEF FlagIsOfHeldPort
    <3>1. c = held
      BY <1>1 DEF Owners, HoldsPort
    <3> QED BY <2>1, <3>1 DEF ConnectionLost, ReaderGoes
  <2>2. CASE ~ConnectionLost(c)
    BY <1>1, <1>2, <2>2
    DEF FlagIsOfHeldPort, ReaderNext, ReaderGoes, ConnectionMade, LoseCable, Stop, Die
  <2> QED BY <2>1, <2>2
<1> QED BY <1>2, <1>3, <1>4

(* A step of the widget, on the GUI thread or its own.                     *)
LEMMA WidgetStep ==
  ASSUME ConnInv, Click \/ FinishTransition \/ OpenerNext
  PROVE  ConnInv'
<1> USE StreamAssumption DEF ConnInv, LinkTypes, Opener, Port
<1>1. CASE Click
  BY <1>1 DEF Click, linkVars, Owners, Alive, HoldsPort, FlagIsOfHeldPort
<1>2. CASE FinishTransition
  BY <1>2 DEF FinishTransition, NoThread, linkVars, Owners, Alive, HoldsPort, FlagIsOfHeldPort
<1>3. CASE StartClose
  <2>1. CASE opener.connects /\ (IsConnected \/ ~menu)
    <3>1. UNCHANGED <<held, flag, opened, reader, strays, busy>> /\ opener.at = "start"
      BY <1>3, <2>1 DEF StartClose, linkVars
    <3>2. /\ opener' \in Opener /\ opener'.at = "done" /\ opener'.port = 0
          /\ opener'.connects = opener.connects
      BY <1>3, <2>1, ThreadFields DEF StartClose
    <3>3. LinkTypes' /\ FlagIsOfHeldPort'
      BY <3>1, <3>2 DEF FlagIsOfHeldPort
    <3> QED BY <3>1, <3>2, <3>3 DEF Owners, Alive, HoldsPort
  <2>2. CASE ~(opener.connects /\ (IsConnected \/ ~menu))
    <3>1. /\ held' = 0 /\ ~flag' /\ UNCHANGED <<opened, reader, strays, busy>>
          /\ opener.at = "start" /\ held \in Port \cup {0} /\ flag' \in BOOLEAN
      BY <1>3, <2>2 DEF StartClose
    <3>2. /\ opener' \in Opener /\ opener'.at = "join" /\ opener'.port = held
          /\ opener'.connects = opener.connects
      BY <1>3, <2>2, ThreadFields DEF StartClose
    <3>3. LinkTypes' /\ FlagIsOfHeldPort'
      BY <3>1, <3>2 DEF FlagIsOfHeldPort
    <3> QED BY <3>1, <3>2, <3>3 DEF Owners, Alive, HoldsPort
  <2> QED BY <2>1, <2>2
<1>4. CASE JoinReader
  <2>1. /\ opener.at = "join" /\ (opener.port # 0 => reader[opener.port] = "dead")
        /\ UNCHANGED <<held, flag, opened, reader, strays>>
        /\ busy' = busy
        /\ Thread("dial", 0) \/ Thread("done", 0)
        /\ opener.connects \/ Thread("done", 0)
    BY <1>4 DEF JoinReader, Joined
  <2>2. /\ opener' \in Opener /\ opener'.port = 0 /\ opener'.connects = opener.connects
        /\ opener'.at \in {"dial", "done"} /\ (opener'.at = "dial" => opener.connects)
    BY <2>1, ThreadFields
  <2> QED BY <2>1, <2>2 DEF Owners, Alive, HoldsPort, FlagIsOfHeldPort
<1>5. CASE OpenPort
  <2>1. opened' = opened + 1 /\ opened' \in Port
    BY <1>5 DEF OpenPort, Owners
  <2>2. /\ opener' \in Opener /\ opener'.connects = opener.connects
        /\ opener'.at = "greet" /\ opener'.port = opened'
    BY <1>5, <2>1, ThreadFields DEF OpenPort
  <2>3. \A c \in Port : reader'[c] = IF c = opened' THEN "fresh" ELSE reader[c]
    BY <1>5 DEF OpenPort
  <2> QED BY <1>5, <2>1, <2>2, <2>3 DEF OpenPort, Owners, Alive, HoldsPort, FlagIsOfHeldPort
<1>6. CASE OpenPortFails
  BY <1>6 DEF OpenPortFails, GiveUp, Thread, Owners, Alive, HoldsPort, FlagIsOfHeldPort
<1>7. CASE Connect
  <2>1. opener.port \in Port /\ opener.port = opened
    BY <1>7 DEF Connect, Owners
  <2>2. CASE reader[opener.port] = "running"
    <3>1. /\ opener' \in Opener /\ opener'.connects = opener.connects
          /\ opener'.at = "adopt" /\ opener'.port = opener.port
      BY <1>7, <2>1, <2>2, ThreadFields DEF Connect
    <3> QED BY <1>7, <2>1, <2>2, <3>1 DEF Connect, Owners, Alive, HoldsPort, FlagIsOfHeldPort
  <2>3. CASE reader[opener.port] # "running"
    <3>1. /\ opener' \in Opener /\ opener'.connects = opener.connects
          /\ opener'.at = "done" /\ opener'.port = 0
      BY <1>7, <2>3, ThreadFields DEF Connect, GiveUp
    <3>2. /\ held = 0 /\ held' = 0 /\ flag' = FALSE /\ opened' = opened
          /\ reader' = reader /\ busy' = busy /\ strays' = strays \cup {opened}
      BY <1>7, <2>1, <2>3 DEF Connect, GiveUp, Owners
    <3>3. LinkTypes'
      BY <2>1, <3>1, <3>2
    <3> QED BY <1>7, <2>1, <3>1, <3>2, <3>3
        DEF Connect, Owners, Alive, HoldsPort, FlagIsOfHeldPort
  <2> QED BY <2>2, <2>3
<1>8. CASE Adopt
  <2>1. opener.port \in Port
    BY <1>8 DEF Adopt, Owners
  <2>2. /\ opener' \in Opener /\ opener'.connects = opener.connects
        /\ opener'.at = "done" /\ opener'.port = 0
    BY <1>8, ThreadFields DEF Adopt
  <2> QED BY <1>8, <2>1, <2>2 DEF Adopt, Owners, Alive, HoldsPort, FlagIsOfHeldPort
<1> QED BY <1>1, <1>2, <1>3, <1>4, <1>5, <1>6, <1>7, <1>8 DEF OpenerNext

(* Every other step leaves the connection alone.                           *)
LEMMA ConnStep == ConnInv /\ [Next]_vars => ConnInv'
<1> SUFFICES ASSUME ConnInv, [Next]_vars PROVE ConnInv' OBVIOUS
<1> DEFINE Same == UNCHANGED <<held, flag, opened, reader, strays, opener, busy>>
<1>1. ASSUME Same PROVE ConnInv'
  BY <1>1 DEF ConnInv, LinkTypes, Owners, Alive, HoldsPort, FlagIsOfHeldPort
<1>2. CASE RefreshPorts \/ ReadBuffered \/ TakeChunk \/ \E c \in Port : DataReceived(c)
  BY <1>1, <1>2 DEF RefreshPorts, ReadBuffered, TakeChunk, DataReceived, linkVars, widgetVars
<1>3. CASE Dispatch \/ Write \/ Hand \/ HandFails
  BY <1>1, <1>3 DEF Dispatch, Write, Hand, HandFails, streamVars, linkVars, widgetVars
<1>4. CASE ReaderLoop \/ UNCHANGED vars
  BY <1>1, <1>4 DEF ReaderLoop, Return, vars, streamVars, linkVars, widgetVars
<1>5. CASE \E c \in Port : ReaderNext(c) \/ LoseCable(c)
  BY <1>5, ReaderStep
<1>6. CASE Click \/ FinishTransition \/ OpenerNext
  BY <1>6, WidgetStep
<1> QED BY <1>2, <1>3, <1>4, <1>5, <1>6 DEF Next, StreamNext

(* With any number of connections, at most one reader thread receives, and *)
(* while the reader of the port the stream holds runs, the stream counts   *)
(* as connected (stream/serial.py: is_connected, connection_lost).         *)
THEOREM LiveConnectionIsSeen == Spec => [](FlagIsOfHeldPort /\ OneReader)
<1>1. ConnInv => FlagIsOfHeldPort /\ OneReader
  BY DEF ConnInv, LinkTypes, Owners, Alive, HoldsPort, OneReader, Port
<1> QED BY <1>1, ConnInit, ConnStep, PTL DEF Spec
-----------------------------------------------------------------------------
(* The bytes.  While a read has room left, nothing is carried over, and no *)
(* byte in the queue is later than the last one that arrived.              *)
ByteTypes ==
  /\ arrived \in 0..MaxBytes /\ taken \in Nat /\ reading \in BOOLEAN
  /\ queue \in Seq(Seq(1..MaxBytes)) /\ buffer \in Seq(1..MaxBytes)
  /\ result \in Seq(1..MaxBytes)

ReadInv ==
  /\ Len(result) <= Size
  /\ ~reading => result = <<>>
  /\ reading /\ Len(result) < Size => buffer = <<>>

Bounded ==
  /\ taken + Len(result) + Len(buffer) <= arrived
  /\ \A k \in 1..Len(queue) : queue[k][Len(queue[k])] <= arrived

ByteInv == ByteTypes /\ ReadInv /\ Bounded /\ BytesInOrder

LEMMA CutInTwo ==
  ASSUME NEW S, NEW s \in Seq(S), NEW n \in Nat, n <= Len(s)
  PROVE  /\ First(s, n) \in Seq(S) /\ Len(First(s, n)) = n
         /\ \A i \in 1..n : First(s, n)[i] = s[i]
         /\ After(s, n) \in Seq(S) /\ Len(After(s, n)) = Len(s) - n
         /\ \A i \in 1..(Len(s) - n) : After(s, n)[i] = s[n + i]
BY DEF First, After

LEMMA Joined2 ==
  ASSUME NEW S, NEW s \in Seq(S), NEW t \in Seq(S)
  PROVE  /\ s \o t \in Seq(S) /\ Len(s \o t) = Len(s) + Len(t)
         /\ \A i \in 1..Len(s) : (s \o t)[i] = s[i]
         /\ \A i \in 1..Len(t) : (s \o t)[Len(s) + i] = t[i]
OBVIOUS

(* A nonempty chunk has a first and a last byte.                           *)
LEMMA Nonempty ==
  ASSUME NEW S, NEW s \in Seq(S), s # <<>>
  PROVE  Len(s) \in Nat /\ Len(s) >= 1 /\ s[1] \in S /\ s[Len(s)] \in S
<1>1. Len(s) \in Nat /\ Len(s) # 0
  OBVIOUS
<1> QED BY <1>1

LEMMA ByteInit == Init => ByteInv
<1> SUFFICES ASSUME Init PROVE ByteInv OBVIOUS
<1>1. /\ arrived = 0 /\ queue = <<>> /\ buffer = <<>> /\ ~reading /\ result = <<>> /\ taken = 0
      /\ reading \in BOOLEAN
  BY DEF Init, StreamInit
<1>2. Len(queue) = 0 /\ Len(buffer) = 0 /\ Len(result) = 0
  BY <1>1
<1>3. ByteTypes
  BY <1>1, StreamAssumption DEF ByteTypes
<1>4. ReadInv /\ Bounded /\ BytesInOrder
  BY <1>1, <1>2, StreamAssumption DEF ReadInv, Bounded, BytesInOrder, Before
<1> QED BY <1>3, <1>4 DEF ByteInv

(* A chunk arrives.                                                        *)
LEMMA DataReceivedKeeps ==
  ASSUME ByteInv, NEW c \in Port, DataReceived(c)
  PROVE  ByteInv'
<1>1. PICK n \in 1..MaxChunk :
        /\ arrived + n <= MaxBytes /\ arrived' = arrived + n
        /\ queue' = Append(queue, [i \in 1..n |-> arrived + i])
  BY DEF DataReceived
<1>2. UNCHANGED <<buffer, reading, result, taken>>
  BY DEF DataReceived
<1>3. /\ arrived \in Nat /\ n \in Nat /\ n >= 1 /\ MaxBytes \in Nat
      /\ queue \in Seq(Seq(1..MaxBytes)) /\ taken + Len(result) + Len(buffer) \in Int
  BY StreamAssumption DEF ByteInv, ByteTypes
<1> DEFINE last == Len(queue) + 1
           chunk == [i \in 1..n |-> arrived + i]
<1>4. chunk \in Seq(1..MaxBytes) /\ Len(chunk) = n /\ \A i \in 1..n : chunk[i] = arrived + i
  BY <1>1, <1>3
<1>5. chunk # <<>>
  <2>1. Len(chunk) # 0 /\ Len(<<>>) = 0
    BY <1>3, <1>4
  <2> QED BY <2>1, Zenon
<1>6. queue' = Append(queue, chunk)
  BY <1>1
<1> HIDE DEF chunk
<1>7. /\ queue' \in Seq(Seq(1..MaxBytes)) /\ Len(queue') = last /\ queue'[last] = chunk
      /\ \A k \in 1..Len(queue) : queue'[k] = queue[k]
  BY <1>3, <1>4, <1>6, AppendProperties
<1>8. last \in Nat /\ \A k \in 1..last : k = last \/ k \in 1..Len(queue)
  BY <1>3
<1>9. \A k \in 1..last : k = 1 \/ k - 1 \in 1..Len(queue)
  BY <1>3
<1>10. \A k \in 1..last : Before(k)' = Before(k)
  BY <1>2, <1>7, <1>9 DEF Before
<1>11. Before(last) = arrived
  BY DEF ByteInv, BytesInOrder
<1>12. Before(Len(queue) + 1)' = arrived'
  <2>1. queue'[Len(queue') + 1 - 1] = chunk /\ Len(queue') + 1 # 1
    BY <1>3, <1>7, <1>8
  <2> QED BY <1>1, <1>3, <1>4, <2>1 DEF Before
<1>13. \A k \in 1..last :
         queue'[k] # <<>> /\ \A i \in 1..Len(queue'[k]) : queue'[k][i] = Before(k)' + i
  <2> SUFFICES ASSUME NEW k \in 1..last
               PROVE  queue'[k] # <<>>
                      /\ \A i \in 1..Len(queue'[k]) : queue'[k][i] = Before(k)' + i
    OBVIOUS
  <2>1. CASE k = last
    <3>1. Before(k) = arrived
      BY <1>11, <2>1
    <3>2. Before(k)' = arrived /\ queue'[k] = chunk
      BY <1>7, <1>10, <2>1, <3>1
    <3> QED BY <1>4, <1>5, <3>2
  <2>2. CASE k \in 1..Len(queue)
    <3>1. queue[k] # <<>> /\ \A i \in 1..Len(queue[k]) : queue[k][i] = Before(k) + i
      BY <2>2 DEF ByteInv, BytesInOrder
    <3>2. queue'[k] = queue[k] /\ Before(k)' = Before(k)
      BY <1>7, <1>10, <2>2
    <3> QED BY <3>1, <3>2, Zenon
  <2> QED BY <1>8, <2>1, <2>2
<1>14. BytesInOrder'
  BY <1>2, <1>7, <1>12, <1>13 DEF ByteInv, BytesInOrder
<1>15. ByteTypes'
  BY <1>1, <1>2, <1>3, <1>7 DEF ByteInv, ByteTypes
<1>16. Bounded'
  <2>1. taken' + Len(result') + Len(buffer') <= arrived'
    BY <1>1, <1>2, <1>3 DEF ByteInv, Bounded
  <2>2. ASSUME NEW k \in 1..Len(queue') PROVE queue'[k][Len(queue'[k])] <= arrived'
    <3>1. CASE k = last
      BY <1>1, <1>3, <1>4, <1>7, <3>1
    <3>2. CASE k \in 1..Len(queue)
      <4>1. queue[k] \in Seq(1..MaxBytes) /\ queue[k] # <<>>
        BY <1>3, <3>2 DEF ByteInv, BytesInOrder
      <4>2. queue[k][Len(queue[k])] \in 1..MaxBytes
        BY <4>1, Nonempty
      <4>3. queue[k][Len(queue[k])] <= arrived /\ queue'[k] = queue[k]
        BY <1>7, <3>2 DEF ByteInv, Bounded
      <4>4. \A b \in 1..MaxBytes : b <= arrived => b <= arrived'
        BY <1>1, <1>3
      <4> QED BY <4>2, <4>3, <4>4
    <3> QED BY <1>7, <1>8, <3>1, <3>2
  <2> QED BY <2>1, <2>2 DEF Bounded
<1> QED BY <1>2, <1>14, <1>15, <1>16 DEF ByteInv, ReadInv

(* A read begins with what was carried over.                               *)
LEMMA ReadBufferedKeeps ==
  ASSUME ByteInv, ReadBuffered
  PROVE  ByteInv'
<1>1. /\ ~reading /\ result = <<>> /\ reading' = TRUE
      /\ UNCHANGED <<arrived, queue, taken>>
  BY DEF ReadBuffered, ByteInv, ReadInv
<1>2. Len(buffer) \in Nat /\ Size \in Nat /\ Size >= 1 /\ buffer \in Seq(1..MaxBytes)
  BY StreamAssumption DEF ByteInv, ByteTypes
<1>3. PICK n : /\ n = IF Size < Len(buffer) THEN Size ELSE Len(buffer)
               /\ result' = First(buffer, n) /\ buffer' = After(buffer, n)
  BY DEF ReadBuffered
<1>4. n \in Nat /\ n <= Len(buffer) /\ n <= Size /\ (n < Size => n = Len(buffer))
  BY <1>2, <1>3
<1>5. /\ result' \in Seq(1..MaxBytes) /\ Len(result') = n
      /\ buffer' \in Seq(1..MaxBytes) /\ Len(buffer') = Len(buffer) - n
      /\ \A i \in 1..n : result'[i] = buffer[i]
      /\ \A i \in 1..(Len(buffer) - n) : buffer'[i] = buffer[n + i]
  <2>1. /\ First(buffer, n) \in Seq(1..MaxBytes) /\ Len(First(buffer, n)) = n
        /\ \A i \in 1..n : First(buffer, n)[i] = buffer[i]
    BY <1>2, <1>4, CutInTwo
  <2>2. /\ After(buffer, n) \in Seq(1..MaxBytes) /\ Len(After(buffer, n)) = Len(buffer) - n
        /\ \A i \in 1..(Len(buffer) - n) : After(buffer, n)[i] = buffer[n + i]
    BY <1>2, <1>4, CutInTwo
  <2> QED BY <1>3, <2>1, <2>2
<1>6. Len(result) = 0
  BY <1>1
<1>7. \A k \in 1..(Len(queue) + 1) : Before(k)' = Before(k)
  BY <1>1, <1>2, <1>4, <1>5, <1>6 DEF Before, ByteInv, ByteTypes
<1>8. \A i \in 1..Len(result') : result'[i] = taken' + i
  BY <1>1, <1>2, <1>4, <1>5, <1>6 DEF ByteInv, ByteTypes, BytesInOrder
<1>9. \A i \in 1..Len(buffer') : buffer'[i] = taken' + Len(result') + i
  <2> SUFFICES ASSUME NEW i \in 1..Len(buffer') PROVE buffer'[i] = taken' + Len(result') + i
    OBVIOUS
  <2>1. n + i \in 1..Len(buffer) /\ taken \in Nat
    BY <1>2, <1>4, <1>5 DEF ByteInv, ByteTypes
  <2>2. buffer[n + i] = taken + Len(result) + (n + i)
    BY <2>1 DEF ByteInv, BytesInOrder
  <2> QED BY <1>1, <1>4, <1>5, <1>6, <2>1, <2>2
<1>10. Len(queue) \in Nat
  BY DEF ByteInv, ByteTypes
<1>11. BytesInOrder'
  BY <1>1, <1>7, <1>8, <1>9, <1>10 DEF ByteInv, BytesInOrder
<1>12. ReadInv'
  <2>1. Len(result') < Size => Len(buffer') = 0
    BY <1>2, <1>4, <1>5
  <2>2. Len(buffer') = 0 => buffer' = <<>>
    BY <1>5
  <2> QED BY <1>1, <1>2, <1>4, <1>5, <2>1, <2>2 DEF ReadInv
<1>13. ByteTypes'
  BY <1>1, <1>5 DEF ByteInv, ByteTypes
<1>14. Bounded'
  BY <1>1, <1>2, <1>4, <1>5, <1>6 DEF ByteInv, Bounded, ByteTypes
<1> QED BY <1>11, <1>12, <1>13, <1>14 DEF ByteInv

(* A read ends, with all it asked for or less.                             *)
LEMMA ReturnKeeps ==
  ASSUME ByteInv, Return
  PROVE  ByteInv'
<1>1. /\ ~reading' /\ reading' \in BOOLEAN /\ result' = <<>> /\ taken' = taken + Len(result)
      /\ UNCHANGED <<arrived, queue, buffer>>
  BY DEF Return
<1>2. Len(result') = 0 /\ Len(result) \in Nat /\ Len(buffer) \in Nat /\ taken \in Nat
  BY <1>1 DEF ByteInv, ByteTypes
<1>3. \A k \in 1..(Len(queue) + 1) : Before(k)' = Before(k)
  BY <1>1, <1>2 DEF Before
<1>4. Len(queue) \in Nat
  BY DEF ByteInv, ByteTypes
<1>5. BytesInOrder'
  <2>1. \A i \in 1..Len(result') : result'[i] = taken' + i
    BY <1>2
  <2>2. \A i \in 1..Len(buffer') : buffer'[i] = taken' + Len(result') + i
    <3>1. ASSUME NEW i \in 1..Len(buffer) PROVE buffer[i] = taken' + Len(result') + i
      <4>1. buffer[i] = taken + Len(result) + i
        BY DEF ByteInv, BytesInOrder
      <4> QED BY <1>1, <1>2, <4>1
    <3> QED BY <1>1, <3>1
  <2>3. ASSUME NEW k \in 1..Len(queue') PROVE
          queue'[k] # <<>> /\ \A i \in 1..Len(queue'[k]) : queue'[k][i] = Before(k)' + i
    <3>1. queue[k] # <<>> /\ \A i \in 1..Len(queue[k]) : queue[k][i] = Before(k) + i
      BY <1>1 DEF ByteInv, BytesInOrder
    <3>2. queue' = queue /\ Before(k)' = Before(k)
      BY <1>1, <1>3, <1>4
    <3> QED BY <3>1, <3>2, Zenon
  <2>4. Before(Len(queue) + 1)' = arrived'
    <3>1. Before(Len(queue) + 1) = arrived
      BY DEF ByteInv, BytesInOrder
    <3> QED BY <1>1, <1>2, <1>4, <3>1 DEF Before
  <2> QED BY <2>1, <2>2, <2>3, <2>4 DEF BytesInOrder
<1>6. ByteTypes'
  BY <1>1, <1>2 DEF ByteInv, ByteTypes
<1>7. ReadInv' /\ Bounded'
  BY <1>1, <1>2, StreamAssumption DEF ByteInv, ReadInv, Bounded
<1> QED BY <1>5, <1>6, <1>7 DEF ByteInv

(* A read takes what it still needs of the oldest chunk; the surplus is    *)
(* carried over.                                                           *)
LEMMA TakeChunkKeeps ==
  ASSUME ByteInv, TakeChunk
  PROVE  ByteInv'
<1>1. PICK chunk : chunk = queue[1]
  OBVIOUS
<1>2. PICK room : room = Room
  OBVIOUS
<1>3. /\ reading /\ room > 0 /\ queue # <<>> /\ queue \in Seq(Seq(1..MaxBytes))
      /\ UNCHANGED <<arrived, reading, taken>> /\ queue' = Tail(queue)
      /\ Len(result) \in Nat /\ result \in Seq(1..MaxBytes) /\ Size \in Nat
      /\ room = Size - Len(result) /\ taken \in Nat /\ arrived \in Nat
  BY <1>2, StreamAssumption DEF TakeChunk, Room, ByteInv, ByteTypes
<1>4. /\ Head(queue) = chunk /\ chunk \in Seq(1..MaxBytes) /\ Len(chunk) \in Nat
      /\ Len(queue) \in Nat /\ Len(queue) >= 1
  BY <1>1, <1>3, Nonempty
<1>5. buffer = <<>> /\ Len(buffer) = 0 /\ buffer \in Seq(1..MaxBytes)
  <2>1. Len(result) < Size
    BY <1>3
  <2> QED BY <1>3, <2>1 DEF ByteInv, ReadInv
<1>6. \A i \in 1..Len(chunk) : chunk[i] = taken + Len(result) + i
  <2>1. 1 \in 1..Len(queue) /\ Before(1) = taken + Len(result) + 0
    BY <1>4, <1>5 DEF Before
  <2>2. Before(1) = taken + Len(result)
    BY <1>3, <2>1
  <2> QED BY <1>1, <2>1, <2>2 DEF ByteInv, BytesInOrder
<1>7. PICK part, spare :
        /\ part = IF Len(chunk) > room THEN First(chunk, room) ELSE chunk
        /\ spare = IF Len(chunk) > room THEN buffer \o After(chunk, room) ELSE buffer
  OBVIOUS
<1>8. result' = result \o part /\ buffer' = spare
  BY <1>2, <1>4, <1>7 DEF TakeChunk, Surplus
<1>9. /\ part \in Seq(1..MaxBytes) /\ spare \in Seq(1..MaxBytes)
      /\ Len(part) + Len(spare) = Len(chunk) /\ Len(part) <= room
      /\ Len(part) \in Nat /\ Len(spare) \in Nat
      /\ Len(part) < room => spare = <<>>
      /\ \A i \in 1..Len(part) : part[i] = chunk[i]
      /\ \A i \in 1..Len(spare) : spare[i] = chunk[Len(part) + i]
  <2>1. CASE Len(chunk) > room
    <3>4. room \in Nat /\ room <= Len(chunk)
      BY <1>3, <1>4, <2>1
    <3>1. /\ First(chunk, room) \in Seq(1..MaxBytes) /\ Len(First(chunk, room)) = room
          /\ \A i \in 1..room : First(chunk, room)[i] = chunk[i]
      BY <1>4, <3>4, CutInTwo, ZenonT(30)
    <3>2. /\ After(chunk, room) \in Seq(1..MaxBytes) /\ Len(After(chunk, room)) = Len(chunk) - room
          /\ \A i \in 1..(Len(chunk) - room) : After(chunk, room)[i] = chunk[room + i]
      BY <1>4, <3>4, CutInTwo, ZenonT(30)
    <3>3. part = First(chunk, room) /\ spare = After(chunk, room)
      <4>1. \A t \in Seq(1..MaxBytes) : <<>> \o t = t
        OBVIOUS
      <4> QED BY <1>5, <1>7, <2>1, <3>2, <4>1
    <3>5. Len(part) = room /\ Len(spare) = Len(chunk) - room /\ Len(part) + Len(spare) = Len(chunk)
      BY <1>4, <3>1, <3>2, <3>3, <3>4
    <3>6. \A i \in 1..Len(part) : part[i] = chunk[i]
      BY <3>1, <3>3, <3>5
    <3>7. \A i \in 1..Len(spare) : spare[i] = chunk[Len(part) + i]
      BY <3>2, <3>3, <3>5
    <3> QED BY <1>4, <2>1, <3>1, <3>2, <3>3, <3>4, <3>5, <3>6, <3>7
  <2>2. CASE ~(Len(chunk) > room)
    BY <1>3, <1>4, <1>5, <1>7, <2>2
  <2> QED BY <2>1, <2>2
<1>10. /\ result' \in Seq(1..MaxBytes) /\ Len(result') = Len(result) + Len(part)
       /\ \A i \in 1..Len(result) : result'[i] = result[i]
       /\ \A i \in 1..Len(part) : result'[Len(result) + i] = part[i]
  BY <1>3, <1>8, <1>9
<1>11. \A i \in 1..Len(result') : result'[i] = taken' + i
  <2> SUFFICES ASSUME NEW i \in 1..Len(result') PROVE result'[i] = taken + i
    BY <1>3
  <2>1. CASE i \in 1..Len(result)
    BY <1>10, <2>1 DEF ByteInv, BytesInOrder
  <2>2. CASE i \notin 1..Len(result)
    <3>1. PICK j \in 1..Len(part) : i = Len(result) + j
      <4>1. i - Len(result) \in 1..Len(part) /\ i = Len(result) + (i - Len(result))
        BY <1>3, <1>9, <1>10, <2>2
      <4> QED BY <4>1
    <3>2. j \in 1..Len(chunk) /\ result'[i] = chunk[j]
      BY <1>9, <1>10, <3>1
    <3> QED BY <1>3, <1>6, <3>1, <3>2
  <2> QED BY <2>1, <2>2
<1>12. \A i \in 1..Len(buffer') : buffer'[i] = taken' + Len(result') + i
  <2> SUFFICES ASSUME NEW i \in 1..Len(spare) PROVE spare[i] = taken + Len(result') + i
    BY <1>3, <1>8
  <2>1. Len(part) + i \in 1..Len(chunk) /\ spare[i] = chunk[Len(part) + i]
    BY <1>9
  <2>2. chunk[Len(part) + i] = taken + Len(result) + (Len(part) + i)
    BY <1>6, <2>1
  <2> QED BY <1>3, <1>9, <1>10, <2>1, <2>2
<1>13. /\ queue' \in Seq(Seq(1..MaxBytes)) /\ Len(queue') = Len(queue) - 1
       /\ \A k \in 1..Len(queue') : queue'[k] = queue[k + 1] /\ k + 1 \in 1..Len(queue)
  BY <1>3, <1>4
<1>14. chunk # <<>> /\ chunk[Len(chunk)] = taken + Len(result) + Len(chunk)
  <2>1. 1 \in 1..Len(queue) /\ queue[1] # <<>>
    BY <1>4 DEF ByteInv, BytesInOrder
  <2>2. Len(chunk) \in 1..Len(chunk)
    BY <1>1, <1>4, <2>1, Nonempty
  <2> QED BY <1>1, <1>6, <2>1, <2>2
<1>15. ASSUME NEW k \in Nat \ {0}, k <= Len(queue)
       PROVE  Before(k)' = Before(k + 1)
  <2>1. CASE k = 1
    <3>1. Before(k + 1) = chunk[Len(chunk)]
      BY <1>1, <2>1 DEF Before
    <3>2. Before(k)' = taken + Len(result') + Len(spare)
      BY <1>3, <1>8, <2>1 DEF Before
    <3>3. taken + Len(result') + Len(spare) = taken + Len(result) + Len(chunk)
      <4>1. /\ Len(result') = Len(result) + Len(part) /\ Len(part) + Len(spare) = Len(chunk)
            /\ Len(result) \in Nat /\ Len(part) \in Nat /\ Len(spare) \in Nat /\ taken \in Nat
        BY <1>3, <1>9, <1>10
      <4> QED BY <4>1
    <3> QED BY <1>14, <3>1, <3>2, <3>3, Zenon
  <2>2. CASE k # 1
    <3>1. k - 1 \in 1..Len(queue') /\ queue'[k - 1] = queue[k]
      <4>1. k - 1 \in 1..Len(queue') /\ (k - 1) + 1 = k
        BY <1>4, <1>13, <1>15, <2>2
      <4> QED BY <1>13, <4>1
    <3>2. Before(k + 1) = queue[k][Len(queue[k])]
      BY DEF Before
    <3> QED BY <2>2, <3>1, <3>2 DEF Before
  <2> QED BY <2>1, <2>2
<1>16. BytesInOrder'
  <2>1. ASSUME NEW k \in 1..Len(queue')
        PROVE  queue'[k] # <<>> /\ \A i \in 1..Len(queue'[k]) : queue'[k][i] = Before(k)' + i
    <3>1. queue'[k] = queue[k + 1] /\ k + 1 \in 1..Len(queue) /\ Before(k)' = Before(k + 1)
      <4>1. k \in Nat \ {0} /\ k <= Len(queue)
        BY <1>4, <1>13
      <4> QED BY <1>13, <1>15, <4>1
    <3>2. \A l \in 1..Len(queue) :
            queue[l] # <<>> /\ \A i \in 1..Len(queue[l]) : queue[l][i] = Before(l) + i
      BY DEF ByteInv, BytesInOrder
    <3>3. queue[k + 1] # <<>> /\ \A i \in 1..Len(queue[k + 1]) : queue[k + 1][i] = Before(k + 1) + i
      BY <3>1, <3>2, Zenon
    <3> QED BY <3>1, <3>3, Zenon
  <2>2. PICK n : n = Len(queue)
    OBVIOUS
  <2>3. Before(n)' = Before(n + 1) /\ Before(n + 1) = arrived
    BY <1>4, <1>15, <2>2 DEF ByteInv, BytesInOrder
  <2>4. Len(queue') + 1 = n
    BY <1>4, <1>13, <2>2
  <2>5. Before(Len(queue) + 1)' = arrived'
    BY <1>3, <2>3, <2>4
  <2> QED BY <1>11, <1>12, <2>1, <2>5 DEF BytesInOrder
<1>17. ByteTypes'
  BY <1>3, <1>8, <1>9, <1>10, <1>13 DEF ByteInv, ByteTypes
<1>18. ReadInv'
  BY <1>3, <1>8, <1>9, <1>10 DEF ReadInv
<1>19. Bounded'
  <2>1. chunk[Len(chunk)] <= arrived
    BY <1>1, <1>4 DEF ByteInv, Bounded
  <2>2. taken' + Len(result') + Len(buffer') <= arrived'
    BY <1>3, <1>4, <1>8, <1>9, <1>10, <1>14, <2>1
  <2>3. \A k \in 1..Len(queue') : queue'[k][Len(queue'[k])] <= arrived'
    BY <1>3, <1>13 DEF ByteInv, Bounded
  <2> QED BY <2>2, <2>3 DEF Bounded
<1> QED BY <1>16, <1>17, <1>18, <1>19 DEF ByteInv

(* Only the steps above touch the bytes.                                   *)
LEMMA ByteStep == ByteInv /\ [Next]_vars => ByteInv'
<1> SUFFICES ASSUME ByteInv, [Next]_vars PROVE ByteInv' OBVIOUS
<1>1. ASSUME UNCHANGED byteVars PROVE ByteInv'
  <2>1. UNCHANGED <<arrived, queue, buffer, reading, result, taken>>
    BY <1>1 DEF byteVars
  <2>2. \A k : Before(k)' = Before(k)
    BY <2>1 DEF Before
  <2> QED BY <2>1, <2>2 DEF ByteInv, ByteTypes, ReadInv, Bounded, BytesInOrder
<1>2. CASE RefreshPorts \/ Click \/ FinishTransition
  BY <1>1, <1>2 DEF RefreshPorts, Click, FinishTransition
<1>3. CASE OpenerNext
  <2>1. UNCHANGED byteVars
    BY <1>3 DEF OpenerNext, StartClose, JoinReader, OpenPort, OpenPortFails, Connect, Adopt
  <2> QED BY <1>1, <2>1
<1>4. CASE \E c \in Port : ReaderNext(c) \/ LoseCable(c)
  <2>1. UNCHANGED byteVars
    BY <1>4 DEF ReaderNext, ReaderGoes, ConnectionMade, LoseCable, Stop, ConnectionLost, Die
  <2> QED BY <1>1, <2>1
<1>5. CASE Dispatch \/ Write \/ Hand \/ HandFails
  BY <1>1, <1>5 DEF Dispatch, Write, Hand, HandFails, streamVars
<1>6. CASE UNCHANGED vars
  BY <1>1, <1>6 DEF vars, streamVars
<1>7. CASE \E c \in Port : DataReceived(c)
  BY <1>7, DataReceivedKeeps
<1>8. CASE ReadBuffered \/ TakeChunk \/ ReaderLoop
  BY <1>8, ReadBufferedKeeps, TakeChunkKeeps, ReturnKeeps DEF ReaderLoop
<1> QED BY <1>2, <1>3, <1>4, <1>5, <1>6, <1>7, <1>8 DEF Next, StreamNext

(* The types of what neither invariant speaks of.                          *)
WidgetTypes ==
  /\ isOpen \in [Port -> BOOLEAN] /\ told \subseteq Port /\ held \in Port \cup {0}
  /\ menu \in BOOLEAN /\ shown \in {"connected", "disconnected", "connecting"}
  /\ busy \in BOOLEAN

LEMMA WidgetTypesInit == Init => WidgetTypes
<1> SUFFICES ASSUME Init PROVE WidgetTypes OBVIOUS
<1>1. isOpen \in [Port -> BOOLEAN] /\ told \subseteq Port /\ held \in Port \cup {0}
  BY DEF Init, StreamInit
<1>2. menu \in BOOLEAN /\ busy \in BOOLEAN
  BY DEF Init, StreamInit
<1>3. shown \in {"connected", "disconnected", "connecting"}
  BY DEF Init, StreamInit
<1> QED BY <1>1, <1>2, <1>3 DEF WidgetTypes

LEMMA WidgetTypesStep == WidgetTypes /\ ConnInv /\ [Next]_vars => WidgetTypes'
<1> SUFFICES ASSUME WidgetTypes, ConnInv, [Next]_vars PROVE WidgetTypes' OBVIOUS
<1>0. ConnInv'
  BY ConnStep
<1>1. held' \in Port \cup {0}
  BY <1>0 DEF ConnInv, LinkTypes
<1> DEFINE Shows == shown' \in {"connected", "disconnected", "connecting"}
           Rest  == isOpen' \in [Port -> BOOLEAN] /\ told' \subseteq Port
<1>2. ASSUME Rest, Shows, menu' \in BOOLEAN, busy' \in BOOLEAN PROVE WidgetTypes'
  BY <1>1, <1>2 DEF WidgetTypes
<1>3. CASE UNCHANGED <<isOpen, told, widgetVars>>
  <2>1. UNCHANGED <<isOpen, told, menu, shown, busy>>
    BY <1>3 DEF widgetVars
  <2> QED BY <1>2, <2>1 DEF WidgetTypes
<1>4. CASE RefreshPorts
  <2>1. UNCHANGED <<isOpen, told, busy>> /\ menu' \in BOOLEAN /\ Shows
    BY <1>4 DEF RefreshPorts, linkVars, Shown
  <2> QED BY <1>2, <2>1 DEF WidgetTypes
<1>5. CASE Click
  <2>1. UNCHANGED <<isOpen, told, menu>> /\ Shows
    BY <1>5 DEF Click, linkVars
  <2>2. busy' \in BOOLEAN
    BY <1>5 DEF Click
  <2> QED BY <1>2, <2>1, <2>2 DEF WidgetTypes
<1>6. CASE FinishTransition
  <2>1. UNCHANGED <<isOpen, told, menu>> /\ Shows
    BY <1>6 DEF FinishTransition, linkVars, Shown
  <2>2. busy' \in BOOLEAN
    BY <1>6 DEF FinishTransition
  <2> QED BY <1>2, <2>1, <2>2 DEF WidgetTypes
<1>7. CASE OpenerNext
  <2>1. UNCHANGED <<menu, shown, busy>>
    BY <1>7 DEF OpenerNext, StartClose, JoinReader, OpenPort, OpenPortFails, Connect, Adopt
  <2>2. told' \subseteq Port
    BY <1>7
    DEF OpenerNext, StartClose, JoinReader, OpenPort, OpenPortFails, Connect, Adopt, linkVars,
        WidgetTypes
  <2>3. isOpen' \in [Port -> BOOLEAN]
    <3>1. CASE JoinReader
      BY <3>1 DEF JoinReader, WidgetTypes
    <3>2. CASE StartClose \/ OpenPortFails \/ Adopt
      BY <3>2 DEF StartClose, OpenPortFails, Adopt, linkVars, WidgetTypes
    <3>3. CASE OpenPort \/ Connect
      BY <3>3 DEF OpenPort, Connect, WidgetTypes
    <3> QED BY <1>7, <3>1, <3>2, <3>3 DEF OpenerNext
  <2> QED BY <1>2, <2>1, <2>2, <2>3 DEF WidgetTypes
<1>8. CASE \E c \in Port : ReaderNext(c) \/ LoseCable(c) \/ DataReceived(c)
  BY <1>3, <1>8
  DEF ReaderNext, ReaderGoes, ConnectionMade, LoseCable, Stop, ConnectionLost, Die,
      DataReceived, linkVars
<1>9. CASE ReadBuffered \/ TakeChunk
  BY <1>3, <1>9 DEF ReadBuffered, TakeChunk, linkVars
<1>10. CASE Dispatch \/ Write \/ Hand \/ HandFails \/ UNCHANGED vars
  BY <1>3, <1>10 DEF Dispatch, Write, Hand, HandFails, vars, streamVars, linkVars
<1>11. CASE ReaderLoop
  BY <1>3, <1>11 DEF ReaderLoop, Return, linkVars
<1> QED BY <1>4, <1>5, <1>6, <1>7, <1>8, <1>9, <1>10, <1>11 DEF Next, StreamNext

(* For any number of bytes, chunks and openings, reads return every byte   *)
(* once and in the order of arrival, at most one reader receives, and a    *)
(* live connection is seen (stream/serial.py: data_received, read, open,   *)
(* close).                                                                 *)
THEOREM BytesAreInOrder == Spec => []StreamInv
<1> DEFINE IInv == ConnInv /\ ByteInv /\ WidgetTypes
<1>1. Init => IInv
  BY ConnInit, ByteInit, WidgetTypesInit
<1>2. IInv /\ [Next]_vars => IInv'
  BY ConnStep, ByteStep, WidgetTypesStep
<1>3. IInv => StreamInv
  <2> SUFFICES ASSUME IInv PROVE StreamInv OBVIOUS
  <2>1. /\ held \in Port \cup {0} /\ flag \in BOOLEAN /\ opened \in 0..MaxOpens
        /\ reader \in [Port -> {"none", "fresh", "running", "leaving", "lost", "dead"}]
        /\ strays \subseteq Port /\ opener \in Opener
    BY DEF ConnInv, LinkTypes
  <2>2. arrived \in 0..MaxBytes /\ reading \in BOOLEAN
    BY DEF ByteInv, ByteTypes
  <2>3. taken \in 0..MaxBytes
    <3>1. /\ taken \in Nat /\ Len(result) \in Nat /\ Len(buffer) \in Nat /\ arrived \in 0..MaxBytes
          /\ taken + Len(result) + Len(buffer) <= arrived /\ MaxBytes \in Nat
      BY StreamAssumption DEF ByteInv, ByteTypes, Bounded
    <3> QED BY <3>1
  <2>4. /\ queue \in Seq(Seq(1..MaxBytes)) /\ buffer \in Seq(1..MaxBytes)
        /\ result \in Seq(1..MaxBytes)
    BY DEF ByteInv, ByteTypes
  <2>5. TypeOK
    BY <2>1, <2>2, <2>3, <2>4 DEF TypeOK, WidgetTypes
  <2>6. FlagIsOfHeldPort /\ OneReader
    BY DEF ConnInv, LinkTypes, Owners, Alive, HoldsPort, OneReader, Port
  <2> QED BY <2>5, <2>6 DEF StreamInv, ByteInv
<1> HIDE DEF IInv
<1> QED BY <1>1, <1>2, <1>3, PTL DEF Spec
-----------------------------------------------------------------------------
(* What was written and what is left are the records, in order; while      *)
(* dispatch() runs it has one left.                                        *)
DispatchInv ==
  /\ place \in {"idle", "write", "hand"}
  /\ sent \in Seq(0..9) /\ records \in Seq(0..9) /\ Len(sent) <= 10
  /\ \A i \in 1..Len(sent) : sent[i] = i - 1
  /\ place # "idle" =>
       /\ outcome = "none" /\ records # <<>> /\ Len(sent) + Len(records) = 10
       /\ \A i \in 1..Len(records) : records[i] = Len(sent) + i - 1
  /\ outcome = "sent" <=> Len(sent) = 10

(* The messages are the numbers 0 to 9, in order.                          *)
LEMMA TenIndices ==
  /\ Indices \in Seq(0..9) /\ Len(Indices) = 10
  /\ \A i \in 1..10 : Indices[i] = i - 1
BY DEF Indices, Items

(* A sequence that counts from 0 still does when the next number follows.  *)
LEMMA NextInOrder ==
  ASSUME NEW s \in Seq(0..9), NEW x \in 0..9, NEW t, t = Append(s, x),
         x = Len(s), \A i \in 1..Len(s) : s[i] = i - 1
  PROVE  /\ t \in Seq(0..9) /\ Len(t) = Len(s) + 1
         /\ \A i \in 1..Len(t) : t[i] = i - 1
<1>1. t \in Seq(0..9) /\ Len(t) = Len(s) + 1 /\ t[Len(s) + 1] = x
  <2>1. t \in Seq(0..9)
    <3>1. \A S, q, e : q \in Seq(S) /\ e \in S => Append(q, e) \in Seq(S)
      BY AppendProperties
    <3> QED BY <3>1, Zenon
  <2>2. Len(t) = Len(s) + 1
    OBVIOUS
  <2>3. t[Len(s) + 1] = x
    OBVIOUS
  <2> QED BY <2>1, <2>2, <2>3
<1>2. \A i \in 1..Len(s) : t[i] = s[i]
  OBVIOUS
<1>3. ASSUME NEW i \in 1..Len(t) PROVE t[i] = i - 1
  <2>1. Len(s) \in Nat
    OBVIOUS
  <2>2. i \in 1..Len(s) \/ i = Len(s) + 1
    BY <1>1, <2>1
  <2> QED BY <1>1, <1>2, <2>1, <2>2
<1> QED BY <1>1, <1>3

LEMMA DispatchMeans == DispatchInv => SuccessMeansAllSent
<1> SUFFICES ASSUME DispatchInv PROVE SuccessMeansAllSent OBVIOUS
<1>1. SubSeq(sent, 1, Len(sent)) = SubSeq(Indices, 1, Len(sent))
  <2>1. SubSeq(sent, 1, Len(sent)) = sent
    BY DEF DispatchInv
  <2>2. /\ SubSeq(Indices, 1, Len(sent)) \in Seq(0..9)
        /\ Len(SubSeq(Indices, 1, Len(sent))) = Len(sent)
        /\ \A i \in 1..Len(sent) : SubSeq(Indices, 1, Len(sent))[i] = Indices[i]
    BY TenIndices DEF DispatchInv
  <2>3. \A i \in 1..Len(sent) : sent[i] = Indices[i]
    <3> SUFFICES ASSUME NEW i \in 1..Len(sent) PROVE sent[i] = Indices[i] OBVIOUS
    <3>1. Len(sent) \in Nat /\ Len(sent) <= 10
      BY DEF DispatchInv
    <3>2. i \in 1..10
      BY <3>1
    <3> QED BY <3>2, TenIndices DEF DispatchInv
  <2> QED BY <2>1, <2>2, <2>3, SeqEqual DEF DispatchInv
<1>2. Len(sent) = 10 <=> sent = Indices
  <2>1. sent \in Seq(0..9) /\ \A i \in 1..Len(sent) : sent[i] = i - 1
    BY DEF DispatchInv
  <2>2. ASSUME Len(sent) = 10 PROVE sent = Indices
    <3>1. \A i \in 1..Len(sent) : sent[i] = Indices[i]
      BY <2>1, <2>2, TenIndices
    <3>2. Len(sent) = Len(Indices) /\ Indices \in Seq(0..9)
      BY <2>2, TenIndices
    <3> QED BY <2>1, <3>1, <3>2, SeqEqual
  <2>3. ASSUME sent = Indices PROVE Len(sent) = 10
    BY <2>3, TenIndices
  <2> QED BY <2>2, <2>3
<1> QED BY <1>1, <1>2, TenIndices DEF DispatchInv, SuccessMeansAllSent, IsPrefix

LEMMA DispatchStep == DispatchInv /\ [Next]_vars => DispatchInv'
<1> SUFFICES ASSUME DispatchInv, [Next]_vars PROVE DispatchInv' OBVIOUS
<1> USE DEF DispatchInv
<1>1. CASE UNCHANGED dispatchVars
  BY <1>1 DEF dispatchVars
<1>2. CASE Dispatch
  <2>1. sent' = <<>>
    BY <1>2 DEF Dispatch
  <2>2. CASE place' = "write" /\ records' = Indices /\ outcome' = "none"
    <3>1. Len(sent') = 0 /\ Len(records') = 10
      BY <2>1, <2>2, TenIndices
    <3>2. Len(sent') + Len(records') = 10 /\ records' # <<>>
      <4>1. Len(<<>>) = 0
        BY EmptySeq
      <4>2. Len(records') # 0
        BY <3>1
      <4>3. records' # <<>>
        BY <4>1, <4>2, Zenon
      <4> QED BY <3>1, <4>3
    <3>4. \A i \in 1..10 : records'[i] = Len(sent') + i - 1
      BY <2>2, <3>1, TenIndices
    <3>3. sent' \in Seq(0..9) /\ records' \in Seq(0..9)
      BY <2>1, <2>2, TenIndices
    <3> QED BY <2>1, <2>2, <3>1, <3>2, <3>3, <3>4
  <2>3. CASE \E how : how # "sent" /\ Ends(how)
    BY <2>1, <2>3 DEF Ends
  <2>4. CASE ~IsConnected
    BY <1>2, <2>3, <2>4 DEF Dispatch
  <2>5. CASE IsConnected
    <3>1. PICK encoding \in Encodings :
            IF encoding = "sent"
            THEN place' = "write" /\ records' = Indices /\ outcome' = "none"
            ELSE Ends(encoding)
      BY <1>2, <2>5 DEF Dispatch
    <3> QED BY <2>2, <2>3, <3>1
  <2> QED BY <2>4, <2>5
<1> DEFINE left == Len(records)
<1>3. place # "idle" => left \in Nat /\ left >= 1 /\ Len(sent) # 10
  <2>1. left \in Nat /\ Len(sent) \in Nat
    OBVIOUS
  <2>2. records # <<>> => left # 0
    OBVIOUS
  <2> QED BY <2>1, <2>2
<1>4. CASE place # "idle" /\ sent' = sent /\ \E how : how # "sent" /\ Ends(how)
  <2>1. records' = <<>> /\ place' = "idle" /\ outcome' # "sent"
    BY <1>4 DEF Ends
  <2>2. Len(sent') # 10
    BY <1>4, <1>3
  <2>3. records' \in Seq(0..9) /\ sent' \in Seq(0..9)
    BY <2>1, <1>4
  <2>4. Len(sent') <= 10 /\ \A i \in 1..Len(sent') : sent'[i] = i - 1
    BY <1>4
  <2> QED BY <2>1, <2>2, <2>3, <2>4
<1>5. CASE Write
  <2>1. CASE IsConnected
    <3>1. place' = "hand" /\ UNCHANGED <<records, sent, outcome>> /\ place = "write"
      BY <1>5, <2>1 DEF Write
    <3> QED BY <3>1
  <2>2. CASE ~IsConnected
    <3>1. place = "write" /\ sent' = sent /\ Ends("refused")
      BY <1>5, <2>2 DEF Write, WriteRefused
    <3> QED BY <1>4, <3>1
  <2> QED BY <2>1, <2>2
<1>6. CASE Hand
  <2>1. /\ Head(records) = Len(sent) /\ Head(records) \in 0..9
        /\ sent' = Append(sent, Head(records)) /\ Len(sent) + left = 10
    BY <1>6, <1>3 DEF Hand
  <2>2. /\ sent' \in Seq(0..9) /\ Len(sent') = Len(sent) + 1 /\ Len(sent') <= 10
        /\ \A i \in 1..Len(sent') : sent'[i] = i - 1
    <3>1. sent \in Seq(0..9) /\ left \in Nat /\ left >= 1 /\ \A i \in 1..Len(sent) : sent[i] = i - 1
      BY <1>6, <1>3 DEF Hand
    <3>2. /\ sent' \in Seq(0..9) /\ Len(sent') = Len(sent) + 1
          /\ \A i \in 1..Len(sent') : sent'[i] = i - 1
      BY <2>1, <3>1, NextInOrder
    <3>3. Len(sent') <= 10
      <4> HIDE DEF left
      <4> QED BY <2>1, <3>1, <3>2
    <3> QED BY <3>2, <3>3
  <2>3. CASE left = 1
    <3>1. place' = "idle" /\ records' = <<>> /\ outcome' = "sent"
      BY <1>6, <2>3 DEF Hand, Ends
    <3> QED BY <1>6, <2>1, <2>2, <2>3, <3>1
  <2>4. CASE left # 1
    <3>1. place' = "write" /\ records' = Tail(records) /\ outcome' = "none"
      BY <1>6, <2>4 DEF Hand
    <3>2. /\ records' \in Seq(0..9) /\ Len(records') = left - 1
          /\ \A i \in 1..Len(records') : records'[i] = records[i + 1]
      <4>1. records \in Seq(0..9) /\ records # <<>>
        BY <1>6 DEF Hand
      <4> QED BY <3>1, <4>1, HeadTailProperties
    <3>5. records' # <<>>
      <4>1. Len(records') # 0
        BY <1>6, <1>3, <2>4, <3>2 DEF Hand
      <4>2. Len(<<>>) = 0
        BY EmptySeq
      <4> QED BY <4>1, <4>2
    <3>3. \A i \in 1..Len(records') : records'[i] = Len(sent') + i - 1
      BY <1>6, <1>3, <2>2, <3>2 DEF Hand
    <3>4. Len(sent') # 10 /\ Len(sent') + Len(records') = 10
      BY <1>3, <1>6, <2>1, <2>2, <2>4, <3>2 DEF Hand
    <3> QED BY <2>2, <3>1, <3>2, <3>3, <3>4, <3>5
  <2> QED BY <2>3, <2>4
<1>7. CASE HandFails
  <2>1. place = "hand" /\ sent' = sent /\ Ends("raised")
    BY <1>7 DEF HandFails
  <2> QED BY <1>4, <2>1
<1> QED BY <1>1, <1>2, <1>5, <1>6, <1>7 DEF Next, vars, ReaderLoop

(* The thermostat's dispatch() reports success if and only if all records  *)
(* were written, each once and in the order of the indices, whatever the   *)
(* widget does to the stream meanwhile (models/thermostat/dispatcher.py).  *)
THEOREM RecordsInOrder == Spec => []SuccessMeansAllSent
<1>1. Init => DispatchInv
  BY DEF Init, DispatchInv
<1> QED BY <1>1, DispatchStep, DispatchMeans, PTL DEF Spec
======================================================================
