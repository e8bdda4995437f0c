--------------------------- MODULE DirectLinkProofs ---------------------------
(***************************************************************************)
(* Theorems about DirectLink, for any depth of the send queue, any share   *)
(* reserved for frames that are not telemetry, and any number of           *)
(* connections and sessions.                                               *)
(***************************************************************************)
EXTENDS DirectLink, FiniteSetTheorems, TLAPS

-----------------------------------------------------------------------------
(* The inductive invariant.                                                 *)

Draining == {"drain", "latched", "unlatch", "notify"}

\* TypeOK, with the places each task can be at, and the link only some do.
QueueTyped == queue \in Seq(Frame) /\ Len(queue) <= kSendQueueDepth
FlagsTyped ==
  /\ running \in BOOLEAN /\ listening \in BOOLEAN /\ task \in BOOLEAN
  /\ usable \in BOOLEAN /\ latch \in BOOLEAN /\ flight \in BOOLEAN
LinkTyped ==
  /\ link \in Links
  /\ peers \in 0 .. MaxPeers /\ peer \in 0 .. MaxPeers /\ waiting \in 0 .. MaxPeers
SessionTyped ==
  /\ session \in [node : {"none", "hello", "active"}, generation : Nat, conn : 0 .. MaxPeers]
  /\ asked \in [generation : 0 .. MaxGeneration, conn : 0 .. MaxPeers]
Places ==
  /\ at \in [Tasks -> {"idle", "connect", "drop", "replace", "open", "opened", "stop", "enqueue", "drain",
                        "latched", "unlatch", "notify", "reply"}]
  /\ at["shell"] \in {"idle", "reply", "enqueue"} \cup Draining
  /\ at["routine"] \in {"idle", "drop", "stop", "enqueue"} \cup Draining
  /\ at["link"] \in {"idle", "connect", "drop", "replace", "open", "opened", "enqueue"} \cup Draining
  /\ at["routine"] \in {"drop", "stop"} => link = "tcp"
  /\ at["link"] \in {"replace", "open", "opened"} => link = "serial"
  /\ at["link"] = "opened" => peers < MaxPeers
Typed == QueueTyped /\ FlagsTyped /\ LinkTyped /\ SessionTyped /\ Places

\* The TCP server listens only while it runs; nobody is served while a connection is cleared away.
NobodyMeanwhile ==
  /\ link = "tcp" /\ listening => running
  /\ at["routine"] \in {"drop", "stop"} => peer = 0 /\ ~running
  /\ at["link"] \in {"drop", "replace", "open", "opened"} => peer = 0
  /\ at["link"] = "connect" => link = "tcp" \/ peer # 0

\* The generations that can still come without a new event: one for each clearing and each
\* start under way, one for the connection that is served.
Due ==
  (IF peer # 0 THEN 1 ELSE 0) + (IF at["routine"] = "drop" THEN 1 ELSE 0)
  + (IF at["link"] = "opened" THEN 2 ELSE IF at["link"] \in {"connect", "drop", "replace"} THEN 1 ELSE 0)
GenerationsLeft == session.generation + Due <= MaxGeneration

\* A node that is up is up with the connection served, or is about to be taken down; only a TCP
\* client that stop() took between accept() and its session leaves one behind.
SessionOfPeer ==
  /\ peer # 0 /\ session.node # "none" /\ at["link"] # "connect" => session.conn = peer
  /\ link # "tcp" /\ session.node # "none" =>
       (peer # 0 /\ at["link"] # "connect") \/ at["link"] \in {"drop", "replace"}

\* Frames of a connection that is over stay only until its clearing is done.
FramesOfPeer ==
  \/ \A i \in 1 .. Len(queue) : queue[i].conn \in {0, peer}
  \/ at["link"] \in {"drop", "replace"} \/ at["routine"] = "drop"

\* Telemetry enters only the lower part of the queue, and moves down from there.
TelemetryLow == \A i \in 1 .. Len(queue) : queue[i].kind = "telemetry" => i <= kTelemetryQueueCeiling

AskedBefore == asked # NoCommand => asked.generation <= session.generation

IInv ==
  /\ Typed /\ NobodyMeanwhile /\ GenerationsLeft /\ SessionOfPeer /\ FramesOfPeer /\ TelemetryLow
  /\ AskedBefore /\ GenerationNamesSession

-----------------------------------------------------------------------------
(* Types.                                                                   *)

LEMMA InitTyped == Init => Typed
<1> SUFFICES ASSUME Init PROVE Typed
  OBVIOUS
<1>1. QueueTyped
  BY DirectAssumption DEF Init, QueueTyped
<1>4. FlagsTyped
  BY Zenon DEF Init, FlagsTyped
<1>5. LinkTyped
  BY DirectAssumption DEF Init, LinkTyped
<1>6. SessionTyped
  BY DirectAssumption DEF Init, SessionTyped, NoCommand
<1>3. Places
  BY DEF Init, Places, Tasks
<1> QED BY <1>1, <1>3, <1>4, <1>5, <1>6 DEF Typed

\* What a step can do to the queue: empty it, take from its head, or add an admitted frame.
Taken(n) == n \in 1 .. Len(queue) /\ queue' = SubSeq(queue, n + 1, Len(queue)) /\ peer' = peer
Added(t) ==
  \E next \in {"idle", "drain"} : t \in Tasks /\ Queued(t, next) /\ peer' = peer
QueueMoves ==
  \/ queue' = queue
  \/ queue' = <<>>
  \/ \E n \in 1 .. Len(queue) : Taken(n)
  \/ \E t \in Tasks : Added(t)

LEMMA StepsMoveQueue == Typed /\ [Next]_vars => QueueMoves
<1> SUFFICES ASSUME Typed, [Next]_vars PROVE QueueMoves
  OBVIOUS
<1>1. CASE LinkTask
  BY <1>1 DEF LinkTask, TcpTaskEnd, onTcpConnect, onBleConnect, onSerialConnect, SerialOpened, SerialOpen,
              reset_send_queue, QueueMoves
<1>2. CASE Medium
  <2>1. CASE drain_tcp
    <3>1. Len(queue) \in Nat /\ queue # <<>> /\ queue \in Seq(Frame) /\ queue' = Tail(queue) /\ peer' = peer
      BY <2>1 DEF drain_tcp, Typed, QueueTyped
    <3>2. 1 \in 1 .. Len(queue) /\ Tail(queue) = SubSeq(queue, 2, Len(queue))
      BY <3>1
    <3> QED BY <3>1, <3>2 DEF QueueMoves, Taken
  <2>2. CASE BleNotifyTx \/ SerialTxComplete
    BY <2>2 DEF BleNotifyTx, SerialTxComplete, QueueMoves
  <2> QED BY <1>2, <2>1, <2>2 DEF Medium
<1>3. CASE Outside
  BY <1>3 DEF Outside, TcpAccept, TcpGone, ClosePending, on_sync, BleConnect, BleDisconnect, BleSubscribe,
              SerialOpen, SerialClose, onTcpFrame, onBleFrame, onSerialFrame, reset_send_queue, QueueMoves
<1>4. CASE TcpStart \/ BleStart \/ SerialStart \/ TcpStop \/ TcpStopped \/ SendTelemetry \/ ReplyCheck
           \/ ReplySend \/ UNCHANGED vars
  BY <1>4 DEF TcpStart, BleStart, SerialStart, TcpStop, TcpStopped, SendTelemetry, ReplyCheck, ReplySend, vars,
              reset_send_queue, QueueMoves
<1>5. ASSUME NEW t \in Tasks, Finish(t) PROVE QueueMoves
  <2>1. CASE TcpSend(t) \/ BleSend(t) \/ SerialSend(t)
    BY <2>1 DEF TcpSend, BleSend, SerialSend, Refused, QueueMoves, Added
  <2>2. CASE BleDrain(t) \/ BleNotify(t) \/ Dropped(t)
    BY <2>2 DEF BleDrain, BleNotify, Dropped, reset_send_queue, QueueMoves
  <2>3. CASE BleChunk(t) \/ SerialDrain(t)
    BY <2>3 DEF BleChunk, SerialDrain, QueueMoves, Taken
  <2> QED BY <1>5, <2>1, <2>2, <2>3 DEF Finish
<1> QED BY <1>1, <1>2, <1>3, <1>4, <1>5 DEF Next

LEMMA QueueStaysTyped ==
  ASSUME Typed, QueueMoves
  PROVE  QueueTyped'
<1>1. queue \in Seq(Frame) /\ Len(queue) <= kSendQueueDepth /\ Len(queue) \in Nat
      /\ kSendQueueDepth \in Nat
  BY DirectAssumption DEF Typed, QueueTyped
<1>2. CASE queue' = queue
  BY <1>1, <1>2 DEF QueueTyped
<1>5. CASE queue' = <<>>
  <2>1. << >> \in Seq(Frame) /\ Len(<< >>) = 0
    OBVIOUS
  <2> QED BY <1>1, <1>5, <2>1 DEF QueueTyped
<1>3. ASSUME NEW n \in 1 .. Len(queue), Taken(n) PROVE QueueTyped'
  <2>1. SubSeq(queue, n + 1, Len(queue)) \in Seq(Frame)
        /\ Len(SubSeq(queue, n + 1, Len(queue))) = Len(queue) - n
    BY <1>1
  <2> QED BY <1>1, <1>3, <2>1 DEF Taken, QueueTyped
<1>4. ASSUME NEW t \in Tasks, Added(t) PROVE QueueTyped'
  <2> DEFINE kind == IF t = "routine" THEN "telemetry" ELSE "normal"
  <2>1. queue' = Append(queue, [conn |-> peer, kind |-> kind]) /\ Len(queue) < kSendQueueDepth
    BY <1>4 DEF Added, Queued, admit
  <2>2. [conn |-> peer, kind |-> kind] \in Frame
    BY DEF Frame, Typed, LinkTyped
  <2> HIDE DEF kind
  <2> QED BY <1>1, <2>1, <2>2 DEF QueueTyped
<1> QED BY <1>2, <1>3, <1>4, <1>5 DEF QueueMoves

\* A frame from the peer: the session goes on, restarts or ends, a command is queued, and the task
\* goes on to answer, or closes the client.
Session(n, g, c) == [node |-> n, generation |-> g, conn |-> c]
FrameMoves ==
  /\ UNCHANGED <<link, running, listening, task, peers, waiting, usable, queue, latch, flight>>
  /\ at["link"] = "idle" /\ peer # 0
  /\ \/ /\ peer' = peer /\ asked' = asked /\ Sending("link")
        /\ \/ session' = session
           \/ session.node = "hello" /\ session' = Session("active", session.generation, session.conn)
           \/ Room /\ session' = Session("active", session.generation + 2, peer)
     \/ /\ peer' = peer /\ at' = at /\ session' = session /\ session.node = "active" /\ asked = NoCommand
        /\ asked' = [generation |-> session.generation, conn |-> peer]
     \/ /\ Room /\ session' = Session("none", session.generation + 2, 0) /\ asked' = asked
        /\ (peer' = peer /\ at' = at) \/ (link = "tcp" /\ CloseClient("link", "idle"))

LEMMA FramesMove ==
  ASSUME SessionTyped, onTcpFrame \/ onBleFrame \/ onSerialFrame
  PROVE  FrameMoves
<1>1. session = Session(session.node, session.generation, session.conn) /\ session.generation \in Nat
  BY DEF SessionTyped, Session
<1>2. /\ Restarted(TRUE) = Session("hello", session.generation + 2, peer)
      /\ Restarted(FALSE) = Session("none", session.generation + 2, 0)
  BY <1>1 DEF Restarted, Started, Ended, Session
<1>3. ASSUME Hello
      PROVE  /\ peer' = peer /\ asked' = asked /\ Sending("link")
             /\ \/ session.node = "hello" /\ session' = Session("active", session.generation, session.conn)
                \/ Room /\ session' = Session("active", session.generation + 2, peer)
  <2>1. CASE isStaleHello
    <3>1. session' = [Restarted(TRUE) EXCEPT !.node = "active"]
      BY <1>3, <2>1 DEF Hello
    <3>3. [Session("hello", session.generation + 2, peer) EXCEPT !.node = "active"]
            = Session("active", session.generation + 2, peer)
      BY DEF Session
    <3>2. session' = Session("active", session.generation + 2, peer)
      BY <3>1, <3>3, <1>2
    <3> QED BY <1>3, <3>2 DEF Hello
  <2>2. CASE ~isStaleHello
    <3>1. session' = [session EXCEPT !.node = "active"] /\ session.node = "hello"
      BY <1>3, <2>2 DEF Hello, isStaleHello
    <3>2. session' = Session("active", session.generation, session.conn)
      BY <3>1, <1>1 DEF Session
    <3> QED BY <1>3, <3>1, <3>2 DEF Hello
  <2> QED BY <2>1, <2>2
<1>4. ASSUME Request
      PROVE  \/ peer' = peer /\ session' = session /\ asked' = asked /\ Sending("link")
             \/ /\ peer' = peer /\ at' = at /\ session' = session /\ session.node = "active"
                /\ asked = NoCommand /\ asked' = [generation |-> session.generation, conn |-> peer]
  BY <1>4 DEF Request
<1>5. CASE onTcpFrame
  BY <1>2, <1>3, <1>4, <1>5, Zenon DEF onTcpFrame, TcpPass, FrameMoves
<1>6. CASE onBleFrame
  BY <1>2, <1>3, <1>4, <1>6, Zenon DEF onBleFrame, gatt_access_handler, BlePass, FrameMoves
<1>7. CASE onSerialFrame
  BY <1>2, <1>3, <1>4, <1>7, Zenon DEF onSerialFrame, handle_rx, SerialPass, FrameMoves
<1> QED BY <1>5, <1>6, <1>7

LEMMA LinkStaysTyped == Typed /\ [Next]_vars => LinkTyped'
<1> SUFFICES ASSUME Typed, [Next]_vars PROVE LinkTyped'
  OBVIOUS
<1> USE DirectAssumption DEF Typed, LinkTyped
<1>1. CASE LinkTask
  <2>1. CASE TcpTaskEnd
    BY <2>1 DEF TcpTaskEnd, CloseClient
  <2>5. CASE onTcpConnect
    <3>1. (peer' = peer \/ peer' = 0) /\ UNCHANGED <<link, peers, waiting>>
      BY <2>5, Zenon DEF onTcpConnect, CloseClient
    <3> QED BY <3>1
  <2>2. CASE onBleConnect \/ onSerialConnect
    BY <2>2 DEF onBleConnect, onSerialConnect
  <2>4. CASE SerialOpen
    BY <2>4 DEF SerialOpen
  <2>3. CASE SerialOpened
    BY <2>3 DEF SerialOpened, Places
  <2> QED BY <1>1, <2>1, <2>2, <2>3, <2>4, <2>5 DEF LinkTask
<1>2. CASE Medium
  BY <1>2 DEF Medium, drain_tcp, BleNotifyTx, SerialTxComplete
<1>3. CASE TcpAccept \/ TcpGone \/ ClosePending \/ on_sync
  BY <1>3 DEF TcpAccept, TcpGone, ClosePending, on_sync, CloseClient, start_advertising
<1>4. CASE BleConnect \/ BleDisconnect \/ BleSubscribe \/ SerialOpen \/ SerialClose
  BY <1>4 DEF BleConnect, BleDisconnect, BleSubscribe, SerialOpen, SerialClose, reset_send_queue
<1>5. CASE onTcpFrame \/ onBleFrame \/ onSerialFrame
  BY <1>5, FramesMove DEF FrameMoves, CloseClient
<1>6. CASE TcpStart \/ BleStart \/ SerialStart \/ TcpStop \/ TcpStopped \/ SendTelemetry \/ ReplyCheck
           \/ ReplySend \/ UNCHANGED vars
  BY <1>6 DEF TcpStart, BleStart, SerialStart, TcpStop, TcpStopped, SendTelemetry, ReplyCheck, ReplySend, vars,
              reset_send_queue, CloseClient
<1>7. ASSUME NEW t \in Tasks, Finish(t) PROVE LinkTyped'
  BY <1>7 DEF Finish, TcpSend, BleSend, SerialSend, BleDrain, BleChunk, BleNotify, SerialDrain, Dropped,
              reset_send_queue, start_advertising
<1> QED BY <1>1, <1>2, <1>3, <1>4, <1>5, <1>6, <1>7 DEF Next, Outside

\* A boot keeps its link.
LEMMA LinkIsFixed == [Next]_vars => link' = link
<1>1. CASE LinkTask \/ Medium
  BY <1>1 DEF LinkTask, TcpTaskEnd, onTcpConnect, onBleConnect, onSerialConnect, SerialOpened, SerialOpen,
              Medium, drain_tcp, BleNotifyTx, SerialTxComplete
<1>2. CASE Outside
  BY <1>2 DEF Outside, TcpAccept, TcpGone, ClosePending, on_sync, BleConnect, BleDisconnect, BleSubscribe,
              SerialOpen, SerialClose, onTcpFrame, onBleFrame, onSerialFrame
<1>3. CASE TcpStart \/ BleStart \/ SerialStart \/ TcpStop \/ TcpStopped \/ SendTelemetry \/ ReplyCheck
           \/ ReplySend \/ UNCHANGED vars
  BY <1>3 DEF TcpStart, BleStart, SerialStart, TcpStop, TcpStopped, SendTelemetry, ReplyCheck, ReplySend, vars
<1>4. CASE \E t \in Tasks : Finish(t)
  BY <1>4 DEF Finish, TcpSend, BleSend, SerialSend, BleDrain, BleChunk, BleNotify, SerialDrain, Dropped
<1> QED BY <1>1, <1>2, <1>3, <1>4 DEF Next

LEMMA FlagsStayTyped == Typed /\ [Next]_vars => FlagsTyped'
<1> SUFFICES ASSUME Typed, [Next]_vars PROVE FlagsTyped'
  OBVIOUS
<1> USE Zenon DEF Typed, FlagsTyped
<1>1. CASE LinkTask
  BY <1>1 DEF LinkTask, TcpTaskEnd, onTcpConnect, onBleConnect, onSerialConnect, SerialOpened, SerialOpen,
              CloseClient, reset_send_queue
<1>2. CASE Medium
  BY <1>2 DEF Medium, drain_tcp, BleNotifyTx, SerialTxComplete
<1>3. CASE TcpAccept \/ TcpGone \/ ClosePending \/ on_sync
  BY <1>3 DEF TcpAccept, TcpGone, ClosePending, on_sync, CloseClient, start_advertising
<1>4. CASE BleConnect \/ BleDisconnect \/ BleSubscribe \/ SerialOpen \/ SerialClose
  BY <1>4 DEF BleConnect, BleDisconnect, BleSubscribe, SerialOpen, SerialClose, reset_send_queue
<1>5. CASE onTcpFrame \/ onBleFrame \/ onSerialFrame
  BY <1>5, FramesMove DEF FrameMoves, CloseClient
<1>6. CASE TcpStart \/ BleStart \/ SerialStart \/ TcpStop \/ TcpStopped \/ SendTelemetry \/ ReplyCheck
           \/ ReplySend \/ UNCHANGED vars
  BY <1>6 DEF TcpStart, BleStart, SerialStart, TcpStop, TcpStopped, SendTelemetry, ReplyCheck, ReplySend, vars,
              reset_send_queue, CloseClient
<1>7. ASSUME NEW t \in Tasks, Finish(t) PROVE FlagsTyped'
  BY <1>7 DEF Finish, TcpSend, BleSend, SerialSend, BleDrain, BleChunk, BleNotify, SerialDrain, Dropped,
              reset_send_queue, start_advertising
<1> QED BY <1>1, <1>2, <1>3, <1>4, <1>5, <1>6, <1>7 DEF Next, Outside

LEMMA PlacesStay == Typed /\ [Next]_vars => Places'
<1> SUFFICES ASSUME Typed, [Next]_vars PROVE Places'
  OBVIOUS
<1> USE DEF Typed, Places, At, Tasks, Draining
<1>1. CASE LinkTask
  <2>1. CASE TcpTaskEnd
    <3>1. link = "tcp" /\ at["link"] = "idle" /\ peers' = peers /\ link' = link
      BY <2>1 DEF TcpTaskEnd, TcpPass
    <3>2. at' = at \/ at' = [at EXCEPT !["link"] = "drop"]
      BY <2>1 DEF TcpTaskEnd, CloseClient
    <3> QED
      BY <3>1, <3>2
  <2>2. CASE onTcpConnect
    <3>1. link = "tcp" /\ peers' = peers /\ link' = link
      BY <2>2 DEF onTcpConnect
    <3>2. at' = [at EXCEPT !["link"] = "idle"] \/ at' = [at EXCEPT !["link"] = "drop"]
      BY <2>2 DEF onTcpConnect, CloseClient
    <3> QED
      BY <3>1, <3>2
  <2>3. CASE onBleConnect
    BY <2>3 DEF onBleConnect
  <2>4. CASE onSerialConnect
    BY <2>4 DEF onSerialConnect
  <2>5. CASE SerialOpened
    BY <2>5 DEF SerialOpened
  <2>6. CASE at["link"] = "open" /\ SerialOpen
    BY <2>6 DEF SerialOpen
  <2> QED
    BY <1>1, <2>1, <2>2, <2>3, <2>4, <2>5, <2>6, Zenon DEF LinkTask
<1>2. CASE Medium
  BY <1>2 DEF Medium, drain_tcp, BleNotifyTx, SerialTxComplete
<1>3. CASE TcpAccept \/ TcpGone \/ ClosePending \/ on_sync
  BY <1>3 DEF TcpAccept, TcpGone, ClosePending, on_sync, CloseClient, TcpPass, BlePass
<1>4. CASE BleConnect \/ BleDisconnect \/ BleSubscribe \/ SerialOpen \/ SerialClose
  BY <1>4 DEF BleConnect, BleDisconnect, BleSubscribe, SerialOpen, SerialClose, SerialPass, BlePass
<1>5. CASE onTcpFrame \/ onBleFrame \/ onSerialFrame
  BY <1>5, FramesMove DEF FrameMoves, CloseClient, Sending
<1>6. CASE TcpStart \/ BleStart \/ SerialStart \/ TcpStop \/ TcpStopped \/ SendTelemetry \/ ReplyCheck
           \/ ReplySend \/ UNCHANGED vars
  BY <1>6 DEF TcpStart, BleStart, SerialStart, TcpStop, TcpStopped, SendTelemetry, ReplyCheck, ReplySend, vars,
              CloseClient, Sending
<1>7. ASSUME NEW t \in Tasks, Finish(t) PROVE Places'
  <2>1. CASE TcpSend(t) \/ BleSend(t) \/ SerialSend(t)
    BY <2>1 DEF TcpSend, BleSend, SerialSend, Queued, Refused
  <2>2. CASE BleDrain(t) \/ BleChunk(t) \/ BleNotify(t) \/ SerialDrain(t)
    BY <2>2 DEF BleDrain, BleChunk, BleNotify, SerialDrain
  <2>3. CASE Dropped(t)
    BY <2>3 DEF Dropped
  <2> QED BY <1>7, <2>1, <2>2, <2>3 DEF Finish
<1> QED BY <1>1, <1>2, <1>3, <1>4, <1>5, <1>6, <1>7 DEF Next, Outside

\* What the other steps do to the session: start one, end one, or leave it alone.
LEMMA SessionsMove ==
  ASSUME Typed, [Next]_vars, ~FrameMoves
  PROVE  \/ session' = session
         \/ /\ at["link"] = "connect" /\ at'["link"] \in {"idle", "drop"} /\ asked' = asked
            /\ \/ peer' = peer /\ at' = [at EXCEPT !["link"] = "idle"]
               \/ link = "tcp" /\ CloseClient("link", "idle")
            /\ \/ session' = Session("hello", session.generation + 1, peer)
                  /\ at'["link"] = "idle" /\ peer' = peer
               \/ session' = Session("none", session.generation + 1, 0)
         \/ /\ \E t \in Tasks : Dropped(t)
            /\ session' = Session("none", session.generation + 1, 0) /\ asked' = asked
<1> SUFFICES ASSUME session' # session
             PROVE  \/ /\ at["link"] = "connect" /\ at'["link"] \in {"idle", "drop"} /\ asked' = asked
                       /\ \/ peer' = peer /\ at' = [at EXCEPT !["link"] = "idle"]
                          \/ link = "tcp" /\ CloseClient("link", "idle")
                       /\ \/ session' = Session("hello", session.generation + 1, peer)
                             /\ at'["link"] = "idle" /\ peer' = peer
                          \/ session' = Session("none", session.generation + 1, 0)
                    \/ /\ \E t \in Tasks : Dropped(t)
                       /\ session' = Session("none", session.generation + 1, 0) /\ asked' = asked
  OBVIOUS
<1>1. \A c : /\ Started(session, c, TRUE) = Session("hello", session.generation + 1, c)
             /\ Started(session, c, FALSE) = Session("none", session.generation + 1, 0)
             /\ Ended(session) = Session("none", session.generation + 1, 0)
  BY DEF Started, Ended, Session
<1>2. CASE LinkTask
  <2>1. CASE TcpTaskEnd \/ SerialOpened \/ SerialOpen
    BY <2>1 DEF TcpTaskEnd, SerialOpened, SerialOpen
  <2>2. CASE onTcpConnect
    BY <1>1, <2>2 DEF onTcpConnect, CloseClient, At, Typed, Places, Tasks
  <2>3. CASE onBleConnect \/ onSerialConnect
    <3>1. PICK ok \in BOOLEAN : session' = Started(session, peer, ok)
      BY <2>3 DEF onBleConnect, onSerialConnect
    <3>2. \/ session' = Session("hello", session.generation + 1, peer)
          \/ session' = Session("none", session.generation + 1, 0)
      BY <1>1, <3>1
    <3> QED BY <3>2, <2>3 DEF onBleConnect, onSerialConnect, At, Typed, Places, Tasks
  <2> QED BY <1>2, <2>1, <2>2, <2>3 DEF LinkTask
<1>3. CASE Medium
  BY <1>3 DEF Medium, drain_tcp, BleNotifyTx, SerialTxComplete
<1>4. CASE Outside
  <2>1. ~(onTcpFrame \/ onBleFrame \/ onSerialFrame)
    BY FramesMove DEF Typed
  <2> QED BY <1>4, <2>1 DEF Outside, TcpAccept, TcpGone, ClosePending, on_sync, BleConnect, BleDisconnect,
             BleSubscribe, SerialOpen, SerialClose
<1>5. CASE TcpStart \/ BleStart \/ SerialStart \/ TcpStop \/ TcpStopped \/ SendTelemetry \/ ReplyCheck
           \/ ReplySend \/ UNCHANGED vars
  BY <1>5 DEF TcpStart, BleStart, SerialStart, TcpStop, TcpStopped, SendTelemetry, ReplyCheck, ReplySend, vars
<1>6. ASSUME NEW t \in Tasks, Finish(t)
      PROVE  Dropped(t) /\ session' = Session("none", session.generation + 1, 0) /\ asked' = asked
  <2>1. Dropped(t)
    BY <1>6 DEF Finish, TcpSend, BleSend, SerialSend, BleDrain, BleChunk, BleNotify, SerialDrain
  <2> QED BY <2>1, <1>1 DEF Dropped
<1> QED BY <1>2, <1>3, <1>4, <1>5, <1>6 DEF Next

-----------------------------------------------------------------------------
(* The connection served.                                                   *)

LEMMA NobodyStays == Typed /\ NobodyMeanwhile /\ [Next]_vars => NobodyMeanwhile'
<1> SUFFICES ASSUME Typed, NobodyMeanwhile, [Next]_vars PROVE NobodyMeanwhile'
  OBVIOUS
<1> USE DEF Typed, Places, LinkTyped, NobodyMeanwhile, At, Tasks, Draining
<1>1. CASE LinkTask
  <2>1. CASE TcpTaskEnd
    BY <2>1 DEF TcpTaskEnd, CloseClient, TcpPass
  <2>2. CASE onTcpConnect
    <3>1. /\ (peer' = peer /\ at' = [at EXCEPT !["link"] = "idle"]) \/ CloseClient("link", "idle")
          /\ UNCHANGED <<link, running, listening>>
      BY <2>2, Zenon DEF onTcpConnect
    <3> QED BY <3>1 DEF CloseClient
  <2>3. CASE onBleConnect \/ onSerialConnect
    BY <2>3 DEF onBleConnect, onSerialConnect
  <2>4. CASE SerialOpened \/ SerialOpen
    BY <2>4 DEF SerialOpened, SerialOpen
  <2> QED BY <1>1, <2>1, <2>2, <2>3, <2>4 DEF LinkTask
<1>2. CASE Medium
  BY <1>2 DEF Medium, drain_tcp, BleNotifyTx, SerialTxComplete
<1>3. CASE TcpAccept \/ TcpGone \/ ClosePending \/ on_sync
  BY <1>3 DEF TcpAccept, TcpGone, ClosePending, on_sync, CloseClient, TcpPass, BlePass
<1>4. CASE BleConnect \/ BleDisconnect \/ BleSubscribe \/ SerialOpen \/ SerialClose
  BY <1>4 DEF BleConnect, BleDisconnect, BleSubscribe, SerialOpen, SerialClose, SerialPass, BlePass
<1>5. CASE onTcpFrame \/ onBleFrame \/ onSerialFrame
  BY <1>5, FramesMove DEF FrameMoves, CloseClient, Sending
<1>6. CASE TcpStart \/ BleStart \/ SerialStart \/ TcpStop \/ TcpStopped \/ SendTelemetry \/ ReplyCheck
           \/ ReplySend \/ UNCHANGED vars
  BY <1>6 DEF TcpStart, BleStart, SerialStart, TcpStop, TcpStopped, SendTelemetry, ReplyCheck, ReplySend, vars,
              CloseClient, Sending, BlePass, SerialPass
<1>7. ASSUME NEW t \in Tasks, Finish(t) PROVE NobodyMeanwhile'
  <2>1. CASE TcpSend(t) \/ BleSend(t) \/ SerialSend(t)
    BY <2>1 DEF TcpSend, BleSend, SerialSend, Queued, Refused
  <2>2. CASE BleDrain(t) \/ BleChunk(t) \/ BleNotify(t) \/ SerialDrain(t)
    BY <2>2 DEF BleDrain, BleChunk, BleNotify, SerialDrain
  <2>3. CASE Dropped(t)
    BY <2>3 DEF Dropped
  <2> QED BY <1>7, <2>1, <2>2, <2>3 DEF Finish
<1> QED BY <1>1, <1>2, <1>3, <1>4, <1>5, <1>6, <1>7 DEF Next, Outside

\* A new connection is served only when nothing of the last one is left to clear.
LEMMA PeersCome ==
  ASSUME Typed, NobodyMeanwhile, [Next]_vars, peer' # peer, peer' # 0
  PROVE  /\ peer = 0 /\ at["routine"] \notin {"drop", "stop"} /\ at'["link"] = "connect"
         /\ \/ at["link"] = "idle" /\ link # "serial" /\ Room
            \/ at["link"] = "opened" /\ link = "serial"
         /\ at'["routine"] = at["routine"] /\ session' = session /\ asked' = asked /\ link' = link
<1> USE DEF Typed, Places, NobodyMeanwhile, At, Tasks
<1>1. CASE LinkTask
  <2>1. SerialOpened
    BY <1>1 DEF LinkTask, TcpTaskEnd, onTcpConnect, onBleConnect, onSerialConnect, SerialOpen, CloseClient
  <2> QED BY <2>1 DEF SerialOpened
<1>2. CASE Medium
  BY <1>2 DEF Medium, drain_tcp, BleNotifyTx, SerialTxComplete
<1>3. CASE TcpAccept
  BY <1>3 DEF TcpAccept, TcpPass
<1>4. CASE BleConnect
  BY <1>4 DEF BleConnect, BlePass
<1>5. CASE TcpGone \/ ClosePending \/ on_sync \/ BleDisconnect \/ BleSubscribe \/ SerialOpen \/ SerialClose
  BY <1>5 DEF TcpGone, ClosePending, on_sync, CloseClient, BleDisconnect, BleSubscribe, SerialOpen, SerialClose
<1>6. CASE onTcpFrame \/ onBleFrame \/ onSerialFrame
  BY <1>6, FramesMove DEF FrameMoves, CloseClient
<1>7. CASE TcpStart \/ BleStart \/ SerialStart \/ TcpStop \/ TcpStopped \/ SendTelemetry \/ ReplyCheck
           \/ ReplySend \/ UNCHANGED vars
  BY <1>7 DEF TcpStart, BleStart, SerialStart, TcpStop, TcpStopped, SendTelemetry, ReplyCheck, ReplySend, vars,
              CloseClient
<1>8. ASSUME NEW t \in Tasks, Finish(t) PROVE FALSE
  BY <1>8 DEF Finish, TcpSend, BleSend, SerialSend, BleDrain, BleChunk, BleNotify, SerialDrain, Dropped
<1> QED BY <1>1, <1>2, <1>3, <1>4, <1>5, <1>6, <1>7, <1>8 DEF Next, Outside

\* A step that starts and ends no session makes no more of them due, unless it left room for them.
LEMMA DueStays ==
  ASSUME Typed, NobodyMeanwhile, [Next]_vars, session' = session, ~FrameMoves
  PROVE  Due' <= Due \/ (Room /\ Due' <= 3)
<1> USE DEF Typed, Places, NobodyMeanwhile, At, Tasks, Draining
<1>0. Due \in 0 .. 4
  BY DEF Due
<1>8. /\ \A ok \in BOOLEAN : session' # Started(session, peer, ok)
      /\ session' # Ended(session)
  BY DEF Started, Ended, SessionTyped
<1>1. CASE LinkTask
  <2>1. CASE TcpTaskEnd
    <3>1. CASE peer = 0
      BY <2>1, <3>1 DEF TcpTaskEnd, TcpPass, Due
    <3>2. CASE peer # 0
      BY <2>1, <3>2 DEF TcpTaskEnd, CloseClient, TcpPass, Due
    <3> QED BY <3>1, <3>2
  <2>2. CASE onTcpConnect
    <3>1. \A ok \in BOOLEAN : session' # Started(session, peer, ok)
      BY <1>8
    <3>2. CloseClient("link", "idle") /\ at["link"] = "connect"
      BY <2>2, <3>1, Zenon DEF onTcpConnect
    <3> QED BY <3>2 DEF CloseClient, Due
  <2>3. CASE onBleConnect \/ onSerialConnect
    BY <2>3 DEF onBleConnect, onSerialConnect, Due
  <2>4. CASE SerialOpened \/ SerialOpen
    BY <2>4 DEF SerialOpened, SerialOpen, Due
  <2> QED BY <1>1, <2>1, <2>2, <2>3, <2>4 DEF LinkTask
<1>2. CASE Medium
  BY <1>2 DEF Medium, drain_tcp, BleNotifyTx, SerialTxComplete, Due
<1>3. CASE TcpAccept
  <2>1. CASE peer' # peer
    BY <1>3, <2>1 DEF TcpAccept, TcpPass, Due
  <2>2. CASE peer' = peer
    BY <1>3, <2>2 DEF TcpAccept, TcpPass, Due
  <2> QED BY <2>1, <2>2
<1>9. CASE TcpGone \/ ClosePending \/ on_sync
  BY <1>9 DEF TcpGone, ClosePending, on_sync, CloseClient, TcpPass, BlePass, Due
<1>4. CASE BleConnect \/ BleDisconnect \/ BleSubscribe \/ SerialOpen \/ SerialClose
  BY <1>4 DEF BleConnect, BleDisconnect, BleSubscribe, SerialOpen, SerialClose, SerialPass, BlePass, Due
<1>5. ~(onTcpFrame \/ onBleFrame \/ onSerialFrame)
  BY FramesMove
<1>6. CASE TcpStart \/ BleStart \/ SerialStart \/ TcpStop \/ TcpStopped \/ SendTelemetry \/ ReplyCheck
           \/ ReplySend \/ UNCHANGED vars
  BY <1>6 DEF TcpStart, BleStart, SerialStart, TcpStop, TcpStopped, SendTelemetry, ReplyCheck, ReplySend, vars,
              CloseClient, Sending, BlePass, SerialPass, Due
<1>7. ASSUME NEW t \in Tasks, Finish(t) PROVE Due' <= Due
  <2>1. CASE TcpSend(t) \/ BleSend(t) \/ SerialSend(t)
    BY <2>1 DEF TcpSend, BleSend, SerialSend, Queued, Refused, Due
  <2>2. CASE BleDrain(t) \/ BleChunk(t) \/ BleNotify(t) \/ SerialDrain(t)
    BY <2>2 DEF BleDrain, BleChunk, BleNotify, SerialDrain, Due
  <2>3. CASE Dropped(t)
    BY <1>8, <2>3 DEF Dropped
  <2> QED BY <1>7, <2>1, <2>2, <2>3 DEF Finish
<1> QED BY <1>1, <1>2, <1>3, <1>4, <1>5, <1>6, <1>7, <1>9 DEF Next, Outside

LEMMA GenerationsStay ==
  Typed /\ NobodyMeanwhile /\ GenerationsLeft /\ [Next]_vars => GenerationsLeft'
<1> SUFFICES ASSUME Typed, NobodyMeanwhile, GenerationsLeft, [Next]_vars PROVE GenerationsLeft'
  OBVIOUS
<1>1. session.generation \in Nat /\ MaxGeneration \in Nat
  BY DirectAssumption DEF Typed, SessionTyped
<1>2. Due \in 0 .. 4 /\ Due' \in 0 .. 4
  BY DEF Due
<1>3. CASE FrameMoves
  <2>1. peer # 0 /\ at["link"] = "idle" /\ at["routine"] # "drop"
    BY <1>3 DEF FrameMoves, NobodyMeanwhile
  <2>2. Due' = 1 /\ Due = 1
    BY <1>3, <2>1 DEF FrameMoves, Sending, CloseClient, At, Due, Typed, Places, Tasks
  <2>3. session'.generation = session.generation
        \/ (Room /\ session'.generation = session.generation + 2)
    BY <1>3 DEF FrameMoves, Session
  <2> QED BY <1>1, <2>2, <2>3 DEF GenerationsLeft, Room
<1>4. CASE ~FrameMoves /\ session' = session
  <2>1. Due' <= Due \/ (Room /\ Due' <= 3)
    BY <1>4, DueStays
  <2> QED BY <1>1, <1>2, <1>4, <2>1 DEF GenerationsLeft, Room
<1>5. CASE ~FrameMoves /\ session' # session
  <2>1. CASE \E t \in Tasks : Dropped(t)
    <3>1. PICK t \in Tasks : Dropped(t)
      BY <2>1
    <3>2. Due' = Due - 1
      <4>1. CASE t = "link"
        BY <3>1, <4>1 DEF Dropped, At, Due, Typed, Places, Tasks
      <4>2. CASE t = "routine"
        BY <3>1, <4>2 DEF Dropped, At, Due, Typed, Places, Tasks, Draining
      <4>3. t # "shell"
        BY <3>1 DEF Dropped, Typed, Places, Draining
      <4> QED BY <4>1, <4>2, <4>3 DEF Tasks
    <3>3. session'.generation = session.generation + 1
      BY <3>1 DEF Dropped, Ended
    <3> QED BY <1>1, <1>2, <3>2, <3>3 DEF GenerationsLeft
  <2>2. CASE ~(\E t \in Tasks : Dropped(t))
    <3>1. /\ at["link"] = "connect"
          /\ \/ peer' = peer /\ at' = [at EXCEPT !["link"] = "idle"]
             \/ CloseClient("link", "idle")
          /\ session'.generation = session.generation + 1
      BY <1>5, <2>2, SessionsMove DEF Session
    <3>2. Due' = Due - 1
      <4>1. CASE peer' = peer /\ at' = [at EXCEPT !["link"] = "idle"]
        BY <3>1, <4>1 DEF Due, Typed, Places, Tasks
      <4>2. CASE CloseClient("link", "idle")
        BY <3>1, <4>2 DEF CloseClient, At, Due, Typed, Places, Tasks
      <4> QED BY <3>1, <4>1, <4>2
    <3> QED BY <1>1, <1>2, <3>1, <3>2 DEF GenerationsLeft
  <2> QED BY <2>1, <2>2
<1> QED BY <1>3, <1>4, <1>5

\* Only a request from the peer, and the shell that takes it, change the command that waits.
LEMMA CommandsMove ==
  ASSUME Typed, [Next]_vars, ~FrameMoves
  PROVE  asked' = asked \/ (asked' = NoCommand /\ session' = session /\ peer' = peer)
<1>1. CASE LinkTask \/ Medium
  BY <1>1 DEF LinkTask, TcpTaskEnd, onTcpConnect, onBleConnect, onSerialConnect, SerialOpened, SerialOpen,
              Medium, drain_tcp, BleNotifyTx, SerialTxComplete
<1>2. CASE Outside
  <2>1. ~(onTcpFrame \/ onBleFrame \/ onSerialFrame)
    BY FramesMove DEF Typed
  <2> QED BY <1>2, <2>1 DEF Outside, TcpAccept, TcpGone, ClosePending, on_sync, BleConnect, BleDisconnect,
             BleSubscribe, SerialOpen, SerialClose
<1>3. CASE TcpStart \/ BleStart \/ SerialStart \/ TcpStop \/ TcpStopped \/ SendTelemetry \/ ReplyCheck
           \/ ReplySend \/ UNCHANGED vars
  BY <1>3 DEF TcpStart, BleStart, SerialStart, TcpStop, TcpStopped, SendTelemetry, ReplyCheck, ReplySend, vars
<1>4. ASSUME NEW t \in Tasks, Finish(t) PROVE asked' = asked
  BY <1>4 DEF Finish, TcpSend, BleSend, SerialSend, BleDrain, BleChunk, BleNotify, SerialDrain, Dropped
<1> QED BY <1>1, <1>2, <1>3, <1>4 DEF Next

LEMMA SessionStaysTyped ==
  Typed /\ GenerationsLeft /\ [Next]_vars => SessionTyped'
<1> SUFFICES ASSUME Typed, GenerationsLeft, [Next]_vars PROVE SessionTyped'
  OBVIOUS
<1>1. /\ session.node \in {"none", "hello", "active"} /\ session.generation \in Nat
      /\ session.conn \in 0 .. MaxPeers /\ peer \in 0 .. MaxPeers /\ 0 \in 0 .. MaxPeers
      /\ session.generation \in 0 .. MaxGeneration /\ 0 \in 0 .. MaxGeneration
  <2>1. Due \in 0 .. 4
    BY DEF Due
  <2> QED BY <2>1, DirectAssumption DEF Typed, SessionTyped, LinkTyped, GenerationsLeft
<1> DEFINE Sessions == [node : {"none", "hello", "active"}, generation : Nat, conn : 0 .. MaxPeers]
<1>2. \A n \in {"none", "hello", "active"}, g \in Nat, c \in 0 .. MaxPeers :
        Session(n, g, c) \in Sessions
  BY DEF Session
<1>3. NoCommand \in [generation : 0 .. MaxGeneration, conn : 0 .. MaxPeers]
  BY <1>1 DEF NoCommand
<1>4. CASE FrameMoves
  <2>1. session' = session \/ session' = Session("active", session.generation, session.conn)
        \/ session' = Session("active", session.generation + 2, peer)
        \/ session' = Session("none", session.generation + 2, 0)
    BY <1>4 DEF FrameMoves
  <2>2. asked' = asked \/ asked' = [generation |-> session.generation, conn |-> peer]
    BY <1>4 DEF FrameMoves
  <2>3. session.generation + 2 \in Nat
    BY <1>1
  <2>4. session' \in Sessions
    <3>1. /\ Session("active", session.generation, session.conn) \in Sessions
          /\ Session("active", session.generation + 2, peer) \in Sessions
          /\ Session("none", session.generation + 2, 0) \in Sessions
      BY <1>1, <1>2, <2>3
    <3> QED BY <2>1, <3>1 DEF Typed, SessionTyped
  <2>5. asked' \in [generation : 0 .. MaxGeneration, conn : 0 .. MaxPeers]
    BY <1>1, <2>2 DEF Typed, SessionTyped
  <2> QED BY <2>4, <2>5 DEF SessionTyped
<1>5. CASE ~FrameMoves
  <2>1. session' = session \/ session' = Session("hello", session.generation + 1, peer)
        \/ session' = Session("none", session.generation + 1, 0)
    BY <1>5, SessionsMove
  <2>2. asked' = asked \/ asked' = NoCommand
    BY <1>5, CommandsMove
  <2>3. session.generation + 1 \in Nat
    BY <1>1
  <2>4. session' \in Sessions
    <3>1. /\ Session("hello", session.generation + 1, peer) \in Sessions
          /\ Session("none", session.generation + 1, 0) \in Sessions
      BY <1>1, <1>2, <2>3
    <3> QED BY <2>1, <3>1 DEF Typed, SessionTyped
  <2>5. asked' \in [generation : 0 .. MaxGeneration, conn : 0 .. MaxPeers]
    BY <1>3, <2>2 DEF Typed, SessionTyped
  <2> QED BY <2>4, <2>5 DEF SessionTyped
<1> QED BY <1>4, <1>5

\* Whoever leaves is cleared away, and whoever comes is connected, by the task of the link.
LEMMA LinkPlaces ==
  ASSUME Typed, NobodyMeanwhile, [Next]_vars, session' = session, ~FrameMoves
  PROVE  /\ link' = link
         /\ at["link"] = "connect" /\ at'["link"] # "connect" => peer' = 0 \/ (link # "tcp" /\ peer' = peer)
         /\ at'["link"] = "connect" => at["link"] = "connect" \/ peer' # peer
         /\ at["link"] \in {"drop", "replace"} => at'["link"] = at["link"]
         /\ peer # 0 /\ peer' = 0 /\ link # "tcp" => at'["link"] \in {"drop", "replace"}
<1> USE DEF Typed, Places, NobodyMeanwhile, At, Tasks, Draining
<1>8. /\ \A ok \in BOOLEAN : session' # Started(session, peer, ok)
      /\ session' # Ended(session)
  BY DEF Started, Ended, SessionTyped
<1>1. CASE LinkTask
  <2>1. CASE TcpTaskEnd
    BY <2>1 DEF TcpTaskEnd, CloseClient, TcpPass
  <2>2. CASE onTcpConnect
    <3>1. \A ok \in BOOLEAN : session' # Started(session, peer, ok)
      BY <1>8
    <3>2. CloseClient("link", "idle") /\ at["link"] = "connect" /\ link = "tcp" /\ link' = link
      BY <2>2, <3>1, Zenon DEF onTcpConnect
    <3> QED BY <3>2 DEF CloseClient
  <2>3. CASE onBleConnect \/ onSerialConnect
    BY <2>3 DEF onBleConnect, onSerialConnect
  <2>4. CASE SerialOpened
    BY <2>4, DirectAssumption DEF SerialOpened, LinkTyped
  <2>5. CASE SerialOpen
    BY <2>5 DEF SerialOpen
  <2> QED BY <1>1, <2>1, <2>2, <2>3, <2>4, <2>5 DEF LinkTask
<1>2. CASE Medium
  BY <1>2 DEF Medium, drain_tcp, BleNotifyTx, SerialTxComplete, TcpPass, BlePass, SerialPass
<1>3. CASE TcpAccept
  BY <1>3 DEF TcpAccept, TcpPass, LinkTyped
<1>9. CASE TcpGone \/ ClosePending \/ on_sync
  BY <1>9 DEF TcpGone, ClosePending, on_sync, CloseClient, TcpPass, BlePass
<1>4. CASE BleConnect \/ BleDisconnect \/ BleSubscribe \/ SerialOpen \/ SerialClose
  BY <1>4 DEF BleConnect, BleDisconnect, BleSubscribe, SerialOpen, SerialClose, SerialPass, BlePass, LinkTyped
<1>5. ~(onTcpFrame \/ onBleFrame \/ onSerialFrame)
  BY FramesMove
<1>6. CASE TcpStart \/ BleStart \/ SerialStart \/ TcpStop \/ TcpStopped \/ SendTelemetry \/ ReplyCheck
           \/ ReplySend \/ UNCHANGED vars
  BY <1>6 DEF TcpStart, BleStart, SerialStart, TcpStop, TcpStopped, SendTelemetry, ReplyCheck, ReplySend, vars,
              CloseClient, Sending, BlePass, SerialPass
<1>7. ASSUME NEW t \in Tasks, Finish(t)
      PROVE  /\ link' = link /\ peer' = peer
             /\ at["link"] \in {"connect", "drop", "replace"} => at'["link"] = at["link"]
             /\ at'["link"] = "connect" => at["link"] = "connect"
  <2>1. CASE TcpSend(t) \/ BleSend(t) \/ SerialSend(t)
    BY <2>1 DEF TcpSend, BleSend, SerialSend, Queued, Refused
  <2>2. CASE BleDrain(t) \/ BleChunk(t) \/ BleNotify(t) \/ SerialDrain(t)
    BY <2>2 DEF BleDrain, BleChunk, BleNotify, SerialDrain
  <2>3. CASE Dropped(t)
    BY <1>8, <2>3 DEF Dropped
  <2> QED BY <1>7, <2>1, <2>2, <2>3 DEF Finish
<1>10. CASE \E t \in Tasks : Finish(t)
  BY <1>7, <1>10
<1> QED BY <1>1, <1>2, <1>3, <1>4, <1>5, <1>6, <1>9, <1>10 DEF Next, Outside

LEMMA SessionStaysOfPeer ==
  Typed /\ NobodyMeanwhile /\ SessionOfPeer /\ [Next]_vars => SessionOfPeer'
<1> SUFFICES ASSUME Typed, NobodyMeanwhile, SessionOfPeer, [Next]_vars PROVE SessionOfPeer'
  OBVIOUS
<1>1. CASE FrameMoves
  <2>1. /\ at'["link"] \in {"idle", "enqueue", "drop"}
        /\ at'["link"] = "drop" => session'.node = "none"
    BY <1>1 DEF FrameMoves, Sending, CloseClient, At, Typed, Places, Tasks, Session
  <2>2. CASE peer' = peer
    <3>1. \/ session' = session \/ session'.node = "none"
          \/ session.node = "hello" /\ session'.node # "none" /\ session'.conn = session.conn
          \/ session'.node # "none" /\ session'.conn = peer
      BY <1>1 DEF FrameMoves, Session
    <3> QED BY <1>1, <2>1, <2>2, <3>1 DEF FrameMoves, SessionOfPeer
  <2>3. CASE peer' # peer
    <3>1. session'.node = "none"
      BY <1>1, <2>3 DEF FrameMoves, Session
    <3> QED BY <3>1 DEF SessionOfPeer
  <2> QED BY <2>2, <2>3
<1>2. CASE ~FrameMoves /\ session' = session
  <2>1. peer' # peer /\ peer' # 0 => peer = 0 /\ at'["link"] = "connect" /\ at["link"] \in {"idle", "opened"}
    BY PeersCome
  <2> QED BY <1>2, <2>1, LinkPlaces DEF SessionOfPeer
<1>3. CASE ~FrameMoves /\ session' # session
  <2>1. CASE session'.node = "none"
    BY <2>1 DEF SessionOfPeer
  <2>2. CASE session'.node # "none"
    <3>1. /\ at["link"] = "connect" /\ at'["link"] = "idle" /\ peer' = peer
          /\ session' = Session("hello", session.generation + 1, peer)
      BY <1>3, <2>2, SessionsMove DEF Session
    <3>2. session'.conn = peer
      BY <3>1 DEF Session
    <3>3. link = "tcp" \/ peer # 0
      BY <3>1 DEF NobodyMeanwhile
    <3>4. link' = link
      BY LinkIsFixed
    <3> QED BY <3>1, <3>2, <3>3, <3>4 DEF SessionOfPeer
  <2> QED BY <2>1, <2>2
<1> QED BY <1>1, <1>2, <1>3

-----------------------------------------------------------------------------
(* The frames in the queue.                                                 *)

Clearing == at["link"] \in {"drop", "replace"} \/ at["routine"] = "drop"

\* Who closes the connection clears the queue before anything else.
LEMMA ClearingStays ==
  ASSUME Typed, NobodyMeanwhile, [Next]_vars, ~(\E t \in Tasks : Dropped(t))
  PROVE  /\ Clearing => Clearing'
         /\ peer # 0 /\ peer' = 0 => Clearing'
<1> USE DEF Typed, Places, LinkTyped, NobodyMeanwhile, At, Tasks, Draining, Clearing
<1>1. CASE LinkTask
  <2>1. CASE TcpTaskEnd
    BY <2>1 DEF TcpTaskEnd, CloseClient, TcpPass
  <2>2. CASE onTcpConnect
    <3>1. /\ (peer' = peer /\ at' = [at EXCEPT !["link"] = "idle"]) \/ CloseClient("link", "idle")
          /\ at["link"] = "connect"
      BY <2>2, Zenon DEF onTcpConnect
    <3> QED BY <3>1 DEF CloseClient
  <2>3. CASE onBleConnect \/ onSerialConnect
    BY <2>3 DEF onBleConnect, onSerialConnect
  <2>4. CASE SerialOpened \/ SerialOpen
    BY <2>4 DEF SerialOpened, SerialOpen
  <2> QED BY <1>1, <2>1, <2>2, <2>3, <2>4 DEF LinkTask
<1>2. CASE Medium
  BY <1>2 DEF Medium, drain_tcp, BleNotifyTx, SerialTxComplete, TcpPass, BlePass, SerialPass
<1>3. CASE TcpAccept
  BY <1>3 DEF TcpAccept, TcpPass
<1>9. CASE TcpGone \/ ClosePending \/ on_sync
  BY <1>9 DEF TcpGone, ClosePending, on_sync, CloseClient, TcpPass, BlePass
<1>4. CASE BleConnect \/ BleDisconnect \/ BleSubscribe \/ SerialOpen \/ SerialClose
  BY <1>4 DEF BleConnect, BleDisconnect, BleSubscribe, SerialOpen, SerialClose, SerialPass, BlePass
<1>5. CASE onTcpFrame \/ onBleFrame \/ onSerialFrame
  BY <1>5, FramesMove DEF FrameMoves, CloseClient, Sending
<1>6. CASE TcpStart \/ BleStart \/ SerialStart \/ TcpStop \/ TcpStopped \/ SendTelemetry \/ ReplyCheck
           \/ ReplySend \/ UNCHANGED vars
  BY <1>6 DEF TcpStart, BleStart, SerialStart, TcpStop, TcpStopped, SendTelemetry, ReplyCheck, ReplySend, vars,
              CloseClient, Sending, BlePass, SerialPass
<1>7. ASSUME NEW t \in Tasks, Finish(t) PROVE peer' = peer /\ (Clearing => Clearing')
  <2>1. CASE TcpSend(t) \/ BleSend(t) \/ SerialSend(t)
    BY <2>1 DEF TcpSend, BleSend, SerialSend, Queued, Refused
  <2>2. CASE BleDrain(t) \/ BleChunk(t) \/ BleNotify(t) \/ SerialDrain(t)
    BY <2>2 DEF BleDrain, BleChunk, BleNotify, SerialDrain
  <2> QED BY <1>7, <2>1, <2>2 DEF Finish
<1>10. CASE \E t \in Tasks : Finish(t)
  BY <1>7, <1>10
<1> QED BY <1>1, <1>2, <1>3, <1>4, <1>5, <1>6, <1>9, <1>10 DEF Next, Outside

\* Where the frames of the queue after a step come from.
LEMMA FramesCome ==
  ASSUME Typed, QueueMoves, NEW i \in 1 .. Len(queue')
  PROVE  \/ i \in 1 .. Len(queue) /\ queue'[i] = queue[i]
         \/ /\ peer' = peer
            /\ \E n \in 1 .. Len(queue) : i + n \in 1 .. Len(queue) /\ queue'[i] = queue[i + n]
         \/ /\ peer' = peer /\ i = Len(queue) + 1 /\ queue'[i].conn = peer
            /\ queue'[i].kind = "telemetry" => Len(queue) < kTelemetryQueueCeiling
<1>1. queue \in Seq(Frame) /\ Len(queue) \in Nat
  BY DEF Typed, QueueTyped
<1>2. CASE queue' = queue
  BY <1>2
<1>3. CASE queue' = <<>>
  BY <1>3
<1>4. ASSUME NEW n \in 1 .. Len(queue), Taken(n)
      PROVE  peer' = peer /\ i + n \in 1 .. Len(queue) /\ queue'[i] = queue[i + n]
  <2>1. Len(queue') = Len(queue) - n /\ \A j \in 1 .. Len(queue) - n : queue'[j] = queue[j + n]
    BY <1>1, <1>4 DEF Taken
  <2> QED BY <1>1, <1>4, <2>1 DEF Taken
<1>5. ASSUME NEW t \in Tasks, Added(t)
      PROVE  \/ i \in 1 .. Len(queue) /\ queue'[i] = queue[i]
             \/ /\ peer' = peer /\ i = Len(queue) + 1 /\ queue'[i].conn = peer
                /\ queue'[i].kind = "telemetry" => Len(queue) < kTelemetryQueueCeiling
  <2> DEFINE kind == IF t = "routine" THEN "telemetry" ELSE "normal"
             frame == [conn |-> peer, kind |-> kind]
  <2>1. queue' = Append(queue, frame) /\ peer' = peer
        /\ (kind = "telemetry" => Len(queue) < kTelemetryQueueCeiling)
    BY <1>5 DEF Added, Queued, admit
  <2>2. frame.conn = peer /\ frame.kind = kind
    OBVIOUS
  <2> HIDE DEF frame, kind
  <2>3. Len(queue') = Len(queue) + 1 /\ queue'[Len(queue) + 1] = frame
        /\ \A j \in 1 .. Len(queue) : queue'[j] = queue[j]
    BY <1>1, <2>1
  <2> QED BY <1>1, <2>1, <2>2, <2>3
<1> QED BY <1>2, <1>3, <1>4, <1>5 DEF QueueMoves

LEMMA FramesStayOfPeer ==
  Typed /\ NobodyMeanwhile /\ FramesOfPeer /\ [Next]_vars => FramesOfPeer'
<1> SUFFICES ASSUME Typed, NobodyMeanwhile, FramesOfPeer, [Next]_vars PROVE FramesOfPeer'
  OBVIOUS
<1>1. CASE \E t \in Tasks : Dropped(t)
  <2>1. queue' = <<>>
    BY <1>1 DEF Dropped, reset_send_queue
  <2>2. 1 .. Len(queue') = {}
    BY <2>1
  <2> QED BY <2>2 DEF FramesOfPeer
<1>2. CASE ~(\E t \in Tasks : Dropped(t))
  <2> SUFFICES ASSUME ~Clearing', NEW i \in 1 .. Len(queue')
               PROVE  queue'[i].conn \in {0, peer'}
    BY DEF FramesOfPeer, Clearing
  <2>1. ~Clearing /\ (peer' = peer \/ peer = 0)
    BY <1>2, ClearingStays, PeersCome
  <2>2. \A j \in 1 .. Len(queue) : queue[j].conn \in {0, peer}
    BY <2>1 DEF FramesOfPeer, Clearing
  <2>3. QueueMoves
    BY StepsMoveQueue
  <2> QED BY <2>1, <2>2, <2>3, FramesCome
<1> QED BY <1>1, <1>2

LEMMA TelemetryStaysLow ==
  Typed /\ TelemetryLow /\ [Next]_vars => TelemetryLow'
<1> SUFFICES ASSUME Typed, TelemetryLow, [Next]_vars, NEW i \in 1 .. Len(queue'),
                    queue'[i].kind = "telemetry"
             PROVE  i <= kTelemetryQueueCeiling
  BY DEF TelemetryLow
<1>1. QueueMoves /\ kTelemetryQueueCeiling \in Nat /\ Len(queue) \in Nat
  BY StepsMoveQueue, DirectAssumption DEF Typed, QueueTyped
<1>2. ASSUME NEW n \in 1 .. Len(queue), i + n \in 1 .. Len(queue), queue'[i] = queue[i + n]
      PROVE  i <= kTelemetryQueueCeiling
  <2>1. i + n <= kTelemetryQueueCeiling
    BY <1>2 DEF TelemetryLow
  <2> QED BY <1>1, <2>1
<1> QED BY <1>1, <1>2, FramesCome DEF TelemetryLow

-----------------------------------------------------------------------------
(* The command that waits for the shell.                                    *)

LEMMA CommandsStay ==
  Typed /\ NobodyMeanwhile /\ SessionOfPeer /\ AskedBefore /\ GenerationNamesSession /\ [Next]_vars
    => AskedBefore' /\ GenerationNamesSession'
<1> SUFFICES ASSUME Typed, NobodyMeanwhile, SessionOfPeer, AskedBefore, GenerationNamesSession, [Next]_vars
             PROVE  AskedBefore' /\ GenerationNamesSession'
  OBVIOUS
<1>1. session.generation \in Nat /\ asked.generation \in Nat
  BY DirectAssumption DEF Typed, SessionTyped
<1>2. CASE FrameMoves
  <2>1. CASE asked' = asked
    <3>1. \/ session' = session
          \/ session.node = "hello" /\ session'.generation = session.generation
          \/ session'.generation = session.generation + 2
      BY <1>2, <2>1 DEF FrameMoves, Session
    <3> QED BY <1>1, <2>1, <3>1 DEF AskedBefore, GenerationNamesSession
  <2>2. CASE asked' # asked
    <3>1. /\ session' = session /\ session.node = "active" /\ peer # 0 /\ at["link"] = "idle"
          /\ asked'.generation = session.generation /\ asked'.conn = peer
      BY <1>2, <2>2 DEF FrameMoves
    <3>2. session.conn = peer
      BY <3>1 DEF SessionOfPeer
    <3> QED BY <1>1, <3>1, <3>2 DEF AskedBefore, GenerationNamesSession
  <2> QED BY <2>1, <2>2
<1>3. CASE ~FrameMoves
  <2>1. asked' = asked \/ asked' = NoCommand
    BY <1>3, CommandsMove
  <2>2. session' = session \/ session'.generation = session.generation + 1
    BY <1>3, SessionsMove DEF Session
  <2> QED BY <1>1, <2>1, <2>2 DEF AskedBefore, GenerationNamesSession
<1> QED BY <1>2, <1>3

-----------------------------------------------------------------------------
(* The theorems.                                                            *)

LEMMA InitInductive == Init => IInv
<1> SUFFICES ASSUME Init PROVE IInv
  OBVIOUS
<1>1. 1 .. Len(queue) = {}
  BY DEF Init
<1>2. NobodyMeanwhile /\ SessionOfPeer /\ AskedBefore /\ GenerationNamesSession
  BY DEF Init, NobodyMeanwhile, SessionOfPeer, AskedBefore, GenerationNamesSession, Tasks
<1>3. GenerationsLeft
  BY DirectAssumption DEF Init, GenerationsLeft, Due, Tasks
<1>4. FramesOfPeer /\ TelemetryLow
  BY <1>1 DEF FramesOfPeer, TelemetryLow
<1> QED BY <1>2, <1>3, <1>4, InitTyped DEF IInv

\* IInv holds in every reachable state of a direct link, whatever its tasks, its peers and the
\* medium do, in any order.
THEOREM Inductive == Spec => []IInv
<1>1. IInv /\ [Next]_vars => IInv'
  <2> SUFFICES ASSUME IInv, [Next]_vars PROVE IInv'
    OBVIOUS
  <2>1. Typed'
    BY StepsMoveQueue, QueueStaysTyped, FlagsStayTyped, LinkStaysTyped, SessionStaysTyped, PlacesStay
       DEF IInv, Typed
  <2> QED BY <2>1, NobodyStays, GenerationsStay, SessionStaysOfPeer, FramesStayOfPeer, TelemetryStaysLow,
             CommandsStay DEF IInv
<1> QED BY <1>1, InitInductive, PTL DEF Spec

\* Connections and generations stay within their bounds, the queue within its depth, and the tasks
\* in the places they can be at.
THEOREM TypeCorrect == Spec => []TypeOK
<1>1. IInv => TypeOK
  <2> SUFFICES ASSUME IInv PROVE TypeOK
    OBVIOUS
  <2>1. queue \in BoundedSeq(Frame, kSendQueueDepth)
    <3>1. /\ queue \in [1 .. Len(queue) -> Frame] /\ Len(queue) \in 0 .. kSendQueueDepth
      BY DirectAssumption DEF IInv, Typed, QueueTyped
    <3> QED BY <3>1 DEF BoundedSeq, SeqOf
  <2>2. {running, listening, task, usable, latch, flight} \subseteq BOOLEAN
    BY Zenon DEF IInv, Typed, FlagsTyped
  <2>3. session.generation \in 0 .. MaxGeneration
    <3>1. Due \in 0 .. 4
      BY DEF Due
    <3> QED BY <3>1, DirectAssumption DEF IInv, GenerationsLeft, Typed, SessionTyped
  <2>4. session \in [node : {"none", "hello", "active"}, generation : 0 .. MaxGeneration,
                     conn : 0 .. MaxPeers]
    BY <2>3 DEF IInv, Typed, SessionTyped
  <2>5. link \in Links /\ {peers, peer, waiting} \subseteq 0 .. MaxPeers
    BY DEF IInv, Typed, LinkTyped
  <2>6. asked \in [generation : 0 .. MaxGeneration, conn : 0 .. MaxPeers]
    BY DEF IInv, Typed, SessionTyped
  <2>7. at \in [Tasks -> {"idle", "connect", "drop", "replace", "open", "opened", "stop", "enqueue", "drain",
                          "latched", "unlatch", "notify", "reply"}]
    BY DEF IInv, Typed, Places
  <2> QED BY <2>1, <2>2, <2>4, <2>5, <2>6, <2>7 DEF TypeOK
<1> QED BY <1>1, Inductive, PTL

\* A frame admitted for one connection is never owed to the next, whichever task closed it and
\* whatever the others were sending (close_client, reset_send_queue).
THEOREM NoLeftOvers == Spec => []QueueIsOfThisPeer
<1>1. IInv => QueueIsOfThisPeer
  <2> SUFFICES ASSUME IInv, peer # 0, NEW i \in DOMAIN queue PROVE queue[i].conn \in {0, peer}
    BY DEF QueueIsOfThisPeer
  <2>1. DOMAIN queue = 1 .. Len(queue)
    BY DEF IInv, Typed, QueueTyped
  <2> QED BY <2>1 DEF IInv, FramesOfPeer, NobodyMeanwhile
<1> QED BY <1>1, Inductive, PTL

\* A command whose generation still matches was asked in the session that is up, by the peer it is
\* up with (runShell, startXSession, onXDisconnect).
THEOREM GenerationsNameSessions == Spec => []GenerationNamesSession
<1>1. IInv => GenerationNamesSession
  BY DEF IInv
<1> QED BY <1>1, Inductive, PTL

\* A full queue holds at least the reserved share of frames that are not telemetry, however the
\* three producers interleave (TcpSendAdmission.h).
THEOREM TelemetryLeavesRoom == Spec => []ReserveIsKept
<1>1. IInv => ReserveIsKept
  <2> SUFFICES ASSUME IInv, Len(queue) = kSendQueueDepth
               PROVE  Cardinality({i \in DOMAIN queue : queue[i].kind = "normal"})
                        >= kSendQueueDepth - kTelemetryQueueCeiling
    BY DEF ReserveIsKept
  <2> DEFINE N == {i \in DOMAIN queue : queue[i].kind = "normal"}
             T == kTelemetryQueueCeiling + 1 .. kSendQueueDepth
  <2>1. /\ DOMAIN queue = 1 .. kSendQueueDepth /\ kSendQueueDepth \in Nat
        /\ kTelemetryQueueCeiling \in Nat /\ kTelemetryQueueCeiling <= kSendQueueDepth
    BY DirectAssumption DEF IInv, Typed, QueueTyped
  <2>2. \A i \in 1 .. kSendQueueDepth : queue[i].kind \in {"normal", "telemetry"}
    <3>1. \A i \in 1 .. kSendQueueDepth : queue[i] \in Frame
      BY DEF IInv, Typed, QueueTyped
    <3> QED BY <3>1 DEF Frame
  <2>3. T \subseteq N
    BY <2>1, <2>2 DEF IInv, TelemetryLow
  <2>4. IsFiniteSet(DOMAIN queue) /\ N \subseteq DOMAIN queue
    BY <2>1, FS_Interval
  <2>5. IsFiniteSet(N) /\ Cardinality(T) = kSendQueueDepth - kTelemetryQueueCeiling
    <3>1. kSendQueueDepth \in Int /\ kTelemetryQueueCeiling + 1 \in Int
      BY <2>1
    <3>2. Cardinality(T) = IF kTelemetryQueueCeiling + 1 > kSendQueueDepth THEN 0
                           ELSE kSendQueueDepth - (kTelemetryQueueCeiling + 1) + 1
      BY <3>1, FS_Interval
    <3> QED BY <2>1, <2>4, <3>2, FS_Subset
  <2>6. Cardinality(T) <= Cardinality(N)
    BY <2>3, <2>5, FS_Subset
  <2>7. Cardinality(N) \in Nat
    BY <2>5, FS_CardinalityType
  <2> QED BY <2>1, <2>5, <2>6, <2>7
<1> QED BY <1>1, Inductive, PTL

=============================================================================
