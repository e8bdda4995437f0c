----------------------------- MODULE DirectLink -----------------------------
(***************************************************************************)
(* The direct links: lib/TcpBtpServer, lib/BleBtpServer and                *)
(* lib/UsbSerialBtpServer with the session ROBOT keeps on them.  A boot    *)
(* uses one.  Three tasks meet: the link's own (the TCP server's task, the *)
(* NimBLE host, TinyUSB), routine, which sends telemetry and starts and    *)
(* stops the TCP server, and the shell, which answers commands.  A frame   *)
(* is its connection and its priority; bytes, fragments and seals are left *)
(* out, so a frame leaves whole.                                           *)
(***************************************************************************)
EXTENDS Integers, Sequences, FiniteSets, SequencesExt

CONSTANTS
  Links,                  \* out of tcp, ble and serial
  kSendQueueDepth,
  kTelemetryQueueCeiling,
  MaxPeers,               \* bound: connections made in one behaviour
  MaxGeneration           \* bound: sessions started and ended

ASSUME DirectAssumption ==
  /\ Links \subseteq {"tcp", "ble", "serial"}
  /\ kSendQueueDepth \in Nat \ {0} /\ kTelemetryQueueCeiling \in 0 .. kSendQueueDepth
  /\ MaxPeers \in Nat /\ MaxGeneration \in Nat

Tasks == {"link", "routine", "shell"}

VARIABLES
  link,     \* the transport of this boot
  running,  \* running_
  listening, \* TCP: listen_fd_; BLE: advertising
  task,     \* the TCP server's task exists
  peers,    \* how many connections were made
  peer,     \* client_fd_, conn_handle_ or connected_: the connection served, or 0
  waiting,  \* pending_fd_: a second TCP connection that has not said HELLO, or 0
  usable,   \* BLE: the central has subscribed to notifications
  queue,    \* send_queue_
  latch,    \* BLE: notify_in_flight_
  flight,   \* BLE: a notification is in the controller; serial: the CDC FIFO is occupied
  session,  \* the node (none, hello or active), its generation, the connection it is for
  asked,    \* a command in receivedDataQueue: its generation (or 0) and its connection
  at        \* where each task is

vars == <<link, running, listening, task, peers, peer, waiting, usable, queue, latch, flight, session, asked, at>>

Frame == [conn : 0 .. MaxPeers, kind : {"normal", "telemetry"}]

\* TcpSendAdmission.h: the top of the queue is kept for frames that are not telemetry.
admit_NoCeiling(kind, count) == count < kSendQueueDepth
admit_OneMore(kind, count) ==
  count <= kSendQueueDepth /\ (kind = "telemetry" => count < kTelemetryQueueCeiling)
admit(kind, count) ==
  count < kSendQueueDepth /\ (kind = "telemetry" => count < kTelemetryQueueCeiling)

has_client == peer # 0 /\ usable

At(t, place) == at' = [at EXCEPT ![t] = place]

\* startXSession(): a new generation and, unless its node cannot begin, a new node.
Started(s, c, ok) == [node |-> IF ok THEN "hello" ELSE "none", generation |-> s.generation + 1,
                      conn |-> IF ok THEN c ELSE 0]
\* onXDisconnect(): a new generation first, so that no reply still finds its own, then no node.
Ended_SameGeneration(s) == [node |-> "none", generation |-> s.generation, conn |-> 0]
Ended(s) == [node |-> "none", generation |-> s.generation + 1, conn |-> 0]

NoCommand == [generation |-> 0, conn |-> 0]

Init ==
  /\ link \in Links
  /\ running = FALSE /\ listening = FALSE /\ task = FALSE
  /\ peers = 0 /\ peer = 0 /\ waiting = 0 /\ usable = (link # "ble")
  /\ queue = <<>> /\ latch = FALSE /\ flight = FALSE
  /\ session = [node |-> "none", generation |-> 0, conn |-> 0]
  /\ asked = NoCommand
  /\ at = [t \in Tasks |-> "idle"]

Room == session.generation + 3 <= MaxGeneration

-----------------------------------------------------------------------------
(* lib/TcpBtpServer.                                                        *)

\* updateTcpServerLifecycle(): Wi-Fi serves, start() may fail and is tried again next pass.
TcpStart ==
  /\ link = "tcp" /\ ~running /\ ~task /\ at["routine"] = "idle"
  /\ running' = TRUE /\ listening' = TRUE /\ task' = TRUE /\ queue' = <<>>
  /\ UNCHANGED <<link, peers, peer, waiting, usable, latch, flight, session, asked, at>>

\* close_client() takes the connection first; whoever took it clears the queue and the session.
CloseClient(t, next) ==
  /\ peer' = 0 /\ At(t, IF peer # 0 THEN "drop" ELSE next)

TcpStop ==
  /\ link = "tcp" /\ running /\ at["routine"] = "idle"
  /\ running' = FALSE /\ listening' = FALSE /\ CloseClient("routine", "stop")
  /\ UNCHANGED <<link, task, peers, waiting, usable, queue, latch, flight, session, asked>>

reset_send_queue_Nothing == UNCHANGED <<queue, latch>>
reset_send_queue == queue' = <<>> /\ latch' = FALSE

\* BLE: any of its calls may fail, and then nobody can connect.
start_advertising == listening' \in BOOLEAN

Dropped(t) ==
  /\ at[t] \in {"drop", "replace"}
  /\ reset_send_queue /\ flight' = FALSE
  /\ session' = Ended(session)
  /\ IF link = "ble" THEN start_advertising ELSE UNCHANGED listening
  /\ At(t, IF t = "routine" THEN "stop" ELSE IF at[t] = "replace" THEN "open" ELSE "idle")
  /\ UNCHANGED <<link, running, task, peers, peer, waiting, usable, asked>>

\* stop() returns when the task has gone.
TcpStopped ==
  /\ at["routine"] = "stop"
  /\ waiting' = 0
  /\ IF task THEN UNCHANGED <<queue, at>> ELSE queue' = <<>> /\ At("routine", "idle")
  /\ UNCHANGED <<link, running, listening, task, peers, peer, usable, latch, flight, session, asked>>

TcpPass == link = "tcp" /\ task /\ at["link"] = "idle"

\* The first connection is served, the second waits to be told BUSY, a third is closed.  stop()
\* closed the listener before it took the client.
TcpAccept ==
  /\ TcpPass /\ listening /\ peers < MaxPeers /\ Room
  /\ peers' = peers + 1
  /\ IF peer = 0 THEN peer' = peers' /\ At("link", "connect") /\ UNCHANGED waiting
                 ELSE waiting' = (IF waiting = 0 THEN peers' ELSE waiting) /\ UNCHANGED <<peer, at>>
  /\ UNCHANGED <<link, running, listening, task, usable, queue, latch, flight, session, asked>>

onTcpConnect ==
  /\ link = "tcp" /\ at["link"] = "connect"
  /\ \/ session' = Started(session, peer, TRUE) /\ At("link", "idle") /\ UNCHANGED peer
     \/ session' = Started(session, peer, FALSE) /\ CloseClient("link", "idle")
     \/ UNCHANGED session /\ CloseClient("link", "idle")
  /\ UNCHANGED <<link, running, listening, task, peers, waiting, usable, queue, latch, flight, asked>>

\* The socket closes, or a read or a write fails.
TcpGone ==
  /\ TcpPass /\ peer # 0 /\ CloseClient("link", "idle")
  /\ UNCHANGED <<link, running, listening, task, peers, waiting, usable, queue, latch, flight, session, asked>>

drain_tcp ==
  /\ TcpPass /\ peer # 0 /\ queue # <<>>
  /\ queue' = Tail(queue)
  /\ UNCHANGED <<link, running, listening, task, peers, peer, waiting, usable, latch, flight, session, asked, at>>

\* The waiting connection says HELLO and is answered BUSY, leaves, or is mute until its deadline.
ClosePending ==
  /\ TcpPass /\ waiting # 0 /\ waiting' = 0
  /\ UNCHANGED <<link, running, listening, task, peers, peer, usable, queue, latch, flight, session, asked, at>>

TcpTaskEnd ==
  /\ TcpPass /\ ~running
  /\ IF peer # 0 THEN CloseClient("link", "idle") /\ UNCHANGED <<waiting, task>>
                 ELSE waiting' = 0 /\ task' = FALSE /\ UNCHANGED <<peer, at>>
  /\ UNCHANGED <<link, running, listening, peers, usable, queue, latch, flight, session, asked>>

-----------------------------------------------------------------------------
(* lib/BleBtpServer: every event below runs on the NimBLE host's task.      *)

BlePass == link = "ble" /\ at["link"] = "idle"

BleStart ==
  /\ BlePass /\ ~running
  /\ running' = TRUE /\ reset_send_queue
  /\ UNCHANGED <<link, listening, task, peers, peer, waiting, usable, flight, session, asked, at>>

\* The host has synced, or an attempt to connect has failed.
on_sync ==
  /\ BlePass /\ running /\ peer = 0 /\ start_advertising
  /\ UNCHANGED <<link, running, task, peers, peer, waiting, usable, queue, latch, flight, session, asked, at>>

\* Advertising stops with the connection: nobody else can connect until it resumes.
BleConnect ==
  /\ BlePass /\ listening /\ listening' = FALSE /\ peer = 0 /\ peers < MaxPeers /\ Room
  /\ peers' = peers + 1 /\ peer' = peers' /\ usable' = FALSE /\ At("link", "connect")
  /\ UNCHANGED <<link, running, task, waiting, queue, latch, flight, session, asked>>

onBleConnect ==
  /\ link = "ble" /\ at["link"] = "connect"
  /\ reset_send_queue
  /\ UNCHANGED session \/ \E ok \in BOOLEAN : session' = Started(session, peer, ok)
  /\ At("link", "idle")
  /\ UNCHANGED <<link, running, listening, task, peers, peer, waiting, usable, flight, asked>>

BleDisconnect ==
  /\ BlePass /\ peer # 0
  /\ peer' = 0 /\ usable' = FALSE /\ At("link", "drop")
  /\ UNCHANGED <<link, running, listening, task, peers, waiting, queue, latch, flight, session, asked>>

BleSubscribe ==
  /\ BlePass /\ peer # 0 /\ usable' = ~usable
  /\ UNCHANGED <<link, running, listening, task, peers, peer, waiting, queue, latch, flight, session, asked, at>>

\* drain_send_queue(): one notification at a time, assembled under the mutex.
BleDrain(t) ==
  /\ link = "ble" /\ at[t] = "drain"
  /\ IF has_client /\ ~latch THEN latch' = TRUE /\ At(t, "latched")
                             ELSE At(t, "idle") /\ UNCHANGED latch
  /\ UNCHANGED <<link, running, listening, task, peers, peer, waiting, usable, queue, flight, session, asked>>

BleChunk(t) ==
  /\ at[t] = "latched"
  /\ \/ queue = <<>> /\ At(t, "unlatch") /\ UNCHANGED queue
     \/ \E n \in 1 .. Len(queue) : queue' = SubSeq(queue, n + 1, Len(queue)) /\ At(t, "notify")
  /\ UNCHANGED <<link, running, listening, task, peers, peer, waiting, usable, latch, flight, session, asked>>

\* The notification is taken by the stack, or refused with all it carried.
BleNotify(t) ==
  /\ at[t] \in {"notify", "unlatch"}
  /\ \/ at[t] = "notify" /\ peer # 0 /\ flight' = TRUE /\ UNCHANGED latch
     \/ latch' = FALSE /\ UNCHANGED flight
  /\ At(t, "idle")
  /\ UNCHANGED <<link, running, listening, task, peers, peer, waiting, usable, queue, session, asked>>

BleNotifyTx ==
  /\ BlePass /\ flight
  /\ flight' = FALSE /\ latch' = FALSE /\ At("link", "drain")
  /\ UNCHANGED <<link, running, listening, task, peers, peer, waiting, usable, queue, session, asked>>

-----------------------------------------------------------------------------
(* lib/UsbSerialBtpServer: the events run on the TinyUSB task.              *)

SerialPass == link = "serial" /\ at["link"] = "idle"

SerialStart ==
  /\ SerialPass /\ ~running /\ running' = TRUE
  /\ UNCHANGED <<link, listening, task, peers, peer, waiting, usable, queue, latch, flight, session, asked, at>>

\* DTR rises, or bytes come without it.  The queue is cleared before the port counts as open: a
\* sender that saw the last host can still slip a frame in between.
SerialOpen ==
  /\ link = "serial" /\ running /\ at["link"] \in {"idle", "open"} /\ peer = 0 /\ peers < MaxPeers /\ Room
  /\ reset_send_queue /\ At("link", "opened")
  /\ UNCHANGED <<link, running, listening, task, peers, peer, waiting, usable, flight, session, asked>>

SerialOpened ==
  /\ at["link"] = "opened"
  /\ peers' = peers + 1 /\ peer' = peers' /\ At("link", "connect")
  /\ UNCHANGED <<link, running, listening, task, waiting, usable, queue, latch, flight, session, asked>>

\* DTR falls, or rises again: a host that opens the port replaces the one that never left.
SerialClose ==
  /\ SerialPass /\ peer # 0
  /\ peer' = 0
  /\ At("link", "drop") \/ (peers < MaxPeers /\ Room /\ At("link", "replace"))
  /\ UNCHANGED <<link, running, listening, task, peers, waiting, usable, queue, latch, flight, session, asked>>

onSerialConnect ==
  /\ link = "serial" /\ at["link"] = "connect"
  /\ UNCHANGED session \/ \E ok \in BOOLEAN : session' = Started(session, peer, ok)
  /\ At("link", "idle")
  /\ UNCHANGED <<link, running, listening, task, peers, peer, waiting, usable, queue, latch, flight, asked>>

\* Under the mutex from the first frame to the last that fits the CDC FIFO.
SerialDrain(t) ==
  /\ link = "serial" /\ at[t] = "drain"
  /\ At(t, "idle")
  /\ \/ peer # 0 /\ queue # <<>> /\ ~flight
        /\ \E n \in 1 .. Len(queue) : queue' = SubSeq(queue, n + 1, Len(queue))
        /\ flight' = TRUE
     \/ (peer = 0 \/ queue = <<>> \/ flight) /\ UNCHANGED <<queue, flight>>
  /\ UNCHANGED <<link, running, listening, task, peers, peer, waiting, usable, latch, session, asked>>

SerialTxComplete_NoDrain ==
  /\ SerialPass /\ flight /\ flight' = FALSE
  /\ UNCHANGED <<link, running, listening, task, peers, peer, waiting, usable, queue, latch, session, asked, at>>
SerialTxComplete ==
  /\ SerialPass /\ flight
  /\ flight' = FALSE /\ At("link", "drain")
  /\ UNCHANGED <<link, running, listening, task, peers, peer, waiting, usable, queue, latch, session, asked>>

-----------------------------------------------------------------------------
(* The session, and the three producers of frames.                          *)

Sending(t) == At(t, IF has_client THEN "enqueue" ELSE "idle")

\* A HELLO that nobody waits for is a new client on a live link, and restarts the session.
isStaleHello == session.node # "hello"
Restarted(ok) == Started(Ended(session), peer, ok)

Hello ==
  /\ Room
  /\ session' = [IF isStaleHello THEN Restarted(TRUE) ELSE session EXCEPT !.node = "active"]
  /\ Sending("link")
  /\ UNCHANGED <<peer, asked>>

\* A command is queued for the shell with the generation, or answered at once, as the requests
\* the node serves itself are.
Request ==
  /\ session.node = "active"
  /\ \/ asked = NoCommand /\ asked' = [generation |-> session.generation, conn |-> peer] /\ UNCHANGED at
     \/ has_client /\ Sending("link") /\ UNCHANGED asked
  /\ UNCHANGED <<session, peer>>

\* The new session's node cannot begin: TCP closes the client, BLE asks the stack to, serial
\* listens on, the only link that does without a node.
onTcpFrame ==
  /\ TcpPass /\ peer # 0 /\ session.node # "none"
  /\ Hello \/ Request \/ (/\ Room /\ isStaleHello /\ session' = Restarted(FALSE)
                           /\ CloseClient("link", "idle") /\ UNCHANGED asked)
  /\ UNCHANGED <<link, running, listening, task, peers, waiting, usable, queue, latch, flight>>

gatt_access_handler == BlePass /\ peer # 0
onBleFrame ==
  /\ gatt_access_handler /\ session.node # "none"
  /\ Hello \/ Request \/ (Room /\ isStaleHello /\ session' = Restarted(FALSE) /\ UNCHANGED <<peer, asked, at>>)
  /\ UNCHANGED <<link, running, listening, task, peers, waiting, usable, queue, latch, flight>>

handle_rx == SerialPass /\ peer # 0
onSerialFrame ==
  /\ handle_rx
  /\ Hello \/ Request \/ (Room /\ isStaleHello /\ session' = Restarted(FALSE) /\ UNCHANGED <<peer, asked, at>>)
  /\ UNCHANGED <<link, running, listening, task, peers, waiting, usable, queue, latch, flight>>

\* TelemetryPublisher::flush() in the routine task.
SendTelemetry ==
  /\ at["routine"] = "idle" /\ session.node # "none" /\ has_client /\ Sending("routine")
  /\ UNCHANGED <<link, running, listening, task, peers, peer, waiting, usable, queue, latch, flight, session, asked>>

\* runShell(): the result of a command whose session has gone is dropped.
ReplyCheck ==
  /\ at["shell"] = "idle" /\ asked # NoCommand
  /\ At("shell", IF asked.generation = session.generation THEN "reply" ELSE "idle")
  /\ asked' = NoCommand
  /\ UNCHANGED <<link, running, listening, task, peers, peer, waiting, usable, queue, latch, flight, session>>

ReplySend ==
  /\ at["shell"] = "reply" /\ Sending("shell")
  /\ UNCHANGED <<link, running, listening, task, peers, peer, waiting, usable, queue, latch, flight, session, asked>>

\* send(), under the mutex.  Only TCP tests its client there.
Queued(t, next) ==
  LET kind == IF t = "routine" THEN "telemetry" ELSE "normal"
  IN  /\ admit(kind, Len(queue))
      /\ queue' = Append(queue, [conn |-> peer, kind |-> kind]) /\ At(t, next)
Refused(t) == UNCHANGED queue /\ At(t, "idle")

TcpSend(t) ==
  /\ link = "tcp" /\ at[t] = "enqueue"
  /\ (peer # 0 /\ Queued(t, "idle")) \/ Refused(t)
  /\ UNCHANGED <<link, running, listening, task, peers, peer, waiting, usable, latch, flight, session, asked>>

BleSend(t) ==
  /\ link = "ble" /\ at[t] = "enqueue" /\ (Queued(t, "drain") \/ Refused(t))
  /\ UNCHANGED <<link, running, listening, task, peers, peer, waiting, usable, latch, flight, session, asked>>

SerialSend(t) ==
  /\ link = "serial" /\ at[t] = "enqueue" /\ (Queued(t, "drain") \/ Refused(t))
  /\ UNCHANGED <<link, running, listening, task, peers, peer, waiting, usable, latch, flight, session, asked>>

-----------------------------------------------------------------------------
Finish(t) == TcpSend(t) \/ BleSend(t) \/ SerialSend(t) \/ BleDrain(t) \/ BleChunk(t) \/ BleNotify(t) \/ SerialDrain(t) \/ Dropped(t)
LinkTask  == TcpTaskEnd \/ onTcpConnect \/ onBleConnect \/ onSerialConnect
             \/ SerialOpened \/ (at["link"] = "open" /\ SerialOpen)
Medium    == drain_tcp \/ BleNotifyTx \/ SerialTxComplete
Outside   == TcpAccept \/ TcpGone \/ ClosePending \/ on_sync \/ BleConnect \/ BleDisconnect \/ BleSubscribe
             \/ SerialOpen \/ SerialClose \/ onTcpFrame \/ onBleFrame \/ onSerialFrame

Next == \/ LinkTask \/ Medium \/ Outside
        \/ TcpStart \/ BleStart \/ SerialStart \/ TcpStop \/ TcpStopped
        \/ SendTelemetry \/ ReplyCheck \/ ReplySend
        \/ \E t \in Tasks : Finish(t)

Spec == Init /\ [][Next]_vars

\* The tasks go on with what they began; the medium takes what it is given, or the peer goes.
\* Strong fairness: a pass of run() writes after it has read, and the stacks queue their events.
FairSpec ==
  /\ Spec /\ WF_vars(LinkTask) /\ SF_vars(Medium) /\ WF_vars(TcpStopped) /\ WF_vars(ReplySend)
  /\ \A t \in Tasks : WF_vars(Finish(t))

-----------------------------------------------------------------------------
\* Types: connections and generations within their bounds, places the tasks can be at.
TypeOK ==
  /\ link \in Links /\ {running, listening, task, usable, latch, flight} \subseteq BOOLEAN
  /\ {peers, peer, waiting} \subseteq 0 .. MaxPeers
  /\ queue \in BoundedSeq(Frame, kSendQueueDepth)
  /\ session \in [node : {"none", "hello", "active"}, generation : 0 .. MaxGeneration, conn : 0 .. MaxPeers]
  /\ asked \in [generation : 0 .. MaxGeneration, conn : 0 .. MaxPeers]
  /\ at \in [Tasks -> {"idle", "connect", "drop", "replace", "open", "opened", "stop", "enqueue", "drain",
                       "latched", "unlatch", "notify", "reply"}]

\* No left-overs: a frame admitted for one connection is never owed to the next, whichever task
\* closed it and whatever the others were sending (close_client(), reset_send_queue()).
QueueIsOfThisPeer ==
  peer # 0 /\ usable => \A i \in DOMAIN queue : queue[i].conn \in {0, peer}

\* A command whose generation still matches was asked in the session that is up, by the peer it
\* is up with: that is what runShell() concludes before it answers.
GenerationNamesSession ==
  asked # NoCommand /\ asked.generation = session.generation
    => session.node = "active" /\ asked.conn = session.conn

\* Telemetry cannot crowd out an answer: a full queue holds the reserved share of other frames
\* at least, however the three producers interleave (TcpSendAdmission.h).
ReserveIsKept ==
  Len(queue) = kSendQueueDepth =>
    Cardinality({i \in DOMAIN queue : queue[i].kind = "normal"}) >= kSendQueueDepth - kTelemetryQueueCeiling

\* What a TCP or a serial link admitted for this peer leaves, or the peer does.
StreamFramesLeave ==
  link # "ble" => \/ []<>(peer = 0 \/ \A i \in DOMAIN queue : queue[i].conn # peer)
                  \/ []<><<Len(queue') < Len(queue)>>_queue

\* A drain that finds the latch taken may leave its frame to the notification under way, "that
\* event's own handler calls back into this function" (BleBtpServer::drain_send_queue()).
\* The code does not keep this.
LatchMeansNotification ==
  (\E t \in Tasks : at[t] = "drain" /\ latch /\ has_client /\ queue # <<>>)
    ~> (queue = <<>> \/ ~has_client \/ flight)
=============================================================================
