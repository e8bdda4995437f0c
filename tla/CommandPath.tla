---------------------------- MODULE CommandPath ----------------------------
(***************************************************************************)
(* The life of a COMMAND_REQUEST: lib/CommandProcessor with the tasks of   *)
(* ROBOT that drive it.                                                    *)
(*                                                                         *)
(* Requests arrive, any number of times and over any link, in the receive  *)
(* task of that link (the Wi-Fi task for ESP-NOW, the server task of a     *)
(* direct session).  intake() classifies them in the dedup cache; fresh    *)
(* shell requests go through receivedDataQueue to the shell task, which    *)
(* runs them, records their result with complete() and answers on the link *)
(* they came from.  A direct session can end, or be replaced, at any time; *)
(* its generation number tells the shell task so.  The robot can reboot.   *)
(*                                                                         *)
(* intake(), complete() and reject_busy() hold cache_lock_ from their first *)
(* line to their last, so each is one action; a request that finds the     *)
(* lock taken is dropped, which is no different from a lost datagram.      *)
(***************************************************************************)
EXTENDS Integers, Sequences

CONSTANTS
  Requests,    \* the datagrams requesters may send, as often as they like
  KeyOf,       \* DedupKey of each: source, and sequence, of one boot of the source
  Target,      \* the robot boot each one names
  Kind,        \* "shell", "ping", or "invalid" when parse_request refuses it
  Long,        \* requests whose captured output exceeds kMaxResultPayloadSize
  Slots,       \* slots of the dedup cache
  QueueDepth,  \* length of receivedDataQueue
  Direct,      \* direct sessions: TCP, BLE, serial
  MaxBoot, MaxSession,   \* bounds: robot boots, generation numbers
  Nothing

Radio == "radio"
Links == Direct \cup {Radio}
Keys  == {KeyOf[q] : q \in Requests}

ASSUME RequestsAssumption ==
  /\ Nothing \notin Requests
  /\ DOMAIN KeyOf = Requests /\ \A q \in Requests : KeyOf[q].seq \in Nat \ {0}
  /\ Target \in [Requests -> Nat \ {0}]
  /\ Kind \in [Requests -> {"shell", "ping", "invalid"}]
  /\ Long \subseteq Requests
\* A sequence is taken once per logical message (README.md:317): even an identity reused with another
\* payload names the same boot of the robot.
ASSUME TargetAssumption ==
  \A p, q \in Requests : KeyOf[p] = KeyOf[q] => Target[p] = Target[q]
ASSUME QueueAssumption == QueueDepth \in Nat \ {0}
ASSUME LinkAssumption  == Radio \notin Direct
ASSUME BoundAssumption == MaxBoot \in Nat \ {0} /\ MaxSession \in Nat

VARIABLES
  boot,                       \* protocol_boot_id_
  slotRequest, slotState, slotResult,   \* dedup_ and slot_meta_: verbatim request, state, result
  highWater,                  \* dedup_requesters_: highest sequence accepted from each source
  rx, rxView,                 \* the receive task of each link; rx_view_, shared by all
  queue,                      \* receivedDataQueue
  shell, job, shellView,      \* where runShell() is, received_command, shell_view_
  generation, session,        \* x_session_generation_; x_node_ (0 when reset)
  executed, told, refused     \* history: runs of each key, outcomes an endpoint was told of,
                              \* keys that reject_busy() turned away

cache == <<slotRequest, slotState, slotResult, highWater>>
receive == <<rx, rxView>>
shellTask == <<shell, job, shellView>>
links == <<generation, session>>
vars  == <<boot, cache, receive, queue, shellTask, links, executed, told, refused>>

Sources == {KeyOf[q].source : q \in Requests}

Idle == [at |-> "idle", slot |-> Nothing, key |-> Nothing, asker |-> 0]
NoJob == [slot |-> Nothing, request |-> Nothing, link |-> Radio, generation |-> 0, asker |-> 0]

\* A COMMAND_RESULT payload: the request it correlates with and its status.
Result(q, status) == [key |-> KeyOf[q], status |-> status]

AllSlots(v) == [s \in Slots |-> v]

Init ==
  /\ boot = 1
  /\ slotRequest = AllSlots(Nothing) /\ slotState = AllSlots("free")
  /\ slotResult  = AllSlots(Nothing)
  /\ highWater   = [r \in Sources |-> 0]
  /\ rx = [l \in Links |-> Idle] /\ rxView = Nothing
  /\ queue = << >>
  /\ shell = "idle" /\ job = NoJob /\ shellView = Nothing
  /\ generation = [l \in Direct |-> 0]
  /\ session    = [l \in Direct |-> 0]
  /\ executed = [k \in Keys |-> 0]
  /\ told = [k \in Keys |-> {}] /\ refused = {}

-----------------------------------------------------------------------------
(* btp::DedupCache::classify(), as CommandProcessor and its tests use it.  *)

Holding(k) == {s \in Slots : slotRequest[s] # Nothing /\ KeyOf[slotRequest[s]] = k}

\* A fresh identity takes a free slot or evicts a completed one, never one in flight.
Room == {s \in Slots : slotState[s] # "in flight"}

IsDuplicate(q, s) == s \in Holding(KeyOf[q]) /\ slotRequest[s] = q
IsConflict(q)     == \E s \in Holding(KeyOf[q]) : slotRequest[s] # q
IsEvicted(q)      == Holding(KeyOf[q]) = {} /\ KeyOf[q].seq <= highWater[KeyOf[q].source]
IsUnseen(q)       == Holding(KeyOf[q]) = {} /\ KeyOf[q].seq > highWater[KeyOf[q].source]
IsFresh(q)        == IsUnseen(q) /\ Room # {}

-----------------------------------------------------------------------------
(* The receive task of link l: intake(), then what processCommandRequest()  *)
(* and its direct-session twins do with the outcome.                       *)

\* What a requester can name: a boot of this robot that has happened.
Arrives(l, q) == rx[l] = Idle /\ Target[q] <= boot /\ (l \in Direct => session[l] # 0)

\* The task of l now holds a ResultView for q: the sequence number it carries belongs
\* to q, the payload it points at is rx_view_.
Prepare(l, q, result) ==
  /\ rx' = [rx EXCEPT ![l] = [at |-> "reply", slot |-> Nothing, key |-> KeyOf[q],
                              asker |-> IF l \in Direct THEN session[l] ELSE 0]]
  /\ rxView' = result

\* DuplicateComplete: the recorded result again.
IntakeReplay(l, q) ==
  /\ Arrives(l, q)
  /\ \E s \in Slots :
       /\ IsDuplicate(q, s) /\ slotState[s] = "done"
       /\ Prepare(l, q, slotResult[s])
  /\ UNCHANGED <<boot, cache, queue, shellTask, links, executed, told, refused>>

\* Conflict, Evicted or CapacityExhausted: an answer that is not cached, for the last two the
\* status and error of reject_busy().  (A duplicate of a request in flight gets none, and
\* changes nothing.)
IntakeTransient(l, q) ==
  /\ Arrives(l, q)
  /\ \/ IsConflict(q) /\ Prepare(l, q, Result(q, "conflict"))
     \/ IsEvicted(q) /\ Prepare(l, q, Result(q, "busy"))
     \/ IsUnseen(q) /\ Room = {} /\ Prepare(l, q, Result(q, "busy"))
  /\ UNCHANGED <<boot, cache, queue, shellTask, links, executed, told, refused>>

Reserve(q, s, state, result) ==
  /\ slotRequest' = [slotRequest EXCEPT ![s] = q]
  /\ slotState'   = [slotState EXCEPT ![s] = state]
  /\ slotResult'  = [slotResult EXCEPT ![s] = result]
  /\ highWater'   = [highWater EXCEPT ![KeyOf[q].source] = KeyOf[q].seq]

\* The target check: the request names a boot of this robot that is over.
StaleTarget_AnyBoot(q) == FALSE
StaleTarget(q) == Target[q] # boot

\* Fresh, but answered at once: the request names another boot of this robot or does
\* not parse, or it is a ping.  finish() records the result like any other.
IntakeAnswered(l, q) ==
  /\ Arrives(l, q) /\ IsFresh(q)
  /\ StaleTarget(q) \/ Kind[q] # "shell"
  /\ LET result == Result(q, IF StaleTarget(q) \/ Kind[q] = "invalid" THEN "rejected" ELSE "pong")
     IN \E s \in Room : Reserve(q, s, "done", result) /\ Prepare(l, q, result)
  /\ UNCHANGED <<boot, queue, shellTask, links, executed, told, refused>>

\* Fresh shell command: Ready.
IntakeReady(l, q) ==
  /\ Arrives(l, q) /\ IsFresh(q)
  /\ ~StaleTarget(q) /\ Kind[q] = "shell"
  /\ \E s \in Room :
       /\ Reserve(q, s, "in flight", Nothing)
       /\ rx' = [rx EXCEPT ![l] = [at |-> "ready", slot |-> s, key |-> KeyOf[q],
                                   asker |-> IF l \in Direct THEN session[l] ELSE 0]]
  /\ UNCHANGED <<boot, rxView, queue, shellTask, links, executed, told, refused>>

\* The QueuedCommand carries the generation the link has now.
Submit(l) ==
  LET s == rx[l].slot IN
  /\ rx[l].at = "ready"
  /\ Len(queue) < QueueDepth
  /\ queue' = Append(queue, [slot |-> s, request |-> slotRequest[s], link |-> l,
                             generation |-> IF l \in Direct THEN generation[l] ELSE 0,
                             asker |-> rx[l].asker])
  /\ rx' = [rx EXCEPT ![l] = Idle]
  /\ UNCHANGED <<boot, cache, rxView, shellTask, links, executed, told, refused>>

RejectBusy_StillQueued(l) ==
  LET s == rx[l].slot
      q == slotRequest[s] IN
  /\ rx[l].at = "ready"
  /\ Len(queue) >= QueueDepth
  /\ slotState'  = [slotState EXCEPT ![s] = "done"]
  /\ slotResult' = [slotResult EXCEPT ![s] = Result(q, "busy")]
  /\ queue' = Append(queue, [slot |-> s, request |-> q, link |-> l,
                             generation |-> IF l \in Direct THEN generation[l] ELSE 0,
                             asker |-> rx[l].asker])
  /\ Prepare(l, q, Result(q, "busy"))
  /\ refused' = refused \cup {KeyOf[q]}
  /\ UNCHANGED <<boot, slotRequest, highWater, shellTask, links, executed, told>>

RejectBusy_NotRecorded(l) ==
  /\ rx[l].at = "ready"
  /\ Len(queue) >= QueueDepth
  /\ Prepare(l, slotRequest[rx[l].slot], Result(slotRequest[rx[l].slot], "busy"))
  /\ refused' = refused \cup {rx[l].key}
  /\ UNCHANGED <<boot, cache, queue, shellTask, links, executed, told>>

\* The queue is full: reject_busy() records BUSY as the result of the request.
RejectBusy(l) ==
  LET s == rx[l].slot
      q == slotRequest[s] IN
  /\ rx[l].at = "ready"
  /\ Len(queue) >= QueueDepth
  /\ slotState'  = [slotState EXCEPT ![s] = "done"]
  /\ slotResult' = [slotResult EXCEPT ![s] = Result(q, "busy")]
  /\ Prepare(l, q, Result(q, "busy"))
  /\ refused' = refused \cup {KeyOf[q]}
  /\ UNCHANGED <<boot, slotRequest, highWater, queue, shellTask, links, executed, told>>

\* send_result() over link l: what requesters get to know of a command.  (A conflict is with
\* another payload, a rejection for a request that does not parse or a boot that is over.)
Outcomes == {"success", "failed", "busy", "pong"}
Send(l, payload) ==
  /\ l \in Direct => session[l] # 0
  /\ told' = [told EXCEPT ![payload.key] = @ \cup ({payload.status} \cap Outcomes)]

\* The endpoint takes the result, or refuses it (no client, no key, no room): a later retry asks again.
Reply(l) ==
  /\ rx[l].at = "reply"
  /\ Send(l, rxView) \/ UNCHANGED told
  /\ rx' = [rx EXCEPT ![l] = Idle]
  /\ UNCHANGED <<boot, cache, rxView, queue, shellTask, links, executed, refused>>

-----------------------------------------------------------------------------
(* Lines from inside the firmware or from a terminal share the queue.       *)

SubmitLocal ==
  /\ Len(queue) < QueueDepth
  /\ queue' = Append(queue, NoJob)
  /\ UNCHANGED <<boot, cache, receive, shellTask, links, executed, told, refused>>

-----------------------------------------------------------------------------
(* runShell().                                                             *)

ShellReceive ==
  /\ shell = "idle" /\ queue # << >>
  /\ job' = Head(queue) /\ queue' = Tail(queue)
  /\ shell' = "run"
  /\ UNCHANGED <<boot, cache, receive, shellView, links, executed, told, refused>>

\* run_command_line() for a remote command.
ShellRun ==
  /\ shell = "run" /\ job # NoJob
  /\ executed' = [executed EXCEPT ![KeyOf[job.request]] = @ + 1]
  /\ shell' = "complete"
  /\ UNCHANGED <<boot, cache, receive, queue, job, shellView, links, told, refused>>

\* ... and for a local one, which has no request to answer.
ShellRunLocal ==
  /\ shell = "run" /\ job = NoJob
  /\ shell' = "idle"
  /\ UNCHANGED <<boot, cache, receive, queue, job, shellView, links, executed, told, refused>>

\* complete() encodes a result for the current occupant of the slot.
ShellComplete(status) ==
  LET result == Result(slotRequest[job.slot], status) IN
  /\ shell = "complete"
  /\ status = "failed" \/ job.request \notin Long
  /\ slotState'  = [slotState EXCEPT ![job.slot] = "done"]
  /\ slotResult' = [slotResult EXCEPT ![job.slot] = result]
  /\ shellView' = result
  /\ shell' = IF job.link \in Direct THEN "check" ELSE "send"
  /\ UNCHANGED <<boot, slotRequest, highWater, receive, queue, job, links, executed, told, refused>>

\* The captured output does not fit in kMaxResultPayloadSize: encode_result() fails,
\* complete() returns false and nothing is recorded or sent.
ShellCompleteTooLong ==
  /\ shell = "complete" /\ job.request \in Long
  /\ shell' = "idle" /\ job' = NoJob
  /\ UNCHANGED <<boot, cache, receive, queue, shellView, links, executed, told, refused>>

ShellCheck ==
  /\ shell = "check"
  /\ IF generation[job.link] = job.generation
     THEN shell' = "send" /\ UNCHANGED <<job, shellView>>
     ELSE shell' = "idle" /\ job' = NoJob /\ shellView' = Nothing
  /\ UNCHANGED <<boot, cache, receive, queue, links, executed, told, refused>>

ShellSend ==
  /\ shell = "send"
  /\ Send(job.link, shellView) \/ UNCHANGED told
  /\ shell' = "idle" /\ job' = NoJob /\ shellView' = Nothing
  /\ UNCHANGED <<boot, cache, receive, queue, links, executed, refused>>

-----------------------------------------------------------------------------
(* Direct sessions.                                                        *)

\* startXSession(): from the server's task, between two receptions.
Connect(l) ==
  /\ session[l] = 0 /\ rx[l] = Idle /\ generation[l] < MaxSession
  /\ generation' = [generation EXCEPT ![l] = @ + 1]
  /\ session'    = [session EXCEPT ![l] = generation[l] + 1]
  /\ UNCHANGED <<boot, cache, receive, queue, shellTask, executed, told, refused>>

\* onXDisconnect(): the client left, a new HELLO came over the live link, or -- from
\* another task, in the middle of a reception -- the server is being stopped.
Disconnect(l) ==
  /\ session[l] # 0
  /\ generation' = [generation EXCEPT ![l] = @ + 1]
  /\ session'    = [session EXCEPT ![l] = 0]
  /\ UNCHANGED <<boot, cache, receive, queue, shellTask, executed, told, refused>>

\* Reset or power loss: RAM is lost, configureProtocolIdentity() moves to a new boot id.
Reboot ==
  /\ boot < MaxBoot
  /\ boot' = boot + 1
  /\ slotRequest' = AllSlots(Nothing) /\ slotState' = AllSlots("free")
  /\ slotResult'  = AllSlots(Nothing)
  /\ highWater'   = [r \in Sources |-> 0]
  /\ rx' = [l \in Links |-> Idle] /\ rxView' = Nothing
  /\ queue' = << >>
  /\ shell' = "idle" /\ job' = NoJob /\ shellView' = Nothing
  /\ generation' = [l \in Direct |-> 0]
  /\ session'    = [l \in Direct |-> 0]
  /\ UNCHANGED <<executed, told, refused>>

-----------------------------------------------------------------------------

ReceiveStep(l) ==
  \/ \E q \in Requests :
       IntakeReplay(l, q) \/ IntakeTransient(l, q) \/ IntakeAnswered(l, q) \/ IntakeReady(l, q)
  \/ Submit(l) \/ RejectBusy(l) \/ Reply(l)

ShellStep ==
  \/ ShellReceive \/ ShellRun \/ ShellRunLocal
  \/ \E status \in {"success", "failed"} : ShellComplete(status)
  \/ ShellCompleteTooLong \/ ShellCheck \/ ShellSend

Next ==
  \/ \E l \in Links : ReceiveStep(l)
  \/ SubmitLocal \/ ShellStep
  \/ \E l \in Direct : Connect(l) \/ Disconnect(l)
  \/ Reboot

Spec == Init /\ [][Next]_vars

\* The shell task loops forever, and a receive task finishes the request it is on.
Fairness ==
  /\ WF_vars(ShellStep)
  /\ \A l \in Links : WF_vars(Submit(l) \/ RejectBusy(l) \/ Reply(l))

FairSpec == Spec /\ Fairness

-----------------------------------------------------------------------------

Payloads ==
  [key : Keys, status : {"success", "failed", "busy", "rejected", "pong", "conflict"}]
\* Nothing is none of the values it stands in for.
ASSUME NothingAssumption == Nothing \notin Slots /\ Nothing \notin Payloads

Jobs ==
  {NoJob} \cup [slot : Slots, request : Requests, link : Links, generation : Nat, asker : Nat]

TypeOK ==
  /\ boot \in 1 .. MaxBoot
  /\ slotRequest \in [Slots -> Requests \cup {Nothing}]
  /\ slotState \in [Slots -> {"free", "in flight", "done"}]
  /\ slotResult \in [Slots -> Payloads \cup {Nothing}]
  /\ highWater \in [Sources -> Nat]
  /\ rx \in [Links -> {Idle} \cup [at : {"ready"}, slot : Slots, key : Keys, asker : Nat]
                             \cup [at : {"reply"}, slot : {Nothing}, key : Keys, asker : Nat]]
  /\ rxView \in Payloads \cup {Nothing}
  /\ queue \in Seq(Jobs) /\ Len(queue) <= QueueDepth
  /\ shell \in {"idle", "run", "complete", "check", "send"}
  /\ job \in Jobs /\ shellView \in Payloads \cup {Nothing}
  /\ generation \in [Direct -> Nat] /\ session \in [Direct -> Nat]
  /\ executed \in [Keys -> Nat]
  /\ told \in [Keys -> SUBSET Outcomes] /\ refused \subseteq Keys

\* A command runs at most once, whatever is retried, duplicated, evicted from the cache, sent
\* again over another link or with another payload, or delivered after a reboot
\* (intake, DedupCache, parse_request's target check, runShell).
AtMostOnce == \A k \in Keys : executed[k] <= 1

\* The work that can still complete slot s.
Workers(s) ==
  {l \in Links : rx[l].at = "ready" /\ rx[l].slot = s}
  \cup {i \in 1 .. Len(queue) : queue[i].slot = s}
  \cup {w \in {"shell"} : shell \in {"run", "complete"} /\ job.slot = s}

\* complete() and reject_busy() encode whatever request their slot holds now.  That is the one
\* their work item was made from: its slot stays in flight, is not evicted and has no
\* second worker, from intake() until the result is recorded.
WorkOwnsItsSlot ==
  /\ \A l \in Links : rx[l].at = "ready" =>
       slotState[rx[l].slot] = "in flight" /\ KeyOf[slotRequest[rx[l].slot]] = rx[l].key
  /\ \A i \in 1 .. Len(queue) : queue[i] # NoJob =>
       slotState[queue[i].slot] = "in flight" /\ slotRequest[queue[i].slot] = queue[i].request
  /\ shell \in {"run", "complete"} /\ job # NoJob =>
       slotState[job.slot] = "in flight" /\ slotRequest[job.slot] = job.request
  /\ \A s \in Slots : \A v, w \in Workers(s) : v = w

\* A slot is in flight only while some task will still complete it: none leaks, save the one
\* whose result was too long to be recorded (complete_work() then leaves it in flight).
NoLeakedSlot ==
  \A s \in Slots :
    slotState[s] = "in flight" => Workers(s) # {} \/ slotRequest[s] \in Long

\* What requesters are told is true: SUCCESS or FAILED of a shell command means that it ran.
\* A command reject_busy() turned away never runs, and whoever asks for it is told BUSY.  No
\* two answers differ other than by a BUSY, however often the recorded result is replayed.
RepliesAreTrue ==
  \A k \in Keys :
    /\ told[k] \cap {"success", "failed"} # {} => executed[k] = 1
    /\ k \in refused => executed[k] = 0 /\ told[k] \subseteq {"busy"}
    /\ \A v, w \in told[k] \ {"busy"} : v = w

\* README.md:309: identical retries reuse the stored result.  The code does not keep this: a
\* retry of an evicted command is told BUSY with CapacityExhausted, as if it had been refused.
RetriesReuseTheResult ==
  [][\A k \in Keys : told[k] \cap {"success", "failed"} # {} => told'[k] = told[k]]_vars

\* README.md:212: it is a refused command that is answered BUSY/CAPACITY_EXHAUSTED.  The code
\* does not keep this either: that answer may come for a command that has run.
BusyMeansNotRun ==
  [][\A k \in Keys : "busy" \in told'[k] \ told[k] => executed[k] = 0]_vars

\* BallyRobot.cpp on the check: "silently dropping this reply is the only safe option, not sending
\* it through whatever protocol_tcp_ currently points at".  A result of the shell task goes
\* to the session that asked for it.
\* The code does not keep this.
ReplyReachesAsker ==
  [][shell = "send" /\ told' # told /\ shell' = "idle" /\ job.link \in Direct
       => session[job.link] = job.asker]_vars

\* CommandProcessor.h on rx_view_: "The two tasks never share a buffer".  The payload a receive
\* task is about to send is the one it prepared.
\* The code does not keep this.
ViewIsPrivate == \A l \in Links : rx[l].at = "reply" => rxView.key = rx[l].key

=============================================================================
