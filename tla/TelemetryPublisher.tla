------------------------- MODULE TelemetryPublisher -------------------------
(***************************************************************************)
(* lib/TelemetryPublisher and ROBOT::sampleTelemetry().  The state machine *)
(* task samples the topics into a ring and a one-document stage, the       *)
(* routine task flushes both to up to two targets, and the task of the     *)
(* direct link (TCP, BLE or serial) binds and unbinds the second target by *)
(* writing its pointers one after the other.  Nothing is locked: the ring  *)
(* and the stage are handed over by their indices and their pending flag.  *)
(* The statistics are left out.                                            *)
(***************************************************************************)
EXTENDS Integers, Sequences, FiniteSets

CONSTANTS
  kQueueCapacity,
  IndexMod,      \* 2^32 in the code: the indices run freely and wrap
  FlushSamples,  \* flush(4U)
  MaxSequence,   \* the sequences an endpoint can reserve before it refuses
  Topics,        \* the topics somebody may subscribe to, and robot.state
  Link           \* the direct link of this boot: tcp, ble or serial

ASSUME TelemetryAssumption ==
  /\ kQueueCapacity \in Nat \ {0} /\ FlushSamples \in Nat \ {0} /\ MaxSequence \in Nat
  /\ IndexMod \in Nat \ {0} /\ IndexMod % kQueueCapacity = 0 /\ IndexMod > kQueueCapacity
  /\ Link \in {"tcp", "ble", "serial"}

VARIABLES
  ring,      \* write_index_, read_index_ and queue_
  pending,   \* monitor_stage_ holds a document flush() has not sent
  sequence,  \* the last sequence the endpoint reserved
  targets,   \* per target, which of its pointers are not null
  node,      \* the direct session's node, which owns the table its target names, exists
  todo,      \* the pointers the direct link's task has still to write
  producer,  \* where sampleTelemetry() is, and the sample it is queueing
  flusher,   \* where flush() is, what it collected, how many samples are left
  paused,    \* ota.is_upload_session(): routine() skips the flush
  queued     \* history: the samples published and not yet taken, in order

vars == <<ring, pending, sequence, targets, node, todo, producer, flusher, paused, queued>>

\* The fixed order of sampleTelemetry(), with the document among the samples.
Order   == <<"protocol.test", "system.monitor", "robot.state", "robot.sensors", "robot.flags">>
Pointer == {"endpoint", "seal", "subscriptions"}
Target  == {"base", "direct"}
Sample  == [topic : Topics, sequence : 1 .. MaxSequence]

\* Whether a payload can be packed: a reading that is not finite is refused.
pack_protocol_test  == {TRUE}
pack_robot_state    == {TRUE}
pack_sensors        == BOOLEAN
pack_flags          == {TRUE}
pack_system_monitor == {TRUE}
Packed(t) ==
  CASE t = "protocol.test"  -> pack_protocol_test
    [] t = "robot.state"    -> pack_robot_state
    [] t = "robot.sensors"  -> pack_sensors
    [] t = "robot.flags"    -> pack_flags
    [] t = "system.monitor" -> pack_system_monitor

Slot(i)    == i % kQueueCapacity
Next1(i)   == (i + 1) % IndexMod
Held(r)    == (r.write - r.read) % IndexMod
NoView     == [t \in Target |-> {}]
NoSample   == [topic |-> "none", sequence |-> 0]

Init ==
  /\ ring = [write |-> 0, read |-> 0, slots |-> [i \in 0 .. kQueueCapacity - 1 |-> NoSample]]
  /\ pending = FALSE /\ sequence = 0
  /\ targets = [t \in Target |-> IF t = "base" THEN Pointer ELSE {}]
  /\ node = FALSE /\ todo = <<>> /\ paused = FALSE /\ queued = <<>>
  /\ producer = [at |-> "sampling", next |-> 1, sample |-> NoSample]
  /\ flusher = [at |-> "idle", views |-> NoView, left |-> 0]

-----------------------------------------------------------------------------
(* The direct link's task: pointers written one by one, in these orders.    *)

Set(field)   == [field |-> field, set |-> TRUE]
Clear(field) == [field |-> field, set |-> FALSE]

bind_tcp_target    == <<Set("endpoint"), Set("seal"), Set("subscriptions")>>
bind_ble_target    == <<Set("endpoint"), Set("seal"), Set("subscriptions")>>
bind_serial_target == <<Set("endpoint"), Clear("seal"), Set("subscriptions")>>
unbind_tcp_target    == <<Clear("endpoint"), Clear("seal"), Clear("subscriptions")>>
unbind_ble_target    == <<Clear("endpoint"), Clear("seal"), Clear("subscriptions")>>
unbind_serial_target == <<Clear("endpoint"), Clear("seal"), Clear("subscriptions")>>

BindOf   == [tcp |-> bind_tcp_target, ble |-> bind_ble_target, serial |-> bind_serial_target]
UnbindOf == [tcp |-> unbind_tcp_target, ble |-> unbind_ble_target, serial |-> unbind_serial_target]

\* A session starts: a new node with an empty table, then the bind.
SessionStart ==
  /\ ~node /\ todo = <<>>
  /\ node' = TRUE /\ todo' = BindOf[Link]
  /\ UNCHANGED <<ring, pending, sequence, targets, producer, flusher, paused, queued>>

\* A session ends: the unbind, and then the node is destroyed with its table.
SessionEnd ==
  /\ node /\ todo = <<>> /\ targets["direct"] # {}
  /\ todo' = UnbindOf[Link]
  /\ UNCHANGED <<ring, pending, sequence, targets, node, producer, flusher, paused, queued>>

WritePointer ==
  /\ todo # <<>>
  /\ targets' = [targets EXCEPT !["direct"] =
       IF Head(todo).set THEN @ \union {Head(todo).field} ELSE @ \ {Head(todo).field}]
  /\ todo' = Tail(todo)
  /\ UNCHANGED <<ring, pending, sequence, node, producer, flusher, paused, queued>>

NodeReset ==
  /\ node /\ todo = <<>> /\ targets["direct"] = {}
  /\ node' = FALSE
  /\ UNCHANGED <<ring, pending, sequence, targets, todo, producer, flusher, paused, queued>>

\* routine() flushes outside upload sessions only.
UploadSession ==
  /\ paused' = ~paused
  /\ UNCHANGED <<ring, pending, sequence, targets, node, todo, producer, flusher, queued>>

\* The base target counts even before it has an endpoint, the direct one with its endpoint.
collect_targets ==
  [t \in Target |-> IF t = "base" \/ "endpoint" \in targets[t] THEN targets[t] ELSE {}]

-----------------------------------------------------------------------------
(* The state machine's task: sampleTelemetry(), topic by topic.             *)

\* Any collected table may hold a subscriber of the topic, and give it a period: grants and
\* expired leases change the tables at any time.
topic_effective_rate == \E t \in Target : "subscriptions" \in collect_targets[t]

Turn == (producer.next % Len(Order)) + 1
Topic == Order[producer.next]
NextTopic == producer' = [at |-> "sampling", next |-> Turn, sample |-> NoSample]

\* No subscriber, a period that has not elapsed, or a state that has not changed.
NotDue ==
  /\ producer.at = "sampling"
  /\ NextTopic
  /\ UNCHANGED <<ring, pending, sequence, targets, node, todo, flusher, paused, queued>>

Due == producer.at = "sampling" /\ Topic \in Topics
       /\ (Topic = "robot.state" \/ topic_effective_rate)

Reserved == sequence < MaxSequence /\ sequence' = sequence + 1

\* enqueue(): a full ring, a payload that cannot be packed or no sequence: the sample is lost.
Refused ==
  /\ Due /\ Topic # "system.monitor"
  /\ FALSE \in Packed(Topic) \/ Held(ring) >= kQueueCapacity \/ sequence = MaxSequence
  /\ NextTopic
  /\ UNCHANGED <<ring, pending, sequence, targets, node, todo, flusher, paused, queued>>

EnqueueFill_OneMore ==
  /\ Due /\ Topic # "system.monitor" /\ TRUE \in Packed(Topic)
  /\ Held(ring) <= kQueueCapacity /\ Reserved
  /\ LET sample == [topic |-> Topic, sequence |-> sequence + 1]
     IN  /\ ring' = [ring EXCEPT !.slots[Slot(ring.write)] = sample]
         /\ producer' = [producer EXCEPT !.at = "filled", !.sample = sample]
  /\ UNCHANGED <<pending, targets, node, todo, flusher, paused, queued>>
EnqueueFill ==
  /\ Due /\ Topic # "system.monitor" /\ TRUE \in Packed(Topic)
  /\ Held(ring) < kQueueCapacity /\ Reserved
  /\ LET sample == [topic |-> Topic, sequence |-> sequence + 1]
     IN  /\ ring' = [ring EXCEPT !.slots[Slot(ring.write)] = sample]
         /\ producer' = [producer EXCEPT !.at = "filled", !.sample = sample]
  /\ UNCHANGED <<pending, targets, node, todo, flusher, paused, queued>>

EnqueuePublish ==
  /\ producer.at = "filled"
  /\ ring' = [ring EXCEPT !.write = Next1(@)]
  /\ queued' = Append(queued, producer.sample)
  /\ NextTopic
  /\ UNCHANGED <<pending, sequence, targets, node, todo, flusher, paused>>

\* publish_system_monitor(): dropped while the last document waits, else the producer owns
\* the stage, packs into it, reserves a sequence and hands it over.
MonitorRefused ==
  /\ Due /\ Topic = "system.monitor" /\ pending
  /\ NextTopic
  /\ UNCHANGED <<ring, pending, sequence, targets, node, todo, flusher, paused, queued>>

MonitorFill_Overwrites ==
  /\ Due /\ Topic = "system.monitor"
  /\ producer' = [producer EXCEPT !.at = "packing"]
  /\ UNCHANGED <<ring, pending, sequence, targets, node, todo, flusher, paused, queued>>
MonitorFill ==
  /\ Due /\ Topic = "system.monitor" /\ ~pending
  /\ producer' = [producer EXCEPT !.at = "packing"]
  /\ UNCHANGED <<ring, pending, sequence, targets, node, todo, flusher, paused, queued>>

MonitorPublish ==
  /\ producer.at = "packing"
  /\ \/ Reserved /\ pending' = TRUE
     \/ sequence = MaxSequence /\ UNCHANGED <<sequence, pending>>
  /\ NextTopic
  /\ UNCHANGED <<ring, targets, node, todo, flusher, paused, queued>>

-----------------------------------------------------------------------------
(* The routine task: flush().                                               *)

\* The targets are collected once, whatever the direct link's task does meanwhile.
FlushBegin ==
  /\ flusher.at = "idle" /\ ~paused
  /\ flusher' = [at |-> "monitor", views |-> collect_targets, left |-> FlushSamples]
  /\ UNCHANGED <<ring, pending, sequence, targets, node, todo, producer, paused, queued>>

FlushMonitor ==
  /\ flusher.at = "monitor"
  /\ flusher' = [flusher EXCEPT !.at = IF pending THEN "document" ELSE "queue"]
  /\ UNCHANGED <<ring, pending, sequence, targets, node, todo, producer, paused, queued>>

\* The document has gone to every target that wants it: the stage is given back.
FlushDocument ==
  /\ flusher.at = "document"
  /\ pending' = FALSE
  /\ flusher' = [flusher EXCEPT !.at = "queue", !.left = @ - 1]
  /\ UNCHANGED <<ring, sequence, targets, node, todo, producer, paused, queued>>

FlushNext ==
  /\ flusher.at = "queue"
  /\ flusher' = IF flusher.left = 0 \/ ring.read = ring.write
                THEN [at |-> "idle", views |-> NoView, left |-> 0]
                ELSE [flusher EXCEPT !.at = "sample"]
  /\ UNCHANGED <<ring, pending, sequence, targets, node, todo, producer, paused, queued>>

\* The sample leaves the ring once, however many targets took it.
FlushSample_Stuck ==
  /\ flusher.at = "sample"
  /\ flusher' = [flusher EXCEPT !.at = "queue", !.left = @ - 1]
  /\ UNCHANGED <<ring, pending, sequence, targets, node, todo, producer, paused, queued>>
FlushSample ==
  /\ flusher.at = "sample"
  /\ ring' = [ring EXCEPT !.read = Next1(@)]
  /\ queued' = Tail(queued)
  /\ flusher' = [flusher EXCEPT !.at = "queue", !.left = @ - 1]
  /\ UNCHANGED <<pending, sequence, targets, node, todo, producer, paused>>

-----------------------------------------------------------------------------
Producer == NotDue \/ Refused \/ EnqueueFill \/ EnqueuePublish
            \/ MonitorRefused \/ MonitorFill \/ MonitorPublish
Flusher  == FlushBegin \/ FlushMonitor \/ FlushDocument \/ FlushNext \/ FlushSample
Binder   == SessionStart \/ SessionEnd \/ WritePointer \/ NodeReset

Next == Producer \/ Flusher \/ Binder \/ UploadSession

Spec == Init /\ [][Next]_vars

\* routine() and the state machine's task loop for ever.
FairSpec == Spec /\ WF_vars(Flusher) /\ WF_vars(Producer)

-----------------------------------------------------------------------------
\* Types: indices below the modulus, slots with samples or never written, fields that exist.
TypeOK ==
  /\ ring.write \in 0 .. IndexMod - 1 /\ ring.read \in 0 .. IndexMod - 1
  /\ \A i \in DOMAIN ring.slots : ring.slots[i] \in Sample \union {NoSample}
  /\ Held(ring) <= kQueueCapacity
  /\ pending \in BOOLEAN
  /\ sequence \in 0 .. MaxSequence
  /\ targets \in [Target -> SUBSET Pointer]
  /\ node \in BOOLEAN /\ paused \in BOOLEAN /\ Len(todo) <= Cardinality(Pointer)
  /\ producer.at \in {"sampling", "filled", "packing"} /\ producer.next \in 1 .. Len(Order)
  /\ flusher.at \in {"idle", "monitor", "document", "queue", "sample"}
  /\ flusher.left \in 0 .. FlushSamples

\* The ring is a queue across the wrap of its indices: from read to write it holds what was
\* published and not taken, in that order, even while the producer fills the next slot and the
\* consumer sends the first (enqueue() and flush() share no lock).
RingIsAQueue ==
  /\ Held(ring) = Len(queued)
  /\ \A i \in 1 .. Len(queued) : ring.slots[Slot((ring.read + i - 1) % IndexMod)] = queued[i]

\* The stage has one owner: the document flush() is sending is not packed over, and the
\* producer packs only what no flush can be sending (publish_system_monitor()'s pending test).
StageHasOneOwner ==
  /\ producer.at = "packing" => ~pending /\ flusher.at # "document"
  /\ flusher.at = "document" => pending

\* Published samples keep being taken, unless an upload session stops the flushing: a full ring
\* or a document in front of it delays a sample, and a flush of four resumes where it ended.
SamplesAreTaken ==
  []<>(paused \/ queued = <<>>) \/ []<><<Len(queued') < Len(queued)>>_queued

\* What the header says of the pointers flush() reads: caught at any moment the direct target
\* is still there or already gone, never half of one.
\* The code does not keep this.
TargetsAreWhole ==
  flusher.views["direct"] # {} =>
    flusher.views["direct"] = {p \in Pointer : Link = "serial" => p # "seal"}
=============================================================================
