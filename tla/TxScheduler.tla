---------------------------- MODULE TxScheduler ----------------------------
(***************************************************************************)
(* lib/TxScheduler: the ESP-NOW transmit scheduler.                        *)
(*                                                                         *)
(* Producers (shell, routine, Wi-Fi RX...) copy encoded frames into one    *)
(* ring per priority class.  The comms task runs pump(), except while an   *)
(* OTA upload session is up: it settles the one frame that awaits its send *)
(* callback, then pops the most urgent frame and hands it to the radio.    *)
(* An esp_timer runs pump_telemetry(), a second lane that never waits.     *)
(* The Wi-Fi task reports the end of every transmission, of either lane,   *)
(* through on_delivery().                                                  *)
(*                                                                         *)
(* Each ring is guarded by an atomic_flag that nobody waits for: a         *)
(* producer that finds it set drops its frame, a consumer that finds it    *)
(* set treats the ring as empty.  Every access that another task can       *)
(* separate from the next one is an action of its own.                     *)
(***************************************************************************)
EXTENDS Integers, FiniteSets

CONSTANTS
  Frames,     \* the frames offered during a behaviour, each at most once
  KindOf,     \* what the BTP header of each frame says
  Producers,  \* tasks that call enqueue()
  Capacity,   \* kQueueCapacity, one bound per class
  Timeout,    \* delivery_timeout_ms_, in clock ticks
  NoFrame     \* no frame at all

CommandResult == 0
Status        == 1
Terminal      == 2
CriticalLog   == 3
Telemetry     == 4
Debug         == 5
Classes       == 0 .. 5

Kinds == {"commandResult", "control", "terminal", "logSevere", "telemetry",
          "other", "malformed"}

\* classify(): the class is a function of the frame's type and object id.
Classify(kind) ==
  CASE kind = "commandResult" -> CommandResult
    [] kind = "control"       -> Status
    [] kind = "terminal"      -> Terminal
    [] kind = "logSevere"     -> CriticalLog
    [] kind = "telemetry"     -> Telemetry
    [] OTHER                  -> Debug

ClassOf(f) == Classify(KindOf[f])

\* The two consumers, and the value of a lock nobody holds.
Pump  == "pump"
Timer == "timer"
Free  == "free"

ASSUME FramesAssumption    == NoFrame \notin Frames
ASSUME KindAssumption      == KindOf \in [Frames -> Kinds]
ASSUME ProducersAssumption == Producers \cap {Pump, Timer, Free} = {}
ASSUME CapacityAssumption  == Capacity \in [Classes -> Nat \ {0}]
ASSUME TimeoutAssumption   == Timeout \in Nat \ {0}

VARIABLES
  slots, read, write, count, lock,   \* queues_[c]
  producing, offered,                \* where each producer is in enqueue(), with what
  pumping, class, pending,           \* where pump() is, the class it scans, pending_
  awaiting, event, age,              \* awaiting_delivery_, delivery_event_, now - pending_since_ms_
  timing, sample,                    \* where pump_telemetry() is, its local frame
  air, callback, verdict,            \* frames in the driver; on_delivery() between load and store
  stats,                             \* the counters of Stats
  paused,                            \* ota.is_upload_session()
  fate, sends, acked, crossed,       \* history: see below
  overtaken, contended

queues   == <<slots, read, write, count, lock>>
producer == <<producing, offered>>
pump     == <<pumping, class, pending>>
gate     == <<awaiting, event, age>>
timer    == <<timing, sample>>
driver   == <<air, callback, verdict>>
passing  == <<overtaken, contended>>
history  == <<fate, sends, acked, crossed, passing>>
vars     == <<queues, producer, pump, gate, timer, driver, stats, paused, history>>

Counters == {"accepted", "delivered", "timeouts", "dropped", "delivery_failed",
             "telemetry_sent", "telemetry_dropped"}

\* fate[f] is where frame f is; a frame with one of Settled has left the
\* scheduler.  sends[f] counts its radio_send calls, acked is the set of confirm-gated frames
\* the air really acknowledged, crossed says that another frame was in the driver at some
\* time since the pending one was armed.  overtaken[f] counts the less urgent frames
\* pump() chose while f was queued; contended holds the frames it passed over because
\* the lock of their ring was taken.
Settled == {"refused", "delivered", "failed", "expired", "unsent", "streamed", "shed"}
Fates   == {"new", "offered", "queued", "pending", "sent", "sample"} \cup Settled

Count(k)  == stats' = [stats EXCEPT ![k] = @ + 1]
Now(f, s) == fate' = [fate EXCEPT ![f] = s]

\* (i + 1) % kQueueCapacity[c], for an index already inside the ring.
Advance_NoWrap(i, c) == i + 1
Advance(i, c) == IF i + 1 = Capacity[c] THEN 0 ELSE i + 1

Acquire(c, who) == lock[c] = Free /\ lock' = [lock EXCEPT ![c] = who]
Release(c)      == lock' = [lock EXCEPT ![c] = Free]

Init ==
  /\ slots = [c \in Classes |-> [i \in 0 .. Capacity[c] - 1 |-> NoFrame]]
  /\ read  = [c \in Classes |-> 0]
  /\ write = [c \in Classes |-> 0]
  /\ count = [c \in Classes |-> 0]
  /\ lock  = [c \in Classes |-> Free]
  /\ producing = [p \in Producers |-> "idle"]
  /\ offered   = [p \in Producers |-> NoFrame]
  /\ pumping = "idle" /\ class = CommandResult /\ pending = NoFrame
  /\ awaiting = FALSE /\ event = 0 /\ age = 0
  /\ timing = "idle" /\ sample = NoFrame
  /\ air = {} /\ callback = NoFrame /\ verdict = FALSE
  /\ stats = [k \in Counters |-> 0] /\ paused = FALSE
  /\ fate  = [f \in Frames |-> "new"]
  /\ sends = [f \in Frames |-> 0]
  /\ acked = {} /\ crossed = FALSE
  /\ overtaken = [f \in Frames |-> 0] /\ contended = {}

-----------------------------------------------------------------------------
(* enqueue(): validate, try the lock, store or drop, count.                *)

\* The frame does not decode, or another task is inside its ring: dropped.
EnqueueRefuse(p, f) ==
  /\ producing[p] = "idle" /\ fate[f] = "new"
  /\ KindOf[f] = "malformed" \/ lock[ClassOf(f)] # Free
  /\ Count("dropped")
  /\ Now(f, "refused")
  /\ UNCHANGED <<queues, producer, pump, gate, timer, driver, sends, acked, crossed, passing>>

EnqueueLock(p, f) ==
  /\ producing[p] = "idle" /\ fate[f] = "new"
  /\ KindOf[f] # "malformed"
  /\ Acquire(ClassOf(f), p)
  /\ producing' = [producing EXCEPT ![p] = "locked"]
  /\ offered'   = [offered EXCEPT ![p] = f]
  /\ Now(f, "offered")
  /\ UNCHANGED <<slots, read, write, count, pump, gate, timer, driver, stats,
                 sends, acked, crossed, passing>>

EnqueueFull(p) ==
  LET f == offered[p]
      c == ClassOf(f) IN
  /\ producing[p] = "locked"
  /\ count[c] >= Capacity[c]
  /\ Release(c)
  /\ producing' = [producing EXCEPT ![p] = "idle"]
  /\ offered'   = [offered EXCEPT ![p] = NoFrame]
  /\ Count("dropped")
  /\ Now(f, "refused")
  /\ UNCHANGED <<slots, read, write, count, pump, gate, timer, driver,
                 sends, acked, crossed, passing>>

EnqueueCopy_NoBound(p) ==
  LET c == ClassOf(offered[p]) IN
  /\ producing[p] = "locked"
  /\ slots' = [slots EXCEPT ![c][write[c]] = offered[p]]
  /\ producing' = [producing EXCEPT ![p] = "copied"]
  /\ UNCHANGED <<read, write, count, lock, offered, pump, gate, timer, driver, stats, history>>

EnqueueCopy(p) ==
  LET c == ClassOf(offered[p]) IN
  /\ producing[p] = "locked"
  /\ count[c] < Capacity[c]
  /\ slots' = [slots EXCEPT ![c][write[c]] = offered[p]]
  /\ producing' = [producing EXCEPT ![p] = "copied"]
  /\ UNCHANGED <<read, write, count, lock, offered, pump, gate, timer, driver, stats, history>>

EnqueuePublish(p) ==
  LET c == ClassOf(offered[p]) IN
  /\ producing[p] = "copied"
  /\ write' = [write EXCEPT ![c] = Advance(@, c)]
  /\ count' = [count EXCEPT ![c] = @ + 1]
  /\ Release(c)
  /\ producing' = [producing EXCEPT ![p] = "stored"]
  /\ Now(offered[p], "queued")
  /\ UNCHANGED <<slots, read, offered, pump, gate, timer, driver, stats,
                 sends, acked, crossed, passing>>

\* accepted_ is raised only after the ring is unlocked: the frame may be gone by then.
EnqueueCount(p) ==
  /\ producing[p] = "stored"
  /\ Count("accepted")
  /\ producing' = [producing EXCEPT ![p] = "idle"]
  /\ offered'   = [offered EXCEPT ![p] = NoFrame]
  /\ UNCHANGED <<queues, pump, gate, timer, driver, history>>

-----------------------------------------------------------------------------
(* pop() once the ring's lock is held: copy the oldest frame, then step over it. *)

Front_Newest(c) == slots[c][(write[c] + Capacity[c] - 1) % Capacity[c]]
Front(c) == slots[c][read[c]]

Remove(c) ==
  /\ read'  = [read EXCEPT ![c] = Advance(@, c)]
  /\ count' = [count EXCEPT ![c] = @ - 1]
  /\ Release(c)
  /\ UNCHANGED <<slots, write>>

-----------------------------------------------------------------------------
(* pump(): the comms task.                                                 *)

\* Every class but Telemetry, in order of urgency; the pass ends after Debug.
ToNextClass ==
  IF class = Debug
  THEN pumping' = "idle" /\ class' = CommandResult
  ELSE pumping' = "scan" /\ class' = IF class + 1 = Telemetry THEN Debug ELSE class + 1

BeginScan_Resume == pumping' = "scan" /\ UNCHANGED <<class, pending>>
BeginScan == pumping' = "scan" /\ class' = CommandResult /\ UNCHANGED pending

\* runComms looks at the upload session, then calls pump().
PumpCall ==
  /\ pumping = "idle" /\ ~paused
  /\ pumping' = "called"
  /\ UNCHANGED <<queues, producer, class, pending, gate, timer, driver, stats, history>>

PumpNothingAwaited ==
  /\ pumping = "called" /\ ~awaiting
  /\ BeginScan
  /\ UNCHANGED <<queues, producer, gate, timer, driver, stats, history>>

PumpWait ==
  /\ pumping = "called" /\ awaiting /\ event = 0 /\ age < Timeout
  /\ pumping' = "idle"
  /\ UNCHANGED <<queues, producer, class, pending, gate, timer, driver, stats, history>>

\* The event is taken, the counters are raised one by one, and only then is the frame let go.
PumpDelivered ==
  /\ pumping = "called" /\ awaiting /\ event = 1
  /\ event' = 0
  /\ Count("delivered")
  /\ Now(pending, "delivered")
  /\ pumping' = "release"
  /\ UNCHANGED <<queues, producer, class, pending, awaiting, age, timer, driver,
                 sends, acked, crossed, passing>>

PumpFailed ==
  /\ pumping = "called" /\ awaiting /\ event = 2
  /\ event' = 0
  /\ Count("delivery_failed")
  /\ Now(pending, "failed")
  /\ pumping' = "lose"
  /\ UNCHANGED <<queues, producer, class, pending, awaiting, age, timer, driver,
                 sends, acked, crossed, passing>>

PumpTimedOut_NeedsEvent ==
  /\ pumping = "called" /\ awaiting /\ event # 0 /\ age >= Timeout
  /\ Count("timeouts")
  /\ Now(pending, "expired")
  /\ pumping' = "lose"
  /\ UNCHANGED <<queues, producer, class, pending, gate, timer, driver,
                 sends, acked, crossed, passing>>

PumpTimedOut ==
  /\ pumping = "called" /\ awaiting /\ event = 0 /\ age >= Timeout
  /\ Count("timeouts")
  /\ Now(pending, "expired")
  /\ pumping' = "lose"
  /\ UNCHANGED <<queues, producer, class, pending, gate, timer, driver,
                 sends, acked, crossed, passing>>

\* What was lost is counted twice: by its reason, and here.
PumpLose ==
  /\ \/ pumping = "lose" /\ pumping' = "release"
     \/ pumping = "drop" /\ pumping' = "idle"
  /\ Count("dropped")
  /\ UNCHANGED <<queues, producer, class, pending, gate, timer, driver, history>>

PumpRelease ==
  /\ pumping = "release"
  /\ awaiting' = FALSE
  /\ BeginScan
  /\ UNCHANGED <<queues, producer, event, age, timer, driver, stats, history>>

\* A ring whose lock is taken counts as empty.
PumpContended ==
  /\ pumping = "scan"
  /\ lock[class] # Free
  /\ ToNextClass
  /\ contended' = contended \cup {f \in Frames : fate[f] = "queued" /\ ClassOf(f) = class}
  /\ UNCHANGED <<queues, producer, pending, gate, timer, driver, stats,
                 fate, sends, acked, crossed, overtaken>>

PumpLock ==
  /\ pumping = "scan"
  /\ Acquire(class, Pump)
  /\ pumping' = "pop"
  /\ UNCHANGED <<slots, read, write, count, producer, class, pending, gate, timer,
                 driver, stats, history>>

PumpEmpty ==
  /\ pumping = "pop"
  /\ count[class] = 0
  /\ Release(class)
  /\ ToNextClass
  /\ UNCHANGED <<slots, read, write, count, producer, pending, gate, timer, driver,
                 stats, history>>

PumpCopy ==
  /\ pumping = "pop"
  /\ count[class] # 0
  /\ pending' = Front(class)
  /\ pumping' = "popped"
  /\ UNCHANGED <<queues, producer, class, gate, timer, driver, stats, history>>

PumpRemove ==
  /\ pumping = "popped"
  /\ Remove(class)
  /\ Now(pending, "pending")
  /\ overtaken' = [f \in Frames |->
                     IF fate[f] = "queued" /\ ClassOf(f) < class /\ ClassOf(f) # Telemetry
                     THEN overtaken[f] + 1 ELSE overtaken[f]]
  /\ pumping' = "arm"
  /\ UNCHANGED <<producer, class, pending, gate, timer, driver, stats,
                 sends, acked, crossed, contended>>

PumpArm ==
  /\ pumping = "arm"
  /\ awaiting' = TRUE /\ age' = 0
  /\ pumping' = "clear"
  /\ UNCHANGED <<queues, producer, class, pending, event, timer, driver, stats, history>>

PumpClear_KeepsEvent ==
  /\ pumping = "clear"
  /\ crossed' = (air # {} \/ callback # NoFrame)
  /\ pumping' = "send"
  /\ UNCHANGED <<queues, producer, class, pending, gate, timer, driver, stats,
                 fate, sends, acked, passing>>

PumpClear ==
  /\ pumping = "clear"
  /\ event' = 0
  /\ crossed' = (air # {} \/ callback # NoFrame)
  /\ pumping' = "send"
  /\ UNCHANGED <<queues, producer, class, pending, awaiting, age, timer, driver, stats,
                 fate, sends, acked, passing>>

PumpSend ==
  /\ pumping = "send"
  /\ air' = air \cup {pending}
  /\ sends' = [sends EXCEPT ![pending] = @ + 1]
  /\ Now(pending, "sent")
  /\ pumping' = "idle"
  /\ UNCHANGED <<queues, producer, class, pending, gate, timer, callback, verdict,
                 stats, acked, crossed, passing>>

PumpSendError_StillAwaiting ==
  /\ pumping = "send"
  /\ Now(pending, "unsent")
  /\ pumping' = "drop"
  /\ UNCHANGED <<queues, producer, class, pending, gate, timer, driver, stats,
                 sends, acked, crossed, passing>>

\* The radio is off, or the driver has no room.
PumpSendError ==
  /\ pumping = "send"
  /\ awaiting' = FALSE
  /\ Now(pending, "unsent")
  /\ pumping' = "drop"
  /\ UNCHANGED <<queues, producer, class, pending, event, age, timer, driver, stats,
                 sends, acked, crossed, passing>>

-----------------------------------------------------------------------------
(* pump_telemetry(): the esp_timer.                                        *)

TimerLock ==
  /\ timing = "idle"
  /\ Acquire(Telemetry, Timer)
  /\ timing' = "pop"
  /\ UNCHANGED <<slots, read, write, count, producer, pump, gate, sample, driver,
                 stats, history>>

TimerEmpty ==
  /\ timing = "pop"
  /\ count[Telemetry] = 0
  /\ Release(Telemetry)
  /\ timing' = "idle"
  /\ UNCHANGED <<slots, read, write, count, producer, pump, gate, sample, driver,
                 stats, history>>

TimerCopy ==
  /\ timing = "pop"
  /\ count[Telemetry] # 0
  /\ sample' = Front(Telemetry)
  /\ timing' = "popped"
  /\ UNCHANGED <<queues, producer, pump, gate, driver, stats, history>>

TimerRemove ==
  /\ timing = "popped"
  /\ Remove(Telemetry)
  /\ Now(sample, "sample")
  /\ timing' = "send"
  /\ UNCHANGED <<producer, pump, gate, sample, driver, stats, sends, acked, crossed, passing>>

TimerSend ==
  /\ timing = "send"
  /\ air' = air \cup {sample}
  /\ sends' = [sends EXCEPT ![sample] = @ + 1]
  /\ crossed' = TRUE
  /\ Count("telemetry_sent")
  /\ Now(sample, "streamed")
  /\ timing' = "idle" /\ sample' = NoFrame
  /\ UNCHANGED <<queues, producer, pump, gate, callback, verdict, acked, passing>>

TimerShed ==
  /\ timing = "send"
  /\ Count("telemetry_dropped")
  /\ Now(sample, "shed")
  /\ timing' = "idle" /\ sample' = NoFrame
  /\ UNCHANGED <<queues, producer, pump, gate, driver, sends, acked, crossed, passing>>

-----------------------------------------------------------------------------
(* The driver ends a transmission in any order and late; its callback may    *)
(* never come.  handleSendStatic() passes on_delivery() the status alone,    *)
(* whichever frame and lane it belongs to.                                   *)

CallbackLoad(f, ok) ==
  /\ callback = NoFrame /\ f \in air
  /\ air' = air \ {f}
  /\ acked' = IF ok /\ ClassOf(f) # Telemetry THEN acked \cup {f} ELSE acked
  /\ IF awaiting THEN callback' = f /\ verdict' = ok ELSE UNCHANGED <<callback, verdict>>
  /\ UNCHANGED <<queues, producer, pump, gate, timer, stats, fate, sends, crossed, passing>>

CallbackStore ==
  /\ callback # NoFrame
  /\ event' = IF verdict THEN 1 ELSE 2
  /\ callback' = NoFrame /\ verdict' = FALSE
  /\ UNCHANGED <<queues, producer, pump, awaiting, age, timer, air, stats, history>>

CallbackLost(f) ==
  /\ air' = air \ {f}
  /\ UNCHANGED <<queues, producer, pump, gate, timer, callback, verdict, stats, history>>

Tick ==
  /\ awaiting /\ age < Timeout
  /\ age' = age + 1
  /\ UNCHANGED <<queues, producer, pump, awaiting, event, timer, driver, stats, history>>

\* An OTA upload session begins or ends.
UploadSession ==
  /\ paused' = ~paused
  /\ UNCHANGED <<queues, producer, pump, gate, timer, driver, stats, history>>

-----------------------------------------------------------------------------

Enqueue(p) ==
  \/ \E f \in Frames : EnqueueRefuse(p, f) \/ EnqueueLock(p, f)
  \/ EnqueueFull(p) \/ EnqueueCopy(p) \/ EnqueuePublish(p) \/ EnqueueCount(p)

PumpStep ==
  \/ PumpCall \/ PumpNothingAwaited \/ PumpWait
  \/ PumpDelivered \/ PumpFailed \/ PumpTimedOut \/ PumpLose \/ PumpRelease
  \/ PumpContended \/ PumpLock \/ PumpEmpty \/ PumpCopy \/ PumpRemove
  \/ PumpArm \/ PumpClear \/ PumpSend \/ PumpSendError

TimerStep == TimerLock \/ TimerEmpty \/ TimerCopy \/ TimerRemove \/ TimerSend \/ TimerShed

CallbackStep ==
  \/ \E f \in air : CallbackLost(f) \/ (\E ok \in BOOLEAN : CallbackLoad(f, ok))
  \/ CallbackStore

\* No step of a task touches the session.
Apart(A) == A /\ UNCHANGED paused

Next ==
  \/ \E p \in Producers : Apart(Enqueue(p))
  \/ Apart(PumpStep) \/ Apart(TimerStep) \/ Apart(CallbackStep) \/ Apart(Tick)
  \/ UploadSession

Spec == Init /\ [][Next]_vars

\* comms goes on calling pump() while no upload session is up and the esp_timer calls
\* pump_telemetry() forever, the clock runs, and a task that entered enqueue() or on_delivery()
\* leaves it.  Nothing is assumed of the radio, whose transmissions need never be reported, nor of
\* an upload session, which may last.
Fairness ==
  /\ WF_vars(Apart(PumpStep)) /\ WF_vars(Apart(TimerStep))
  /\ WF_vars(Apart(Tick)) /\ WF_vars(Apart(CallbackStore))
  /\ \A p \in Producers :
       WF_vars(Apart(EnqueueFull(p) \/ EnqueueCopy(p) \/ EnqueuePublish(p) \/ EnqueueCount(p)))

FairSpec == Spec /\ Fairness

-----------------------------------------------------------------------------

RingsOK ==
  /\ slots = [c \in Classes |-> slots[c]]
  /\ \A c \in Classes : slots[c] \in [0 .. Capacity[c] - 1 -> Frames \cup {NoFrame}]
  /\ read  \in [Classes -> Nat] /\ \A c \in Classes : read[c] < Capacity[c]
  /\ write \in [Classes -> Nat] /\ \A c \in Classes : write[c] < Capacity[c]
  /\ count \in [Classes -> Nat] /\ \A c \in Classes : count[c] <= Capacity[c]
  /\ lock  \in [Classes -> Producers \cup {Pump, Timer, Free}]

TasksOK ==
  /\ producing \in [Producers -> {"idle", "locked", "copied", "stored"}]
  /\ offered \in [Producers -> Frames \cup {NoFrame}]
  /\ pumping \in {"idle", "called", "lose", "release",
                  "scan", "pop", "popped", "arm", "clear", "send", "drop"}
  /\ class \in Classes \ {Telemetry} /\ pending \in Frames \cup {NoFrame}
  /\ awaiting \in BOOLEAN /\ event \in {0, 1, 2} /\ age \in 0 .. Timeout
  /\ timing \in {"idle", "pop", "popped", "send"} /\ sample \in Frames \cup {NoFrame}
  /\ air \subseteq Frames /\ callback \in Frames \cup {NoFrame} /\ verdict \in BOOLEAN

HistoryOK ==
  /\ stats \in [Counters -> Nat]
  /\ fate \in [Frames -> Fates] /\ sends \in [Frames -> Nat]
  /\ acked \subseteq Frames /\ crossed \in BOOLEAN
  /\ overtaken \in [Frames -> Nat] /\ contended \subseteq Frames

TypeOK == RingsOK /\ TasksOK /\ HistoryOK /\ paused \in BOOLEAN

\* The indices of a ring that hold a frame, oldest first from read.
Live(c) == {i \in 0 .. Capacity[c] - 1 :
              IF read[c] <= i THEN i - read[c] < count[c]
                              ELSE i + Capacity[c] - read[c] < count[c]}

At(s) == {f \in Frames : fate[f] = s}

\* No frame is lost, duplicated or handed over twice by rings whose producers and
\* consumer race for the lock: the live slots hold each queued frame once and
\* nothing else, and radio_send is called at most once for a frame, and never for one
\* whose producer was told it was dropped (enqueue, pop, pump, pump_telemetry).
NoFrameLostOrRepeated ==
  /\ \A f \in Frames :
       /\ fate[f] = "queued" <=> \E c \in Classes : \E i \in Live(c) : slots[c][i] = f
       /\ sends[f] <= 1
       /\ fate[f] \in {"new", "offered", "refused", "queued", "unsent"} => sends[f] = 0
  /\ \A c \in Classes : \A i, j \in Live(c) : slots[c][i] = slots[c][j] => i = j

\* The counters of Stats add up at any instant, although pump() raises the two of a loss one after
\* the other: every frame enqueue() has counted, or is about to count, is queued, in hand or in
\* exactly one outcome counter, a telemetry frame included; `dropped` mixes refusals with
\* the losses of pump(), but for the one it is about to count.
CountersAddUp ==
  LET losses == stats["timeouts"] + stats["delivery_failed"] + Cardinality(At("unsent"))
  IN /\ stats["accepted"] + Cardinality({p \in Producers : producing[p] = "stored"}) =
          Cardinality(At("queued") \cup At("pending") \cup At("sent") \cup At("sample"))
          + stats["delivered"] + losses + stats["telemetry_sent"] + stats["telemetry_dropped"]
     /\ stats["dropped"] + (IF pumping \in {"lose", "drop"} THEN 1 ELSE 0) =
          Cardinality(At("refused")) + losses

\* A frame that was alone in the driver from the moment pump() armed it is counted delivered
\* only when the air acknowledged it and failed only when it did not, although
\* on_delivery() is told no more than a status and may be cut between its load and its store.
VerdictHonestWhenAlone ==
  [][\A f \in Frames : ~crossed /\ fate[f] = "sent" =>
       /\ fate'[f] = "delivered" => f \in acked
       /\ fate'[f] = "failed" => f \notin acked]_vars

\* Urgency: a less urgent frame overtakes a queued one at most once -- in the pass that had
\* already looked at its ring -- unless a producer was inside that ring when pump() came by.
OvertakenAtMostOnce ==
  \A f \in Frames \ contended : overtaken[f] <= 1

\* The ring of a class as the sequence of its live slots, where a frame is in its life, and the
\* lane a class leaves on: what TxPromise speaks of.
Backlog(c) == [k \in 1 .. count[c] |-> slots[c][(read[c] + k - 1) % Capacity[c]]]

StageOf(s) ==
  CASE s \in {"new", "offered"}             -> "new"
    [] s = "refused"                        -> "refused"
    [] s = "queued"                         -> "waiting"
    [] s \in {"pending", "sent", "sample"}  -> "under way"
    [] OTHER                                -> "settled"

LaneOf(c) == c = Telemetry

Promise ==
  INSTANCE TxPromise WITH
    backlog <- [c \in Classes |-> Backlog(c)],
    stage   <- [f \in Frames |-> StageOf(fate[f])]

\* The rings, locks and lanes implement the FIFO promise of every class: accepted frames
\* leave in the order enqueue() took them, one at a time per lane.
KeepsPromise == Promise!Spec

\* Neither lane wedges: whatever callbacks are lost, late or misattributed, every frame accepted
\* leaves the scheduler -- a confirm-gated one unless an upload session comes up again and again or
\* stays, as comms skips pump() for as long as one is up.
QueuedFramesSettle ==
  \A f \in Frames :
    fate[f] \in {"queued", "pending", "sent", "sample"}
      ~> fate[f] \in Settled \/ (ClassOf(f) # Telemetry /\ paused)

\* TxScheduler.h: telemetry is "not folded into accepted/delivered/dropped", which "only ever
\* reflect the confirm-gated classes".  The code does not keep this: enqueue() counts every frame.
AcceptedIsConfirmGated ==
  stats["accepted"] <= Cardinality({f \in Frames : ClassOf(f) # Telemetry})

\* TxScheduler.h: "Only one frame may await a callback, which makes callback correlation
\* unambiguous": a frame counted as delivered was acknowledged.
\* The code does not keep this.
DeliveredMeansAcked == \A f \in Frames : fate[f] = "delivered" => f \in acked

=============================================================================
