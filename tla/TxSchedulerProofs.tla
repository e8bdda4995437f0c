-------------------------- MODULE TxSchedulerProofs --------------------------
(***************************************************************************)
(* Theorems about TxScheduler, for any frames, producers and capacities.   *)
(***************************************************************************)
EXTENDS TxScheduler, FiniteSetTheorems, SequenceTheorems, TLAPS

\* The facts on constants every step uses.
USE FramesAssumption, KindAssumption, ProducersAssumption, CapacityAssumption, TimeoutAssumption

LEMMA ClassOfIsClass == \A f \in Frames : ClassOf(f) \in Classes
BY DEF ClassOf, Classify, Classes, Kinds, CommandResult, Status, Terminal, CriticalLog, Telemetry, Debug

LEMMA ClassesAreSmall == Classes \subseteq Nat /\ Telemetry \in Classes /\ Debug \in Classes
                         /\ CommandResult \in Classes /\ Telemetry # CommandResult /\ Telemetry # Debug
BY DEF Classes, CommandResult, Telemetry, Debug

LEMMA AdvanceStaysInside ==
  ASSUME NEW c \in Classes, NEW i \in 0 .. Capacity[c] - 1
  PROVE  Advance(i, c) \in 0 .. Capacity[c] - 1
BY DEF Advance

LEMMA HoldersDiffer ==
  /\ Pump # Timer /\ Pump # Free /\ Timer # Free
  /\ \A p \in Producers : p # Pump /\ p # Timer /\ p # Free
BY DEF Pump, Timer, Free

\* Whoever is between the lock and the unlock of a ring holds its lock, a producer that has copied
\* its frame still has room for it, and a consumer that has copied one out still has it.
ProducersHoldLocks ==
  \A p \in Producers :
    producing[p] \in {"locked", "copied"} =>
      offered[p] \in Frames /\ lock[ClassOf(offered[p])] = p

CopiedHasRoom ==
  \A p \in Producers :
    producing[p] = "copied" => count[ClassOf(offered[p])] < Capacity[ClassOf(offered[p])]

ConsumersHoldLocks ==
  /\ pumping \in {"pop", "popped"} => lock[class] = Pump
  /\ pumping = "popped" => count[class] > 0
  /\ timing \in {"pop", "popped"} => lock[Telemetry] = Timer
  /\ timing = "popped" => count[Telemetry] > 0

LockDiscipline == ProducersHoldLocks /\ CopiedHasRoom /\ ConsumersHoldLocks

Safe == TypeOK /\ LockDiscipline

\* A ring is contiguous, and its live slots hold the queued frames of its class, once each.
RingsContiguous ==
  \A c \in Classes :
    write[c] = IF read[c] + count[c] < Capacity[c] THEN read[c] + count[c]
                                                  ELSE read[c] + count[c] - Capacity[c]

LiveAreQueued ==
  \A c \in Classes : \A i \in Live(c) :
    slots[c][i] \in Frames /\ fate[slots[c][i]] = "queued" /\ ClassOf(slots[c][i]) = c

LiveDiffer == \A c \in Classes : \A i, j \in Live(c) : slots[c][i] = slots[c][j] => i = j

QueuedAreLive ==
  \A f \in Frames : fate[f] = "queued" => \E i \in Live(ClassOf(f)) : slots[ClassOf(f)][i] = f

Places == RingsContiguous /\ LiveAreQueued /\ LiveDiffer /\ QueuedAreLive

\* A frame a task has in hand is in no ring, and awaiting_delivery_ is up only for a frame that
\* was handed over, or is about to be.
ProducersInHand ==
  \A p \in Producers :
    /\ producing[p] \in {"locked", "copied"} => fate[offered[p]] = "offered"
    /\ producing[p] = "copied" =>
         slots[ClassOf(offered[p])][write[ClassOf(offered[p])]] = offered[p]

PumpInHand ==
  /\ pumping = "popped" => pending = Front(class)
  /\ pumping \in {"arm", "clear", "send"} => pending \in Frames /\ fate[pending] = "pending"
  /\ awaiting => pumping \in {"idle", "called", "lose", "release", "clear", "send"}
  /\ awaiting /\ pumping \in {"idle", "called"} => pending \in Frames /\ fate[pending] = "sent"

TimerInHand ==
  /\ timing = "popped" => sample = Front(Telemetry)
  /\ timing = "send" => sample \in Frames /\ fate[sample] = "sample"

InHand == ProducersInHand /\ PumpInHand /\ TimerInHand

HandedOver == {"sent", "delivered", "failed", "expired", "streamed"}
SendsCounted == \A f \in Frames : sends[f] = IF fate[f] \in HandedOver THEN 1 ELSE 0

IInv == Safe /\ Places /\ InHand /\ SendsCounted

LEMMA NowTyped ==
  ASSUME fate \in [Frames -> Fates], NEW f, NEW s \in Fates, Now(f, s)
  PROVE  fate' \in [Frames -> Fates]
BY DEF Now

LEMMA CountTyped ==
  ASSUME stats \in [Counters -> Nat], NEW k \in Counters, Count(k)
  PROVE  stats' \in [Counters -> Nat]
BY DEF Count

LEMMA NextClassTyped ==
  ASSUME class \in Classes \ {Telemetry}, ToNextClass
  PROVE  pumping' \in {"idle", "scan"} /\ class' \in Classes \ {Telemetry}
BY DEF ToNextClass, Classes, CommandResult, Telemetry, Debug

LEMMA FrontTyped ==
  ASSUME RingsOK, NEW c \in Classes
  PROVE  Front(c) \in Frames \cup {NoFrame}
BY DEF RingsOK, Front

LEMMA InitSafe == Init => Safe
<1> SUFFICES ASSUME Init PROVE Safe
  OBVIOUS
<1> USE ClassesAreSmall
<1>1. RingsOK
  BY DEF Init, RingsOK
<1>2. TasksOK
  <2>1. age \in 0 .. Timeout /\ event \in 0 .. 2 /\ class \in Classes \ {Telemetry}
    BY DEF Init
  <2> QED BY <2>1 DEF Init, TasksOK
<1>3. HistoryOK
  BY DEF Init, HistoryOK, Counters, Fates
<1>4. LockDiscipline
  BY DEF Init, LockDiscipline, ProducersHoldLocks, CopiedHasRoom, ConsumersHoldLocks
<1>5. paused \in BOOLEAN
  BY DEF Init
<1> QED BY <1>1, <1>2, <1>3, <1>4, <1>5 DEF Safe, TypeOK

-----------------------------------------------------------------------------

LEMMA EnqueueSafe ==
  ASSUME Safe, NEW p \in Producers, Enqueue(p), UNCHANGED paused
  PROVE  Safe'
<1> DEFINE c == ClassOf(offered[p])
<1>a. RingsOK /\ TasksOK /\ HistoryOK /\ ProducersHoldLocks /\ CopiedHasRoom /\ ConsumersHoldLocks
  BY DEF Safe, TypeOK, LockDiscipline
<1>b. producing[p] \in {"locked", "copied"} =>
        /\ c \in Classes /\ lock[c] = p
        /\ pumping \in {"pop", "popped"} => class # c
        /\ timing \in {"pop", "popped"} => Telemetry # c
        /\ \A q \in Producers \ {p} : producing[q] \in {"locked", "copied"} => ClassOf(offered[q]) # c
  BY <1>a, ClassOfIsClass, HoldersDiffer DEF ProducersHoldLocks, ConsumersHoldLocks
<1> SUFFICES RingsOK' /\ TasksOK' /\ HistoryOK' /\ ProducersHoldLocks' /\ CopiedHasRoom'
             /\ ConsumersHoldLocks'
  BY DEF Safe, TypeOK, LockDiscipline
<1> HIDE DEF c
<1>1. ASSUME NEW f \in Frames, EnqueueRefuse(p, f)
      PROVE  RingsOK' /\ TasksOK' /\ HistoryOK' /\ ProducersHoldLocks' /\ CopiedHasRoom'
             /\ ConsumersHoldLocks'
  <2> USE <1>1 DEF EnqueueRefuse, queues, producer, pump, gate, timer, driver, passing
  <2>1. RingsOK'
    BY <1>a DEF RingsOK
  <2>2. TasksOK'
    BY <1>a DEF TasksOK
  <2>3. HistoryOK'
    BY <1>a, NowTyped, CountTyped DEF HistoryOK, Fates, Counters, Settled
  <2>4. ProducersHoldLocks' /\ CopiedHasRoom'
    BY <1>a DEF ProducersHoldLocks, CopiedHasRoom
  <2>5. ConsumersHoldLocks'
    BY <1>a DEF ConsumersHoldLocks
  <2> QED BY <2>1, <2>2, <2>3, <2>4, <2>5
<1>2. ASSUME NEW f \in Frames, EnqueueLock(p, f)
      PROVE  RingsOK' /\ TasksOK' /\ HistoryOK' /\ ProducersHoldLocks' /\ CopiedHasRoom'
             /\ ConsumersHoldLocks'
  <2> USE <1>2 DEF EnqueueLock, pump, gate, timer, driver, passing
  <2>0. ClassOf(f) \in Classes /\ lock[ClassOf(f)] = Free
    BY ClassOfIsClass DEF Acquire
  <2>1. RingsOK'
    BY <1>a DEF RingsOK, Acquire
  <2>2. TasksOK'
    BY <1>a DEF TasksOK
  <2>3. HistoryOK'
    BY <1>a, NowTyped DEF HistoryOK, Fates, Settled
  <2>4. ProducersHoldLocks' /\ CopiedHasRoom'
    BY <1>a, <2>0, HoldersDiffer DEF ProducersHoldLocks, CopiedHasRoom, RingsOK, TasksOK, Acquire
  <2>5. ConsumersHoldLocks'
    BY <1>a, <2>0, HoldersDiffer DEF ConsumersHoldLocks, RingsOK, Acquire
  <2> QED BY <2>1, <2>2, <2>3, <2>4, <2>5
<1>3. CASE EnqueueFull(p)
  <2> USE <1>3 DEF EnqueueFull, pump, gate, timer, driver, passing
  <2>1. RingsOK'
    BY <1>a DEF RingsOK, Release
  <2>2. TasksOK'
    BY <1>a DEF TasksOK
  <2>3. HistoryOK'
    BY <1>a, NowTyped, CountTyped DEF HistoryOK, Fates, Counters, Settled
  <2>4. ProducersHoldLocks' /\ CopiedHasRoom'
    BY <1>a, <1>b DEF c, ProducersHoldLocks, CopiedHasRoom, RingsOK, TasksOK, Release
  <2>5. ConsumersHoldLocks'
    BY <1>a, <1>b DEF c, ConsumersHoldLocks, RingsOK, Release
  <2> QED BY <2>1, <2>2, <2>3, <2>4, <2>5
<1>4. CASE EnqueueCopy(p)
  <2> USE <1>4 DEF EnqueueCopy, pump, gate, timer, driver, history, passing
  <2>1. RingsOK'
    BY <1>a, <1>b DEF c, RingsOK, TasksOK
  <2>2. TasksOK'
    BY <1>a DEF TasksOK
  <2>3. HistoryOK'
    BY <1>a DEF HistoryOK
  <2>4. ProducersHoldLocks' /\ CopiedHasRoom'
    BY <1>a DEF ProducersHoldLocks, CopiedHasRoom, TasksOK
  <2>5. ConsumersHoldLocks'
    BY <1>a DEF ConsumersHoldLocks
  <2> QED BY <2>1, <2>2, <2>3, <2>4, <2>5
<1>5. CASE EnqueuePublish(p)
  <2> USE <1>5 DEF EnqueuePublish, pump, gate, timer, driver, passing
  <2>0. Advance(write[c], c) \in 0 .. Capacity[c] - 1 /\ count[c] < Capacity[c]
    BY <1>a, <1>b, AdvanceStaysInside DEF c, RingsOK, CopiedHasRoom
  <2>1. RingsOK'
    BY <1>a, <1>b, <2>0 DEF c, RingsOK, Release
  <2>2. TasksOK'
    BY <1>a DEF TasksOK
  <2>3. HistoryOK'
    BY <1>a, NowTyped DEF HistoryOK, Fates, Settled
  <2>4. ProducersHoldLocks' /\ CopiedHasRoom'
    BY <1>a, <1>b DEF c, ProducersHoldLocks, CopiedHasRoom, RingsOK, TasksOK, Release
  <2>5. ConsumersHoldLocks'
    BY <1>a, <1>b DEF c, ConsumersHoldLocks, RingsOK, Release
  <2> QED BY <2>1, <2>2, <2>3, <2>4, <2>5
<1>6. CASE EnqueueCount(p)
  <2> USE <1>6 DEF EnqueueCount, queues, pump, gate, timer, driver, history, passing
  <2>1. RingsOK'
    BY <1>a DEF RingsOK
  <2>2. TasksOK'
    BY <1>a DEF TasksOK
  <2>3. HistoryOK'
    BY <1>a, NowTyped, CountTyped DEF HistoryOK, Fates, Counters, Settled
  <2>4. ProducersHoldLocks' /\ CopiedHasRoom'
    BY <1>a DEF ProducersHoldLocks, CopiedHasRoom, TasksOK
  <2>5. ConsumersHoldLocks'
    BY <1>a DEF ConsumersHoldLocks
  <2> QED BY <2>1, <2>2, <2>3, <2>4, <2>5
<1> QED BY <1>1, <1>2, <1>3, <1>4, <1>5, <1>6 DEF Enqueue

LEMMA PumpSafe ==
  ASSUME Safe, InHand, PumpStep, UNCHANGED paused
  PROVE  Safe'
<1> DEFINE c == class
<1>a. RingsOK /\ TasksOK /\ HistoryOK /\ ProducersHoldLocks /\ CopiedHasRoom /\ ConsumersHoldLocks
  BY DEF Safe, TypeOK, LockDiscipline
<1>b. /\ c \in Classes \ {Telemetry}
      /\ pumping \in {"pop", "popped"} =>
           /\ lock[c] = Pump
           /\ \A q \in Producers : producing[q] \in {"locked", "copied"} => ClassOf(offered[q]) # c
  BY <1>a, ClassOfIsClass, HoldersDiffer DEF ProducersHoldLocks, ConsumersHoldLocks, TasksOK
<1> SUFFICES RingsOK' /\ TasksOK' /\ HistoryOK' /\ ProducersHoldLocks' /\ CopiedHasRoom'
             /\ ConsumersHoldLocks'
  BY DEF Safe, TypeOK, LockDiscipline
<1>1. CASE PumpNothingAwaited
  <2> USE <1>1 DEF PumpNothingAwaited, queues, producer, gate, timer, driver, history, passing, BeginScan
  <2>1. RingsOK'
    BY <1>a DEF RingsOK
  <2>2. TasksOK'
    BY <1>a, ClassesAreSmall DEF TasksOK
  <2>3. HistoryOK'
    BY <1>a DEF HistoryOK
  <2>4. ProducersHoldLocks' /\ CopiedHasRoom'
    BY <1>a DEF ProducersHoldLocks, CopiedHasRoom
  <2>5. ConsumersHoldLocks'
    BY <1>a DEF ConsumersHoldLocks
  <2> QED BY <2>1, <2>2, <2>3, <2>4, <2>5
<1>2. CASE PumpDelivered
  <2> USE <1>2 DEF PumpDelivered, producer, timer, driver, passing, queues
  <2>1. RingsOK'
    BY <1>a DEF RingsOK
  <2>2. TasksOK'
    BY <1>a, ClassesAreSmall DEF TasksOK
  <2>3. HistoryOK'
    BY <1>a, NowTyped, CountTyped DEF HistoryOK, Fates, Counters, Settled
  <2>4. ProducersHoldLocks' /\ CopiedHasRoom'
    BY <1>a DEF ProducersHoldLocks, CopiedHasRoom
  <2>5. ConsumersHoldLocks'
    BY <1>a DEF ConsumersHoldLocks
  <2> QED BY <2>1, <2>2, <2>3, <2>4, <2>5
<1>3. CASE PumpFailed
  <2> USE <1>3 DEF PumpFailed, producer, timer, driver, passing, queues
  <2>1. RingsOK'
    BY <1>a DEF RingsOK
  <2>2. TasksOK'
    BY <1>a, ClassesAreSmall DEF TasksOK
  <2>3. HistoryOK'
    BY <1>a, NowTyped, CountTyped DEF HistoryOK, Fates, Counters, Settled
  <2>4. ProducersHoldLocks' /\ CopiedHasRoom'
    BY <1>a DEF ProducersHoldLocks, CopiedHasRoom
  <2>5. ConsumersHoldLocks'
    BY <1>a DEF ConsumersHoldLocks
  <2> QED BY <2>1, <2>2, <2>3, <2>4, <2>5
<1>4. CASE PumpTimedOut
  <2> USE <1>4 DEF PumpTimedOut, producer, gate, timer, driver, passing, queues
  <2>1. RingsOK'
    BY <1>a DEF RingsOK
  <2>2. TasksOK'
    BY <1>a, ClassesAreSmall DEF TasksOK
  <2>3. HistoryOK'
    BY <1>a, NowTyped, CountTyped DEF HistoryOK, Fates, Counters, Settled
  <2>4. ProducersHoldLocks' /\ CopiedHasRoom'
    BY <1>a DEF ProducersHoldLocks, CopiedHasRoom
  <2>5. ConsumersHoldLocks'
    BY <1>a DEF ConsumersHoldLocks
  <2> QED BY <2>1, <2>2, <2>3, <2>4, <2>5
<1>5. CASE PumpContended
  <2> USE <1>5 DEF PumpContended, queues, producer, gate, timer, driver, passing
  <2>0. pumping' \in {"idle", "scan"} /\ class' \in Classes \ {Telemetry}
    BY <1>b, NextClassTyped
  <2>1. RingsOK'
    BY <1>a DEF RingsOK
  <2>2. TasksOK'
    BY <1>a, <2>0 DEF TasksOK
  <2>3. HistoryOK'
    BY <1>a DEF HistoryOK
  <2>4. ProducersHoldLocks' /\ CopiedHasRoom'
    BY <1>a DEF ProducersHoldLocks, CopiedHasRoom
  <2>5. ConsumersHoldLocks'
    BY <1>a, <2>0 DEF ConsumersHoldLocks
  <2> QED BY <2>1, <2>2, <2>3, <2>4, <2>5
<1>6. CASE PumpLock
  <2> USE <1>6 DEF PumpLock, producer, gate, timer, driver, history, passing
  <2>1. RingsOK'
    BY <1>a DEF RingsOK, Acquire
  <2>2. TasksOK'
    BY <1>a DEF TasksOK
  <2>3. HistoryOK'
    BY <1>a DEF HistoryOK
  <2>4. ProducersHoldLocks' /\ CopiedHasRoom'
    BY <1>a, <1>b, HoldersDiffer DEF ProducersHoldLocks, CopiedHasRoom, RingsOK, Acquire
  <2>5. ConsumersHoldLocks'
    BY <1>a, <1>b, HoldersDiffer DEF ConsumersHoldLocks, RingsOK, Acquire
  <2> QED BY <2>1, <2>2, <2>3, <2>4, <2>5
<1>7. CASE PumpEmpty
  <2> USE <1>7 DEF PumpEmpty, producer, gate, timer, driver, history, passing
  <2>0. pumping' \in {"idle", "scan"} /\ class' \in Classes \ {Telemetry}
    BY <1>b, NextClassTyped
  <2>1. RingsOK'
    BY <1>a DEF RingsOK, Release
  <2>2. TasksOK'
    BY <1>a, <2>0 DEF TasksOK
  <2>3. HistoryOK'
    BY <1>a DEF HistoryOK
  <2>4. ProducersHoldLocks' /\ CopiedHasRoom'
    BY <1>a, <1>b DEF ProducersHoldLocks, CopiedHasRoom, RingsOK, Release
  <2>5. ConsumersHoldLocks'
    BY <1>a, <1>b, <2>0 DEF ConsumersHoldLocks, RingsOK, Release
  <2> QED BY <2>1, <2>2, <2>3, <2>4, <2>5
<1>8. CASE PumpCopy
  <2> USE <1>8 DEF PumpCopy, producer, queues, gate, timer, driver, history, passing
  <2>1. RingsOK'
    BY <1>a DEF RingsOK
  <2>2. TasksOK'
    BY <1>a, <1>b, FrontTyped DEF TasksOK, ConsumersHoldLocks
  <2>3. HistoryOK'
    BY <1>a DEF HistoryOK
  <2>4. ProducersHoldLocks' /\ CopiedHasRoom'
    BY <1>a DEF ProducersHoldLocks, CopiedHasRoom
  <2>5. ConsumersHoldLocks'
    BY <1>a, <1>b DEF ConsumersHoldLocks, RingsOK
  <2> QED BY <2>1, <2>2, <2>3, <2>4, <2>5
<1>9. CASE PumpRemove
  <2> USE <1>9 DEF PumpRemove, producer, gate, timer, driver
  <2>0. /\ read' = [read EXCEPT ![c] = Advance(@, c)] /\ Advance(read[c], c) \in 0 .. Capacity[c] - 1
        /\ count' = [count EXCEPT ![c] = @ - 1] /\ count[c] > 0
        /\ lock' = [lock EXCEPT ![c] = Free]
        /\ UNCHANGED <<slots, write>>
    BY <1>a, <1>b, AdvanceStaysInside DEF Remove, Release, RingsOK, ConsumersHoldLocks
  <2>1. RingsOK'
    BY <1>a, <1>b, <2>0 DEF RingsOK
  <2>2. TasksOK'
    BY <1>a DEF TasksOK
  <2>3. HistoryOK'
    BY <1>a, NowTyped DEF HistoryOK, Fates, Settled
  <2>4. ProducersHoldLocks' /\ CopiedHasRoom'
    BY <1>a, <1>b, <2>0 DEF ProducersHoldLocks, CopiedHasRoom, RingsOK
  <2>5. ConsumersHoldLocks'
    BY <1>a, <1>b, <2>0 DEF ConsumersHoldLocks, RingsOK
  <2> QED BY <2>1, <2>2, <2>3, <2>4, <2>5
<1>10. CASE PumpArm
  <2> USE <1>10 DEF PumpArm, queues, producer, timer, driver, history, passing
  <2>1. RingsOK'
    BY <1>a DEF RingsOK
  <2>2. TasksOK'
    BY <1>a DEF TasksOK
  <2>3. HistoryOK'
    BY <1>a DEF HistoryOK
  <2>4. ProducersHoldLocks' /\ CopiedHasRoom'
    BY <1>a DEF ProducersHoldLocks, CopiedHasRoom
  <2>5. ConsumersHoldLocks'
    BY <1>a DEF ConsumersHoldLocks
  <2> QED BY <2>1, <2>2, <2>3, <2>4, <2>5
<1>11. CASE PumpClear
  <2> USE <1>11 DEF PumpClear, queues, producer, timer, driver, passing
  <2>1. RingsOK'
    BY <1>a DEF RingsOK
  <2>2. TasksOK'
    BY <1>a DEF TasksOK
  <2>3. HistoryOK'
    BY <1>a DEF HistoryOK
  <2>4. ProducersHoldLocks' /\ CopiedHasRoom'
    BY <1>a DEF ProducersHoldLocks, CopiedHasRoom
  <2>5. ConsumersHoldLocks'
    BY <1>a DEF ConsumersHoldLocks
  <2> QED BY <2>1, <2>2, <2>3, <2>4, <2>5
<1>12. CASE PumpSend
  <2> USE <1>12 DEF PumpSend, queues, producer, gate, timer, passing
  <2>0. pending \in Frames /\ sends[pending] + 1 \in Nat
    BY <1>a DEF InHand, PumpInHand, HistoryOK
  <2>1. RingsOK'
    BY <1>a DEF RingsOK
  <2>2. TasksOK'
    BY <1>a, <2>0 DEF TasksOK
  <2>3. HistoryOK'
    BY <1>a, <2>0, NowTyped DEF HistoryOK, Fates, Settled
  <2>4. ProducersHoldLocks' /\ CopiedHasRoom'
    BY <1>a DEF ProducersHoldLocks, CopiedHasRoom
  <2>5. ConsumersHoldLocks'
    BY <1>a DEF ConsumersHoldLocks
  <2> QED BY <2>1, <2>2, <2>3, <2>4, <2>5
<1>13. CASE PumpSendError
  <2> USE <1>13 DEF PumpSendError, queues, producer, timer, driver, passing
  <2>1. RingsOK'
    BY <1>a DEF RingsOK
  <2>2. TasksOK'
    BY <1>a DEF TasksOK
  <2>3. HistoryOK'
    BY <1>a, NowTyped, CountTyped DEF HistoryOK, Fates, Counters, Settled
  <2>4. ProducersHoldLocks' /\ CopiedHasRoom'
    BY <1>a DEF ProducersHoldLocks, CopiedHasRoom
  <2>5. ConsumersHoldLocks'
    BY <1>a DEF ConsumersHoldLocks
  <2> QED BY <2>1, <2>2, <2>3, <2>4, <2>5
<1>14. CASE PumpCall
  <2> USE <1>14 DEF PumpCall, queues, producer, gate, timer, driver, history, passing
  <2>1. RingsOK'
    BY <1>a DEF RingsOK
  <2>2. TasksOK'
    BY <1>a, ClassesAreSmall DEF TasksOK
  <2>3. HistoryOK'
    BY <1>a DEF HistoryOK
  <2>4. ProducersHoldLocks' /\ CopiedHasRoom'
    BY <1>a DEF ProducersHoldLocks, CopiedHasRoom
  <2>5. ConsumersHoldLocks'
    BY <1>a DEF ConsumersHoldLocks
  <2> QED BY <2>1, <2>2, <2>3, <2>4, <2>5
<1>15. CASE PumpWait
  <2> USE <1>15 DEF PumpWait, queues, producer, gate, timer, driver, history, passing
  <2>1. RingsOK'
    BY <1>a DEF RingsOK
  <2>2. TasksOK'
    BY <1>a, ClassesAreSmall DEF TasksOK
  <2>3. HistoryOK'
    BY <1>a DEF HistoryOK
  <2>4. ProducersHoldLocks' /\ CopiedHasRoom'
    BY <1>a DEF ProducersHoldLocks, CopiedHasRoom
  <2>5. ConsumersHoldLocks'
    BY <1>a DEF ConsumersHoldLocks
  <2> QED BY <2>1, <2>2, <2>3, <2>4, <2>5
<1>16. CASE PumpLose
  <2> USE <1>16 DEF PumpLose, queues, producer, gate, timer, driver, history, passing
  <2>1. RingsOK'
    BY <1>a DEF RingsOK
  <2>2. TasksOK'
    BY <1>a, ClassesAreSmall DEF TasksOK
  <2>3. HistoryOK'
    BY <1>a, CountTyped DEF HistoryOK, Counters
  <2>4. ProducersHoldLocks' /\ CopiedHasRoom'
    BY <1>a DEF ProducersHoldLocks, CopiedHasRoom
  <2>5. ConsumersHoldLocks'
    BY <1>a DEF ConsumersHoldLocks
  <2> QED BY <2>1, <2>2, <2>3, <2>4, <2>5
<1>17. CASE PumpRelease
  <2> USE <1>17 DEF PumpRelease, queues, producer, gate, timer, driver, history, passing, BeginScan
  <2>1. RingsOK'
    BY <1>a DEF RingsOK
  <2>2. TasksOK'
    BY <1>a, ClassesAreSmall DEF TasksOK
  <2>3. HistoryOK'
    BY <1>a DEF HistoryOK
  <2>4. ProducersHoldLocks' /\ CopiedHasRoom'
    BY <1>a DEF ProducersHoldLocks, CopiedHasRoom
  <2>5. ConsumersHoldLocks'
    BY <1>a DEF ConsumersHoldLocks
  <2> QED BY <2>1, <2>2, <2>3, <2>4, <2>5
<1> QED
  BY <1>1, <1>2, <1>3, <1>4, <1>5, <1>6, <1>7, <1>8, <1>9, <1>10, <1>11, <1>12, <1>13, <1>14, <1>15,
     <1>16, <1>17 DEF PumpStep

LEMMA TimerSafe ==
  ASSUME Safe, InHand, TimerStep, UNCHANGED paused
  PROVE  Safe'
<1> DEFINE c == Telemetry
<1>a. RingsOK /\ TasksOK /\ HistoryOK /\ ProducersHoldLocks /\ CopiedHasRoom /\ ConsumersHoldLocks
  BY DEF Safe, TypeOK, LockDiscipline
<1>b. /\ c \in Classes
      /\ timing \in {"pop", "popped"} =>
           /\ lock[c] = Timer
           /\ \A q \in Producers : producing[q] \in {"locked", "copied"} => ClassOf(offered[q]) # c
      /\ class # c
  BY <1>a, ClassOfIsClass, ClassesAreSmall, HoldersDiffer DEF ProducersHoldLocks, ConsumersHoldLocks, TasksOK
<1> SUFFICES RingsOK' /\ TasksOK' /\ HistoryOK' /\ ProducersHoldLocks' /\ CopiedHasRoom'
             /\ ConsumersHoldLocks'
  BY DEF Safe, TypeOK, LockDiscipline
<1> HIDE DEF c
<1>1. CASE TimerLock
  <2> USE <1>1 DEF TimerLock, producer, pump, gate, driver, history, passing
  <2>1. RingsOK'
    BY <1>a DEF RingsOK, Acquire
  <2>2. TasksOK'
    BY <1>a DEF TasksOK
  <2>3. HistoryOK'
    BY <1>a DEF HistoryOK
  <2>4. ProducersHoldLocks' /\ CopiedHasRoom'
    BY <1>a, <1>b, HoldersDiffer DEF c, ProducersHoldLocks, CopiedHasRoom, RingsOK, Acquire
  <2>5. ConsumersHoldLocks'
    BY <1>a, <1>b, HoldersDiffer DEF c, ConsumersHoldLocks, RingsOK, Acquire
  <2> QED BY <2>1, <2>2, <2>3, <2>4, <2>5
<1>2. CASE TimerEmpty
  <2> USE <1>2 DEF TimerEmpty, producer, pump, gate, driver, history, passing
  <2>1. RingsOK'
    BY <1>a DEF RingsOK, Release
  <2>2. TasksOK'
    BY <1>a DEF TasksOK
  <2>3. HistoryOK'
    BY <1>a DEF HistoryOK
  <2>4. ProducersHoldLocks' /\ CopiedHasRoom'
    BY <1>a, <1>b DEF c, ProducersHoldLocks, CopiedHasRoom, RingsOK, Release
  <2>5. ConsumersHoldLocks'
    BY <1>a, <1>b DEF c, ConsumersHoldLocks, RingsOK, Release
  <2> QED BY <2>1, <2>2, <2>3, <2>4, <2>5
<1>3. CASE TimerCopy
  <2> USE <1>3 DEF TimerCopy, queues, producer, pump, gate, driver, history, passing
  <2>1. RingsOK'
    BY <1>a DEF RingsOK
  <2>2. TasksOK'
    BY <1>a, <1>b, FrontTyped DEF c, TasksOK
  <2>3. HistoryOK'
    BY <1>a DEF HistoryOK
  <2>4. ProducersHoldLocks' /\ CopiedHasRoom'
    BY <1>a DEF ProducersHoldLocks, CopiedHasRoom
  <2>5. ConsumersHoldLocks'
    BY <1>a, <1>b DEF c, ConsumersHoldLocks, RingsOK
  <2> QED BY <2>1, <2>2, <2>3, <2>4, <2>5
<1>4. CASE TimerRemove
  <2> USE <1>4 DEF TimerRemove, producer, pump, gate, driver, passing
  <2>0. /\ read' = [read EXCEPT ![c] = Advance(@, c)] /\ Advance(read[c], c) \in 0 .. Capacity[c] - 1
        /\ count' = [count EXCEPT ![c] = @ - 1] /\ count[c] > 0
        /\ lock' = [lock EXCEPT ![c] = Free]
        /\ UNCHANGED <<slots, write>>
    BY <1>a, <1>b, AdvanceStaysInside DEF c, Remove, Release, RingsOK, ConsumersHoldLocks
  <2>1. RingsOK'
    BY <1>a, <1>b, <2>0 DEF RingsOK
  <2>2. TasksOK'
    BY <1>a DEF TasksOK
  <2>3. HistoryOK'
    BY <1>a, NowTyped DEF HistoryOK, Fates, Settled
  <2>4. ProducersHoldLocks' /\ CopiedHasRoom'
    BY <1>a, <1>b, <2>0 DEF ProducersHoldLocks, CopiedHasRoom, RingsOK
  <2>5. ConsumersHoldLocks'
    BY <1>a, <1>b, <2>0 DEF c, ConsumersHoldLocks, RingsOK
  <2> QED BY <2>1, <2>2, <2>3, <2>4, <2>5
<1>5. CASE TimerSend
  <2> USE <1>5 DEF TimerSend, queues, producer, pump, gate, passing
  <2>0. sample \in Frames /\ sends[sample] + 1 \in Nat
    BY <1>a DEF InHand, TimerInHand, HistoryOK
  <2>1. RingsOK'
    BY <1>a DEF RingsOK
  <2>2. TasksOK'
    BY <1>a, <2>0 DEF TasksOK
  <2>3. HistoryOK'
    BY <1>a, <2>0, NowTyped, CountTyped DEF HistoryOK, Fates, Counters, Settled
  <2>4. ProducersHoldLocks' /\ CopiedHasRoom'
    BY <1>a DEF ProducersHoldLocks, CopiedHasRoom
  <2>5. ConsumersHoldLocks'
    BY <1>a DEF ConsumersHoldLocks
  <2> QED BY <2>1, <2>2, <2>3, <2>4, <2>5
<1>6. CASE TimerShed
  <2> USE <1>6 DEF TimerShed, queues, producer, pump, gate, driver, passing
  <2>1. RingsOK'
    BY <1>a DEF RingsOK
  <2>2. TasksOK'
    BY <1>a DEF TasksOK
  <2>3. HistoryOK'
    BY <1>a, NowTyped, CountTyped DEF HistoryOK, Fates, Counters, Settled
  <2>4. ProducersHoldLocks' /\ CopiedHasRoom'
    BY <1>a DEF ProducersHoldLocks, CopiedHasRoom
  <2>5. ConsumersHoldLocks'
    BY <1>a DEF ConsumersHoldLocks
  <2> QED BY <2>1, <2>2, <2>3, <2>4, <2>5
<1> QED BY <1>1, <1>2, <1>3, <1>4, <1>5, <1>6 DEF TimerStep

LEMMA DriverSafe ==
  ASSUME Safe, CallbackStep \/ Tick, UNCHANGED paused
  PROVE  Safe'
<1>a. RingsOK /\ TasksOK /\ HistoryOK /\ ProducersHoldLocks /\ CopiedHasRoom /\ ConsumersHoldLocks
  BY DEF Safe, TypeOK, LockDiscipline
<1> SUFFICES RingsOK' /\ TasksOK' /\ HistoryOK' /\ ProducersHoldLocks' /\ CopiedHasRoom'
             /\ ConsumersHoldLocks'
  BY DEF Safe, TypeOK, LockDiscipline
<1>1. ASSUME NEW f \in air, NEW ok \in BOOLEAN, CallbackLoad(f, ok)
      PROVE  RingsOK' /\ TasksOK' /\ HistoryOK' /\ ProducersHoldLocks' /\ CopiedHasRoom'
             /\ ConsumersHoldLocks'
  <2> USE <1>1 DEF CallbackLoad, queues, producer, pump, gate, timer, history, passing
  <2>1. RingsOK'
    BY <1>a DEF RingsOK
  <2>2. TasksOK'
    BY <1>a DEF TasksOK
  <2>3. HistoryOK'
    BY <1>a DEF HistoryOK, TasksOK
  <2>4. ProducersHoldLocks' /\ CopiedHasRoom' /\ ConsumersHoldLocks'
    BY <1>a DEF ProducersHoldLocks, CopiedHasRoom, ConsumersHoldLocks
  <2> QED BY <2>1, <2>2, <2>3, <2>4
<1>2. ASSUME NEW f \in air, CallbackLost(f)
      PROVE  RingsOK' /\ TasksOK' /\ HistoryOK' /\ ProducersHoldLocks' /\ CopiedHasRoom'
             /\ ConsumersHoldLocks'
  <2> USE <1>2 DEF CallbackLost, driver, queues, producer, pump, gate, timer, history, passing
  <2>1. RingsOK'
    BY <1>a DEF RingsOK
  <2>2. TasksOK'
    BY <1>a DEF TasksOK
  <2>3. HistoryOK'
    BY <1>a DEF HistoryOK, TasksOK
  <2>4. ProducersHoldLocks' /\ CopiedHasRoom' /\ ConsumersHoldLocks'
    BY <1>a DEF ProducersHoldLocks, CopiedHasRoom, ConsumersHoldLocks
  <2> QED BY <2>1, <2>2, <2>3, <2>4
<1>3. CASE CallbackStore
  <2> USE <1>3 DEF CallbackStore, queues, producer, pump, gate, timer, history, passing
  <2>1. RingsOK'
    BY <1>a DEF RingsOK
  <2>2. TasksOK'
    BY <1>a DEF TasksOK
  <2>3. HistoryOK'
    BY <1>a DEF HistoryOK, TasksOK
  <2>4. ProducersHoldLocks' /\ CopiedHasRoom' /\ ConsumersHoldLocks'
    BY <1>a DEF ProducersHoldLocks, CopiedHasRoom, ConsumersHoldLocks
  <2> QED BY <2>1, <2>2, <2>3, <2>4
<1>4. CASE Tick
  <2> USE <1>4 DEF Tick, driver, queues, producer, pump, gate, timer, history, passing
  <2>1. RingsOK'
    BY <1>a DEF RingsOK
  <2>2. TasksOK'
    BY <1>a DEF TasksOK
  <2>3. HistoryOK'
    BY <1>a DEF HistoryOK, TasksOK
  <2>4. ProducersHoldLocks' /\ CopiedHasRoom' /\ ConsumersHoldLocks'
    BY <1>a DEF ProducersHoldLocks, CopiedHasRoom, ConsumersHoldLocks
  <2> QED BY <2>1, <2>2, <2>3, <2>4
<1> QED BY <1>1, <1>2, <1>3, <1>4 DEF CallbackStep

-----------------------------------------------------------------------------
(* The rings.                                                              *)

LEMMA WriteIsNotLive ==
  ASSUME RingsOK, RingsContiguous, NEW c \in Classes, count[c] < Capacity[c]
  PROVE  write[c] \notin Live(c)
BY DEF RingsOK, RingsContiguous, Live

LEMMA ReadIsLive ==
  ASSUME RingsOK, NEW c \in Classes, count[c] > 0
  PROVE  read[c] \in Live(c)
BY DEF RingsOK, Live

LEMMA PublishGrowsLive ==
  ASSUME RingsOK, RingsContiguous, NEW c \in Classes, count[c] < Capacity[c],
         write' = [write EXCEPT ![c] = Advance(@, c)],
         count' = [count EXCEPT ![c] = @ + 1],
         UNCHANGED read
  PROVE  /\ RingsContiguous'
         /\ Live(c)' = Live(c) \cup {write[c]}
         /\ \A d \in Classes \ {c} : Live(d)' = Live(d)
<1>0. /\ count'[c] = count[c] + 1 /\ write'[c] = Advance(write[c], c)
      /\ \A d \in Classes \ {c} : count'[d] = count[d] /\ write'[d] = write[d]
      /\ read[c] \in Nat /\ write[c] \in Nat /\ count[c] \in Nat /\ Capacity[c] \in Nat \ {0}
      /\ read[c] < Capacity[c]
  BY DEF RingsOK
<1>1. RingsContiguous'
  <2>1. write'[c] = IF read[c] + count'[c] < Capacity[c] THEN read[c] + count'[c]
                                                        ELSE read[c] + count'[c] - Capacity[c]
    BY <1>0 DEF RingsContiguous, Advance
  <2> QED BY <1>0, <2>1 DEF RingsContiguous
<1>2. \A i \in 0 .. Capacity[c] - 1 : i \in Live(c)' <=> i \in Live(c) \/ i = write[c]
  BY SMTT(30) DEF RingsOK, RingsContiguous, Live
<1>3. Live(c)' = Live(c) \cup {write[c]}
  BY <1>2 DEF RingsOK, Live
<1>4. \A d \in Classes \ {c} : Live(d)' = Live(d)
  BY DEF RingsOK, Live
<1> QED BY <1>1, <1>3, <1>4

LEMMA RemoveShrinksLive ==
  ASSUME RingsOK, RingsContiguous, NEW c \in Classes, count[c] > 0, Remove(c)
  PROVE  /\ RingsContiguous'
         /\ Live(c)' = Live(c) \ {read[c]}
         /\ \A d \in Classes \ {c} : Live(d)' = Live(d)
<1> USE DEF Remove
<1>0. /\ count'[c] = count[c] - 1 /\ read'[c] = Advance(read[c], c)
      /\ \A d \in Classes \ {c} : count'[d] = count[d] /\ read'[d] = read[d]
      /\ read[c] \in Nat /\ count[c] \in Nat /\ Capacity[c] \in Nat \ {0}
      /\ read[c] < Capacity[c] /\ count[c] <= Capacity[c]
  BY DEF RingsOK
<1>1. RingsContiguous'
  BY <1>0, SMTT(30) DEF RingsOK, RingsContiguous, Advance
<1>2. \A i \in 0 .. Capacity[c] - 1 : i \in Live(c)' <=> i \in Live(c) /\ i # read[c]
  BY <1>0 DEF Live, Advance
<1>3. Live(c)' = Live(c) \ {read[c]}
  BY <1>2 DEF RingsOK, Live
<1>4. \A d \in Classes \ {c} : Live(d)' = Live(d)
  BY DEF RingsOK, Live
<1> QED BY <1>1, <1>3, <1>4

\* Nothing happens to the rings, and no frame enters or leaves them.
LEMMA PlacesKept ==
  ASSUME Places, UNCHANGED <<slots, read, write, count>>,
         \A f \in Frames : fate'[f] = "queued" <=> fate[f] = "queued"
  PROVE  Places'
<1>1. \A c : Live(c)' = Live(c)
  BY DEF Live
<1> QED BY <1>1, ClassOfIsClass DEF Places, RingsContiguous, LiveAreQueued, LiveDiffer, QueuedAreLive

LEMMA InitPlaces == Init => Places /\ InHand /\ SendsCounted
<1> SUFFICES ASSUME Init PROVE Places /\ InHand /\ SendsCounted
  OBVIOUS
<1>1. \A c \in Classes : Live(c) = {}
  BY DEF Init, Live
<1>2. Places
  BY <1>1 DEF Init, Places, RingsContiguous, LiveAreQueued, LiveDiffer, QueuedAreLive
<1>3. InHand
  BY DEF Init, InHand, ProducersInHand, PumpInHand, TimerInHand
<1>4. SendsCounted
  BY DEF Init, SendsCounted, HandedOver
<1> QED BY <1>2, <1>3, <1>4

LEMMA EnqueueInv ==
  ASSUME IInv, NEW p \in Producers, Enqueue(p)
  PROVE  Places' /\ InHand' /\ SendsCounted'
<1> DEFINE c == ClassOf(offered[p])
<1>a. /\ RingsOK /\ TasksOK /\ HistoryOK /\ ProducersHoldLocks /\ CopiedHasRoom /\ ConsumersHoldLocks
      /\ ProducersInHand /\ PumpInHand /\ TimerInHand /\ Places /\ SendsCounted
  BY DEF IInv, Safe, TypeOK, LockDiscipline, InHand
<1>b. producing[p] \in {"locked", "copied"} =>
        /\ offered[p] \in Frames /\ fate[offered[p]] = "offered" /\ c \in Classes
        /\ pumping = "popped" => class # c
        /\ timing = "popped" => Telemetry # c
        /\ \A q \in Producers \ {p} : producing[q] \in {"locked", "copied"} =>
             offered[q] # offered[p] /\ ClassOf(offered[q]) # c /\ ClassOf(offered[q]) \in Classes
  BY <1>a, ClassOfIsClass, HoldersDiffer
     DEF ProducersHoldLocks, ConsumersHoldLocks, ProducersInHand
<1> SUFFICES Places' /\ ProducersInHand' /\ PumpInHand' /\ TimerInHand' /\ SendsCounted'
  BY DEF InHand
<1> HIDE DEF c
<1>1. ASSUME NEW f \in Frames, EnqueueRefuse(p, f)
      PROVE  Places' /\ ProducersInHand' /\ PumpInHand' /\ TimerInHand' /\ SendsCounted'
  <2> USE <1>1 DEF EnqueueRefuse, queues, producer, pump, gate, timer
  <2>1. Places'
    BY <1>a, PlacesKept DEF Now, HistoryOK
  <2>2. ProducersInHand'
    BY <1>a DEF ProducersInHand, ProducersHoldLocks, TasksOK, Now, HistoryOK
  <2>3. PumpInHand'
    BY <1>a DEF PumpInHand, TasksOK, Now, HistoryOK, Front
  <2>4. TimerInHand'
    BY <1>a DEF TimerInHand, TasksOK, Now, HistoryOK, Front
  <2>5. SendsCounted'
    BY <1>a DEF SendsCounted, Now, HistoryOK, HandedOver
  <2> QED BY <2>1, <2>2, <2>3, <2>4, <2>5
<1>2. ASSUME NEW f \in Frames, EnqueueLock(p, f)
      PROVE  Places' /\ ProducersInHand' /\ PumpInHand' /\ TimerInHand' /\ SendsCounted'
  <2> USE <1>2 DEF EnqueueLock, pump, gate, timer
  <2>1. Places'
    BY <1>a, PlacesKept DEF Now, HistoryOK
  <2>2. ProducersInHand'
    BY <1>a DEF ProducersInHand, ProducersHoldLocks, TasksOK, Now, HistoryOK
  <2>3. PumpInHand'
    BY <1>a DEF PumpInHand, TasksOK, Now, HistoryOK, Front
  <2>4. TimerInHand'
    BY <1>a DEF TimerInHand, TasksOK, Now, HistoryOK, Front
  <2>5. SendsCounted'
    BY <1>a DEF SendsCounted, Now, HistoryOK, HandedOver
  <2> QED BY <2>1, <2>2, <2>3, <2>4, <2>5
<1>3. CASE EnqueueFull(p)
  <2> USE <1>3 DEF EnqueueFull, pump, gate, timer
  <2>1. Places'
    BY <1>a, <1>b, PlacesKept DEF Now, HistoryOK
  <2>2. ProducersInHand'
    BY <1>a, <1>b DEF c, ProducersInHand, ProducersHoldLocks, TasksOK, Now, HistoryOK
  <2>3. PumpInHand'
    BY <1>a, <1>b DEF c, PumpInHand, TasksOK, Now, HistoryOK, Front
  <2>4. TimerInHand'
    BY <1>a, <1>b DEF c, TimerInHand, TasksOK, Now, HistoryOK, Front
  <2>5. SendsCounted'
    BY <1>a, <1>b DEF SendsCounted, Now, HistoryOK, HandedOver
  <2> QED BY <2>1, <2>2, <2>3, <2>4, <2>5
<1>4. CASE EnqueueCopy(p)
  <2> USE <1>4 DEF EnqueueCopy, pump, gate, timer, history
  <2>0. /\ slots'[c][write[c]] = offered[p]
        /\ \A d \in Classes \ {c} : slots'[d] = slots[d]
        /\ \A i : i # write[c] => slots'[c][i] = slots[c][i]
        /\ write[c] \notin Live(c) /\ \A d : Live(d)' = Live(d)
    BY <1>a, <1>b, WriteIsNotLive DEF c, RingsOK, Places, Live
  <2>1. Places'
    <3>1. \A d \in Classes : \A i \in Live(d) : slots'[d][i] = slots[d][i]
      BY <2>0
    <3> QED BY <1>a, <2>0, <3>1, ClassOfIsClass
            DEF Places, RingsContiguous, LiveAreQueued, LiveDiffer, QueuedAreLive
  <2>2. ProducersInHand'
    BY <1>a, <1>b, <2>0 DEF c, ProducersInHand, ProducersHoldLocks, TasksOK
  <2>3. PumpInHand'
    BY <1>a, <1>b, <2>0 DEF PumpInHand, TasksOK, Front
  <2>4. TimerInHand'
    BY <1>a, <1>b, <2>0, ClassesAreSmall DEF TimerInHand, Front
  <2>5. SendsCounted'
    BY <1>a DEF SendsCounted
  <2> QED BY <2>1, <2>2, <2>3, <2>4, <2>5
<1>5. CASE EnqueuePublish(p)
  <2> USE <1>5 DEF EnqueuePublish, pump, gate, timer
  <2>0. /\ RingsContiguous'
        /\ Live(c)' = Live(c) \cup {write[c]}
        /\ \A d \in Classes \ {c} : Live(d)' = Live(d)
    BY <1>a, <1>b, PublishGrowsLive DEF c, Places, CopiedHasRoom
  <2>a. /\ slots[c][write[c]] = offered[p]
        /\ fate'[offered[p]] = "queued"
        /\ \A f \in Frames \ {offered[p]} : fate'[f] = fate[f]
    BY <1>a, <1>b DEF c, ProducersInHand, Now, HistoryOK
  <2>1. Places'
    <3>1. LiveAreQueued'
      BY <1>a, <1>b, <2>0, <2>a DEF c, Places, LiveAreQueued
    <3>2. LiveDiffer'
      BY <1>a, <1>b, <2>0, <2>a DEF c, Places, LiveAreQueued, LiveDiffer
    <3>3. QueuedAreLive'
      BY <1>a, <1>b, <2>0, <2>a, ClassOfIsClass DEF c, Places, QueuedAreLive
    <3> QED BY <2>0, <3>1, <3>2, <3>3 DEF Places
  <2>2. ProducersInHand'
    BY <1>a, <1>b, ZenonT(60) DEF c, ProducersInHand, ProducersHoldLocks, TasksOK, Now, HistoryOK, RingsOK
  <2>3. PumpInHand'
    BY <1>a, <1>b DEF c, PumpInHand, TasksOK, Now, HistoryOK, Front
  <2>4. TimerInHand'
    BY <1>a, <1>b DEF c, TimerInHand, TasksOK, Now, HistoryOK, Front
  <2>5. SendsCounted'
    BY <1>a, <1>b DEF SendsCounted, Now, HistoryOK, HandedOver
  <2> QED BY <2>1, <2>2, <2>3, <2>4, <2>5
<1>6. CASE EnqueueCount(p)
  <2> USE <1>6 DEF EnqueueCount, queues, pump, gate, timer, history
  <2>1. Places'
    BY <1>a, PlacesKept
  <2>2. ProducersInHand'
    BY <1>a DEF ProducersInHand, ProducersHoldLocks, TasksOK, Now, HistoryOK
  <2>3. PumpInHand'
    BY <1>a DEF PumpInHand, TasksOK, Now, HistoryOK, Front
  <2>4. TimerInHand'
    BY <1>a DEF TimerInHand, TasksOK, Now, HistoryOK, Front
  <2>5. SendsCounted'
    BY <1>a DEF SendsCounted
  <2> QED BY <2>1, <2>2, <2>3, <2>4, <2>5
<1> QED BY <1>1, <1>2, <1>3, <1>4, <1>5, <1>6 DEF Enqueue

LEMMA PumpInv ==
  ASSUME IInv, PumpStep
  PROVE  Places' /\ InHand' /\ SendsCounted'
<1> DEFINE c == class
<1>a. /\ RingsOK /\ TasksOK /\ HistoryOK /\ ProducersHoldLocks /\ CopiedHasRoom /\ ConsumersHoldLocks
      /\ ProducersInHand /\ PumpInHand /\ TimerInHand /\ Places /\ SendsCounted
  BY DEF IInv, Safe, TypeOK, LockDiscipline, InHand
<1>b. /\ c \in Classes \ {Telemetry}
      /\ pumping = "popped" =>
           \A q \in Producers : producing[q] \in {"locked", "copied"} => ClassOf(offered[q]) # c
      /\ pumping \in {"arm", "clear", "send"} => pending \in Frames /\ fate[pending] = "pending"
      /\ awaiting /\ pumping \in {"idle", "called"} => pending \in Frames /\ fate[pending] = "sent"
  BY <1>a, ClassOfIsClass, HoldersDiffer
     DEF ProducersHoldLocks, ConsumersHoldLocks, TasksOK, PumpInHand
<1> SUFFICES Places' /\ ProducersInHand' /\ PumpInHand' /\ TimerInHand' /\ SendsCounted'
  BY DEF InHand
<1>1. CASE PumpNothingAwaited
  <2> USE <1>1 DEF PumpNothingAwaited, queues, producer, timer, gate, history, BeginScan
  <2>1. Places'
    BY <1>a, <1>b, PlacesKept DEF Now, HistoryOK
  <2>2. ProducersInHand'
    BY <1>a, <1>b DEF ProducersInHand, TasksOK, Now, HistoryOK
  <2>3. PumpInHand'
    BY <1>a, <1>b DEF PumpInHand, TasksOK, Now, HistoryOK, Front
  <2>4. TimerInHand'
    BY <1>a, <1>b DEF TimerInHand, TasksOK, Now, HistoryOK, Front
  <2>5. SendsCounted'
    BY <1>a DEF SendsCounted
  <2> QED BY <2>1, <2>2, <2>3, <2>4, <2>5
<1>2. CASE PumpDelivered
  <2> USE <1>2 DEF PumpDelivered, queues, producer, timer
  <2>1. Places'
    BY <1>a, <1>b, PlacesKept DEF Now, HistoryOK
  <2>2. ProducersInHand'
    BY <1>a, <1>b DEF ProducersInHand, TasksOK, Now, HistoryOK
  <2>3. PumpInHand'
    BY <1>a, <1>b DEF PumpInHand, TasksOK, Now, HistoryOK, Front
  <2>4. TimerInHand'
    BY <1>a, <1>b DEF TimerInHand, TasksOK, Now, HistoryOK, Front
  <2>5. SendsCounted'
    BY <1>a, <1>b DEF SendsCounted, Now, HistoryOK, HandedOver
  <2> QED BY <2>1, <2>2, <2>3, <2>4, <2>5
<1>3. CASE PumpFailed
  <2> USE <1>3 DEF PumpFailed, queues, producer, timer
  <2>1. Places'
    BY <1>a, <1>b, PlacesKept DEF Now, HistoryOK
  <2>2. ProducersInHand'
    BY <1>a, <1>b DEF ProducersInHand, TasksOK, Now, HistoryOK
  <2>3. PumpInHand'
    BY <1>a, <1>b DEF PumpInHand, TasksOK, Now, HistoryOK, Front
  <2>4. TimerInHand'
    BY <1>a, <1>b DEF TimerInHand, TasksOK, Now, HistoryOK, Front
  <2>5. SendsCounted'
    BY <1>a, <1>b DEF SendsCounted, Now, HistoryOK, HandedOver
  <2> QED BY <2>1, <2>2, <2>3, <2>4, <2>5
<1>4. CASE PumpTimedOut
  <2> USE <1>4 DEF PumpTimedOut, queues, producer, timer, gate
  <2>1. Places'
    BY <1>a, <1>b, PlacesKept DEF Now, HistoryOK
  <2>2. ProducersInHand'
    BY <1>a, <1>b DEF ProducersInHand, TasksOK, Now, HistoryOK
  <2>3. PumpInHand'
    BY <1>a, <1>b DEF PumpInHand, TasksOK, Now, HistoryOK, Front
  <2>4. TimerInHand'
    BY <1>a, <1>b DEF TimerInHand, TasksOK, Now, HistoryOK, Front
  <2>5. SendsCounted'
    BY <1>a, <1>b DEF SendsCounted, Now, HistoryOK, HandedOver
  <2> QED BY <2>1, <2>2, <2>3, <2>4, <2>5
<1>5. CASE PumpContended
  <2> USE <1>5 DEF PumpContended, queues, producer, timer, gate
  <2>0. pumping' \in {"idle", "scan"}
    BY <1>b, NextClassTyped
  <2>1. Places'
    BY <1>a, <1>b, PlacesKept DEF Now, HistoryOK
  <2>2. ProducersInHand'
    BY <1>a, <1>b DEF ProducersInHand, TasksOK, Now, HistoryOK
  <2>3. PumpInHand'
    BY <1>a, <1>b, <2>0 DEF PumpInHand, TasksOK, Now, HistoryOK, Front
  <2>4. TimerInHand'
    BY <1>a, <1>b DEF TimerInHand, TasksOK, Now, HistoryOK, Front
  <2>5. SendsCounted'
    BY <1>a DEF SendsCounted
  <2> QED BY <2>1, <2>2, <2>3, <2>4, <2>5
<1>6. CASE PumpLock
  <2> USE <1>6 DEF PumpLock, producer, timer, gate, history
  <2>1. Places'
    BY <1>a, <1>b, PlacesKept DEF Now, HistoryOK
  <2>2. ProducersInHand'
    BY <1>a, <1>b DEF ProducersInHand, TasksOK, Now, HistoryOK
  <2>3. PumpInHand'
    BY <1>a, <1>b DEF PumpInHand, TasksOK, Now, HistoryOK, Front
  <2>4. TimerInHand'
    BY <1>a, <1>b DEF TimerInHand, TasksOK, Now, HistoryOK, Front
  <2>5. SendsCounted'
    BY <1>a DEF SendsCounted
  <2> QED BY <2>1, <2>2, <2>3, <2>4, <2>5
<1>7. CASE PumpEmpty
  <2> USE <1>7 DEF PumpEmpty, producer, timer, gate, history
  <2>0. pumping' \in {"idle", "scan"}
    BY <1>b, NextClassTyped
  <2>1. Places'
    BY <1>a, <1>b, PlacesKept DEF Now, HistoryOK
  <2>2. ProducersInHand'
    BY <1>a, <1>b DEF ProducersInHand, TasksOK, Now, HistoryOK
  <2>3. PumpInHand'
    BY <1>a, <1>b, <2>0 DEF PumpInHand, TasksOK, Now, HistoryOK, Front
  <2>4. TimerInHand'
    BY <1>a, <1>b DEF TimerInHand, TasksOK, Now, HistoryOK, Front
  <2>5. SendsCounted'
    BY <1>a DEF SendsCounted
  <2> QED BY <2>1, <2>2, <2>3, <2>4, <2>5
<1>8. CASE PumpCopy
  <2> USE <1>8 DEF PumpCopy, queues, producer, timer, gate, history
  <2>1. Places'
    BY <1>a, <1>b, PlacesKept DEF Now, HistoryOK
  <2>2. ProducersInHand'
    BY <1>a, <1>b DEF ProducersInHand, TasksOK, Now, HistoryOK
  <2>3. PumpInHand'
    BY <1>a, <1>b DEF PumpInHand, TasksOK, Now, HistoryOK, Front
  <2>4. TimerInHand'
    BY <1>a, <1>b DEF TimerInHand, TasksOK, Now, HistoryOK, Front
  <2>5. SendsCounted'
    BY <1>a DEF SendsCounted
  <2> QED BY <2>1, <2>2, <2>3, <2>4, <2>5
<1>9. CASE PumpRemove
  <2> USE <1>9 DEF PumpRemove, producer, timer, gate
  <2>0. /\ RingsContiguous'
        /\ Live(c)' = Live(c) \ {read[c]}
        /\ \A d \in Classes \ {c} : Live(d)' = Live(d)
        /\ read[c] \in Live(c)
        /\ UNCHANGED <<slots, write>> /\ \A d \in Classes \ {c} : read'[d] = read[d]
    BY <1>a, <1>b, RemoveShrinksLive, ReadIsLive DEF Places, ConsumersHoldLocks, Remove, RingsOK
  <2>a. /\ pending \in Frames /\ fate[pending] = "queued" /\ ClassOf(pending) = c
        /\ pending = slots[c][read[c]]
        /\ fate'[pending] = "pending"
        /\ \A f \in Frames \ {pending} : fate'[f] = fate[f]
    BY <1>a, <1>b, <2>0 DEF Places, LiveAreQueued, PumpInHand, TimerInHand, Front, Now, HistoryOK
  <2>1. Places'
    <3>1. LiveAreQueued'
      BY <1>a, <1>b, <2>0, <2>a DEF Places, LiveAreQueued, LiveDiffer
    <3>2. LiveDiffer'
      BY <1>a, <1>b, <2>0 DEF Places, LiveDiffer
    <3>3. QueuedAreLive'
      BY <1>a, <1>b, <2>0, <2>a, ClassOfIsClass DEF Places, QueuedAreLive
    <3> QED BY <2>0, <3>1, <3>2, <3>3 DEF Places
  <2>2. ProducersInHand'
    BY <1>a, <1>b, <2>0, <2>a, ClassOfIsClass DEF ProducersInHand, ProducersHoldLocks
  <2>3. PumpInHand'
    BY <1>a, <2>a DEF PumpInHand
  <2>4. TimerInHand'
    BY <1>a, <1>b, <2>0, <2>a, ClassesAreSmall DEF TimerInHand, Front
  <2>5. SendsCounted'
    BY <1>a, <2>a DEF SendsCounted, HandedOver
  <2> QED BY <2>1, <2>2, <2>3, <2>4, <2>5
<1>10. CASE PumpArm
  <2> USE <1>10 DEF PumpArm, queues, producer, timer, history
  <2>1. Places'
    BY <1>a, <1>b, PlacesKept DEF Now, HistoryOK
  <2>2. ProducersInHand'
    BY <1>a, <1>b DEF ProducersInHand, TasksOK, Now, HistoryOK
  <2>3. PumpInHand'
    BY <1>a, <1>b DEF PumpInHand, TasksOK, Now, HistoryOK, Front
  <2>4. TimerInHand'
    BY <1>a, <1>b DEF TimerInHand, TasksOK, Now, HistoryOK, Front
  <2>5. SendsCounted'
    BY <1>a DEF SendsCounted
  <2> QED BY <2>1, <2>2, <2>3, <2>4, <2>5
<1>11. CASE PumpClear
  <2> USE <1>11 DEF PumpClear, queues, producer, timer
  <2>1. Places'
    BY <1>a, <1>b, PlacesKept DEF Now, HistoryOK
  <2>2. ProducersInHand'
    BY <1>a, <1>b DEF ProducersInHand, TasksOK, Now, HistoryOK
  <2>3. PumpInHand'
    BY <1>a, <1>b DEF PumpInHand, TasksOK, Now, HistoryOK, Front
  <2>4. TimerInHand'
    BY <1>a, <1>b DEF TimerInHand, TasksOK, Now, HistoryOK, Front
  <2>5. SendsCounted'
    BY <1>a DEF SendsCounted
  <2> QED BY <2>1, <2>2, <2>3, <2>4, <2>5
<1>12. CASE PumpSend
  <2> USE <1>12 DEF PumpSend, queues, producer, timer, gate
  <2>1. Places'
    BY <1>a, <1>b, PlacesKept DEF Now, HistoryOK
  <2>2. ProducersInHand'
    BY <1>a, <1>b DEF ProducersInHand, TasksOK, Now, HistoryOK
  <2>3. PumpInHand'
    BY <1>a, <1>b DEF PumpInHand, TasksOK, Now, HistoryOK, Front
  <2>4. TimerInHand'
    BY <1>a, <1>b DEF TimerInHand, TasksOK, Now, HistoryOK, Front
  <2>5. SendsCounted'
    BY <1>a, <1>b DEF SendsCounted, Now, HistoryOK, HandedOver
  <2> QED BY <2>1, <2>2, <2>3, <2>4, <2>5
<1>13. CASE PumpSendError
  <2> USE <1>13 DEF PumpSendError, queues, producer, timer
  <2>1. Places'
    BY <1>a, <1>b, PlacesKept DEF Now, HistoryOK
  <2>2. ProducersInHand'
    BY <1>a, <1>b DEF ProducersInHand, TasksOK, Now, HistoryOK
  <2>3. PumpInHand'
    BY <1>a, <1>b DEF PumpInHand, TasksOK, Now, HistoryOK, Front
  <2>4. TimerInHand'
    BY <1>a, <1>b DEF TimerInHand, TasksOK, Now, HistoryOK, Front
  <2>5. SendsCounted'
    BY <1>a, <1>b DEF SendsCounted, Now, HistoryOK, HandedOver
  <2> QED BY <2>1, <2>2, <2>3, <2>4, <2>5
<1>14. CASE PumpCall
  <2> USE <1>14 DEF PumpCall, queues, producer, timer, gate, history
  <2>1. Places'
    BY <1>a, PlacesKept
  <2>2. ProducersInHand'
    BY <1>a DEF ProducersInHand
  <2>3. PumpInHand'
    BY <1>a, <1>b DEF PumpInHand, TasksOK, Front
  <2>4. TimerInHand'
    BY <1>a DEF TimerInHand, Front
  <2>5. SendsCounted'
    BY <1>a DEF SendsCounted
  <2> QED BY <2>1, <2>2, <2>3, <2>4, <2>5
<1>15. CASE PumpWait
  <2> USE <1>15 DEF PumpWait, queues, producer, timer, gate, history
  <2>1. Places'
    BY <1>a, PlacesKept
  <2>2. ProducersInHand'
    BY <1>a DEF ProducersInHand
  <2>3. PumpInHand'
    BY <1>a, <1>b DEF PumpInHand, TasksOK, Front
  <2>4. TimerInHand'
    BY <1>a DEF TimerInHand, Front
  <2>5. SendsCounted'
    BY <1>a DEF SendsCounted
  <2> QED BY <2>1, <2>2, <2>3, <2>4, <2>5
<1>16. CASE PumpLose
  <2> USE <1>16 DEF PumpLose, queues, producer, timer, gate, history
  <2>1. Places'
    BY <1>a, PlacesKept
  <2>2. ProducersInHand'
    BY <1>a DEF ProducersInHand
  <2>3. PumpInHand'
    BY <1>a, <1>b DEF PumpInHand, TasksOK, Front
  <2>4. TimerInHand'
    BY <1>a DEF TimerInHand, Front
  <2>5. SendsCounted'
    BY <1>a DEF SendsCounted
  <2> QED BY <2>1, <2>2, <2>3, <2>4, <2>5
<1>17. CASE PumpRelease
  <2> USE <1>17 DEF PumpRelease, queues, producer, timer, gate, history, BeginScan
  <2>1. Places'
    BY <1>a, PlacesKept
  <2>2. ProducersInHand'
    BY <1>a DEF ProducersInHand
  <2>3. PumpInHand'
    BY <1>a, <1>b DEF PumpInHand, TasksOK, Front
  <2>4. TimerInHand'
    BY <1>a DEF TimerInHand, Front
  <2>5. SendsCounted'
    BY <1>a DEF SendsCounted
  <2> QED BY <2>1, <2>2, <2>3, <2>4, <2>5
<1> QED
  BY <1>1, <1>2, <1>3, <1>4, <1>5, <1>6, <1>7, <1>8, <1>9, <1>10, <1>11, <1>12, <1>13, <1>14, <1>15,
     <1>16, <1>17 DEF PumpStep

LEMMA TimerInv ==
  ASSUME IInv, TimerStep
  PROVE  Places' /\ InHand' /\ SendsCounted'
<1> DEFINE c == Telemetry
<1>a. /\ RingsOK /\ TasksOK /\ HistoryOK /\ ProducersHoldLocks /\ CopiedHasRoom /\ ConsumersHoldLocks
      /\ ProducersInHand /\ PumpInHand /\ TimerInHand /\ Places /\ SendsCounted
  BY DEF IInv, Safe, TypeOK, LockDiscipline, InHand
<1>b. /\ c \in Classes /\ class \in Classes \ {c}
      /\ timing = "popped" =>
           \A q \in Producers : producing[q] \in {"locked", "copied"} => ClassOf(offered[q]) # c
      /\ timing = "send" => sample \in Frames /\ fate[sample] = "sample"
  BY <1>a, ClassOfIsClass, ClassesAreSmall, HoldersDiffer
     DEF ProducersHoldLocks, ConsumersHoldLocks, TasksOK, TimerInHand
<1> SUFFICES Places' /\ ProducersInHand' /\ PumpInHand' /\ TimerInHand' /\ SendsCounted'
  BY DEF InHand
<1> HIDE DEF c
<1>1. CASE TimerLock
  <2> USE <1>1 DEF TimerLock, producer, pump, gate, history
  <2>1. Places'
    BY <1>a, <1>b, PlacesKept DEF Now, HistoryOK
  <2>2. ProducersInHand'
    BY <1>a, <1>b DEF ProducersInHand, TasksOK, Now, HistoryOK
  <2>3. PumpInHand'
    BY <1>a, <1>b DEF PumpInHand, TasksOK, Now, HistoryOK, Front
  <2>4. TimerInHand'
    BY <1>a, <1>b DEF TimerInHand, TasksOK, Now, HistoryOK, Front
  <2>5. SendsCounted'
    BY <1>a DEF SendsCounted
  <2> QED BY <2>1, <2>2, <2>3, <2>4, <2>5
<1>2. CASE TimerEmpty
  <2> USE <1>2 DEF TimerEmpty, producer, pump, gate, history
  <2>1. Places'
    BY <1>a, <1>b, PlacesKept DEF Now, HistoryOK
  <2>2. ProducersInHand'
    BY <1>a, <1>b DEF ProducersInHand, TasksOK, Now, HistoryOK
  <2>3. PumpInHand'
    BY <1>a, <1>b DEF PumpInHand, TasksOK, Now, HistoryOK, Front
  <2>4. TimerInHand'
    BY <1>a, <1>b DEF TimerInHand, TasksOK, Now, HistoryOK, Front
  <2>5. SendsCounted'
    BY <1>a DEF SendsCounted
  <2> QED BY <2>1, <2>2, <2>3, <2>4, <2>5
<1>3. CASE TimerCopy
  <2> USE <1>3 DEF TimerCopy, queues, producer, pump, gate, history
  <2>1. Places'
    BY <1>a, <1>b, PlacesKept DEF Now, HistoryOK
  <2>2. ProducersInHand'
    BY <1>a, <1>b DEF ProducersInHand, TasksOK, Now, HistoryOK
  <2>3. PumpInHand'
    BY <1>a, <1>b DEF PumpInHand, TasksOK, Now, HistoryOK, Front
  <2>4. TimerInHand'
    BY <1>a, <1>b DEF TimerInHand, TasksOK, Now, HistoryOK, Front
  <2>5. SendsCounted'
    BY <1>a DEF SendsCounted
  <2> QED BY <2>1, <2>2, <2>3, <2>4, <2>5
<1>4. CASE TimerRemove
  <2> USE <1>4 DEF TimerRemove, producer, pump, gate
  <2>0. /\ RingsContiguous'
        /\ Live(c)' = Live(c) \ {read[c]}
        /\ \A d \in Classes \ {c} : Live(d)' = Live(d)
        /\ read[c] \in Live(c)
        /\ UNCHANGED <<slots, write>> /\ \A d \in Classes \ {c} : read'[d] = read[d]
    BY <1>a, <1>b, RemoveShrinksLive, ReadIsLive DEF c, Places, ConsumersHoldLocks, Remove, RingsOK
  <2>a. /\ sample \in Frames /\ fate[sample] = "queued" /\ ClassOf(sample) = c
        /\ sample = slots[c][read[c]]
        /\ fate'[sample] = "sample"
        /\ \A f \in Frames \ {sample} : fate'[f] = fate[f]
    BY <1>a, <1>b, <2>0 DEF c, Places, LiveAreQueued, PumpInHand, TimerInHand, Front, Now, HistoryOK
  <2>1. Places'
    <3>1. LiveAreQueued'
      BY <1>a, <1>b, <2>0, <2>a DEF c, Places, LiveAreQueued, LiveDiffer
    <3>2. LiveDiffer'
      BY <1>a, <1>b, <2>0 DEF c, Places, LiveDiffer
    <3>3. QueuedAreLive'
      BY <1>a, <1>b, <2>0, <2>a, ClassOfIsClass DEF c, Places, QueuedAreLive
    <3> QED BY <2>0, <3>1, <3>2, <3>3 DEF Places
  <2>2. ProducersInHand'
    BY <1>a, <1>b, <2>0, <2>a, ClassOfIsClass DEF ProducersInHand, ProducersHoldLocks
  <2>3. PumpInHand'
    BY <1>a, <1>b, <2>0, <2>a DEF PumpInHand, Front
  <2>4. TimerInHand'
    BY <1>a, <2>a DEF TimerInHand
  <2>5. SendsCounted'
    BY <1>a, <2>a DEF SendsCounted, HandedOver
  <2> QED BY <2>1, <2>2, <2>3, <2>4, <2>5
<1>5. CASE TimerSend
  <2> USE <1>5 DEF TimerSend, queues, producer, pump, gate
  <2>1. Places'
    BY <1>a, <1>b, PlacesKept DEF Now, HistoryOK
  <2>2. ProducersInHand'
    BY <1>a, <1>b DEF ProducersInHand, TasksOK, Now, HistoryOK
  <2>3. PumpInHand'
    BY <1>a, <1>b DEF PumpInHand, TasksOK, Now, HistoryOK, Front
  <2>4. TimerInHand'
    BY <1>a, <1>b DEF TimerInHand, TasksOK, Now, HistoryOK, Front
  <2>5. SendsCounted'
    BY <1>a, <1>b DEF SendsCounted, Now, HistoryOK, HandedOver
  <2> QED BY <2>1, <2>2, <2>3, <2>4, <2>5
<1>6. CASE TimerShed
  <2> USE <1>6 DEF TimerShed, queues, producer, pump, gate
  <2>1. Places'
    BY <1>a, <1>b, PlacesKept DEF Now, HistoryOK
  <2>2. ProducersInHand'
    BY <1>a, <1>b DEF ProducersInHand, TasksOK, Now, HistoryOK
  <2>3. PumpInHand'
    BY <1>a, <1>b DEF PumpInHand, TasksOK, Now, HistoryOK, Front
  <2>4. TimerInHand'
    BY <1>a, <1>b DEF TimerInHand, TasksOK, Now, HistoryOK, Front
  <2>5. SendsCounted'
    BY <1>a, <1>b DEF SendsCounted, Now, HistoryOK, HandedOver
  <2> QED BY <2>1, <2>2, <2>3, <2>4, <2>5
<1> QED BY <1>1, <1>2, <1>3, <1>4, <1>5, <1>6 DEF TimerStep

LEMMA DriverInv ==
  ASSUME IInv, CallbackStep \/ Tick
  PROVE  Places' /\ InHand' /\ SendsCounted'
<1>a. Places /\ ProducersInHand /\ PumpInHand /\ TimerInHand /\ SendsCounted
  BY DEF IInv, InHand
<1>1. UNCHANGED <<queues, producer, pump, awaiting, timer, fate, sends>>
  BY DEF CallbackStep, CallbackLoad, CallbackLost, CallbackStore, Tick, gate, history, passing
<1> USE <1>1 DEF queues, producer, pump, timer
<1>2. Places'
  BY <1>a, PlacesKept
<1>3. InHand'
  BY <1>a DEF InHand, ProducersInHand, PumpInHand, TimerInHand, Front
<1>4. SendsCounted'
  BY <1>a DEF SendsCounted
<1> QED BY <1>2, <1>3, <1>4

\* All but the upload session, which only decides whether pump() is called.
Rest == <<queues, producer, pump, gate, timer, driver, stats, history>>

LEMMA StutterInv ==
  ASSUME IInv, UNCHANGED Rest, paused' \in BOOLEAN
  PROVE  IInv'
<1> USE DEF Rest, queues, producer, pump, gate, timer, driver, history, passing
<1>a. TypeOK
  BY DEF IInv, Safe
<1>1. TypeOK'
  <2>1. RingsOK'
    BY <1>a DEF TypeOK, RingsOK
  <2>2. TasksOK'
    BY <1>a DEF TypeOK, TasksOK
  <2>3. HistoryOK'
    BY <1>a DEF TypeOK, HistoryOK
  <2> QED
    BY <2>1, <2>2, <2>3 DEF TypeOK
<1>2. LockDiscipline'
  BY DEF IInv, Safe, LockDiscipline, ProducersHoldLocks, CopiedHasRoom, ConsumersHoldLocks
<1>3. Places'
  BY PlacesKept DEF IInv
<1>4. InHand' /\ SendsCounted'
  BY DEF IInv, InHand, ProducersInHand, PumpInHand, TimerInHand, Front, SendsCounted
<1> QED BY <1>1, <1>2, <1>3, <1>4 DEF IInv, Safe

-----------------------------------------------------------------------------

\* The invariant of enqueue(), pump(), pump_telemetry() and on_delivery() together: whoever is
\* inside a ring holds its lock, a ring is contiguous, its live slots are the queued frames of its
\* class, and a frame that left its ring is in the hands of one task.
THEOREM Inductive == Spec => []IInv
<1>1. Init => IInv
  BY InitSafe, InitPlaces DEF IInv
<1>2. IInv /\ [Next]_vars => IInv'
  <2> SUFFICES ASSUME IInv, [Next]_vars PROVE IInv'
    OBVIOUS
  <2>1. ASSUME NEW p \in Producers, Apart(Enqueue(p)) PROVE IInv'
    BY <2>1, EnqueueSafe, EnqueueInv DEF IInv, Apart
  <2>2. CASE Apart(PumpStep)
    BY <2>2, PumpSafe, PumpInv DEF IInv, Apart
  <2>3. CASE Apart(TimerStep)
    BY <2>3, TimerSafe, TimerInv DEF IInv, Apart
  <2>4. CASE Apart(CallbackStep) \/ Apart(Tick)
    BY <2>4, DriverSafe, DriverInv DEF IInv, Apart
  <2>5. CASE UploadSession
    <3>1. UNCHANGED Rest /\ paused' \in BOOLEAN
      BY <2>5 DEF UploadSession, Rest
    <3> QED BY <3>1, StutterInv
  <2>6. CASE UNCHANGED vars
    <3>1. UNCHANGED Rest /\ paused' \in BOOLEAN
      BY <2>6 DEF vars, Rest, IInv, Safe, TypeOK
    <3> QED BY <3>1, StutterInv
  <2> QED BY <2>1, <2>2, <2>3, <2>4, <2>5, <2>6 DEF Next
<1> QED BY <1>1, <1>2, PTL DEF Spec

\* Every index, count, lock and position stays in its range, whatever the capacities, for any
\* interleaving of producers with the two consumers (enqueue, pop, pump, pump_telemetry).
THEOREM TypeCorrect == Spec => []TypeOK
<1>1. IInv => TypeOK
  BY DEF IInv, Safe
<1> QED BY <1>1, Inductive, PTL

\* enqueue() and pop() lose, duplicate and resurrect nothing, and radio_send is called at most
\* once for a frame, for any number of producers, frames and slots.
THEOREM FramesAreConserved == Spec => []NoFrameLostOrRepeated
<1>1. IInv => NoFrameLostOrRepeated
  <2> SUFFICES ASSUME IInv PROVE NoFrameLostOrRepeated
    OBVIOUS
  <2>1. \A f \in Frames : fate[f] = "queued" <=> \E c \in Classes : \E i \in Live(c) : slots[c][i] = f
    BY ClassOfIsClass DEF IInv, Places, LiveAreQueued, QueuedAreLive
  <2>2. \A f \in Frames :
          /\ sends[f] <= 1
          /\ fate[f] \in {"new", "offered", "refused", "queued", "unsent"} => sends[f] = 0
    BY DEF IInv, SendsCounted, HandedOver
  <2>3. LiveDiffer
    BY DEF IInv, Places
  <2> QED BY <2>1, <2>2, <2>3 DEF NoFrameLostOrRepeated, LiveDiffer
<1> QED BY <1>1, Inductive, PTL

-----------------------------------------------------------------------------
(* The lanes.                                                              *)

\* The steps of the scheduler, one by one; an upload session that comes or goes changes nothing else.
LEMMA NextSteps ==
  ASSUME [Next]_vars
  PROVE  \/ \E p \in Producers, f \in Frames : EnqueueRefuse(p, f)
         \/ \E p \in Producers, f \in Frames : EnqueueLock(p, f)
         \/ \E p \in Producers : EnqueueFull(p)
         \/ \E p \in Producers : EnqueueCopy(p)
         \/ \E p \in Producers : EnqueuePublish(p)
         \/ \E p \in Producers : EnqueueCount(p)
         \/ PumpNothingAwaited
         \/ PumpDelivered
         \/ PumpFailed
         \/ PumpTimedOut
         \/ PumpContended
         \/ PumpLock
         \/ PumpEmpty
         \/ PumpCopy
         \/ PumpRemove
         \/ PumpArm
         \/ PumpClear
         \/ PumpSend
         \/ PumpSendError
         \/ TimerLock
         \/ TimerEmpty
         \/ TimerCopy
         \/ TimerRemove
         \/ TimerSend
         \/ TimerShed
         \/ \E f \in air : CallbackLost(f)
         \/ \E f \in air, ok \in BOOLEAN : CallbackLoad(f, ok)
         \/ CallbackStore
         \/ Tick
         \/ UNCHANGED Rest
         \/ PumpCall
         \/ PumpWait
         \/ PumpLose
         \/ PumpRelease
BY DEF Next, Apart, Enqueue, PumpStep, TimerStep, CallbackStep, UploadSession, vars, Rest

\* Where a frame that left its ring is: pending_ holds it until its verdict, on the gated lane,
\* or the esp_timer does, on the telemetry lane.
LanesTyped ==
  /\ pumping \in {"clear", "send"} => awaiting
  /\ \A f \in Frames :
       /\ fate[f] = "pending" => pumping \in {"arm", "clear", "send"} /\ f = pending
       /\ fate[f] = "sent" => pumping \in {"idle", "called"} /\ awaiting /\ f = pending
       /\ fate[f] \in {"pending", "sent"} => ClassOf(f) # Telemetry
       /\ fate[f] = "sample" => timing = "send" /\ f = sample /\ ClassOf(f) = Telemetry

\* What a consumer that holds the lock of a ring copied out of it.
LEMMA FrontIsQueued ==
  ASSUME IInv
  PROVE  /\ pumping = "popped" =>
              /\ class \in Classes \ {Telemetry} /\ count[class] > 0
              /\ pending = Front(class) /\ pending \in Frames
              /\ fate[pending] = "queued" /\ ClassOf(pending) = class
         /\ timing = "popped" =>
              /\ count[Telemetry] > 0
              /\ sample = Front(Telemetry) /\ sample \in Frames
              /\ fate[sample] = "queued" /\ ClassOf(sample) = Telemetry
<1>1. RingsOK /\ TasksOK /\ LiveAreQueued /\ PumpInHand /\ TimerInHand /\ ConsumersHoldLocks
  BY DEF IInv, Safe, TypeOK, LockDiscipline, Places, InHand
<1>2. \A c \in Classes : count[c] > 0 =>
        Front(c) \in Frames /\ fate[Front(c)] = "queued" /\ ClassOf(Front(c)) = c
  BY <1>1, ReadIsLive DEF LiveAreQueued, Front
<1> QED
  BY <1>1, <1>2, ClassesAreSmall DEF PumpInHand, TimerInHand, ConsumersHoldLocks, TasksOK

\* Who holds which frame before a step.
LEMMA HandsTyped ==
  ASSUME IInv
  PROVE  /\ fate \in [Frames -> Fates]
         /\ \A p \in Producers : producing[p] \in {"locked", "copied"} =>
              offered[p] \in Frames /\ fate[offered[p]] = "offered"
         /\ pumping \in {"arm", "clear", "send"} => pending \in Frames /\ fate[pending] = "pending"
         /\ awaiting => pumping \in {"idle", "called", "lose", "release", "clear", "send"}
         /\ awaiting /\ pumping \in {"idle", "called"} => pending \in Frames /\ fate[pending] = "sent"
         /\ timing = "send" => sample \in Frames /\ fate[sample] = "sample"
BY DEF IInv, Safe, TypeOK, HistoryOK, LockDiscipline, ProducersHoldLocks, InHand, ProducersInHand,
       PumpInHand, TimerInHand

\* Every step keeps the frames that left their rings in one task's hands, on their lane.
LEMMA LanesStep ==
  ASSUME IInv, LanesTyped, [Next]_vars
  PROVE  LanesTyped'
<1> USE HandsTyped, FrontIsQueued
<1>1. CASE \E p \in Producers, f \in Frames : EnqueueRefuse(p, f)
  BY <1>1 DEF EnqueueRefuse, queues, producer, pump, gate, timer, driver, passing, Now, LanesTyped
<1>2. CASE \E p \in Producers, f \in Frames : EnqueueLock(p, f)
  BY <1>2 DEF EnqueueLock, pump, gate, timer, driver, passing, Acquire, Now, LanesTyped
<1>3. CASE \E p \in Producers : EnqueueFull(p)
  BY <1>3 DEF EnqueueFull, pump, gate, timer, driver, passing, Release, Now, LanesTyped
<1>4. CASE \E p \in Producers : EnqueueCopy(p)
  BY <1>4 DEF EnqueueCopy, pump, gate, timer, driver, history, passing, LanesTyped
<1>5. CASE \E p \in Producers : EnqueuePublish(p)
  BY <1>5 DEF EnqueuePublish, pump, gate, timer, driver, passing, Release, Now, LanesTyped
<1>6. CASE \E p \in Producers : EnqueueCount(p)
  BY <1>6 DEF EnqueueCount, queues, pump, gate, timer, driver, history, passing, LanesTyped
<1>7. CASE PumpNothingAwaited
  BY <1>7 DEF PumpNothingAwaited, queues, producer, gate, timer, driver, history, passing,
     BeginScan, CommandResult, LanesTyped
<1>8. CASE PumpDelivered
  BY <1>8 DEF PumpDelivered, queues, producer, timer, driver, passing,
     Now, LanesTyped
<1>9. CASE PumpFailed
  BY <1>9 DEF PumpFailed, queues, producer, timer, driver, passing, Now,
     LanesTyped
<1>10. CASE PumpTimedOut
  BY <1>10 DEF PumpTimedOut, queues, producer, gate, timer, driver, passing,
     Now, LanesTyped
<1>11. CASE PumpContended
  <2>1. pumping' \in {"idle", "scan"} /\ pumping = "scan"
    BY <1>11, NextClassTyped DEF PumpContended, IInv, Safe, TypeOK, TasksOK
  <2> QED
    BY <1>11, <2>1 DEF PumpContended, gate, timer, LanesTyped
<1>12. CASE PumpLock
  BY <1>12 DEF PumpLock, producer, gate, timer, driver, history, passing, Acquire, LanesTyped
<1>13. CASE PumpEmpty
  <2>1. pumping' \in {"idle", "scan"} /\ pumping = "pop"
    BY <1>13, NextClassTyped DEF PumpEmpty, IInv, Safe, TypeOK, TasksOK
  <2> QED
    BY <1>13, <2>1 DEF PumpEmpty, gate, timer, history, LanesTyped
<1>14. CASE PumpCopy
  BY <1>14 DEF PumpCopy, queues, producer, gate, timer, driver, history, passing, LanesTyped
<1>15. CASE PumpRemove
  BY <1>15 DEF PumpRemove, producer, gate, timer, driver, Remove, Release, Now, LanesTyped
<1>16. CASE PumpArm
  BY <1>16 DEF PumpArm, queues, producer, timer, driver, history, passing, LanesTyped
<1>17. CASE PumpClear
  BY <1>17 DEF PumpClear, queues, producer, timer, driver, passing, LanesTyped
<1>18. CASE PumpSend
  BY <1>18 DEF PumpSend, queues, producer, gate, timer, passing, Now, LanesTyped
<1>19. CASE PumpSendError
  BY <1>19 DEF PumpSendError, queues, producer, timer, driver, passing, Now, LanesTyped
<1>20. CASE TimerLock
  BY <1>20 DEF TimerLock, producer, pump, gate, driver, history, passing, Acquire, LanesTyped
<1>21. CASE TimerEmpty
  BY <1>21 DEF TimerEmpty, producer, pump, gate, driver, history, passing, Release, LanesTyped
<1>22. CASE TimerCopy
  BY <1>22 DEF TimerCopy, queues, producer, pump, gate, driver, history, passing, LanesTyped
<1>23. CASE TimerRemove
  BY <1>23 DEF TimerRemove, producer, pump, gate, driver, passing, Remove, Release, Now, LanesTyped
<1>24. CASE TimerSend
  BY <1>24 DEF TimerSend, queues, producer, pump, gate, passing, Now, LanesTyped
<1>25. CASE TimerShed
  BY <1>25 DEF TimerShed, queues, producer, pump, gate, driver, passing, Now, LanesTyped
<1>26. CASE \E f \in air : CallbackLost(f)
  BY <1>26 DEF CallbackLost, queues, producer, pump, gate, timer, history, passing, LanesTyped
<1>27. CASE \E f \in air, ok \in BOOLEAN : CallbackLoad(f, ok)
  BY <1>27 DEF CallbackLoad, queues, producer, pump, gate, timer, passing, LanesTyped
<1>28. CASE CallbackStore
  BY <1>28 DEF CallbackStore, queues, producer, pump, timer, history, passing, LanesTyped
<1>29. CASE Tick
  BY <1>29 DEF Tick, queues, producer, pump, timer, driver, history, passing, LanesTyped
<1>30. CASE UNCHANGED Rest
  BY <1>30 DEF Rest, queues, producer, pump, gate, timer, driver, history, passing, LanesTyped
<1>31. CASE PumpCall
  BY <1>31 DEF PumpCall, queues, producer, gate, timer, driver, history, passing, LanesTyped
<1>32. CASE PumpWait
  BY <1>32 DEF PumpWait, queues, producer, gate, timer, driver, history, passing, LanesTyped
<1>33. CASE PumpLose
  BY <1>33 DEF PumpLose, queues, producer, gate, timer, driver, history, passing, LanesTyped
<1>34. CASE PumpRelease
  BY <1>34 DEF PumpRelease, queues, producer, gate, timer, driver, history, passing,
     BeginScan, CommandResult, LanesTyped
<1> QED
  BY <1>1, <1>2, <1>3, <1>4, <1>5, <1>6, <1>7, <1>8, <1>9, <1>10, <1>11, <1>12, <1>13, <1>14, <1>15,
     <1>16, <1>17, <1>18, <1>19, <1>20, <1>21, <1>22, <1>23, <1>24, <1>25, <1>26, <1>27, <1>28,
     <1>29, <1>30, <1>31, <1>32, <1>33, <1>34, NextSteps

\* The two facts the refinement rests on hold together.
LEMMA LanesTypedAlways == Spec => [](IInv /\ LanesTyped)
<1>1. Init => LanesTyped
  BY DEF Init, LanesTyped
<1> QED
  BY <1>1, LanesStep, Inductive, PTL DEF Spec

-----------------------------------------------------------------------------
(* TxScheduler implements TxPromise.                                       *)

\* The slot of the k-th oldest frame of a ring, without a remainder.
Spot(c, k) == IF read[c] + k - 1 < Capacity[c] THEN read[c] + k - 1
                                               ELSE read[c] + k - 1 - Capacity[c]

\* A number less than two turns out wraps by one subtraction.
LEMMA ModOfOneTurn ==
  ASSUME NEW d \in Nat \ {0}, NEW x \in 0 .. 2 * d - 1
  PROVE  x % d = IF x < d THEN x ELSE x - d
<1> DEFINE q == x \div d  m == x % d
<1>1. q \in Int /\ m \in 0 .. d - 1 /\ x = d * q + m
  BY Z3
<1> HIDE DEF q, m
<1>2. CASE q >= 2
  BY <1>1, <1>2, d * q >= 2 * d
<1>3. CASE q <= -1
  BY <1>1, <1>3, d * q <= -d
<1>4. CASE q = 0
  BY <1>1, <1>4 DEF m
<1>5. CASE q = 1
  BY <1>1, <1>5 DEF m
<1> QED
  BY <1>1, <1>2, <1>3, <1>4, <1>5

\* The backlog of a class is a sequence of frames, one per live slot.
LEMMA BacklogIsSeq ==
  ASSUME RingsOK, LiveAreQueued, NEW c \in Classes
  PROVE  /\ Backlog(c) \in Seq(Frames) /\ Len(Backlog(c)) = count[c] /\ count[c] \in Nat
         /\ \A k \in 1 .. count[c] : Backlog(c)[k] = slots[c][Spot(c, k)]
<1>1. /\ read[c] \in 0 .. Capacity[c] - 1 /\ count[c] \in 0 .. Capacity[c]
      /\ Capacity[c] \in Nat \ {0}
  BY DEF RingsOK
<1>2. ASSUME NEW k \in 1 .. count[c]
      PROVE  (read[c] + k - 1) % Capacity[c] = Spot(c, k) /\ slots[c][Spot(c, k)] \in Frames
  <2> DEFINE x == read[c] + k - 1  d == Capacity[c]
  <2>1. x \in 0 .. 2 * d - 1 /\ d \in Nat \ {0}
    BY <1>1
  <2>3. Spot(c, k) = IF x < d THEN x ELSE x - d
    BY <1>1 DEF Spot
  <2> HIDE DEF x, d
  <2>2. x % d = IF x < d THEN x ELSE x - d
    BY <2>1, ModOfOneTurn
  <2>4. Spot(c, k) \in Live(c)
    BY <1>1 DEF Spot, Live
  <2>5. slots[c][Spot(c, k)] \in Frames
    BY <2>4 DEF LiveAreQueued
  <2>6. x % d = Spot(c, k)
    BY <2>2, <2>3
  <2> QED
    BY <2>5, <2>6 DEF x, d
<1>3. \A k \in 1 .. count[c] : Backlog(c)[k] = slots[c][Spot(c, k)] /\ Backlog(c)[k] \in Frames
  BY <1>2 DEF Backlog
<1>4. Backlog(c) \in [1 .. count[c] -> Frames]
  BY <1>3 DEF Backlog
<1> QED
  BY <1>1, <1>3, <1>4, SMTT(30)

\* Nothing but the locks of the rings changed.
LEMMA BacklogsKept ==
  ASSUME UNCHANGED <<slots, read, count>>
  PROVE  [d \in Classes |-> Backlog(d)]' = [d \in Classes |-> Backlog(d)]
BY DEF Backlog

\* What enqueue() does to the backlogs when it publishes a frame: one appended, no other changed.
LEMMA PublishAppends ==
  ASSUME IInv, NEW c \in Classes, NEW f \in Frames, count[c] < Capacity[c], slots[c][write[c]] = f,
         UNCHANGED <<slots, read>>, count' = [count EXCEPT ![c] = @ + 1]
  PROVE  [d \in Classes |-> Backlog(d)]' =
           [[d \in Classes |-> Backlog(d)] EXCEPT ![c] = Append(@, f)]
<1>1. RingsOK /\ LiveAreQueued /\ RingsContiguous
  BY DEF IInv, Safe, TypeOK, Places
<1>4. count'[c] = count[c] + 1 /\ \A d \in Classes \ {c} : count'[d] = count[d]
  BY <1>1 DEF RingsOK
<1>5. \A d \in Classes \ {c} : Backlog(d)' = Backlog(d)
  BY <1>4 DEF Backlog
<1>6. Backlog(c)' = Append(Backlog(c), f)
  <2> DEFINE b == Backlog(c)  n == Backlog(c)'  k == count[c] + 1
  <2>1. b \in Seq(Frames) /\ Len(b) = count[c] /\ count[c] \in Nat
    BY <1>1, BacklogIsSeq
  <2>2. n = [i \in 1 .. k |-> slots[c][(read[c] + i - 1) % Capacity[c]]]
    BY <1>4 DEF Backlog
  <2>3. \A i \in 1 .. count[c] : n[i] = b[i] /\ b[i] \in Frames
    BY <2>1, <2>2 DEF Backlog
  <2>4. (read[c] + k - 1) % Capacity[c] = write[c]
    <3> DEFINE x == read[c] + k - 1  d == Capacity[c]
    <3>1. x \in 0 .. 2 * d - 1 /\ d \in Nat \ {0}
      BY <1>1 DEF RingsOK
    <3>2. write[c] = IF x < d THEN x ELSE x - d
      BY <1>1 DEF RingsContiguous, RingsOK
    <3> HIDE DEF x, d
    <3>3. x % d = IF x < d THEN x ELSE x - d
      BY <3>1, ModOfOneTurn
    <3> QED
      BY <3>2, <3>3 DEF x, d
  <2>5. n[k] = f
    BY <2>1, <2>2, <2>4
  <2>6. n \in Seq(Frames) /\ Len(n) = k
    <3>1. k \in Nat /\ \A i \in 1 .. k : n[i] \in Frames
      BY <2>1, <2>3, <2>5
    <3>2. n = [i \in 1 .. k |-> n[i]]
      BY <2>2
    <3> HIDE DEF n, k
    <3>3. n \in [1 .. k -> Frames]
      BY <3>1, <3>2
    <3> QED
      BY <3>1, <3>3
  <2> HIDE DEF b, n
  <2>8. /\ Append(b, f) \in Seq(Frames) /\ Len(Append(b, f)) = k
        /\ \A i \in 1 .. count[c] : Append(b, f)[i] = b[i]
        /\ Append(b, f)[k] = f
    BY <2>1, AppendProperties
  <2>9. \A i \in 1 .. Len(n) : n[i] = Append(b, f)[i]
    BY <2>1, <2>3, <2>5, <2>6, <2>8
  <2>10. n = Append(b, f)
    BY <2>6, <2>8, <2>9, SeqEqual
  <2> QED
    BY <2>10 DEF b, n
<1> DEFINE old == [d \in Classes |-> Backlog(d)]
<1>7. [d \in Classes |-> Backlog(d)]' = [old EXCEPT ![c] = Append(@, f)]
  BY <1>5, <1>6
<1> QED
  BY <1>7

\* What pop() does to the backlogs: the oldest frame of one leaves, no other changes.
LEMMA RemoveTakesHead ==
  ASSUME IInv, NEW c \in Classes, count[c] > 0, Remove(c)
  PROVE  /\ Backlog(c) # << >> /\ Head(Backlog(c)) = Front(c)
         /\ [d \in Classes |-> Backlog(d)]' =
              [[d \in Classes |-> Backlog(d)] EXCEPT ![c] = Tail(@)]
<1> DEFINE b == Backlog(c)  n == Backlog(c)'
<1>1. RingsOK /\ LiveAreQueued
  BY DEF IInv, Safe, TypeOK, Places
<1>2. /\ read[c] \in 0 .. Capacity[c] - 1 /\ count[c] \in 1 .. Capacity[c]
      /\ Capacity[c] \in Nat \ {0}
  BY <1>1 DEF RingsOK
<1>3. /\ b \in Seq(Frames) /\ Len(b) = count[c]
      /\ \A k \in 1 .. count[c] : b[k] = slots[c][Spot(c, k)]
  BY <1>1, BacklogIsSeq
<1>4. b # << >> /\ Head(b) = Front(c)
  <2>1. b # << >> /\ Head(b) = b[1]
    BY <1>2, <1>3
  <2>2. Spot(c, 1) = read[c]
    BY <1>2 DEF Spot
  <2> QED
    BY <1>2, <1>3, <2>1, <2>2 DEF Front
<1>5. /\ UNCHANGED slots
      /\ read'[c] = Advance(read[c], c) /\ count'[c] = count[c] - 1
      /\ \A d \in Classes \ {c} : read'[d] = read[d] /\ count'[d] = count[d]
  BY <1>1 DEF Remove, RingsOK
<1>6. \A d \in Classes \ {c} : Backlog(d)' = Backlog(d)
  BY <1>5 DEF Backlog
<1>7. n = Tail(b)
  <2>1. ASSUME NEW i \in 1 .. count[c] - 1
        PROVE  n[i] = b[i + 1]
    <3>1. n[i] = slots[c][(read'[c] + i - 1) % Capacity[c]]
      BY <1>5 DEF Backlog
    <3>2. (read'[c] + i - 1) % Capacity[c] = Spot(c, i + 1)
      <4> DEFINE x == read'[c] + i - 1  d == Capacity[c]
      <4>1. x \in 0 .. 2 * d - 1 /\ d \in Nat \ {0}
        BY <1>2, <1>5 DEF Advance
      <4>2. Spot(c, i + 1) = IF x < d THEN x ELSE x - d
        BY <1>2, <1>5 DEF Advance, Spot
      <4> HIDE DEF x, d
      <4>3. x % d = IF x < d THEN x ELSE x - d
        BY <4>1, ModOfOneTurn
      <4> QED
        BY <4>2, <4>3 DEF x, d
    <3> QED
      BY <1>2, <1>3, <3>1, <3>2
  <2>2. n = [i \in 1 .. count[c] - 1 |-> n[i]]
    BY <1>5 DEF Backlog
  <2> HIDE DEF b, n
  <2>3. \A i \in 1 .. count[c] - 1 : b[i + 1] \in Frames
    BY <1>2, <1>3
  <2>4. n \in [1 .. count[c] - 1 -> Frames]
    BY <2>1, <2>2, <2>3
  <2>5. n \in Seq(Frames) /\ Len(n) = count[c] - 1
    BY <1>2, <2>4
  <2>6. /\ Tail(b) \in Seq(Frames) /\ Len(Tail(b)) = count[c] - 1
        /\ \A i \in 1 .. count[c] - 1 : Tail(b)[i] = b[i + 1]
    BY <1>3, <1>4, HeadTailProperties DEF b
  <2>7. \A i \in 1 .. Len(n) : n[i] = Tail(b)[i]
    BY <2>1, <2>5, <2>6
  <2> QED
    BY <2>5, <2>6, <2>7, SeqEqual
<1> DEFINE old == [d \in Classes |-> Backlog(d)]
<1>8. [d \in Classes |-> Backlog(d)]' = [old EXCEPT ![c] = Tail(@)]
  BY <1>6, <1>7
<1> QED
  BY <1>4, <1>8

\* The names of the stages.
LEMMA StageNames ==
  /\ \A s \in {"new", "offered"} : StageOf(s) = "new"
  /\ StageOf("refused") = "refused"
  /\ StageOf("queued") = "waiting"
  /\ \A s \in {"pending", "sent", "sample"} : StageOf(s) = "under way"
  /\ \A s \in Settled \ {"refused"} : StageOf(s) = "settled"
BY DEF StageOf, Settled

\* A frame moves on in its life.
LEMMA StageMoves ==
  ASSUME fate \in [Frames -> Fates], NEW f \in Frames, NEW s \in Fates, Now(f, s)
  PROVE  Promise!Move(f, StageOf(fate[f]), StageOf(s))
BY DEF Promise!Move, Now

\* Every step of the scheduler is a step of its promise, or does not show there.
LEMMA PromiseStep ==
  ASSUME IInv, LanesTyped, [Next]_vars
  PROVE  [Promise!Next]_Promise!vars
<1> USE HandsTyped, FrontIsQueued
<1>1. CASE \E p \in Producers, f \in Frames : EnqueueRefuse(p, f)
  <2>0. PICK p \in Producers, f \in Frames : EnqueueRefuse(p, f)
    BY <1>1
  <2>1. f \in Frames /\ fate[f] = "new" /\ Now(f, "refused")
    BY <2>0 DEF EnqueueRefuse, queues, producer, pump, gate, timer, driver, passing, Now
  <2>2. UNCHANGED <<slots, read, count>>
    BY <2>0 DEF EnqueueRefuse, queues, producer, pump, gate, timer, driver, passing, Now
  <2>3. StageOf("new") = "new" /\ StageOf("refused") = "refused"
    BY StageNames DEF Settled
  <2>4. Promise!Move(f, StageOf("new"), StageOf("refused"))
    BY <2>1, StageMoves DEF Fates, Settled
  <2>5. Promise!Refuse(f)
    BY <2>2, <2>3, <2>4, BacklogsKept DEF Promise!Refuse
  <2> QED
    BY <2>1, <2>5 DEF Promise!Next
<1>2. CASE \E p \in Producers, f \in Frames : EnqueueLock(p, f)
  <2>0. PICK p \in Producers, f \in Frames : EnqueueLock(p, f)
    BY <1>2
  <2>1. fate[f] = "new" /\ Now(f, "offered") /\ UNCHANGED <<slots, read, count>>
    BY <2>0 DEF EnqueueLock, Acquire
  <2>2. [g \in Frames |-> StageOf(fate[g])]' = [g \in Frames |-> StageOf(fate[g])]
    BY <2>1 DEF Now, StageOf
  <2> QED
    BY <2>1, <2>2, BacklogsKept DEF Promise!vars
<1>3. CASE \E p \in Producers : EnqueueFull(p)
  <2>0. PICK p \in Producers : EnqueueFull(p)
    BY <1>3
  <2>1. offered[p] \in Frames /\ fate[offered[p]] = "offered" /\ Now(offered[p], "refused")
    BY <2>0 DEF EnqueueFull, pump, gate, timer, driver, passing, Release, Now
  <2>2. UNCHANGED <<slots, read, count>>
    BY <2>0 DEF EnqueueFull, pump, gate, timer, driver, passing, Release, Now
  <2>3. StageOf("offered") = "new" /\ StageOf("refused") = "refused"
    BY StageNames DEF Settled
  <2>4. Promise!Move(offered[p], StageOf("offered"), StageOf("refused"))
    BY <2>1, StageMoves DEF Fates, Settled
  <2>5. Promise!Refuse(offered[p])
    BY <2>2, <2>3, <2>4, BacklogsKept DEF Promise!Refuse
  <2> QED
    BY <2>1, <2>5 DEF Promise!Next
<1>4. CASE \E p \in Producers : EnqueueCopy(p)
  <2>1. PICK p \in Producers : EnqueueCopy(p)
    BY <1>4
  <2> DEFINE c == ClassOf(offered[p])
  <2>2. /\ slots' = [slots EXCEPT ![c][write[c]] = offered[p]]
        /\ UNCHANGED <<read, count, fate>> /\ count[c] < Capacity[c]
    BY <2>1 DEF EnqueueCopy, history
  <2>3. \A d \in Classes : Backlog(d)' = Backlog(d)
    <3> SUFFICES ASSUME NEW d \in Classes PROVE Backlog(d)' = Backlog(d)
      OBVIOUS
    <3>1. RingsOK /\ RingsContiguous /\ c \in Classes
      BY <2>1, ClassOfIsClass DEF IInv, Safe, TypeOK, Places, EnqueueCopy
    <3> HIDE DEF c
    <3>2. ASSUME NEW k \in 1 .. count[d]
          PROVE  slots'[d][(read[d] + k - 1) % Capacity[d]] = slots[d][(read[d] + k - 1) % Capacity[d]]
      <4> DEFINE x == read[d] + k - 1  m == Capacity[d]
      <4>1. x \in 0 .. 2 * m - 1 /\ m \in Nat \ {0}
        BY <3>1, SMTT(30) DEF RingsOK
      <4>2. d = c => write[c] # (IF x < m THEN x ELSE x - m)
        BY <2>2, <3>1 DEF RingsOK, RingsContiguous
      <4> HIDE DEF x, m
      <4>3. x % m = IF x < m THEN x ELSE x - m
        BY <4>1, ModOfOneTurn
      <4>4. d = c => write[c] # x % m
        BY <4>2, <4>3
      <4>5. slots'[d][x % m] = slots[d][x % m]
        BY <2>2, <3>1, <4>4 DEF RingsOK
      <4> QED
        BY <4>5 DEF x, m
    <3> QED
      BY <2>2, <3>2 DEF Backlog
  <2> QED
    BY <2>2, <2>3 DEF Promise!vars
<1>5. CASE \E p \in Producers : EnqueuePublish(p)
  <2>1. PICK p \in Producers : EnqueuePublish(p)
    BY <1>5
  <2>2. /\ offered[p] \in Frames /\ fate[offered[p]] = "offered"
        /\ count[ClassOf(offered[p])] < Capacity[ClassOf(offered[p])]
        /\ slots[ClassOf(offered[p])][write[ClassOf(offered[p])]] = offered[p]
    BY <2>1 DEF EnqueuePublish, IInv, Safe, LockDiscipline, CopiedHasRoom, InHand, ProducersInHand
  <2>3. /\ UNCHANGED <<slots, read>> /\ Now(offered[p], "queued")
        /\ count' = [count EXCEPT ![ClassOf(offered[p])] = @ + 1]
    BY <2>1 DEF EnqueuePublish
  <2>4. Promise!Move(offered[p], "new", "waiting")
    BY <2>2, <2>3, StageMoves DEF StageOf, Fates
  <2>5. Promise!Accept(offered[p])
    BY <2>2, <2>3, <2>4, PublishAppends, ClassOfIsClass DEF Promise!Accept
  <2> QED
    BY <2>2, <2>5 DEF Promise!Next
<1>6. CASE \E p \in Producers : EnqueueCount(p)
  <2>1. UNCHANGED <<slots, read, count, fate>>
    BY <1>6 DEF EnqueueCount, queues, pump, gate, timer, driver, history, passing
  <2> QED
    BY <2>1, BacklogsKept DEF Promise!vars
<1>7. CASE PumpNothingAwaited
  <2>1. UNCHANGED <<slots, read, count, fate>>
    BY <1>7 DEF PumpNothingAwaited, queues, producer, gate, timer, driver, history, passing,
       BeginScan, CommandResult
  <2> QED
    BY <2>1, BacklogsKept DEF Promise!vars
<1>8. CASE PumpDelivered
  <2>1. pending \in Frames /\ fate[pending] = "sent" /\ Now(pending, "delivered")
    BY <1>8 DEF PumpDelivered, queues, producer, timer, driver, passing,
       Now
  <2>2. UNCHANGED <<slots, read, count>>
    BY <1>8 DEF PumpDelivered, queues, producer, timer, driver, passing,
       Now
  <2>3. StageOf("sent") = "under way" /\ StageOf("delivered") = "settled"
    BY StageNames DEF Settled
  <2>4. Promise!Move(pending, StageOf("sent"), StageOf("delivered"))
    BY <2>1, StageMoves DEF Fates, Settled
  <2>5. Promise!Settle(pending)
    BY <2>2, <2>3, <2>4, BacklogsKept DEF Promise!Settle
  <2> QED
    BY <2>1, <2>5 DEF Promise!Next
<1>9. CASE PumpFailed
  <2>1. pending \in Frames /\ fate[pending] = "sent" /\ Now(pending, "failed")
    BY <1>9 DEF PumpFailed, queues, producer, timer, driver, passing, Now
  <2>2. UNCHANGED <<slots, read, count>>
    BY <1>9 DEF PumpFailed, queues, producer, timer, driver, passing, Now
  <2>3. StageOf("sent") = "under way" /\ StageOf("failed") = "settled"
    BY StageNames DEF Settled
  <2>4. Promise!Move(pending, StageOf("sent"), StageOf("failed"))
    BY <2>1, StageMoves DEF Fates, Settled
  <2>5. Promise!Settle(pending)
    BY <2>2, <2>3, <2>4, BacklogsKept DEF Promise!Settle
  <2> QED
    BY <2>1, <2>5 DEF Promise!Next
<1>10. CASE PumpTimedOut
  <2>1. pending \in Frames /\ fate[pending] = "sent" /\ Now(pending, "expired")
    BY <1>10 DEF PumpTimedOut, queues, producer, gate, timer, driver, passing,
       Now
  <2>2. UNCHANGED <<slots, read, count>>
    BY <1>10 DEF PumpTimedOut, queues, producer, gate, timer, driver, passing,
       Now
  <2>3. StageOf("sent") = "under way" /\ StageOf("expired") = "settled"
    BY StageNames DEF Settled
  <2>4. Promise!Move(pending, StageOf("sent"), StageOf("expired"))
    BY <2>1, StageMoves DEF Fates, Settled
  <2>5. Promise!Settle(pending)
    BY <2>2, <2>3, <2>4, BacklogsKept DEF Promise!Settle
  <2> QED
    BY <2>1, <2>5 DEF Promise!Next
<1>11. CASE PumpContended
  <2>1. UNCHANGED <<slots, read, count, fate>>
    BY <1>11 DEF PumpContended, queues, producer, gate, timer, driver
  <2> QED
    BY <2>1, BacklogsKept DEF Promise!vars
<1>12. CASE PumpLock
  <2>1. UNCHANGED <<slots, read, count, fate>>
    BY <1>12 DEF PumpLock, producer, gate, timer, driver, history, passing, Acquire
  <2> QED
    BY <2>1, BacklogsKept DEF Promise!vars
<1>13. CASE PumpEmpty
  <2>1. UNCHANGED <<slots, read, count, fate>>
    BY <1>13 DEF PumpEmpty, producer, gate, timer, driver, history, passing, Release
  <2> QED
    BY <2>1, BacklogsKept DEF Promise!vars
<1>14. CASE PumpCopy
  <2>1. UNCHANGED <<slots, read, count, fate>>
    BY <1>14 DEF PumpCopy, queues, producer, gate, timer, driver, history, passing
  <2> QED
    BY <2>1, BacklogsKept DEF Promise!vars
<1>15. CASE PumpRemove
  <2>1. /\ class \in Classes /\ count[class] > 0 
        /\ pending = Front(class) /\ pending \in Frames
        /\ fate[pending] = "queued" /\ Remove(class) /\ Now(pending, "pending")
    BY <1>15, ClassesAreSmall DEF PumpRemove
  <2>2. Promise!Move(pending, "waiting", "under way")
    BY <2>1, StageMoves DEF StageOf, Fates
  <2>3. \A g \in Frames : LaneOf(ClassOf(g)) = LaneOf(class) => StageOf(fate[g]) # "under way"
    <3>1. \A g \in Frames : LaneOf(ClassOf(g)) = LaneOf(class) =>
            fate[g] \notin {"pending", "sent", "sample"}
      BY <1>15 DEF LanesTyped, LaneOf, PumpRemove
    <3> QED
      BY <3>1, HandsTyped DEF StageOf, Fates, Settled
  <2>4. Promise!Take(class)
    BY <2>1, <2>2, <2>3, RemoveTakesHead DEF Promise!Take
  <2> QED
    BY <2>1, <2>4 DEF Promise!Next
<1>16. CASE PumpArm
  <2>1. UNCHANGED <<slots, read, count, fate>>
    BY <1>16 DEF PumpArm, queues, producer, timer, driver, history, passing
  <2> QED
    BY <2>1, BacklogsKept DEF Promise!vars
<1>17. CASE PumpClear
  <2>1. UNCHANGED <<slots, read, count, fate>>
    BY <1>17 DEF PumpClear, queues, producer, timer, driver, passing
  <2> QED
    BY <2>1, BacklogsKept DEF Promise!vars
<1>18. CASE PumpSend
  <2>1. fate[pending] = "pending" /\ Now(pending, "sent") /\ UNCHANGED <<slots, read, count>>
    BY <1>18 DEF PumpSend, queues, producer, gate, timer, passing, Now
  <2>2. [g \in Frames |-> StageOf(fate[g])]' = [g \in Frames |-> StageOf(fate[g])]
    BY <2>1 DEF Now, StageOf
  <2> QED
    BY <2>1, <2>2, BacklogsKept DEF Promise!vars
<1>19. CASE PumpSendError
  <2>1. pending \in Frames /\ fate[pending] = "pending" /\ Now(pending, "unsent")
    BY <1>19 DEF PumpSendError, queues, producer, timer, driver, passing, Now
  <2>2. UNCHANGED <<slots, read, count>>
    BY <1>19 DEF PumpSendError, queues, producer, timer, driver, passing, Now
  <2>3. StageOf("pending") = "under way" /\ StageOf("unsent") = "settled"
    BY StageNames DEF Settled
  <2>4. Promise!Move(pending, StageOf("pending"), StageOf("unsent"))
    BY <2>1, StageMoves DEF Fates, Settled
  <2>5. Promise!Settle(pending)
    BY <2>2, <2>3, <2>4, BacklogsKept DEF Promise!Settle
  <2> QED
    BY <2>1, <2>5 DEF Promise!Next
<1>20. CASE TimerLock
  <2>1. UNCHANGED <<slots, read, count, fate>>
    BY <1>20 DEF TimerLock, producer, pump, gate, driver, history, passing, Acquire
  <2> QED
    BY <2>1, BacklogsKept DEF Promise!vars
<1>21. CASE TimerEmpty
  <2>1. UNCHANGED <<slots, read, count, fate>>
    BY <1>21 DEF TimerEmpty, producer, pump, gate, driver, history, passing, Release
  <2> QED
    BY <2>1, BacklogsKept DEF Promise!vars
<1>22. CASE TimerCopy
  <2>1. UNCHANGED <<slots, read, count, fate>>
    BY <1>22 DEF TimerCopy, queues, producer, pump, gate, driver, history, passing
  <2> QED
    BY <2>1, BacklogsKept DEF Promise!vars
<1>23. CASE TimerRemove
  <2>1. /\ Telemetry \in Classes /\ count[Telemetry] > 0 
        /\ sample = Front(Telemetry) /\ sample \in Frames
        /\ fate[sample] = "queued" /\ Remove(Telemetry) /\ Now(sample, "sample")
    BY <1>23, ClassesAreSmall DEF TimerRemove
  <2>2. Promise!Move(sample, "waiting", "under way")
    BY <2>1, StageMoves DEF StageOf, Fates
  <2>3. \A g \in Frames : LaneOf(ClassOf(g)) = LaneOf(Telemetry) => StageOf(fate[g]) # "under way"
    <3>1. \A g \in Frames : LaneOf(ClassOf(g)) = LaneOf(Telemetry) =>
            fate[g] \notin {"pending", "sent", "sample"}
      BY <1>23 DEF LanesTyped, LaneOf, TimerRemove
    <3> QED
      BY <3>1, HandsTyped DEF StageOf, Fates, Settled
  <2>4. Promise!Take(Telemetry)
    BY <2>1, <2>2, <2>3, RemoveTakesHead DEF Promise!Take
  <2> QED
    BY <2>1, <2>4 DEF Promise!Next
<1>24. CASE TimerSend
  <2>1. sample \in Frames /\ fate[sample] = "sample" /\ Now(sample, "streamed")
    BY <1>24 DEF TimerSend, queues, producer, pump, gate, passing, Now
  <2>2. UNCHANGED <<slots, read, count>>
    BY <1>24 DEF TimerSend, queues, producer, pump, gate, passing, Now
  <2>3. StageOf("sample") = "under way" /\ StageOf("streamed") = "settled"
    BY StageNames DEF Settled
  <2>4. Promise!Move(sample, StageOf("sample"), StageOf("streamed"))
    BY <2>1, StageMoves DEF Fates, Settled
  <2>5. Promise!Settle(sample)
    BY <2>2, <2>3, <2>4, BacklogsKept DEF Promise!Settle
  <2> QED
    BY <2>1, <2>5 DEF Promise!Next
<1>25. CASE TimerShed
  <2>1. sample \in Frames /\ fate[sample] = "sample" /\ Now(sample, "shed")
    BY <1>25 DEF TimerShed, queues, producer, pump, gate, driver, passing, Now
  <2>2. UNCHANGED <<slots, read, count>>
    BY <1>25 DEF TimerShed, queues, producer, pump, gate, driver, passing, Now
  <2>3. StageOf("sample") = "under way" /\ StageOf("shed") = "settled"
    BY StageNames DEF Settled
  <2>4. Promise!Move(sample, StageOf("sample"), StageOf("shed"))
    BY <2>1, StageMoves DEF Fates, Settled
  <2>5. Promise!Settle(sample)
    BY <2>2, <2>3, <2>4, BacklogsKept DEF Promise!Settle
  <2> QED
    BY <2>1, <2>5 DEF Promise!Next
<1>26. CASE \E f \in air : CallbackLost(f)
  <2>1. UNCHANGED <<slots, read, count, fate>>
    BY <1>26 DEF CallbackLost, queues, producer, pump, gate, timer, history, passing
  <2> QED
    BY <2>1, BacklogsKept DEF Promise!vars
<1>27. CASE \E f \in air, ok \in BOOLEAN : CallbackLoad(f, ok)
  <2>1. UNCHANGED <<slots, read, count, fate>>
    BY <1>27 DEF CallbackLoad, queues, producer, pump, gate, timer, passing
  <2> QED
    BY <2>1, BacklogsKept DEF Promise!vars
<1>28. CASE CallbackStore
  <2>1. UNCHANGED <<slots, read, count, fate>>
    BY <1>28 DEF CallbackStore, queues, producer, pump, timer, history, passing
  <2> QED
    BY <2>1, BacklogsKept DEF Promise!vars
<1>29. CASE Tick
  <2>1. UNCHANGED <<slots, read, count, fate>>
    BY <1>29 DEF Tick, queues, producer, pump, timer, driver, history, passing
  <2> QED
    BY <2>1, BacklogsKept DEF Promise!vars
<1>30. CASE UNCHANGED Rest
  <2>1. UNCHANGED <<slots, read, count, fate>>
    BY <1>30 DEF Rest, queues, producer, pump, gate, timer, driver, history, passing
  <2> QED
    BY <2>1, BacklogsKept DEF Promise!vars
<1>31. CASE PumpCall
  <2>1. UNCHANGED <<slots, read, count, fate>>
    BY <1>31 DEF PumpCall, queues, producer, gate, timer, driver, history, passing
  <2> QED
    BY <2>1, BacklogsKept DEF Promise!vars
<1>32. CASE PumpWait
  <2>1. UNCHANGED <<slots, read, count, fate>>
    BY <1>32 DEF PumpWait, queues, producer, gate, timer, driver, history, passing
  <2> QED
    BY <2>1, BacklogsKept DEF Promise!vars
<1>33. CASE PumpLose
  <2>1. UNCHANGED <<slots, read, count, fate>>
    BY <1>33 DEF PumpLose, queues, producer, gate, timer, driver, history, passing
  <2> QED
    BY <2>1, BacklogsKept DEF Promise!vars
<1>34. CASE PumpRelease
  <2>1. UNCHANGED <<slots, read, count, fate>>
    BY <1>34 DEF PumpRelease, queues, producer, gate, timer, driver, history, passing,
     BeginScan, CommandResult
  <2> QED
    BY <2>1, BacklogsKept DEF Promise!vars
<1> QED
  BY <1>1, <1>2, <1>3, <1>4, <1>5, <1>6, <1>7, <1>8, <1>9, <1>10, <1>11, <1>12, <1>13, <1>14, <1>15,
     <1>16, <1>17, <1>18, <1>19, <1>20, <1>21, <1>22, <1>23, <1>24, <1>25, <1>26, <1>27, <1>28,
     <1>29, <1>30, <1>31, <1>32, <1>33, <1>34, NextSteps

\* enqueue(), pump(), pump_telemetry() and on_delivery() keep the promise of TxPromise, whatever
\* the rings, the producers and the interleaving: a frame is refused at once or waits its turn in
\* the FIFO of its class, leaves it once, and a lane has at most one frame under way.
THEOREM ImplementsThePromise == Spec => KeepsPromise
<1>1. Init => Promise!Init
  <2> SUFFICES ASSUME Init PROVE Promise!Init
    OBVIOUS
  <2>1. \A c \in Classes : Backlog(c) = << >>
    <3> SUFFICES ASSUME NEW c \in Classes PROVE Backlog(c) = << >>
      OBVIOUS
    <3>1. count[c] = 0
      BY DEF Init
    <3> QED
      BY <3>1 DEF Backlog
  <2>2. \A f \in Frames : StageOf(fate[f]) = "new"
    BY DEF Init, StageOf
  <2> QED
    BY <2>1, <2>2 DEF Promise!Init
<1>2. IInv /\ LanesTyped /\ [Next]_vars => [Promise!Next]_Promise!vars
  BY PromiseStep
<1> QED
  BY <1>1, <1>2, LanesTypedAlways, PTL DEF Spec, KeepsPromise, Promise!Spec

-----------------------------------------------------------------------------
(* The order of urgency.                                                   *)

\* A frame that was overtaken and not passed over waits in a ring pump() has not come back to:
\* no pass is beyond its class until that ring is empty.
Passes ==
  \A f \in Frames \ contended :
    /\ overtaken[f] <= 1
    /\ fate[f] \in {"new", "offered"} => overtaken[f] = 0
    /\ overtaken[f] # 0 => ClassOf(f) # Telemetry
    /\ fate[f] = "queued" /\ overtaken[f] # 0 /\ pumping \in {"scan", "pop", "popped"} =>
         class <= ClassOf(f)

\* What a pass of pump() knows of the classes, and of an empty ring.
LEMMA PassesTyped ==
  ASSUME IInv
  PROVE  /\ overtaken \in [Frames -> Nat] /\ class \in Classes \ {Telemetry}
         /\ \A f \in Frames : ClassOf(f) \in Classes /\ ClassOf(f) \in Nat
         /\ pumping = "pop" /\ count[class] = 0 =>
              \A f \in Frames : fate[f] = "queued" => ClassOf(f) # class
<1>1. RingsOK /\ QueuedAreLive
  BY DEF IInv, Safe, TypeOK, Places
<1>2. \A f \in Frames : ClassOf(f) \in Classes /\ ClassOf(f) \in Nat
  BY ClassOfIsClass, ClassesAreSmall
<1>3. \A c \in Classes : count[c] = 0 => Live(c) = {}
  BY <1>1 DEF RingsOK, Live
<1>4. \A f \in Frames : fate[f] = "queued" => count[ClassOf(f)] # 0
  BY <1>1, <1>2, <1>3 DEF QueuedAreLive
<1> QED
  BY <1>2, <1>4 DEF IInv, Safe, TypeOK, HistoryOK, TasksOK

\* The next class of a pass is the next one in order of urgency, Telemetry left out.
LEMMA NextClassIsNext ==
  ASSUME class \in Classes \ {Telemetry}, ToNextClass, NEW c \in Classes, c # Telemetry, class < c
  PROVE  class' <= c
BY DEF ToNextClass, Classes, CommandResult, Telemetry, Debug

\* Every step keeps a pass from going beyond an overtaken frame.
LEMMA PassesStep ==
  ASSUME IInv, LanesTyped, Passes, [Next]_vars
  PROVE  Passes'
<1> USE HandsTyped, FrontIsQueued, PassesTyped
<1>1. CASE \E p \in Producers, f \in Frames : EnqueueRefuse(p, f)
  BY <1>1 DEF EnqueueRefuse, queues, producer, pump, gate, timer, driver, passing, Now, Passes
<1>2. CASE \E p \in Producers, f \in Frames : EnqueueLock(p, f)
  BY <1>2 DEF EnqueueLock, pump, gate, timer, driver, passing, Acquire, Now, Passes
<1>3. CASE \E p \in Producers : EnqueueFull(p)
  BY <1>3 DEF EnqueueFull, pump, gate, timer, driver, passing, Release, Now, Passes
<1>4. CASE \E p \in Producers : EnqueueCopy(p)
  BY <1>4 DEF EnqueueCopy, pump, gate, timer, driver, history, passing, Passes
<1>5. CASE \E p \in Producers : EnqueuePublish(p)
  BY <1>5 DEF EnqueuePublish, pump, gate, timer, driver, passing, Release, Now, Passes
<1>6. CASE \E p \in Producers : EnqueueCount(p)
  BY <1>6 DEF EnqueueCount, queues, pump, gate, timer, driver, history, passing, Passes
<1>7. CASE PumpNothingAwaited
  BY <1>7 DEF PumpNothingAwaited, queues, producer, gate, timer, driver, history, passing,
     BeginScan, CommandResult, Passes
<1>8. CASE PumpDelivered
  BY <1>8 DEF PumpDelivered, queues, producer, timer, driver, passing,
     Now, Passes
<1>9. CASE PumpFailed
  BY <1>9 DEF PumpFailed, queues, producer, timer, driver, passing, Now,
     Passes
<1>10. CASE PumpTimedOut
  BY <1>10 DEF PumpTimedOut, queues, producer, gate, timer, driver, passing,
     Now, Passes
<1>11. CASE PumpContended
  <2> SUFFICES ASSUME NEW f \in Frames \ contended'
               PROVE  /\ overtaken'[f] <= 1
                      /\ fate'[f] \in {"new", "offered"} => overtaken'[f] = 0
                      /\ overtaken'[f] # 0 => ClassOf(f) # Telemetry
                      /\ fate'[f] = "queued" /\ overtaken'[f] # 0 => class' <= ClassOf(f)
    BY DEF Passes
  <2>1. /\ f \in Frames \ contended /\ UNCHANGED <<fate, overtaken>> /\ ToNextClass
        /\ fate[f] = "queued" => ClassOf(f) # class
        /\ pumping = "scan"
    BY <1>11 DEF PumpContended
  <2>2. fate[f] = "queued" /\ overtaken[f] # 0 => class' <= ClassOf(f)
    BY <2>1, NextClassIsNext DEF Passes, Classes
  <2> QED
    BY <2>1, <2>2 DEF Passes
<1>12. CASE PumpLock
  BY <1>12 DEF PumpLock, producer, gate, timer, driver, history, passing, Acquire, Passes
<1>13. CASE PumpEmpty
  <2> SUFFICES ASSUME NEW f \in Frames \ contended
               PROVE  fate[f] = "queued" /\ overtaken[f] # 0 => class' <= ClassOf(f)
    BY <1>13 DEF Passes, PumpEmpty, history, passing
  <2>1. ToNextClass /\ pumping = "pop" /\ fate[f] = "queued" => ClassOf(f) # class
    BY <1>13 DEF PumpEmpty
  <2> QED
    BY <1>13, <2>1, NextClassIsNext DEF Passes, Classes, PumpEmpty
<1>14. CASE PumpCopy
  BY <1>14 DEF PumpCopy, queues, producer, gate, timer, driver, history, passing, Passes
<1>15. CASE PumpRemove
  BY <1>15 DEF PumpRemove, producer, gate, timer, driver, Remove, Release, Now, Passes
<1>16. CASE PumpArm
  BY <1>16 DEF PumpArm, queues, producer, timer, driver, history, passing, Passes
<1>17. CASE PumpClear
  BY <1>17 DEF PumpClear, queues, producer, timer, driver, passing, Passes
<1>18. CASE PumpSend
  BY <1>18 DEF PumpSend, queues, producer, gate, timer, passing, Now, Passes
<1>19. CASE PumpSendError
  BY <1>19 DEF PumpSendError, queues, producer, timer, driver, passing, Now, Passes
<1>20. CASE TimerLock
  BY <1>20 DEF TimerLock, producer, pump, gate, driver, history, passing, Acquire, Passes
<1>21. CASE TimerEmpty
  BY <1>21 DEF TimerEmpty, producer, pump, gate, driver, history, passing, Release, Passes
<1>22. CASE TimerCopy
  BY <1>22 DEF TimerCopy, queues, producer, pump, gate, driver, history, passing, Passes
<1>23. CASE TimerRemove
  BY <1>23 DEF TimerRemove, producer, pump, gate, driver, passing, Remove, Release, Now, Passes
<1>24. CASE TimerSend
  BY <1>24 DEF TimerSend, queues, producer, pump, gate, passing, Now, Passes
<1>25. CASE TimerShed
  BY <1>25 DEF TimerShed, queues, producer, pump, gate, driver, passing, Now, Passes
<1>26. CASE \E f \in air : CallbackLost(f)
  BY <1>26 DEF CallbackLost, queues, producer, pump, gate, timer, history, passing, Passes
<1>27. CASE \E f \in air, ok \in BOOLEAN : CallbackLoad(f, ok)
  BY <1>27 DEF CallbackLoad, queues, producer, pump, gate, timer, passing, Passes
<1>28. CASE CallbackStore
  BY <1>28 DEF CallbackStore, queues, producer, pump, timer, history, passing, Passes
<1>29. CASE Tick
  BY <1>29 DEF Tick, queues, producer, pump, timer, driver, history, passing, Passes
<1>30. CASE UNCHANGED Rest
  BY <1>30 DEF Rest, queues, producer, pump, gate, timer, driver, history, passing, Passes
<1>31. CASE PumpCall
  BY <1>31 DEF PumpCall, queues, producer, gate, timer, driver, history, passing, Passes
<1>32. CASE PumpWait
  BY <1>32 DEF PumpWait, queues, producer, gate, timer, driver, history, passing, Passes
<1>33. CASE PumpLose
  BY <1>33 DEF PumpLose, queues, producer, gate, timer, driver, history, passing, Passes
<1>34. CASE PumpRelease
  BY <1>34 DEF PumpRelease, queues, producer, gate, timer, driver, history, passing,
     BeginScan, CommandResult, Passes
<1> QED
  BY <1>1, <1>2, <1>3, <1>4, <1>5, <1>6, <1>7, <1>8, <1>9, <1>10, <1>11, <1>12, <1>13, <1>14, <1>15,
     <1>16, <1>17, <1>18, <1>19, <1>20, <1>21, <1>22, <1>23, <1>24, <1>25, <1>26, <1>27, <1>28,
     <1>29, <1>30, <1>31, <1>32, <1>33, <1>34, NextSteps

\* Urgency: a less urgent frame overtakes a queued one at most once, in the pass of pump() that
\* had already looked at its ring, whatever the number of classes, frames and producers.
THEOREM UrgencyIsKept == Spec => []OvertakenAtMostOnce
<1>1. Init => Passes
  BY DEF Init, Passes
<1>2. Passes => OvertakenAtMostOnce
  BY DEF Passes, OvertakenAtMostOnce
<1> QED
  BY <1>1, <1>2, PassesStep, LanesTypedAlways, PTL DEF Spec

-----------------------------------------------------------------------------
(* Verdicts.                                                               *)

\* A frame is in the driver once, and only after radio_send.
OnceInTheAir ==
  /\ air \subseteq Frames /\ acked \subseteq Frames /\ air \cap acked = {}
  /\ \A f \in air \cup acked : fate[f] \in HandedOver

\* While nothing crossed the pending frame, the driver and on_delivery() hold no other, and
\* delivery_event_ says what the air said of it.
Alone ==
  ~crossed =>
    /\ pumping = "send" => air = {} /\ callback = NoFrame /\ event = 0
    /\ pumping \in {"idle", "called"} /\ awaiting =>
         /\ air \subseteq {pending} /\ callback \in {NoFrame, pending}
         /\ pending \in air => callback = NoFrame /\ event = 0
         /\ callback # NoFrame => event = 0
         /\ callback # NoFrame /\ verdict => pending \in acked
         /\ callback # NoFrame /\ ~verdict => pending \notin acked
         /\ event = 1 => pending \in acked
         /\ event = 2 => pending \notin acked

\* Every step keeps a frame in the driver at most once.
LEMMA AirStep ==
  ASSUME IInv, OnceInTheAir, [Next]_vars
  PROVE  OnceInTheAir'
<1> USE HandsTyped, FrontIsQueued
<1>1. CASE \E p \in Producers, f \in Frames : EnqueueRefuse(p, f)
  BY <1>1 DEF EnqueueRefuse, queues, producer, pump, gate, timer, driver, passing, Now,
     OnceInTheAir, HandedOver
<1>2. CASE \E p \in Producers, f \in Frames : EnqueueLock(p, f)
  BY <1>2 DEF EnqueueLock, pump, gate, timer, driver, passing, Acquire, Now, OnceInTheAir,
     HandedOver
<1>3. CASE \E p \in Producers : EnqueueFull(p)
  BY <1>3 DEF EnqueueFull, pump, gate, timer, driver, passing, Release, Now, OnceInTheAir,
     HandedOver
<1>4. CASE \E p \in Producers : EnqueueCopy(p)
  BY <1>4 DEF EnqueueCopy, pump, gate, timer, driver, history, passing, OnceInTheAir, HandedOver
<1>5. CASE \E p \in Producers : EnqueuePublish(p)
  BY <1>5 DEF EnqueuePublish, pump, gate, timer, driver, passing, Release, Now, OnceInTheAir,
     HandedOver
<1>6. CASE \E p \in Producers : EnqueueCount(p)
  BY <1>6 DEF EnqueueCount, queues, pump, gate, timer, driver, history, passing, OnceInTheAir,
     HandedOver
<1>7. CASE PumpNothingAwaited
  BY <1>7 DEF PumpNothingAwaited, queues, producer, gate, timer, driver, history, passing,
     BeginScan, CommandResult, OnceInTheAir, HandedOver
<1>8. CASE PumpDelivered
  BY <1>8 DEF PumpDelivered, queues, producer, timer, driver, passing,
     Now, OnceInTheAir, HandedOver
<1>9. CASE PumpFailed
  BY <1>9 DEF PumpFailed, queues, producer, timer, driver, passing, Now,
     OnceInTheAir, HandedOver
<1>10. CASE PumpTimedOut
  BY <1>10 DEF PumpTimedOut, queues, producer, gate, timer, driver, passing,
     Now, OnceInTheAir, HandedOver
<1>11. CASE PumpContended
  BY <1>11 DEF PumpContended, queues, producer, gate, timer, driver, OnceInTheAir, HandedOver
<1>12. CASE PumpLock
  BY <1>12 DEF PumpLock, producer, gate, timer, driver, history, passing, Acquire, OnceInTheAir,
     HandedOver
<1>13. CASE PumpEmpty
  BY <1>13 DEF PumpEmpty, producer, gate, timer, driver, history, passing, Release, OnceInTheAir,
     HandedOver
<1>14. CASE PumpCopy
  BY <1>14 DEF PumpCopy, queues, producer, gate, timer, driver, history, passing, OnceInTheAir,
     HandedOver
<1>15. CASE PumpRemove
  BY <1>15 DEF PumpRemove, producer, gate, timer, driver, Remove, Release, Now, OnceInTheAir,
     HandedOver
<1>16. CASE PumpArm
  BY <1>16 DEF PumpArm, queues, producer, timer, driver, history, passing, OnceInTheAir, HandedOver
<1>17. CASE PumpClear
  BY <1>17 DEF PumpClear, queues, producer, timer, driver, passing, OnceInTheAir, HandedOver
<1>18. CASE PumpSend
  BY <1>18 DEF PumpSend, queues, producer, gate, timer, passing, Now, OnceInTheAir, HandedOver
<1>19. CASE PumpSendError
  BY <1>19 DEF PumpSendError, queues, producer, timer, driver, passing, Now, OnceInTheAir,
     HandedOver
<1>20. CASE TimerLock
  BY <1>20 DEF TimerLock, producer, pump, gate, driver, history, passing, Acquire, OnceInTheAir,
     HandedOver
<1>21. CASE TimerEmpty
  BY <1>21 DEF TimerEmpty, producer, pump, gate, driver, history, passing, Release, OnceInTheAir,
     HandedOver
<1>22. CASE TimerCopy
  BY <1>22 DEF TimerCopy, queues, producer, pump, gate, driver, history, passing, OnceInTheAir,
     HandedOver
<1>23. CASE TimerRemove
  BY <1>23 DEF TimerRemove, producer, pump, gate, driver, passing, Remove, Release, Now,
     OnceInTheAir, HandedOver
<1>24. CASE TimerSend
  BY <1>24 DEF TimerSend, queues, producer, pump, gate, passing, Now, OnceInTheAir, HandedOver
<1>25. CASE TimerShed
  BY <1>25 DEF TimerShed, queues, producer, pump, gate, driver, passing, Now, OnceInTheAir,
     HandedOver
<1>26. CASE \E f \in air : CallbackLost(f)
  BY <1>26 DEF CallbackLost, queues, producer, pump, gate, timer, history, passing, OnceInTheAir,
     HandedOver
<1>27. CASE \E f \in air, ok \in BOOLEAN : CallbackLoad(f, ok)
  BY <1>27 DEF CallbackLoad, queues, producer, pump, gate, timer, passing, OnceInTheAir, HandedOver
<1>28. CASE CallbackStore
  BY <1>28 DEF CallbackStore, queues, producer, pump, timer, history, passing, OnceInTheAir,
     HandedOver
<1>29. CASE Tick
  BY <1>29 DEF Tick, queues, producer, pump, timer, driver, history, passing, OnceInTheAir,
     HandedOver
<1>30. CASE UNCHANGED Rest
  BY <1>30 DEF Rest, queues, producer, pump, gate, timer, driver, history, passing, OnceInTheAir,
     HandedOver
<1>31. CASE PumpCall
  BY <1>31 DEF PumpCall, queues, producer, gate, timer, driver, history, passing, OnceInTheAir, HandedOver
<1>32. CASE PumpWait
  BY <1>32 DEF PumpWait, queues, producer, gate, timer, driver, history, passing, OnceInTheAir, HandedOver
<1>33. CASE PumpLose
  BY <1>33 DEF PumpLose, queues, producer, gate, timer, driver, history, passing, OnceInTheAir, HandedOver
<1>34. CASE PumpRelease
  BY <1>34 DEF PumpRelease, queues, producer, gate, timer, driver, history, passing,
     BeginScan, CommandResult, OnceInTheAir, HandedOver
<1> QED
  BY <1>1, <1>2, <1>3, <1>4, <1>5, <1>6, <1>7, <1>8, <1>9, <1>10, <1>11, <1>12, <1>13, <1>14, <1>15,
     <1>16, <1>17, <1>18, <1>19, <1>20, <1>21, <1>22, <1>23, <1>24, <1>25, <1>26, <1>27, <1>28,
     <1>29, <1>30, <1>31, <1>32, <1>33, <1>34, NextSteps

\* Every step keeps what on_delivery() reported about the frame that was alone on the air.
LEMMA AloneStep ==
  ASSUME IInv, LanesTyped, OnceInTheAir, Alone, [Next]_vars
  PROVE  Alone'
<1> USE HandsTyped
<1>1. CASE \E p \in Producers, f \in Frames : EnqueueRefuse(p, f)
  BY <1>1 DEF EnqueueRefuse, queues, producer, pump, gate, timer, driver, passing, Now, Alone,
     OnceInTheAir
<1>2. CASE \E p \in Producers, f \in Frames : EnqueueLock(p, f)
  BY <1>2 DEF EnqueueLock, pump, gate, timer, driver, passing, Acquire, Now, Alone, OnceInTheAir
<1>3. CASE \E p \in Producers : EnqueueFull(p)
  BY <1>3 DEF EnqueueFull, pump, gate, timer, driver, passing, Release, Now, Alone, OnceInTheAir
<1>4. CASE \E p \in Producers : EnqueueCopy(p)
  BY <1>4 DEF EnqueueCopy, pump, gate, timer, driver, history, passing, Alone, OnceInTheAir
<1>5. CASE \E p \in Producers : EnqueuePublish(p)
  BY <1>5 DEF EnqueuePublish, pump, gate, timer, driver, passing, Release, Now, Alone, OnceInTheAir
<1>6. CASE \E p \in Producers : EnqueueCount(p)
  BY <1>6 DEF EnqueueCount, queues, pump, gate, timer, driver, history, passing, Alone, OnceInTheAir
<1>7. CASE PumpNothingAwaited
  BY <1>7 DEF PumpNothingAwaited, queues, producer, gate, timer, driver, history, passing,
     BeginScan, CommandResult, Alone, OnceInTheAir
<1>8. CASE PumpDelivered
  BY <1>8 DEF PumpDelivered, queues, producer, timer, driver, passing,
     Now, Alone, OnceInTheAir
<1>9. CASE PumpFailed
  BY <1>9 DEF PumpFailed, queues, producer, timer, driver, passing, Now,
     Alone, OnceInTheAir
<1>10. CASE PumpTimedOut
  BY <1>10 DEF PumpTimedOut, queues, producer, gate, timer, driver, passing,
     Now, Alone, OnceInTheAir
<1>11. CASE PumpContended
  <2>1. ~awaiting /\ UNCHANGED awaiting
    BY <1>11 DEF PumpContended, gate
  <2>2. pumping' \in {"idle", "scan"}
    BY <1>11, NextClassTyped DEF PumpContended, IInv, Safe, TypeOK, TasksOK
  <2> QED
    BY <2>1, <2>2 DEF Alone
<1>12. CASE PumpLock
  BY <1>12 DEF PumpLock, producer, gate, timer, driver, history, passing, Acquire, Alone,
     OnceInTheAir
<1>13. CASE PumpEmpty
  <2>1. ~awaiting /\ UNCHANGED awaiting
    BY <1>13 DEF PumpEmpty, gate
  <2>2. pumping' \in {"idle", "scan"}
    BY <1>13, NextClassTyped DEF PumpEmpty, IInv, Safe, TypeOK, TasksOK
  <2> QED
    BY <2>1, <2>2 DEF Alone
<1>14. CASE PumpCopy
  BY <1>14 DEF PumpCopy, queues, producer, gate, timer, driver, history, passing, Alone,
     OnceInTheAir
<1>15. CASE PumpRemove
  BY <1>15 DEF PumpRemove, producer, gate, timer, driver, Remove, Release, Now, Alone, OnceInTheAir
<1>16. CASE PumpArm
  BY <1>16 DEF PumpArm, queues, producer, timer, driver, history, passing, Alone, OnceInTheAir
<1>17. CASE PumpClear
  BY <1>17 DEF PumpClear, queues, producer, timer, driver, passing, Alone, OnceInTheAir
<1>18. CASE PumpSend
  BY <1>18 DEF PumpSend, queues, producer, gate, timer, passing, Now, Alone, OnceInTheAir
<1>19. CASE PumpSendError
  BY <1>19 DEF PumpSendError, queues, producer, timer, driver, passing, Now, Alone, OnceInTheAir
<1>20. CASE TimerLock
  BY <1>20 DEF TimerLock, producer, pump, gate, driver, history, passing, Acquire, Alone,
     OnceInTheAir
<1>21. CASE TimerEmpty
  BY <1>21 DEF TimerEmpty, producer, pump, gate, driver, history, passing, Release, Alone,
     OnceInTheAir
<1>22. CASE TimerCopy
  BY <1>22 DEF TimerCopy, queues, producer, pump, gate, driver, history, passing, Alone,
     OnceInTheAir
<1>23. CASE TimerRemove
  BY <1>23 DEF TimerRemove, producer, pump, gate, driver, passing, Remove, Release, Now, Alone,
     OnceInTheAir
<1>24. CASE TimerSend
  BY <1>24 DEF TimerSend, queues, producer, pump, gate, passing, Now, Alone, OnceInTheAir
<1>25. CASE TimerShed
  BY <1>25 DEF TimerShed, queues, producer, pump, gate, driver, passing, Now, Alone, OnceInTheAir
<1>26. CASE \E f \in air : CallbackLost(f)
  BY <1>26 DEF CallbackLost, queues, producer, pump, gate, timer, history, passing, Alone,
     OnceInTheAir
<1>27. CASE \E f \in air, ok \in BOOLEAN : CallbackLoad(f, ok)
  <2>1. awaiting /\ pumping \in {"idle", "called"} => ClassOf(pending) # Telemetry
    BY DEF LanesTyped
  <2> QED
    BY <1>27, <2>1 DEF CallbackLoad, queues, producer, pump, gate, timer, passing, Alone,
       OnceInTheAir
<1>28. CASE CallbackStore
  BY <1>28 DEF CallbackStore, queues, producer, pump, timer, history, passing, Alone, OnceInTheAir
<1>29. CASE Tick
  BY <1>29 DEF Tick, queues, producer, pump, timer, driver, history, passing, Alone, OnceInTheAir
<1>30. CASE UNCHANGED Rest
  BY <1>30 DEF Rest, queues, producer, pump, gate, timer, driver, history, passing, Alone,
     OnceInTheAir
<1>31. CASE PumpCall
  BY <1>31 DEF PumpCall, queues, producer, gate, timer, driver, history, passing, Alone, OnceInTheAir
<1>32. CASE PumpWait
  BY <1>32 DEF PumpWait, queues, producer, gate, timer, driver, history, passing, Alone, OnceInTheAir
<1>33. CASE PumpLose
  BY <1>33 DEF PumpLose, queues, producer, gate, timer, driver, history, passing, Alone, OnceInTheAir
<1>34. CASE PumpRelease
  BY <1>34 DEF PumpRelease, queues, producer, gate, timer, driver, history, passing,
     BeginScan, CommandResult, Alone, OnceInTheAir
<1> QED
  BY <1>1, <1>2, <1>3, <1>4, <1>5, <1>6, <1>7, <1>8, <1>9, <1>10, <1>11, <1>12, <1>13, <1>14, <1>15,
     <1>16, <1>17, <1>18, <1>19, <1>20, <1>21, <1>22, <1>23, <1>24, <1>25, <1>26, <1>27, <1>28,
     <1>29, <1>30, <1>31, <1>32, <1>33, <1>34, NextSteps

\* delivery_event_ is about the pending frame when no other was in the driver since it was armed:
\* pump() then counts it delivered only if the air acknowledged it and failed only if it did not.
THEOREM VerdictsAreHonest == Spec => VerdictHonestWhenAlone
<1>1. Init => OnceInTheAir /\ Alone
  BY DEF Init, OnceInTheAir, Alone
<1> DEFINE Honest == \A f \in Frames : ~crossed /\ fate[f] = "sent" =>
                       /\ fate'[f] = "delivered" => f \in acked
                       /\ fate'[f] = "failed" => f \notin acked
<1>2. ASSUME IInv, LanesTyped, Alone, [Next]_vars
      PROVE  [Honest]_vars
  <2> USE HandsTyped, FrontIsQueued
  <2>1. CASE \E p \in Producers, f \in Frames : EnqueueRefuse(p, f)
    BY <2>1 DEF EnqueueRefuse, queues, producer, pump, gate, timer, driver, passing, Now
  <2>2. CASE \E p \in Producers, f \in Frames : EnqueueLock(p, f)
    BY <2>2 DEF EnqueueLock, pump, gate, timer, driver, passing, Acquire, Now
  <2>3. CASE \E p \in Producers : EnqueueFull(p)
    BY <2>3 DEF EnqueueFull, pump, gate, timer, driver, passing, Release, Now
  <2>4. CASE \E p \in Producers : EnqueueCopy(p)
    BY <2>4 DEF EnqueueCopy, pump, gate, timer, driver, history, passing
  <2>5. CASE \E p \in Producers : EnqueuePublish(p)
    BY <2>5 DEF EnqueuePublish, pump, gate, timer, driver, passing, Release, Now
  <2>6. CASE \E p \in Producers : EnqueueCount(p)
    BY <2>6 DEF EnqueueCount, queues, pump, gate, timer, driver, history, passing
  <2>7. CASE PumpNothingAwaited
    BY <2>7 DEF PumpNothingAwaited, queues, producer, gate, timer, driver, history, passing,
       BeginScan, CommandResult
  <2>8. CASE PumpDelivered
    <3>1. /\ pumping = "called" /\ awaiting /\ pending \in Frames /\ event = 1
          /\ fate' = [fate EXCEPT ![pending] = "delivered"]
      BY <1>2, <2>8 DEF PumpDelivered, Now
    <3>2. ~crossed => pending \in acked
      BY <1>2, <3>1 DEF Alone
    <3>3. \A f \in Frames : fate[f] = "sent" => f = pending
      BY <1>2 DEF LanesTyped
    <3>4. fate'[pending] = "delivered"
      BY <1>2, <3>1
    <3> QED
      BY <3>2, <3>3, <3>4
  <2>9. CASE PumpFailed
    <3>1. /\ pumping = "called" /\ awaiting /\ pending \in Frames /\ event = 2
          /\ fate' = [fate EXCEPT ![pending] = "failed"]
      BY <1>2, <2>9 DEF PumpFailed, Now
    <3>2. ~crossed => pending \notin acked
      BY <1>2, <3>1 DEF Alone
    <3>3. \A f \in Frames : fate[f] = "sent" => f = pending
      BY <1>2 DEF LanesTyped
    <3>4. fate'[pending] = "failed"
      BY <1>2, <3>1
    <3> QED
      BY <3>2, <3>3, <3>4
  <2>10. CASE PumpTimedOut
    BY <2>10 DEF PumpTimedOut, queues, producer, gate, timer, driver, passing,
       Now
  <2>11. CASE PumpContended
    BY <2>11 DEF PumpContended, queues, producer, gate, timer, driver
  <2>12. CASE PumpLock
    BY <2>12 DEF PumpLock, producer, gate, timer, driver, history, passing, Acquire
  <2>13. CASE PumpEmpty
    BY <2>13 DEF PumpEmpty, producer, gate, timer, driver, history, passing, Release
  <2>14. CASE PumpCopy
    BY <2>14 DEF PumpCopy, queues, producer, gate, timer, driver, history, passing
  <2>15. CASE PumpRemove
    BY <2>15 DEF PumpRemove, producer, gate, timer, driver, Remove, Release, Now
  <2>16. CASE PumpArm
    BY <2>16 DEF PumpArm, queues, producer, timer, driver, history, passing
  <2>17. CASE PumpClear
    BY <2>17 DEF PumpClear, queues, producer, timer, driver, passing
  <2>18. CASE PumpSend
    BY <2>18 DEF PumpSend, queues, producer, gate, timer, passing, Now
  <2>19. CASE PumpSendError
    BY <2>19 DEF PumpSendError, queues, producer, timer, driver, passing, Now
  <2>20. CASE TimerLock
    BY <2>20 DEF TimerLock, producer, pump, gate, driver, history, passing, Acquire
  <2>21. CASE TimerEmpty
    BY <2>21 DEF TimerEmpty, producer, pump, gate, driver, history, passing, Release
  <2>22. CASE TimerCopy
    BY <2>22 DEF TimerCopy, queues, producer, pump, gate, driver, history, passing
  <2>23. CASE TimerRemove
    BY <2>23 DEF TimerRemove, producer, pump, gate, driver, passing, Remove, Release, Now
  <2>24. CASE TimerSend
    BY <2>24 DEF TimerSend, queues, producer, pump, gate, passing, Now
  <2>25. CASE TimerShed
    BY <2>25 DEF TimerShed, queues, producer, pump, gate, driver, passing, Now
  <2>26. CASE \E f \in air : CallbackLost(f)
    BY <2>26 DEF CallbackLost, queues, producer, pump, gate, timer, history, passing
  <2>27. CASE \E f \in air, ok \in BOOLEAN : CallbackLoad(f, ok)
    BY <2>27 DEF CallbackLoad, queues, producer, pump, gate, timer, passing
  <2>28. CASE CallbackStore
    BY <2>28 DEF CallbackStore, queues, producer, pump, timer, history, passing
  <2>29. CASE Tick
    BY <2>29 DEF Tick, queues, producer, pump, timer, driver, history, passing
  <2>30. CASE UNCHANGED Rest
    BY <2>30 DEF Rest, history
  <2>31. CASE PumpCall
    BY <2>31 DEF PumpCall, queues, producer, gate, timer, driver, history, passing
  <2>32. CASE PumpWait
    BY <2>32 DEF PumpWait, queues, producer, gate, timer, driver, history, passing
  <2>33. CASE PumpLose
    BY <2>33 DEF PumpLose, queues, producer, gate, timer, driver, history, passing
  <2>34. CASE PumpRelease
    BY <2>34 DEF PumpRelease, queues, producer, gate, timer, driver, history, passing,
       BeginScan, CommandResult
  <2> QED
    BY <1>2, <2>1, <2>2, <2>3, <2>4, <2>5, <2>6, <2>7, <2>8, <2>9, <2>10, <2>11, <2>12, <2>13,
       <2>14, <2>15, <2>16, <2>17, <2>18, <2>19, <2>20, <2>21, <2>22, <2>23, <2>24, <2>25, <2>26,
       <2>27, <2>28, <2>29, <2>30, <2>31, <2>32, <2>33, <2>34, NextSteps
<1>3. IInv /\ LanesTyped /\ OnceInTheAir /\ Alone /\ [Next]_vars => OnceInTheAir' /\ Alone'
  BY AirStep, AloneStep
<1> QED
  BY <1>1, <1>2, <1>3, LanesTypedAlways, PTL DEF Spec, VerdictHonestWhenAlone

-----------------------------------------------------------------------------
(* The counters.                                                           *)

\* The frames whose fate is one of X, and the producers about to raise accepted_.
Here(X) == {f \in Frames : fate[f] \in X}
Holding == {"queued", "pending", "sent", "sample"}
Storing == {p \in Producers : producing[p] = "stored"}

\* What is counted is finite, and the counters are the counts.
Finite ==
  /\ IsFiniteSet(Here(Holding)) /\ IsFiniteSet(Here({"unsent"})) /\ IsFiniteSet(Here({"refused"}))
  /\ IsFiniteSet(Storing)

\* The loss that pump() has counted by its reason and not as dropped yet.
Owed == IF pumping \in {"lose", "drop"} THEN 1 ELSE 0

Losses == stats["timeouts"] + stats["delivery_failed"] + Cardinality(Here({"unsent"}))
Sums ==
  /\ stats["accepted"] + Cardinality(Storing) =
       Cardinality(Here(Holding)) + stats["delivered"] + Losses + stats["telemetry_sent"]
       + stats["telemetry_dropped"]
  /\ stats["dropped"] + Owed = Cardinality(Here({"refused"})) + Losses
Counted == Finite /\ Sums

\* What an element that comes does to a count.
LEMMA OneMore ==
  ASSUME NEW S, IsFiniteSet(S), NEW x, x \notin S, NEW T, T = S \cup {x}
  PROVE  IsFiniteSet(T) /\ Cardinality(T) = Cardinality(S) + 1
BY FS_AddElement

\* The same, for one that goes.
LEMMA OneLess ==
  ASSUME NEW S, IsFiniteSet(S), NEW x \in S, NEW T, T = S \ {x}
  PROVE  IsFiniteSet(T) /\ Cardinality(T) = Cardinality(S) - 1
BY FS_RemoveElement

\* One for a fact that holds.
Indicator(b) == IF b THEN 1 ELSE 0

\* What a frame that moves on does to the count of the frames whose fate is one of X.
LEMMA HereMoves ==
  ASSUME fate \in [Frames -> Fates], NEW f \in Frames, NEW s, Now(f, s), NEW X, IsFiniteSet(Here(X))
  PROVE  /\ IsFiniteSet(Here(X)')
         /\ Cardinality(Here(X)') =
              Cardinality(Here(X)) + Indicator(s \in X) - Indicator(fate[f] \in X)
<1>1. Cardinality(Here(X)) \in Nat
  BY FS_CardinalityType
<1>2. fate'[f] = s /\ \A g \in Frames \ {f} : fate'[g] = fate[g]
  BY DEF Now
<1>3. CASE s \in X /\ fate[f] \notin X
  <2>1. Here(X)' = Here(X) \cup {f} /\ f \notin Here(X)
    BY <1>2, <1>3 DEF Here
  <2> QED
    BY <1>1, <1>3, <2>1, OneMore DEF Indicator
<1>4. CASE s \notin X /\ fate[f] \in X
  <2>1. Here(X)' = Here(X) \ {f} /\ f \in Here(X)
    BY <1>2, <1>4 DEF Here
  <2> QED
    BY <1>1, <1>4, <2>1, OneLess DEF Indicator
<1>5. CASE s \in X <=> fate[f] \in X
  <2>1. Here(X)' = Here(X)
    BY <1>2, <1>5 DEF Here
  <2> QED
    BY <1>1, <1>5, <2>1 DEF Indicator
<1> QED
  BY <1>3, <1>4, <1>5

\* The same for the producers that have stored a frame and not counted it yet.
Goes(p, s) == producing' = [producing EXCEPT ![p] = s]

LEMMA StoringMoves ==
  ASSUME TasksOK, NEW p \in Producers, NEW s, Goes(p, s),
         IsFiniteSet(Storing)
  PROVE  /\ IsFiniteSet(Storing')
         /\ s = "stored" /\ producing[p] # "stored" =>
              Cardinality(Storing') = Cardinality(Storing) + 1
         /\ s # "stored" /\ producing[p] = "stored" =>
              Cardinality(Storing') = Cardinality(Storing) - 1
         /\ s # "stored" /\ producing[p] # "stored" =>
              Cardinality(Storing') = Cardinality(Storing)
<1>1. producing'[p] = s /\ \A q \in Producers \ {p} : producing'[q] = producing[q]
  BY DEF TasksOK, Goes
<1>2. CASE s = "stored" /\ producing[p] # "stored"
  <2>1. Storing' = Storing \cup {p} /\ p \notin Storing
    BY <1>1, <1>2 DEF Storing
  <2> QED
    BY <1>2, <2>1, OneMore
<1>3. CASE s # "stored" /\ producing[p] = "stored"
  <2>1. Storing' = Storing \ {p} /\ p \in Storing
    BY <1>1, <1>3 DEF Storing
  <2> QED
    BY <1>3, <2>1, OneLess
<1>4. CASE s = "stored" <=> producing[p] = "stored"
  <2>1. Storing' = Storing
    BY <1>1, <1>4 DEF Storing
  <2> QED
    BY <1>4, <2>1
<1> QED
  BY <1>2, <1>3, <1>4

\* What a step does to every count, when one frame moves on and no producer does.
LEMMA FrameMoves ==
  ASSUME IInv, Finite, NEW f \in Frames, NEW s, Now(f, s)
  PROVE  /\ IsFiniteSet(Here(Holding)') /\ IsFiniteSet(Here({"unsent"})')
         /\ IsFiniteSet(Here({"refused"})')
         /\ Cardinality(Here(Holding)') = Cardinality(Here(Holding))
              + Indicator(s \in Holding) - Indicator(fate[f] \in Holding)
         /\ Cardinality(Here({"unsent"})') = Cardinality(Here({"unsent"}))
              + Indicator(s = "unsent") - Indicator(fate[f] = "unsent")
         /\ Cardinality(Here({"refused"})') = Cardinality(Here({"refused"}))
              + Indicator(s = "refused") - Indicator(fate[f] = "refused")
<1>1. /\ IsFiniteSet(Here(Holding)')
      /\ Cardinality(Here(Holding)') =
           Cardinality(Here(Holding)) + Indicator(s \in Holding) - Indicator(fate[f] \in Holding)
  BY HandsTyped, HereMoves DEF Finite
<1>2. /\ IsFiniteSet(Here({"unsent"})')
      /\ Cardinality(Here({"unsent"})') =
           Cardinality(Here({"unsent"})) + Indicator(s \in {"unsent"}) - Indicator(fate[f] \in {"unsent"})
  BY HandsTyped, HereMoves DEF Finite
<1>3. /\ IsFiniteSet(Here({"refused"})')
      /\ Cardinality(Here({"refused"})') =
           Cardinality(Here({"refused"})) + Indicator(s \in {"refused"})
             - Indicator(fate[f] \in {"refused"})
  BY HandsTyped, HereMoves DEF Finite
<1> QED
  BY <1>1, <1>2, <1>3 DEF Indicator

\* Every count and every counter is a number.
LEMMA Numbers ==
  ASSUME IInv, Finite
  PROVE  /\ Cardinality(Here(Holding)) \in Nat /\ Cardinality(Here({"unsent"})) \in Nat
         /\ Cardinality(Here({"refused"})) \in Nat /\ Cardinality(Storing) \in Nat
         /\ \A k \in Counters : stats[k] \in Nat
BY FS_CardinalityType DEF Finite, IInv, Safe, TypeOK, HistoryOK

\* Nothing that is counted changed.
LEMMA CountedKept ==
  ASSUME Counted, UNCHANGED <<fate, producing, stats>>, Owed' = Owed
  PROVE  Counted'
BY DEF Counted, Finite, Sums, Losses, Here, Storing

\* What a counter that rose does to Stats.
LEMMA CountersRise ==
  ASSUME IInv, NEW k \in Counters, Count(k)
  PROVE  stats'[k] = stats[k] + 1 /\ \A j \in Counters \ {k} : stats'[j] = stats[j]
BY DEF Count, IInv, Safe, TypeOK, HistoryOK

\* Every step moves the counters with what they count.
LEMMA CountedStep ==
  ASSUME IInv, Counted, [Next]_vars
  PROVE  Counted'
<1>a. Finite /\ IsFiniteSet(Storing) /\ TasksOK
  BY DEF Counted, Finite, IInv, Safe, TypeOK
<1>b. /\ Cardinality(Here(Holding)) \in Nat /\ Cardinality(Here({"unsent"})) \in Nat
      /\ Cardinality(Here({"refused"})) \in Nat /\ Cardinality(Storing) \in Nat
      /\ stats["accepted"] \in Nat /\ stats["delivered"] \in Nat /\ stats["timeouts"] \in Nat
      /\ stats["dropped"] \in Nat /\ stats["delivery_failed"] \in Nat
      /\ stats["telemetry_sent"] \in Nat /\ stats["telemetry_dropped"] \in Nat
  BY <1>a, Numbers DEF Counters
<1>c. Sums
  BY DEF Counted
<1>d. Losses \in Nat
  BY <1>b DEF Losses
<1>e. Owed \in {0, 1} /\ Owed' \in {0, 1}
  BY DEF Owed
<1>1. CASE \E p \in Producers, f \in Frames : EnqueueRefuse(p, f)
  <2>1. PICK p \in Producers, f \in Frames : EnqueueRefuse(p, f)
    BY <1>1
  <2>2. f \in Frames /\ fate[f] = "new" /\ Now(f, "refused")
    BY <2>1, HandsTyped, FrontIsQueued DEF EnqueueRefuse, queues, producer, pump, gate, timer,
       driver, passing, Now
  <2>3. /\ IsFiniteSet(Here(Holding)') /\ IsFiniteSet(Here({"unsent"})')
        /\ IsFiniteSet(Here({"refused"})')
        /\ Cardinality(Here(Holding)') = Cardinality(Here(Holding))
        /\ Cardinality(Here({"unsent"})') = Cardinality(Here({"unsent"}))
        /\ Cardinality(Here({"refused"})') = Cardinality(Here({"refused"})) + 1
    BY <2>2, <1>a, <1>b, FrameMoves DEF Indicator, Holding
  <2>4. UNCHANGED producing
    BY <2>1 DEF EnqueueRefuse, queues, producer, pump, gate, timer, driver, passing, Now
  <2>5. IsFiniteSet(Storing') /\ Cardinality(Storing') = Cardinality(Storing)
    BY <2>4 DEF Counted, Finite, Storing
  <2>6. /\ stats'["dropped"] = stats["dropped"] + 1
        /\ stats'["accepted"] = stats["accepted"] /\ stats'["delivered"] = stats["delivered"]
        /\ stats'["timeouts"] = stats["timeouts"]
        /\ stats'["delivery_failed"] = stats["delivery_failed"]
        /\ stats'["telemetry_sent"] = stats["telemetry_sent"]
        /\ stats'["telemetry_dropped"] = stats["telemetry_dropped"]
    BY <2>1, CountersRise DEF EnqueueRefuse, Counters
  <2>7. Owed' = Owed
    BY <2>1 DEF EnqueueRefuse, pump, Owed
  <2>8. Losses' = Losses
    BY <1>b, <2>3, <2>6 DEF Losses
  <2>9. Sums'
    BY <1>b, <1>c, <1>d, <1>e, <2>3, <2>5, <2>6, <2>7, <2>8 DEF Sums
  <2> QED
    BY <2>3, <2>5, <2>9 DEF Counted, Finite
<1>2. CASE \E p \in Producers, f \in Frames : EnqueueLock(p, f)
  <2>1. PICK p \in Producers, f \in Frames : EnqueueLock(p, f)
    BY <1>2
  <2>2. f \in Frames /\ fate[f] = "new" /\ Now(f, "offered")
    BY <2>1, HandsTyped, FrontIsQueued DEF EnqueueLock, pump, gate, timer, driver, passing, Acquire,
       Now
  <2>3. /\ IsFiniteSet(Here(Holding)') /\ IsFiniteSet(Here({"unsent"})')
        /\ IsFiniteSet(Here({"refused"})')
        /\ Cardinality(Here(Holding)') = Cardinality(Here(Holding))
        /\ Cardinality(Here({"unsent"})') = Cardinality(Here({"unsent"}))
        /\ Cardinality(Here({"refused"})') = Cardinality(Here({"refused"}))
    BY <2>2, <1>a, <1>b, FrameMoves DEF Indicator, Holding
  <2>4. producing[p] = "idle" /\ Goes(p, "locked")
    BY <2>1 DEF EnqueueLock, pump, gate, timer, driver, passing, Acquire, Now, Goes
  <2>5. IsFiniteSet(Storing') /\ Cardinality(Storing') = Cardinality(Storing)
    BY <2>4, <1>a, StoringMoves
  <2>6. UNCHANGED stats
    BY <2>1 DEF EnqueueLock, pump, gate, timer, driver, passing, Acquire, Now
  <2>7. Owed' = Owed
    BY <2>1 DEF EnqueueLock, pump, Owed
  <2>8. Losses' = Losses
    BY <1>b, <2>3, <2>6 DEF Losses
  <2>9. Sums'
    BY <1>b, <1>c, <1>d, <1>e, <2>3, <2>5, <2>6, <2>7, <2>8 DEF Sums
  <2> QED
    BY <2>3, <2>5, <2>9 DEF Counted, Finite
<1>3. CASE \E p \in Producers : EnqueueFull(p)
  <2>1. PICK p \in Producers : EnqueueFull(p)
    BY <1>3
  <2>2. offered[p] \in Frames /\ fate[offered[p]] = "offered" /\ Now(offered[p], "refused")
    BY <2>1, HandsTyped, FrontIsQueued DEF EnqueueFull, pump, gate, timer, driver, passing, Release,
       Now
  <2>3. /\ IsFiniteSet(Here(Holding)') /\ IsFiniteSet(Here({"unsent"})')
        /\ IsFiniteSet(Here({"refused"})')
        /\ Cardinality(Here(Holding)') = Cardinality(Here(Holding))
        /\ Cardinality(Here({"unsent"})') = Cardinality(Here({"unsent"}))
        /\ Cardinality(Here({"refused"})') = Cardinality(Here({"refused"})) + 1
    BY <2>2, <1>a, <1>b, FrameMoves DEF Indicator, Holding
  <2>4. producing[p] = "locked" /\ Goes(p, "idle")
    BY <2>1 DEF EnqueueFull, pump, gate, timer, driver, passing, Release, Now, Goes
  <2>5. IsFiniteSet(Storing') /\ Cardinality(Storing') = Cardinality(Storing)
    BY <2>4, <1>a, StoringMoves
  <2>6. /\ stats'["dropped"] = stats["dropped"] + 1
        /\ stats'["accepted"] = stats["accepted"] /\ stats'["delivered"] = stats["delivered"]
        /\ stats'["timeouts"] = stats["timeouts"]
        /\ stats'["delivery_failed"] = stats["delivery_failed"]
        /\ stats'["telemetry_sent"] = stats["telemetry_sent"]
        /\ stats'["telemetry_dropped"] = stats["telemetry_dropped"]
    BY <2>1, CountersRise DEF EnqueueFull, Counters
  <2>7. Owed' = Owed
    BY <2>1 DEF EnqueueFull, pump, Owed
  <2>8. Losses' = Losses
    BY <1>b, <2>3, <2>6 DEF Losses
  <2>9. Sums'
    BY <1>b, <1>c, <1>d, <1>e, <2>3, <2>5, <2>6, <2>7, <2>8 DEF Sums
  <2> QED
    BY <2>3, <2>5, <2>9 DEF Counted, Finite
<1>4. CASE \E p \in Producers : EnqueueCopy(p)
  <2>1. PICK p \in Producers : EnqueueCopy(p)
    BY <1>4
  <2>2. UNCHANGED fate
    BY <2>1 DEF EnqueueCopy, pump, gate, timer, driver, history, passing
  <2>3. /\ IsFiniteSet(Here(Holding)') /\ IsFiniteSet(Here({"unsent"})')
        /\ IsFiniteSet(Here({"refused"})')
        /\ Cardinality(Here(Holding)') = Cardinality(Here(Holding))
        /\ Cardinality(Here({"unsent"})') = Cardinality(Here({"unsent"}))
        /\ Cardinality(Here({"refused"})') = Cardinality(Here({"refused"}))
    BY <2>2 DEF Counted, Finite, Here
  <2>4. producing[p] = "locked" /\ Goes(p, "copied")
    BY <2>1 DEF EnqueueCopy, pump, gate, timer, driver, history, passing, Goes
  <2>5. IsFiniteSet(Storing') /\ Cardinality(Storing') = Cardinality(Storing)
    BY <2>4, <1>a, StoringMoves
  <2>6. UNCHANGED stats
    BY <2>1 DEF EnqueueCopy, pump, gate, timer, driver, history, passing
  <2>7. Owed' = Owed
    BY <2>1 DEF EnqueueCopy, pump, Owed
  <2>8. Losses' = Losses
    BY <1>b, <2>3, <2>6 DEF Losses
  <2>9. Sums'
    BY <1>b, <1>c, <1>d, <1>e, <2>3, <2>5, <2>6, <2>7, <2>8 DEF Sums
  <2> QED
    BY <2>3, <2>5, <2>9 DEF Counted, Finite
<1>5. CASE \E p \in Producers : EnqueuePublish(p)
  <2>1. PICK p \in Producers : EnqueuePublish(p)
    BY <1>5
  <2>2. offered[p] \in Frames /\ fate[offered[p]] = "offered" /\ Now(offered[p], "queued")
    BY <2>1, HandsTyped, FrontIsQueued DEF EnqueuePublish, pump, gate, timer, driver, passing,
       Release, Now
  <2>3. /\ IsFiniteSet(Here(Holding)') /\ IsFiniteSet(Here({"unsent"})')
        /\ IsFiniteSet(Here({"refused"})')
        /\ Cardinality(Here(Holding)') = Cardinality(Here(Holding)) + 1
        /\ Cardinality(Here({"unsent"})') = Cardinality(Here({"unsent"}))
        /\ Cardinality(Here({"refused"})') = Cardinality(Here({"refused"}))
    BY <2>2, <1>a, <1>b, FrameMoves DEF Indicator, Holding
  <2>4. producing[p] = "copied" /\ Goes(p, "stored")
    BY <2>1 DEF EnqueuePublish, pump, gate, timer, driver, passing, Release, Now, Goes
  <2>5. IsFiniteSet(Storing') /\ Cardinality(Storing') = Cardinality(Storing) + 1
    BY <2>4, <1>a, StoringMoves
  <2>6. UNCHANGED stats
    BY <2>1 DEF EnqueuePublish, pump, gate, timer, driver, passing, Release, Now
  <2>7. Owed' = Owed
    BY <2>1 DEF EnqueuePublish, pump, Owed
  <2>8. Losses' = Losses
    BY <1>b, <2>3, <2>6 DEF Losses
  <2>a. /\ stats'["accepted"] = stats["accepted"] /\ stats'["delivered"] = stats["delivered"]
        /\ stats'["dropped"] = stats["dropped"] /\ stats'["telemetry_sent"] = stats["telemetry_sent"]
        /\ stats'["telemetry_dropped"] = stats["telemetry_dropped"]
    BY <2>6
  <2>9. Sums'
    BY <1>b, <1>c, <1>d, <1>e, <2>3, <2>5, <2>a, <2>7, <2>8 DEF Sums
  <2> QED
    BY <2>3, <2>5, <2>9 DEF Counted, Finite
<1>6. CASE \E p \in Producers : EnqueueCount(p)
  <2>1. PICK p \in Producers : EnqueueCount(p)
    BY <1>6
  <2>2. UNCHANGED fate
    BY <2>1 DEF EnqueueCount, queues, pump, gate, timer, driver, history, passing
  <2>3. /\ IsFiniteSet(Here(Holding)') /\ IsFiniteSet(Here({"unsent"})')
        /\ IsFiniteSet(Here({"refused"})')
        /\ Cardinality(Here(Holding)') = Cardinality(Here(Holding))
        /\ Cardinality(Here({"unsent"})') = Cardinality(Here({"unsent"}))
        /\ Cardinality(Here({"refused"})') = Cardinality(Here({"refused"}))
    BY <2>2 DEF Counted, Finite, Here
  <2>4. producing[p] = "stored" /\ Goes(p, "idle")
    BY <2>1 DEF EnqueueCount, queues, pump, gate, timer, driver, history, passing, Goes
  <2>5. IsFiniteSet(Storing') /\ Cardinality(Storing') = Cardinality(Storing) - 1
    BY <2>4, <1>a, StoringMoves
  <2>6. /\ stats'["accepted"] = stats["accepted"] + 1
        /\ stats'["delivered"] = stats["delivered"] /\ stats'["timeouts"] = stats["timeouts"]
        /\ stats'["dropped"] = stats["dropped"]
        /\ stats'["delivery_failed"] = stats["delivery_failed"]
        /\ stats'["telemetry_sent"] = stats["telemetry_sent"]
        /\ stats'["telemetry_dropped"] = stats["telemetry_dropped"]
    BY <2>1, CountersRise DEF EnqueueCount, Counters
  <2>7. Owed' = Owed
    BY <2>1 DEF EnqueueCount, pump, Owed
  <2>8. Losses' = Losses
    BY <1>b, <2>3, <2>6 DEF Losses
  <2>9. Sums'
    BY <1>b, <1>c, <1>d, <1>e, <2>3, <2>5, <2>6, <2>7, <2>8 DEF Sums
  <2> QED
    BY <2>3, <2>5, <2>9 DEF Counted, Finite
<1>7. CASE PumpNothingAwaited
  <2>1. UNCHANGED <<fate, producing, stats>> /\ Owed' = Owed
    BY <1>7 DEF PumpNothingAwaited, queues, producer, gate, timer, driver, history, passing,
       BeginScan, CommandResult, Owed
  <2> QED
    BY <2>1, CountedKept
<1>8. CASE PumpDelivered
  <2>2. pending \in Frames /\ fate[pending] = "sent" /\ Now(pending, "delivered")
    BY <1>8, HandsTyped, FrontIsQueued DEF PumpDelivered, queues, producer, timer, driver, passing, Now
  <2>3. /\ IsFiniteSet(Here(Holding)') /\ IsFiniteSet(Here({"unsent"})')
        /\ IsFiniteSet(Here({"refused"})')
        /\ Cardinality(Here(Holding)') = Cardinality(Here(Holding)) - 1
        /\ Cardinality(Here({"unsent"})') = Cardinality(Here({"unsent"}))
        /\ Cardinality(Here({"refused"})') = Cardinality(Here({"refused"}))
    BY <2>2, <1>a, <1>b, FrameMoves DEF Indicator, Holding
  <2>4. UNCHANGED producing
    BY <1>8 DEF PumpDelivered, queues, producer, timer, driver, passing,
       Now
  <2>5. IsFiniteSet(Storing') /\ Cardinality(Storing') = Cardinality(Storing)
    BY <2>4 DEF Counted, Finite, Storing
  <2>6. /\ stats'["delivered"] = stats["delivered"] + 1
        /\ stats'["accepted"] = stats["accepted"] /\ stats'["timeouts"] = stats["timeouts"]
        /\ stats'["dropped"] = stats["dropped"]
        /\ stats'["delivery_failed"] = stats["delivery_failed"]
        /\ stats'["telemetry_sent"] = stats["telemetry_sent"]
        /\ stats'["telemetry_dropped"] = stats["telemetry_dropped"]
    BY <1>8, CountersRise DEF PumpDelivered, Counters
  <2>7. Owed' = Owed
    BY <1>8 DEF PumpDelivered, pump, Owed
  <2>8. Losses' = Losses
    BY <1>b, <2>3, <2>6 DEF Losses
  <2>9. Sums'
    BY <1>b, <1>c, <1>d, <1>e, <2>3, <2>5, <2>6, <2>7, <2>8 DEF Sums
  <2> QED
    BY <2>3, <2>5, <2>9 DEF Counted, Finite
<1>9. CASE PumpFailed
  <2>2. pending \in Frames /\ fate[pending] = "sent" /\ Now(pending, "failed")
    BY <1>9, HandsTyped, FrontIsQueued DEF PumpFailed, queues, producer, timer, driver, passing, Now
  <2>3. /\ IsFiniteSet(Here(Holding)') /\ IsFiniteSet(Here({"unsent"})')
        /\ IsFiniteSet(Here({"refused"})')
        /\ Cardinality(Here(Holding)') = Cardinality(Here(Holding)) - 1
        /\ Cardinality(Here({"unsent"})') = Cardinality(Here({"unsent"}))
        /\ Cardinality(Here({"refused"})') = Cardinality(Here({"refused"}))
    BY <2>2, <1>a, <1>b, FrameMoves DEF Indicator, Holding
  <2>4. UNCHANGED producing
    BY <1>9 DEF PumpFailed, queues, producer, timer, driver, passing, Now
  <2>5. IsFiniteSet(Storing') /\ Cardinality(Storing') = Cardinality(Storing)
    BY <2>4 DEF Counted, Finite, Storing
  <2>6. /\ stats'["delivery_failed"] = stats["delivery_failed"] + 1
        /\ stats'["dropped"] = stats["dropped"]
        /\ stats'["accepted"] = stats["accepted"] /\ stats'["delivered"] = stats["delivered"]
        /\ stats'["timeouts"] = stats["timeouts"]
        /\ stats'["telemetry_sent"] = stats["telemetry_sent"]
        /\ stats'["telemetry_dropped"] = stats["telemetry_dropped"]
    BY <1>9, CountersRise DEF PumpFailed, Counters
  <2>7. Owed = 0 /\ Owed' = 1
    BY <1>9 DEF PumpFailed, Owed
  <2>8. Losses' = Losses + 1
    BY <1>b, <2>3, <2>6 DEF Losses
  <2>9. Sums'
    BY <1>b, <1>c, <1>d, <1>e, <2>3, <2>5, <2>6, <2>7, <2>8 DEF Sums
  <2> QED
    BY <2>3, <2>5, <2>9 DEF Counted, Finite
<1>10. CASE PumpTimedOut
  <2>2. pending \in Frames /\ fate[pending] = "sent" /\ Now(pending, "expired")
    BY <1>10, HandsTyped, FrontIsQueued DEF PumpTimedOut, queues, producer, gate, timer, driver, passing, Now
  <2>3. /\ IsFiniteSet(Here(Holding)') /\ IsFiniteSet(Here({"unsent"})')
        /\ IsFiniteSet(Here({"refused"})')
        /\ Cardinality(Here(Holding)') = Cardinality(Here(Holding)) - 1
        /\ Cardinality(Here({"unsent"})') = Cardinality(Here({"unsent"}))
        /\ Cardinality(Here({"refused"})') = Cardinality(Here({"refused"}))
    BY <2>2, <1>a, <1>b, FrameMoves DEF Indicator, Holding
  <2>4. UNCHANGED producing
    BY <1>10 DEF PumpTimedOut, queues, producer, gate, timer, driver, passing,
       Now
  <2>5. IsFiniteSet(Storing') /\ Cardinality(Storing') = Cardinality(Storing)
    BY <2>4 DEF Counted, Finite, Storing
  <2>6. /\ stats'["timeouts"] = stats["timeouts"] + 1 /\ stats'["dropped"] = stats["dropped"]
        /\ stats'["accepted"] = stats["accepted"] /\ stats'["delivered"] = stats["delivered"]
        /\ stats'["delivery_failed"] = stats["delivery_failed"]
        /\ stats'["telemetry_sent"] = stats["telemetry_sent"]
        /\ stats'["telemetry_dropped"] = stats["telemetry_dropped"]
    BY <1>10, CountersRise DEF PumpTimedOut, Counters
  <2>7. Owed = 0 /\ Owed' = 1
    BY <1>10 DEF PumpTimedOut, Owed
  <2>8. Losses' = Losses + 1
    BY <1>b, <2>3, <2>6 DEF Losses
  <2>9. Sums'
    BY <1>b, <1>c, <1>d, <1>e, <2>3, <2>5, <2>6, <2>7, <2>8 DEF Sums
  <2> QED
    BY <2>3, <2>5, <2>9 DEF Counted, Finite
<1>11. CASE PumpContended
  <2>1. UNCHANGED <<fate, producing, stats>>
    BY <1>11 DEF PumpContended, queues, producer, gate, timer, driver
  <2>2. pumping' \in {"idle", "scan"} /\ pumping \in {"scan", "pop"}
    BY <1>11, NextClassTyped DEF PumpContended, IInv, Safe, TypeOK, TasksOK
  <2>3. Owed' = Owed
    BY <2>2 DEF Owed
  <2> QED
    BY <2>1, <2>3, CountedKept
<1>12. CASE PumpLock
  <2>1. UNCHANGED <<fate, producing, stats>> /\ Owed' = Owed
    BY <1>12 DEF PumpLock, producer, gate, timer, driver, history, passing, Acquire, Owed
  <2> QED
    BY <2>1, CountedKept
<1>13. CASE PumpEmpty
  <2>1. UNCHANGED <<fate, producing, stats>>
    BY <1>13 DEF PumpEmpty, producer, gate, timer, driver, history, passing, Release
  <2>2. pumping' \in {"idle", "scan"} /\ pumping \in {"scan", "pop"}
    BY <1>13, NextClassTyped DEF PumpEmpty, IInv, Safe, TypeOK, TasksOK
  <2>3. Owed' = Owed
    BY <2>2 DEF Owed
  <2> QED
    BY <2>1, <2>3, CountedKept
<1>14. CASE PumpCopy
  <2>1. UNCHANGED <<fate, producing, stats>> /\ Owed' = Owed
    BY <1>14 DEF PumpCopy, queues, producer, gate, timer, driver, history, passing, Owed
  <2> QED
    BY <2>1, CountedKept
<1>15. CASE PumpRemove
  <2>2. pending \in Frames /\ fate[pending] = "queued" /\ Now(pending, "pending")
    BY <1>15, HandsTyped, FrontIsQueued DEF PumpRemove, producer, gate, timer, driver, Remove,
       Release, Now
  <2>3. /\ IsFiniteSet(Here(Holding)') /\ IsFiniteSet(Here({"unsent"})')
        /\ IsFiniteSet(Here({"refused"})')
        /\ Cardinality(Here(Holding)') = Cardinality(Here(Holding))
        /\ Cardinality(Here({"unsent"})') = Cardinality(Here({"unsent"}))
        /\ Cardinality(Here({"refused"})') = Cardinality(Here({"refused"}))
    BY <2>2, <1>a, <1>b, FrameMoves DEF Indicator, Holding
  <2>4. UNCHANGED producing
    BY <1>15 DEF PumpRemove, producer, gate, timer, driver, Remove, Release, Now
  <2>5. IsFiniteSet(Storing') /\ Cardinality(Storing') = Cardinality(Storing)
    BY <2>4 DEF Counted, Finite, Storing
  <2>6. UNCHANGED stats
    BY <1>15 DEF PumpRemove, producer, gate, timer, driver, Remove, Release, Now
  <2>7. Owed' = Owed
    BY <1>15 DEF PumpRemove, pump, Owed
  <2>8. Losses' = Losses
    BY <1>b, <2>3, <2>6 DEF Losses
  <2>9. Sums'
    BY <1>b, <1>c, <1>d, <1>e, <2>3, <2>5, <2>6, <2>7, <2>8 DEF Sums
  <2> QED
    BY <2>3, <2>5, <2>9 DEF Counted, Finite
<1>16. CASE PumpArm
  <2>1. UNCHANGED <<fate, producing, stats>> /\ Owed' = Owed
    BY <1>16 DEF PumpArm, queues, producer, timer, driver, history, passing, Owed
  <2> QED
    BY <2>1, CountedKept
<1>17. CASE PumpClear
  <2>1. UNCHANGED <<fate, producing, stats>> /\ Owed' = Owed
    BY <1>17 DEF PumpClear, queues, producer, timer, driver, passing, Owed
  <2> QED
    BY <2>1, CountedKept
<1>18. CASE PumpSend
  <2>2. pending \in Frames /\ fate[pending] = "pending" /\ Now(pending, "sent")
    BY <1>18, HandsTyped, FrontIsQueued DEF PumpSend, queues, producer, gate, timer, passing, Now
  <2>3. /\ IsFiniteSet(Here(Holding)') /\ IsFiniteSet(Here({"unsent"})')
        /\ IsFiniteSet(Here({"refused"})')
        /\ Cardinality(Here(Holding)') = Cardinality(Here(Holding))
        /\ Cardinality(Here({"unsent"})') = Cardinality(Here({"unsent"}))
        /\ Cardinality(Here({"refused"})') = Cardinality(Here({"refused"}))
    BY <2>2, <1>a, <1>b, FrameMoves DEF Indicator, Holding
  <2>4. UNCHANGED producing
    BY <1>18 DEF PumpSend, queues, producer, gate, timer, passing, Now
  <2>5. IsFiniteSet(Storing') /\ Cardinality(Storing') = Cardinality(Storing)
    BY <2>4 DEF Counted, Finite, Storing
  <2>6. UNCHANGED stats
    BY <1>18 DEF PumpSend, queues, producer, gate, timer, passing, Now
  <2>7. Owed' = Owed
    BY <1>18 DEF PumpSend, pump, Owed
  <2>8. Losses' = Losses
    BY <1>b, <2>3, <2>6 DEF Losses
  <2>9. Sums'
    BY <1>b, <1>c, <1>d, <1>e, <2>3, <2>5, <2>6, <2>7, <2>8 DEF Sums
  <2> QED
    BY <2>3, <2>5, <2>9 DEF Counted, Finite
<1>19. CASE PumpSendError
  <2>2. pending \in Frames /\ fate[pending] = "pending" /\ Now(pending, "unsent")
    BY <1>19, HandsTyped, FrontIsQueued DEF PumpSendError, queues, producer, timer, driver, passing,
       Now
  <2>3. /\ IsFiniteSet(Here(Holding)') /\ IsFiniteSet(Here({"unsent"})')
        /\ IsFiniteSet(Here({"refused"})')
        /\ Cardinality(Here(Holding)') = Cardinality(Here(Holding)) - 1
        /\ Cardinality(Here({"unsent"})') = Cardinality(Here({"unsent"})) + 1
        /\ Cardinality(Here({"refused"})') = Cardinality(Here({"refused"}))
    BY <2>2, <1>a, <1>b, FrameMoves DEF Indicator, Holding
  <2>4. UNCHANGED producing
    BY <1>19 DEF PumpSendError, queues, producer, timer, driver, passing, Now
  <2>5. IsFiniteSet(Storing') /\ Cardinality(Storing') = Cardinality(Storing)
    BY <2>4 DEF Counted, Finite, Storing
  <2>6. UNCHANGED stats
    BY <1>19 DEF PumpSendError
  <2>7. Owed = 0 /\ Owed' = 1
    BY <1>19 DEF PumpSendError, Owed
  <2>8. Losses' = Losses + 1
    BY <1>b, <2>3, <2>6 DEF Losses
  <2>9. Sums'
    BY <1>b, <1>c, <1>d, <1>e, <2>3, <2>5, <2>6, <2>7, <2>8 DEF Sums
  <2> QED
    BY <2>3, <2>5, <2>9 DEF Counted, Finite
<1>20. CASE TimerLock
  <2>1. UNCHANGED <<fate, producing, stats>> /\ Owed' = Owed
    BY <1>20 DEF TimerLock, producer, pump, gate, driver, history, passing, Acquire, Owed
  <2> QED
    BY <2>1, CountedKept
<1>21. CASE TimerEmpty
  <2>1. UNCHANGED <<fate, producing, stats>> /\ Owed' = Owed
    BY <1>21 DEF TimerEmpty, producer, pump, gate, driver, history, passing, Release, Owed
  <2> QED
    BY <2>1, CountedKept
<1>22. CASE TimerCopy
  <2>1. UNCHANGED <<fate, producing, stats>> /\ Owed' = Owed
    BY <1>22 DEF TimerCopy, queues, producer, pump, gate, driver, history, passing, Owed
  <2> QED
    BY <2>1, CountedKept
<1>23. CASE TimerRemove
  <2>2. sample \in Frames /\ fate[sample] = "queued" /\ Now(sample, "sample")
    BY <1>23, HandsTyped, FrontIsQueued DEF TimerRemove, producer, pump, gate, driver, passing,
       Remove, Release, Now
  <2>3. /\ IsFiniteSet(Here(Holding)') /\ IsFiniteSet(Here({"unsent"})')
        /\ IsFiniteSet(Here({"refused"})')
        /\ Cardinality(Here(Holding)') = Cardinality(Here(Holding))
        /\ Cardinality(Here({"unsent"})') = Cardinality(Here({"unsent"}))
        /\ Cardinality(Here({"refused"})') = Cardinality(Here({"refused"}))
    BY <2>2, <1>a, <1>b, FrameMoves DEF Indicator, Holding
  <2>4. UNCHANGED producing
    BY <1>23 DEF TimerRemove, producer, pump, gate, driver, passing, Remove, Release, Now
  <2>5. IsFiniteSet(Storing') /\ Cardinality(Storing') = Cardinality(Storing)
    BY <2>4 DEF Counted, Finite, Storing
  <2>6. UNCHANGED stats
    BY <1>23 DEF TimerRemove, producer, pump, gate, driver, passing, Remove, Release, Now
  <2>7. Owed' = Owed
    BY <1>23 DEF TimerRemove, pump, Owed
  <2>8. Losses' = Losses
    BY <1>b, <2>3, <2>6 DEF Losses
  <2>9. Sums'
    BY <1>b, <1>c, <1>d, <1>e, <2>3, <2>5, <2>6, <2>7, <2>8 DEF Sums
  <2> QED
    BY <2>3, <2>5, <2>9 DEF Counted, Finite
<1>24. CASE TimerSend
  <2>2. sample \in Frames /\ fate[sample] = "sample" /\ Now(sample, "streamed")
    BY <1>24, HandsTyped, FrontIsQueued DEF TimerSend, queues, producer, pump, gate, passing, Now
  <2>3. /\ IsFiniteSet(Here(Holding)') /\ IsFiniteSet(Here({"unsent"})')
        /\ IsFiniteSet(Here({"refused"})')
        /\ Cardinality(Here(Holding)') = Cardinality(Here(Holding)) - 1
        /\ Cardinality(Here({"unsent"})') = Cardinality(Here({"unsent"}))
        /\ Cardinality(Here({"refused"})') = Cardinality(Here({"refused"}))
    BY <2>2, <1>a, <1>b, FrameMoves DEF Indicator, Holding
  <2>4. UNCHANGED producing
    BY <1>24 DEF TimerSend, queues, producer, pump, gate, passing, Now
  <2>5. IsFiniteSet(Storing') /\ Cardinality(Storing') = Cardinality(Storing)
    BY <2>4 DEF Counted, Finite, Storing
  <2>6. /\ stats'["telemetry_sent"] = stats["telemetry_sent"] + 1
        /\ stats'["accepted"] = stats["accepted"] /\ stats'["delivered"] = stats["delivered"]
        /\ stats'["timeouts"] = stats["timeouts"] /\ stats'["dropped"] = stats["dropped"]
        /\ stats'["delivery_failed"] = stats["delivery_failed"]
        /\ stats'["telemetry_dropped"] = stats["telemetry_dropped"]
    BY <1>24, CountersRise DEF TimerSend, Counters
  <2>7. Owed' = Owed
    BY <1>24 DEF TimerSend, pump, Owed
  <2>8. Losses' = Losses
    BY <1>b, <2>3, <2>6 DEF Losses
  <2>9. Sums'
    BY <1>b, <1>c, <1>d, <1>e, <2>3, <2>5, <2>6, <2>7, <2>8 DEF Sums
  <2> QED
    BY <2>3, <2>5, <2>9 DEF Counted, Finite
<1>25. CASE TimerShed
  <2>2. sample \in Frames /\ fate[sample] = "sample" /\ Now(sample, "shed")
    BY <1>25, HandsTyped, FrontIsQueued DEF TimerShed, queues, producer, pump, gate, driver,
       passing, Now
  <2>3. /\ IsFiniteSet(Here(Holding)') /\ IsFiniteSet(Here({"unsent"})')
        /\ IsFiniteSet(Here({"refused"})')
        /\ Cardinality(Here(Holding)') = Cardinality(Here(Holding)) - 1
        /\ Cardinality(Here({"unsent"})') = Cardinality(Here({"unsent"}))
        /\ Cardinality(Here({"refused"})') = Cardinality(Here({"refused"}))
    BY <2>2, <1>a, <1>b, FrameMoves DEF Indicator, Holding
  <2>4. UNCHANGED producing
    BY <1>25 DEF TimerShed, queues, producer, pump, gate, driver, passing, Now
  <2>5. IsFiniteSet(Storing') /\ Cardinality(Storing') = Cardinality(Storing)
    BY <2>4 DEF Counted, Finite, Storing
  <2>6. /\ stats'["telemetry_dropped"] = stats["telemetry_dropped"] + 1
        /\ stats'["accepted"] = stats["accepted"] /\ stats'["delivered"] = stats["delivered"]
        /\ stats'["timeouts"] = stats["timeouts"] /\ stats'["dropped"] = stats["dropped"]
        /\ stats'["delivery_failed"] = stats["delivery_failed"]
        /\ stats'["telemetry_sent"] = stats["telemetry_sent"]
    BY <1>25, CountersRise DEF TimerShed, Counters
  <2>7. Owed' = Owed
    BY <1>25 DEF TimerShed, pump, Owed
  <2>8. Losses' = Losses
    BY <1>b, <2>3, <2>6 DEF Losses
  <2>9. Sums'
    BY <1>b, <1>c, <1>d, <1>e, <2>3, <2>5, <2>6, <2>7, <2>8 DEF Sums
  <2> QED
    BY <2>3, <2>5, <2>9 DEF Counted, Finite
<1>26. CASE \E f \in air : CallbackLost(f)
  <2>1. UNCHANGED <<fate, producing, stats>> /\ Owed' = Owed
    BY <1>26 DEF CallbackLost, queues, producer, pump, gate, timer, history, passing, Owed
  <2> QED
    BY <2>1, CountedKept
<1>27. CASE \E f \in air, ok \in BOOLEAN : CallbackLoad(f, ok)
  <2>1. UNCHANGED <<fate, producing, stats>> /\ Owed' = Owed
    BY <1>27 DEF CallbackLoad, queues, producer, pump, gate, timer, passing, Owed
  <2> QED
    BY <2>1, CountedKept
<1>28. CASE CallbackStore
  <2>1. UNCHANGED <<fate, producing, stats>> /\ Owed' = Owed
    BY <1>28 DEF CallbackStore, queues, producer, pump, timer, history, passing, Owed
  <2> QED
    BY <2>1, CountedKept
<1>29. CASE Tick
  <2>1. UNCHANGED <<fate, producing, stats>> /\ Owed' = Owed
    BY <1>29 DEF Tick, queues, producer, pump, timer, driver, history, passing, Owed
  <2> QED
    BY <2>1, CountedKept
<1>30. CASE UNCHANGED Rest
  <2>1. UNCHANGED <<fate, producing, stats>> /\ Owed' = Owed
    BY <1>30 DEF Rest, queues, producer, pump, gate, timer, driver, history, passing, Owed
  <2> QED
    BY <2>1, CountedKept
<1>31. CASE PumpCall
  <2>1. UNCHANGED <<fate, producing, stats>> /\ Owed' = Owed
    BY <1>31 DEF PumpCall, queues, producer, gate, timer, driver, history, passing, Owed
  <2> QED
    BY <2>1, CountedKept
<1>32. CASE PumpWait
  <2>1. UNCHANGED <<fate, producing, stats>> /\ Owed' = Owed
    BY <1>32 DEF PumpWait, queues, producer, gate, timer, driver, history, passing, Owed
  <2> QED
    BY <2>1, CountedKept
<1>33. CASE PumpLose
  <2>1. UNCHANGED <<fate, producing>> /\ Owed = 1 /\ Owed' = 0
    BY <1>33 DEF PumpLose, producer, history, Owed
  <2>2. /\ stats'["dropped"] = stats["dropped"] + 1
        /\ stats'["accepted"] = stats["accepted"] /\ stats'["delivered"] = stats["delivered"]
        /\ stats'["timeouts"] = stats["timeouts"]
        /\ stats'["delivery_failed"] = stats["delivery_failed"]
        /\ stats'["telemetry_sent"] = stats["telemetry_sent"]
        /\ stats'["telemetry_dropped"] = stats["telemetry_dropped"]
    BY <1>33, CountersRise DEF PumpLose, Counters
  <2>3. /\ \A X : Here(X)' = Here(X)
        /\ Storing' = Storing
    BY <2>1 DEF Here, Storing
  <2>4. Losses' = Losses
    BY <2>2, <2>3 DEF Losses
  <2>5. Sums'
    BY <1>b, <1>c, <1>d, <1>e, <2>1, <2>2, <2>3, <2>4 DEF Sums
  <2> QED
    BY <1>a, <2>3, <2>5 DEF Counted, Finite
<1>34. CASE PumpRelease
  <2>1. UNCHANGED <<fate, producing, stats>> /\ Owed' = Owed
    BY <1>34 DEF PumpRelease, queues, producer, gate, timer, driver, history, passing,
     BeginScan, CommandResult, Owed
  <2> QED
    BY <2>1, CountedKept
<1> QED
  BY <1>1, <1>2, <1>3, <1>4, <1>5, <1>6, <1>7, <1>8, <1>9, <1>10, <1>11, <1>12, <1>13, <1>14, <1>15,
     <1>16, <1>17, <1>18, <1>19, <1>20, <1>21, <1>22, <1>23, <1>24, <1>25, <1>26, <1>27, <1>28,
     <1>29, <1>30, <1>31, <1>32, <1>33, <1>34, NextSteps

\* The counters of Stats add up at every instant, whatever the frames, the producers and the
\* interleaving: what enqueue() accepted, telemetry included, is in a ring, in hand, or in exactly
\* one outcome counter, and `dropped` lags by at most the loss pump() is counting.
THEOREM CountersAreRight == Spec => []CountersAddUp
<1>1. Init => Counted
  <2> SUFFICES ASSUME Init PROVE Counted
    OBVIOUS
  <2>1. Here(Holding) = {} /\ Here({"unsent"}) = {} /\ Here({"refused"}) = {} /\ Storing = {}
    BY DEF Init, Here, Holding, Storing
  <2>2. (\A k \in Counters : stats[k] = 0) /\ Owed = 0
    BY DEF Init, Owed
  <2> QED
    BY <2>1, <2>2, FS_EmptySet DEF Counted, Finite, Sums, Losses, Counters
<1>2. Counted => CountersAddUp
  <2>1. /\ At("queued") \cup At("pending") \cup At("sent") \cup At("sample") = Here(Holding)
        /\ At("unsent") = Here({"unsent"}) /\ At("refused") = Here({"refused"})
    BY DEF At, Here, Holding
  <2> QED
    BY <2>1 DEF Counted, Sums, Losses, Owed, CountersAddUp, Storing
<1> QED
  BY <1>1, <1>2, CountedStep, Inductive, PTL DEF Spec
=============================================================================
