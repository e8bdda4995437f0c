---------------------- MODULE TelemetryAndSettingsProofs ----------------------
(***************************************************************************)
(* Proofs about TelemetryPublisher, for any capacity, any modulus of the   *)
(* indices it divides, and any number of samples a flush may take, and     *)
(* about RobotSettings, for any table of fields and any texts on the card: *)
(* the two components whose values wrap or are cut to a width.  They share *)
(* no state and no name; the second half is about                          *)
(* RobotSettings.                                                          *)
(***************************************************************************)
EXTENDS TelemetryPublisher, RobotSettings, FiniteSetTheorems, SequenceTheorems, TLAPS

-----------------------------------------------------------------------------
(* Arithmetic of indices that run freely and wrap.                          *)

\* The quotient and the remainder of an integer.
LEMMA DivMod ==
  ASSUME NEW x \in Int, NEW d \in Nat \ {0}
  PROVE  x \div d \in Int /\ (x % d) \in 0 .. d - 1 /\ x = d * (x \div d) + (x % d)
BY Z3

\* No multiple of d lies strictly between 0 and d.
LEMMA NoMultipleBetween ==
  ASSUME NEW d \in Nat \ {0}, NEW q \in Int, d * q < d, d * q > -d
  PROVE  q = 0
<1>1. CASE q >= 1
  BY <1>1, d * q >= d
<1>2. CASE q <= -1
  BY <1>2, d * q <= -d
<1> QED BY <1>1, <1>2

LEMMA QuotientUnique ==
  ASSUME NEW d \in Nat \ {0}, NEW p \in Int, NEW q \in Int,
         NEW m \in 0 .. d - 1, NEW n \in 0 .. d - 1, d * p + m = d * q + n
  PROVE  p = q /\ m = n
<1>1. d * (p - q) = n - m
  BY d * (p - q) = d * p - d * q
<1>2. p - q \in Int
  OBVIOUS
<1>3. p - q = 0
  <2>1. d * (p - q) < d /\ d * (p - q) > -d
    BY <1>1
  <2> QED BY <2>1, <1>2, NoMultipleBetween
<1> QED BY <1>1, <1>3

\* A remainder is what is left of any multiple.
LEMMA ModUnique ==
  ASSUME NEW d \in Nat \ {0}, NEW q \in Int, NEW m \in 0 .. d - 1
  PROVE  (d * q + m) % d = m
<1> DEFINE x == d * q + m
<1>1. x \in Int 
  OBVIOUS
<1>4. x \div d \in Int /\ (x % d) \in 0 .. d - 1 /\ x = d * (x \div d) + (x % d)
  BY <1>1, DivMod
<1> DEFINE p == x \div d  n == x % d
<1>5. p \in Int /\ n \in 0 .. d - 1 /\ d * q + m = d * p + n
  BY <1>4
<1> HIDE DEF p, n
<1>6. m = n
  BY <1>5, QuotientUnique
<1> QED BY <1>6 DEF n

\* What % M makes of a number that is at most one turn out of its range.
Wrap(x, M) == IF x < 0 THEN x + M ELSE IF x < M THEN x ELSE x - M

LEMMA ModWraps ==
  ASSUME NEW M \in Nat \ {0}, NEW x \in -M .. 2 * M - 1
  PROVE  x % M = Wrap(x, M)
<1>1. CASE x < 0
  BY <1>1, x = M * (-1) + (x + M), x + M \in 0 .. M - 1, ModUnique DEF Wrap
<1>2. CASE x >= 0 /\ x < M
  BY <1>2, x = M * 0 + x, ModUnique DEF Wrap
<1>3. CASE x >= M
  BY <1>3, x = M * 1 + (x - M), x - M \in 0 .. M - 1, ModUnique DEF Wrap
<1> QED BY <1>1, <1>2, <1>3

\* Two indices closer than the capacity fall in different slots, also across the wrap, because
\* the capacity divides the modulus.
LEMMA SlotsDiffer ==
  ASSUME NEW K \in Nat \ {0}, NEW M \in Nat \ {0}, M % K = 0,
         NEW a \in 0 .. M - 1, NEW b \in 0 .. M - 1, a % K = b % K, 
         (a - b) % M < K
  PROVE  a = b
<1> DEFINE A == a \div K  B == b \div K  Q == M \div K  m == a % K
<1>1. A \in Int /\ B \in Int /\ Q \in Int /\ m \in Int
      /\ M = K * Q /\ a = K * A + m /\ b = K * B + m
  BY DivMod
<1> HIDE DEF A, B, Q, m
<1>2. a - b = K * (A - B)
  BY <1>1, K * (A - B) = K * A - K * B
<1>3. a - b + M = K * (A - B + Q)
  BY <1>1, <1>2, K * (A - B + Q) = K * (A - B) + K * Q
<1>4. a - b \in -M .. 2 * M - 1
  OBVIOUS
<1>5. (a - b) % M = Wrap(a - b, M)
  BY <1>4, ModWraps
<1>6. CASE a - b < 0
  <2>1. K * (A - B + Q) < K /\ K * (A - B + Q) > -K
    BY <1>3, <1>5, <1>6 DEF Wrap
  <2>2. A - B + Q = 0
    BY <2>1, <1>1, NoMultipleBetween
  <2> QED BY <2>2, <1>3, <1>6
<1>7. CASE a - b >= 0
  <2>1. K * (A - B) < K /\ K * (A - B) > -K
    BY <1>2, <1>5, <1>7 DEF Wrap
  <2>2. A - B = 0
    BY <2>1, <1>1, NoMultipleBetween
  <2> QED BY <2>2, <1>2
<1> QED BY <1>6, <1>7

-----------------------------------------------------------------------------
(* The ring.                                                                *)

Slots  == [0 .. kQueueCapacity - 1 -> Sample \union {NoSample}]
Ring   == [write : 0 .. IndexMod - 1, read : 0 .. IndexMod - 1, slots : Slots]
Place(r, i) == Slot((r.read + i - 1) % IndexMod)

LEMMA ConstantsTyped ==
  /\ kQueueCapacity \in Nat \ {0} /\ IndexMod \in Nat \ {0} /\ kQueueCapacity < IndexMod
  /\ FlushSamples \in Nat \ {0} /\ MaxSequence \in Nat
BY TelemetryAssumption

LEMMA SlotTyped == ASSUME NEW i \in 0 .. IndexMod - 1 PROVE Slot(i) \in 0 .. kQueueCapacity - 1
BY ConstantsTyped, DivMod DEF Slot

\* The i-th sample behind the new front is the one that was behind the old one by one more.
LEMMA MovedIndex ==
  ASSUME NEW M \in Nat \ {0}, NEW d \in 0 .. M - 1, NEW i \in 1 .. M - 1
  PROVE  (((d + 1) % M) + i - 1) % M = (d + (i + 1) - 1) % M
<1> DEFINE e == Wrap(d + 1, M)
<1>1. d + 1 \in -M .. 2 * M - 1 /\ d + i \in -M .. 2 * M - 1
  OBVIOUS
<1>2. (d + 1) % M = e /\ (d + i) % M = Wrap(d + i, M)
  BY <1>1, ModWraps
<1>3. e = IF d + 1 < M THEN d + 1 ELSE 0
  BY DEF Wrap
<1> HIDE DEF e
<1>4. e + i - 1 \in -M .. 2 * M - 1
  BY <1>3
<1>5. (e + i - 1) % M = Wrap(e + i - 1, M)
  BY <1>4, ModWraps
<1>6. Wrap(e + i - 1, M) = Wrap(d + i, M)
  <2>1. CASE d + 1 < M
    BY <2>1, <1>3
  <2>2. CASE d + 1 = M
    BY <2>2, <1>3 DEF Wrap
  <2> QED BY <2>1, <2>2
<1>7. d + (i + 1) - 1 = d + i
  OBVIOUS
<1> QED BY <1>2, <1>5, <1>6, <1>7

\* How far the indices are apart, and what moving either of them does to that.
LEMMA IndexMoves ==
  ASSUME NEW r \in Ring, Held(r) <= kQueueCapacity
  PROVE  /\ Held(r) \in 0 .. kQueueCapacity
         /\ Held(r) = 0 <=> r.read = r.write
         /\ Next1(r.write) \in 0 .. IndexMod - 1 /\ Next1(r.read) \in 0 .. IndexMod - 1
         /\ Held(r) < kQueueCapacity => (Next1(r.write) - r.read) % IndexMod = Held(r) + 1
         /\ r.read # r.write => (r.write - Next1(r.read)) % IndexMod = Held(r) - 1
         /\ (r.read + Held(r)) % IndexMod = r.write
<1> DEFINE w == r.write  d == r.read  M == IndexMod  K == kQueueCapacity
<1>1. M \in Nat \ {0} /\ K \in Nat \ {0} /\ K < M /\ w \in 0 .. M - 1 /\ d \in 0 .. M - 1
      /\ (w - d) % M <= K
  BY ConstantsTyped DEF Ring, Held
<1> HIDE DEF w, d, M, K
<1> DEFINE u == Wrap(w + 1, M)  e == Wrap(d + 1, M)  h == Wrap(w - d, M)
<1>2. w + 1 \in -M .. 2 * M - 1 /\ d + 1 \in -M .. 2 * M - 1 /\ w - d \in -M .. 2 * M - 1
  BY <1>1
<1>3. (w + 1) % M = u /\ (d + 1) % M = e /\ (w - d) % M = h
  BY <1>1, <1>2, ModWraps
<1>4. /\ u = IF w + 1 < M THEN w + 1 ELSE 0
      /\ e = IF d + 1 < M THEN d + 1 ELSE 0
      /\ h = IF w - d < 0 THEN w - d + M ELSE w - d
  BY <1>1 DEF Wrap
<1>5. h <= K
  BY <1>1, <1>3
<1> HIDE DEF u, e, h
<1>6. u - d \in -M .. 2 * M - 1 /\ w - e \in -M .. 2 * M - 1 /\ d + h \in -M .. 2 * M - 1
  BY <1>1, <1>4
<1>7. (u - d) % M = Wrap(u - d, M) /\ (w - e) % M = Wrap(w - e, M) /\ (d + h) % M = Wrap(d + h, M)
  BY <1>1, <1>6, ModWraps
<1>8. h \in 0 .. K /\ (h = 0 <=> d = w) /\ u \in 0 .. M - 1 /\ e \in 0 .. M - 1
  BY <1>1, <1>4, <1>5
<1>9. ASSUME h < K PROVE Wrap(u - d, M) = h + 1
  <2>1. CASE w + 1 < M
    BY <1>1, <1>4, <1>9, <2>1 DEF Wrap
  <2>2. CASE w + 1 = M
    BY <1>1, <1>4, <1>9, <2>2 DEF Wrap
  <2> QED BY <1>1, <2>1, <2>2
<1>10. Wrap(d + h, M) = w
  BY <1>1, <1>4 DEF Wrap
<1>11. ASSUME d # w PROVE Wrap(w - e, M) = h - 1
  <2>1. CASE d + 1 < M
    BY <1>1, <1>4, <1>11, <2>1 DEF Wrap
  <2>2. CASE d + 1 = M
    BY <1>1, <1>4, <1>11, <2>2 DEF Wrap
  <2> QED BY <1>1, <2>1, <2>2
<1> QED BY <1>3, <1>7, <1>8, <1>9, <1>10, <1>11 DEF w, d, M, K, Held, Next1

\* The slot the producer fills is none of those that hold a sample.
LEMMA NextSlotIsFree ==
  ASSUME NEW r \in Ring, Held(r) < kQueueCapacity, NEW i \in 1 .. Held(r)
  PROVE  Place(r, i) \in 0 .. kQueueCapacity - 1 /\ Place(r, i) # Slot(r.write)
<1> DEFINE w == r.write  d == r.read  M == IndexMod  K == kQueueCapacity
<1>1. M \in Nat \ {0} /\ K \in Nat \ {0} /\ K < M /\ w \in 0 .. M - 1 /\ d \in 0 .. M - 1
      /\ (w - d) % M < K /\ i \in 1 .. ((w - d) % M)
  BY ConstantsTyped DEF Ring, Held
<1>2. M % K = 0
  BY TelemetryAssumption
<1> HIDE DEF w, d, M, K
<1> DEFINE h == Wrap(w - d, M)  x == Wrap(d + i - 1, M)
<1>3. w - d \in -M .. 2 * M - 1
  BY <1>1
<1>4. (w - d) % M = h
  BY <1>1, <1>3, ModWraps
<1>5. h = IF w - d < 0 THEN w - d + M ELSE w - d
  BY <1>1 DEF Wrap
<1> HIDE DEF h
<1>6. h \in 1 .. K - 1 /\ i \in 1 .. h
  BY <1>1, <1>4, <1>5
<1>7. d + i - 1 \in -M .. 2 * M - 1
  BY <1>1, <1>6
<1>8. (d + i - 1) % M = x
  BY <1>1, <1>7, ModWraps
<1>9. x = IF d + i - 1 < M THEN d + i - 1 ELSE d + i - 1 - M
  BY <1>1, <1>6 DEF Wrap
<1> HIDE DEF x
<1>10. x \in 0 .. M - 1 /\ x # w
  BY <1>1, <1>5, <1>6, <1>9
<1>11. w - x \in -M .. 2 * M - 1
  BY <1>1, <1>10
<1>12. (w - x) % M = Wrap(w - x, M)
  BY <1>1, <1>11, ModWraps
<1>13. (w - x) % M < K
  BY <1>1, <1>5, <1>6, <1>9, <1>12 DEF Wrap
<1>14. w % K # x % K
  BY <1>1, <1>2, <1>10, <1>13, SlotsDiffer
<1>15. x % K \in 0 .. K - 1
  BY <1>1, <1>10, DivMod
<1> QED BY <1>8, <1>14, <1>15 DEF w, d, M, K, Place, Slot

-----------------------------------------------------------------------------
(* The inductive invariant.                                                 *)

Field == [field : Pointer, set : BOOLEAN]

Shapes ==
  /\ ring \in Ring
  /\ queued \in Seq(Sample)
  /\ pending \in BOOLEAN /\ sequence \in 0 .. MaxSequence
  /\ targets \in [Target -> SUBSET Pointer]
  /\ node \in BOOLEAN /\ paused \in BOOLEAN
  /\ todo \in Seq(Field) /\ Len(todo) <= 3
  /\ producer \in [at : {"sampling", "filled", "packing"}, next : 1 .. Len(Order),
                   sample : Sample \union {NoSample}]
  /\ flusher \in [at : {"idle", "monitor", "document", "queue", "sample"},
                  views : [Target -> SUBSET Pointer], left : 0 .. FlushSamples]

\* What the producer has filled is in the next slot, and there is room for it.
FilledIsNext ==
  producer.at = "filled" =>
    /\ producer.sample \in Sample
    /\ Len(queued) < kQueueCapacity
    /\ ring.slots[Slot(ring.write)] = producer.sample

\* A flush takes a sample only when there is one, and counts what it sends down to zero.
FlushHasWork ==
  /\ flusher.at = "sample" => queued # <<>>
  /\ flusher.at \in {"monitor", "document", "sample"} => flusher.left > 0

IInv == Shapes /\ Held(ring) <= kQueueCapacity /\ RingIsAQueue /\ StageHasOneOwner
        /\ FilledIsNext /\ FlushHasWork

\* The invariant holds when nothing has been sampled.
LEMMA InitIInv == Init => IInv
<1> SUFFICES ASSUME Init PROVE IInv
  OBVIOUS
<1>1. Held(ring) = 0
  <2>1. 0 % IndexMod = 0
    BY ConstantsTyped, ModWraps DEF Wrap
  <2> QED BY <2>1 DEF Init, Held
<1>2. ring \in Ring
  BY ConstantsTyped DEF Init, Ring, Slots
<1>3. queued = <<>> /\ queued \in Seq(Sample) /\ todo = <<>> /\ todo \in Seq(Field)
  BY DEF Init
<1>4. targets \in [Target -> SUBSET Pointer]
  BY DEF Init, Target, Pointer
<1>5. NoView \in [Target -> SUBSET Pointer] /\ Len(Order) = 5
  BY DEF NoView, Order
<1>6. Shapes
  <2>1. producer \in [at : {"sampling", "filled", "packing"}, next : 1 .. Len(Order),
                      sample : Sample \union {NoSample}]
    BY <1>5 DEF Init
  <2>2. flusher \in [at : {"idle", "monitor", "document", "queue", "sample"},
                     views : [Target -> SUBSET Pointer], left : 0 .. FlushSamples]
    BY <1>5, ConstantsTyped DEF Init
  <2>3. pending \in BOOLEAN /\ node \in BOOLEAN /\ paused \in BOOLEAN
    BY Zenon DEF Init
  <2>4. sequence \in 0 .. MaxSequence
    BY ConstantsTyped DEF Init
  <2> QED BY <1>2, <1>3, <1>4, <2>1, <2>2, <2>3, <2>4 DEF Shapes
<1> QED BY <1>1, <1>3, <1>6, ConstantsTyped
        DEF Init, IInv, RingIsAQueue, StageHasOneOwner, FilledIsNext, FlushHasWork

LEMMA PointersInOrder ==
  /\ BindOf[Link] \in Seq(Field) /\ Len(BindOf[Link]) = 3
  /\ UnbindOf[Link] \in Seq(Field) /\ Len(UnbindOf[Link]) = 3
<1> DEFINE b == BindOf[Link]  u == UnbindOf[Link]
<1>1. \A f \in Pointer : Set(f) \in Field /\ Clear(f) \in Field
  BY DEF Set, Clear, Field
<1>2. "endpoint" \in Pointer /\ "seal" \in Pointer /\ "subscriptions" \in Pointer
  BY DEF Pointer
<1>3. /\ bind_tcp_target \in Seq(Field) /\ Len(bind_tcp_target) = 3
      /\ bind_ble_target \in Seq(Field) /\ Len(bind_ble_target) = 3
      /\ bind_serial_target \in Seq(Field) /\ Len(bind_serial_target) = 3
  BY <1>1, <1>2 DEF bind_tcp_target, bind_ble_target, bind_serial_target
<1>4. /\ unbind_tcp_target \in Seq(Field) /\ Len(unbind_tcp_target) = 3
      /\ unbind_ble_target \in Seq(Field) /\ Len(unbind_ble_target) = 3
      /\ unbind_serial_target \in Seq(Field) /\ Len(unbind_serial_target) = 3
  BY <1>1, <1>2 DEF unbind_tcp_target, unbind_ble_target, unbind_serial_target
<1>5. b \in {bind_tcp_target, bind_ble_target, bind_serial_target}
  BY TelemetryAssumption DEF BindOf
<1>6. u \in {unbind_tcp_target, unbind_ble_target, unbind_serial_target}
  BY TelemetryAssumption DEF UnbindOf
<1> HIDE DEF b, u
<1> QED BY <1>3, <1>4, <1>5, <1>6 DEF b, u

\* What leaves the ring, the stage and both tasks alone.
LEMMA BinderStep ==
  ASSUME IInv, Binder \/ UploadSession \/ UNCHANGED vars
  PROVE  IInv'
<1>1. UNCHANGED <<ring, pending, sequence, producer, flusher, queued>>
  BY DEF Binder, SessionStart, SessionEnd, WritePointer, NodeReset, UploadSession, vars
<1>2. targets' \in [Target -> SUBSET Pointer]
  <2>1. CASE WritePointer
    <3>1. Head(todo) \in Field
      BY <2>1 DEF WritePointer, IInv, Shapes
    <3> QED BY <2>1, <3>1 DEF WritePointer, IInv, Shapes, Field
  <2>2. CASE UNCHANGED targets
    BY <2>2 DEF IInv, Shapes
  <2> QED BY <2>1, <2>2 DEF Binder, SessionStart, SessionEnd, NodeReset, UploadSession, vars
<1>5. node' \in BOOLEAN /\ paused' \in BOOLEAN
  BY DEF IInv, Shapes, Binder, SessionStart, SessionEnd, WritePointer, NodeReset, UploadSession, vars
<1>3. todo' \in Seq(Field) /\ Len(todo') <= 3
  <2>1. CASE SessionStart
    BY <2>1, PointersInOrder DEF SessionStart
  <2>2. CASE SessionEnd
    BY <2>2, PointersInOrder DEF SessionEnd
  <2>3. CASE WritePointer
    BY <2>3 DEF WritePointer, IInv, Shapes
  <2>4. CASE UNCHANGED todo
    BY <2>4 DEF IInv, Shapes
  <2> QED BY <2>1, <2>2, <2>3, <2>4 DEF Binder, NodeReset, UploadSession, vars
<1>4. Shapes'
  BY <1>1, <1>2, <1>3, <1>5 DEF IInv, Shapes
<1> QED
  BY <1>1, <1>4 DEF IInv, RingIsAQueue, StageHasOneOwner, FilledIsNext, FlushHasWork, Held, Slot

LEMMA TurnTyped == ASSUME producer.next \in 1 .. Len(Order) PROVE Turn \in 1 .. Len(Order)
<1>1. Len(Order) = 5
  BY DEF Order
<1> QED BY <1>1, DivMod DEF Turn

LEMMA NextTopicTyped ==
  ASSUME Shapes, NextTopic
  PROVE  producer' \in [at : {"sampling", "filled", "packing"}, next : 1 .. Len(Order),
                        sample : Sample \union {NoSample}]
         /\ producer'.at = "sampling"
BY TurnTyped DEF Shapes, NextTopic

\* The producer's steps that keep its hands off the ring and the stage.
LEMMA ProducerPasses ==
  ASSUME IInv, NextTopic, UNCHANGED <<ring, pending, sequence, targets, node, todo, flusher, paused, queued>>
  PROVE  IInv'
<1>1. Shapes'
  BY NextTopicTyped DEF IInv, Shapes
<1> QED BY <1>1, NextTopicTyped
        DEF IInv, RingIsAQueue, StageHasOneOwner, FilledIsNext, FlushHasWork, Held, Slot

\* enqueue() fills the next slot: what is queued stays where it is.
LEMMA EnqueueFillStep == ASSUME IInv, EnqueueFill PROVE IInv'
<1> DEFINE sample == [topic |-> Topic, sequence |-> sequence + 1]
<1>1. sample \in Sample /\ sequence' \in 0 .. MaxSequence
  BY ConstantsTyped DEF EnqueueFill, Due, Reserved, IInv, Shapes, Sample
<1>2. Slot(ring.write) \in 0 .. kQueueCapacity - 1
  BY SlotTyped DEF IInv, Shapes, Ring
<1>3. ring' = [ring EXCEPT !.slots[Slot(ring.write)] = sample]
      /\ producer' = [producer EXCEPT !.at = "filled", !.sample = sample]
  BY DEF EnqueueFill
<1>4. ring' \in Ring /\ ring'.read = ring.read /\ ring'.write = ring.write
      /\ ring'.slots = [ring.slots EXCEPT ![Slot(ring.write)] = sample]
  BY <1>1, <1>2, <1>3 DEF IInv, Shapes, Ring, Slots
<1> HIDE DEF sample
<1>5. Shapes'
  BY <1>1, <1>3, <1>4 DEF EnqueueFill, IInv, Shapes
<1>6. Held(ring') = Held(ring) /\ Held(ring) = Len(queued) /\ Len(queued) < kQueueCapacity
  BY <1>4 DEF EnqueueFill, Held, IInv, RingIsAQueue
<1>7. RingIsAQueue'
  <2>1. ASSUME NEW i \in 1 .. Len(queued) PROVE ring'.slots[Place(ring, i)] = queued[i]
    <3>1. Place(ring, i) # Slot(ring.write) /\ Place(ring, i) \in 0 .. kQueueCapacity - 1
      BY <1>6, NextSlotIsFree DEF IInv, Shapes
    <3>2. ring.slots[Place(ring, i)] = queued[i]
      BY DEF IInv, RingIsAQueue, Place
    <3> QED BY <3>1, <3>2, <1>4, <1>2 DEF IInv, Shapes, Ring, Slots
  <2> QED BY <2>1, <1>4, <1>6 DEF RingIsAQueue, EnqueueFill, Place, Slot
<1>8. FilledIsNext'
  <2>1. ring'.slots[Slot(ring.write)] = sample
    BY <1>4, <1>2 DEF IInv, Shapes, Ring, Slots
  <2> QED BY <2>1, <1>1, <1>3, <1>4, <1>6 DEF FilledIsNext, EnqueueFill, Slot, IInv, Shapes
<1>9. StageHasOneOwner' /\ FlushHasWork'
  BY <1>3 DEF EnqueueFill, StageHasOneOwner, FlushHasWork, IInv, Shapes
<1> QED BY <1>5, <1>6, <1>7, <1>8, <1>9 DEF IInv

\* enqueue() moves write_index_: the filled sample is the last of the queue.
LEMMA EnqueuePublishStep == ASSUME IInv, EnqueuePublish PROVE IInv'
<1>1. /\ producer.sample \in Sample /\ Len(queued) < kQueueCapacity
      /\ ring.slots[Slot(ring.write)] = producer.sample
  BY DEF EnqueuePublish, IInv, FilledIsNext
<1>2. Held(ring) = Len(queued)
  BY DEF IInv, RingIsAQueue
<1>3. Next1(ring.write) \in 0 .. IndexMod - 1
      /\ (Next1(ring.write) - ring.read) % IndexMod = Held(ring) + 1
      /\ (ring.read + Held(ring)) % IndexMod = ring.write
  BY <1>1, <1>2, IndexMoves DEF IInv, Shapes
<1>4. ring' \in Ring /\ ring'.write = Next1(ring.write) /\ ring'.read = ring.read
      /\ ring'.slots = ring.slots
  BY <1>3 DEF EnqueuePublish, IInv, Shapes, Ring
<1>5. queued' = Append(queued, producer.sample) /\ queued' \in Seq(Sample)
      /\ Len(queued') = Len(queued) + 1 /\ queued \in Seq(Sample) /\ Len(queued) \in Nat
  BY <1>1 DEF EnqueuePublish, IInv, Shapes
<1>6. Shapes'
  BY <1>4, <1>5, NextTopicTyped DEF EnqueuePublish, IInv, Shapes
<1>7. Held(ring') = Len(queued')
  BY <1>2, <1>3, <1>4, <1>5 DEF Held
<1>8. RingIsAQueue'
  <2>1. ASSUME NEW i \in 1 .. Len(queued') PROVE ring'.slots[Place(ring', i)] = queued'[i]
    <3>1. Place(ring', i) = Place(ring, i)
      BY <1>4 DEF Place
    <3>2. CASE i \in 1 .. Len(queued)
      BY <3>1, <3>2, <1>4, <1>5 DEF IInv, RingIsAQueue, Place
    <3>3. CASE i = Len(queued) + 1
      <4>1. Place(ring, i) = Slot(ring.write)
        <5>1. ring.read + i - 1 = ring.read + Held(ring)
          BY <3>3, <1>2, <1>5 DEF IInv, Shapes, Ring
        <5> QED BY <5>1, <1>3 DEF Place
      <4> QED BY <4>1, <3>1, <3>3, <1>1, <1>4, <1>5
    <3> QED BY <3>2, <3>3, <1>5
  <2> QED BY <2>1, <1>7 DEF RingIsAQueue, Place, Slot
<1>9. StageHasOneOwner' /\ FilledIsNext'
  BY NextTopicTyped DEF EnqueuePublish, IInv, StageHasOneOwner, FilledIsNext, Shapes
<1>11. FlushHasWork'
  <2>1. queued' # <<>>
    BY <1>5
  <2> QED BY <2>1 DEF EnqueuePublish, FlushHasWork, IInv
<1>10. Held(ring') <= kQueueCapacity
  BY <1>1, <1>5, <1>7, ConstantsTyped
<1> QED BY <1>6, <1>8, <1>9, <1>10, <1>11 DEF IInv, Held

\* publish_system_monitor(): the stage is packed only while no flush can be sending it.
LEMMA MonitorStep == ASSUME IInv, MonitorFill \/ MonitorPublish PROVE IInv'
<1>1. UNCHANGED <<ring, targets, node, todo, flusher, paused, queued>>
  BY DEF MonitorFill, MonitorPublish
<1>2. pending' \in BOOLEAN
  BY Zenon DEF MonitorFill, MonitorPublish, IInv, Shapes
<1>6. sequence' \in 0 .. MaxSequence
  BY ConstantsTyped DEF MonitorFill, MonitorPublish, Reserved, IInv, Shapes
<1>3. producer' \in [at : {"sampling", "filled", "packing"}, next : 1 .. Len(Order),
                     sample : Sample \union {NoSample}]
  BY NextTopicTyped DEF MonitorFill, MonitorPublish, IInv, Shapes
<1>4. Shapes'
  BY <1>1, <1>2, <1>3, <1>6 DEF IInv, Shapes
<1>5. StageHasOneOwner' /\ FilledIsNext'
  <2>1. CASE MonitorFill
    BY <2>1, <1>1 DEF MonitorFill, IInv, Shapes, StageHasOneOwner, FilledIsNext
  <2>2. CASE MonitorPublish
    BY <2>2, <1>1, NextTopicTyped DEF MonitorPublish, IInv, Shapes, StageHasOneOwner, FilledIsNext
  <2> QED BY <2>1, <2>2
<1> QED BY <1>1, <1>4, <1>5 DEF IInv, RingIsAQueue, FlushHasWork, Held, Slot

LEMMA ProducerStep == ASSUME IInv, Producer PROVE IInv'
BY ProducerPasses, EnqueueFillStep, EnqueuePublishStep, MonitorStep
   DEF Producer, NotDue, Refused, MonitorRefused

\* Every flush sends at most the samples it was given.
LEMMA FlushCounts ==
  ASSUME IInv, flusher.at \in {"document", "sample"},
         flusher' = [flusher EXCEPT !.at = "queue", !.left = @ - 1]
  PROVE  /\ flusher' \in [at : {"idle", "monitor", "document", "queue", "sample"},
                          views : [Target -> SUBSET Pointer], left : 0 .. FlushSamples]
         /\ flusher'.at = "queue"
<1>1. flusher.left \in 0 .. FlushSamples /\ flusher.left > 0
  BY DEF IInv, Shapes, FlushHasWork
<1>2. flusher.left - 1 \in 0 .. FlushSamples
  BY <1>1, ConstantsTyped
<1> QED BY <1>2 DEF IInv, Shapes

\* The flusher's steps before and after a sample.
LEMMA FlusherPasses ==
  ASSUME IInv, FlushBegin \/ FlushMonitor \/ FlushDocument \/ FlushNext
  PROVE  IInv'
<1>1. UNCHANGED <<ring, sequence, targets, node, todo, producer, paused, queued>>
  BY DEF FlushBegin, FlushMonitor, FlushDocument, FlushNext
<1>2. collect_targets \in [Target -> SUBSET Pointer] /\ NoView \in [Target -> SUBSET Pointer]
  BY DEF collect_targets, NoView, IInv, Shapes
<1>3. pending' \in BOOLEAN
  BY DEF FlushBegin, FlushMonitor, FlushDocument, FlushNext, IInv, Shapes
<1>4. flusher' \in [at : {"idle", "monitor", "document", "queue", "sample"},
                    views : [Target -> SUBSET Pointer], left : 0 .. FlushSamples]
  <2>1. CASE FlushBegin
    BY <2>1, <1>2, ConstantsTyped DEF FlushBegin
  <2>2. CASE FlushMonitor
    BY <2>2 DEF FlushMonitor, IInv, Shapes
  <2>3. CASE FlushDocument
    BY <2>3, FlushCounts DEF FlushDocument
  <2>4. CASE FlushNext
    <3>1. [at |-> "idle", views |-> NoView, left |-> 0] \in
              [at : {"idle", "monitor", "document", "queue", "sample"},
               views : [Target -> SUBSET Pointer], left : 0 .. FlushSamples]
      BY <1>2, ConstantsTyped
    <3>2. [flusher EXCEPT !.at = "sample"] \in
              [at : {"idle", "monitor", "document", "queue", "sample"},
               views : [Target -> SUBSET Pointer], left : 0 .. FlushSamples]
      BY DEF IInv, Shapes
    <3> QED BY <2>4, <3>1, <3>2 DEF FlushNext
  <2> QED BY <2>1, <2>2, <2>3, <2>4
<1>5. Shapes'
  BY <1>1, <1>3, <1>4 DEF IInv, Shapes
<1>6. StageHasOneOwner'
  <2>1. CASE FlushBegin
    BY <2>1, <1>1 DEF FlushBegin, IInv, StageHasOneOwner
  <2>2. CASE FlushMonitor
    BY <2>2, <1>1 DEF FlushMonitor, IInv, Shapes, StageHasOneOwner
  <2>3. CASE FlushDocument
    BY <2>3, <1>1 DEF FlushDocument, IInv, Shapes, StageHasOneOwner
  <2>4. CASE FlushNext
    BY <2>4, <1>1 DEF FlushNext, IInv, Shapes, StageHasOneOwner
  <2> QED BY <2>1, <2>2, <2>3, <2>4
<1>7. FlushHasWork'
  <2>1. CASE FlushBegin
    BY <2>1, ConstantsTyped DEF FlushBegin, FlushHasWork
  <2>2. CASE FlushMonitor
    BY <2>2 DEF FlushMonitor, IInv, Shapes, FlushHasWork
  <2>3. CASE FlushDocument
    BY <2>3 DEF FlushDocument, IInv, Shapes, FlushHasWork
  <2>4. CASE FlushNext
    <3>1. ring.read # ring.write => queued # <<>>
      BY IndexMoves DEF IInv, Shapes, RingIsAQueue
    <3> QED BY <2>4, <3>1 DEF FlushNext, IInv, Shapes, FlushHasWork
  <2> QED BY <2>1, <2>2, <2>3, <2>4
<1> QED BY <1>1, <1>5, <1>6, <1>7 DEF IInv, RingIsAQueue, FilledIsNext, Held, Slot

\* flush() moves read_index_: the first sample leaves, the others stay where they are.
LEMMA FlushSampleStep == ASSUME IInv, FlushSample PROVE IInv'
<1>1. queued # <<>> /\ queued \in Seq(Sample) /\ Len(queued) \in Nat \ {0} /\ Held(ring) = Len(queued)
  BY DEF FlushSample, IInv, Shapes, FlushHasWork, RingIsAQueue
<1>2. ring.write \in 0 .. IndexMod - 1 /\ ring.read \in 0 .. IndexMod - 1
  BY DEF IInv, Shapes, Ring
<1>3. Next1(ring.read) \in 0 .. IndexMod - 1
      /\ (ring.write - Next1(ring.read)) % IndexMod = Held(ring) - 1
  <2>1. ring.read # ring.write
    BY <1>1, IndexMoves DEF IInv, Shapes
  <2> QED BY <2>1, IndexMoves DEF IInv, Shapes
<1>4. ring' \in Ring /\ ring'.read = Next1(ring.read) /\ ring'.write = ring.write
      /\ ring'.slots = ring.slots
  BY <1>3 DEF FlushSample, IInv, Shapes, Ring
<1>5. queued' = Tail(queued) /\ queued' \in Seq(Sample) /\ Len(queued') = Len(queued) - 1
      /\ \A i \in 1 .. Len(queued) - 1 : queued'[i] = queued[i + 1]
  BY <1>1 DEF FlushSample
<1>6. Shapes'
  BY <1>4, <1>5, FlushCounts DEF FlushSample, IInv, Shapes
<1>7. Held(ring') = Len(queued')
  BY <1>1, <1>3, <1>4, <1>5 DEF Held
<1>8. RingIsAQueue'
  <2>1. ASSUME NEW i \in 1 .. Len(queued') PROVE ring'.slots[Place(ring', i)] = queued'[i]
    <3>1. i + 1 \in 1 .. Len(queued) /\ queued'[i] = queued[i + 1] /\ i \in Nat
      BY <1>1, <1>5
    <3>2. (Next1(ring.read) + i - 1) % IndexMod = (ring.read + (i + 1) - 1) % IndexMod
      <4>1. i \in 1 .. IndexMod - 1
        BY <1>1, <3>1, ConstantsTyped DEF IInv
      <4> QED BY <4>1, <1>2, ConstantsTyped, MovedIndex DEF Next1
    <3>3. ring.slots[Place(ring, i + 1)] = queued[i + 1]
      BY <3>1 DEF IInv, RingIsAQueue, Place
    <3> QED BY <3>1, <3>2, <3>3, <1>4 DEF Place
  <2> QED BY <2>1, <1>7 DEF RingIsAQueue, Place, Slot
<1>9. flusher'.at = "queue"
  BY FlushCounts DEF FlushSample
<1>10. StageHasOneOwner' /\ FilledIsNext' /\ FlushHasWork'
  <2>1. StageHasOneOwner' /\ FlushHasWork'
    BY <1>9 DEF FlushSample, IInv, StageHasOneOwner, FlushHasWork
  <2>2. FilledIsNext'
    BY <1>1, <1>4, <1>5, ConstantsTyped DEF FlushSample, IInv, FilledIsNext, Slot
  <2> QED BY <2>1, <2>2
<1>11. Held(ring') <= kQueueCapacity
  BY <1>1, <1>5, <1>7, ConstantsTyped DEF IInv
<1> QED BY <1>6, <1>8, <1>10, <1>11 DEF IInv, Held

\* Every step of the three tasks keeps the invariant.
THEOREM Inductive == IInv /\ [Next]_vars => IInv'
BY BinderStep, ProducerStep, FlusherPasses, FlushSampleStep DEF Next, Flusher

LEMMA IInvTyped == IInv => TypeOK
<1> SUFFICES ASSUME IInv PROVE TypeOK
  OBVIOUS
<1>1. Cardinality(Pointer) = 3
  <2>2. IsFiniteSet({"endpoint"}) /\ Cardinality({"endpoint"}) = 1
    BY FS_Singleton
  <2>3. IsFiniteSet({"endpoint", "seal"}) /\ Cardinality({"endpoint", "seal"}) = 2
    BY <2>2, FS_AddElement, {"endpoint", "seal"} = {"endpoint"} \cup {"seal"}
  <2> QED BY <2>3, FS_AddElement, Pointer = {"endpoint", "seal"} \cup {"subscriptions"} DEF Pointer
<1> QED BY <1>1 DEF IInv, Shapes, TypeOK, Ring, Slots

\* The indices stay below the modulus, the ring below its capacity, a flush within its count.
THEOREM TypeCorrect == Spec => []TypeOK
BY InitIInv, Inductive, IInvTyped, PTL DEF Spec

\* The ring of enqueue() and flush() is the queue of the samples published and not taken, in
\* order, for any capacity and across any number of wraps of its free-running indices.
THEOREM RingHoldsItsQueue == Spec => []RingIsAQueue
<1>1. IInv => RingIsAQueue
  BY DEF IInv
<1> QED BY InitIInv, Inductive, <1>1, PTL DEF Spec

\* The one-document stage is never packed by the sampler while flush() may be sending it.
THEOREM StageOwned == Spec => []StageHasOneOwner
<1>1. IInv => StageHasOneOwner
  BY DEF IInv
<1> QED BY InitIInv, Inductive, <1>1, PTL DEF Spec

-----------------------------------------------------------------------------
(* RobotSettings.  Two tasks change the values without a lock: the         *)
(* invariant says what a save that ran alone has in its buffer, what the   *)
(* last one nothing disturbed left on the card, and what the file and the  *)
(* memory still are when "settings diff" has answered.                     *)

(* The inductive invariant.                                                *)

Ops     == {"idle", "reset", "parse", "format", "write", "done"}
Columns == {"op", "left", "lines", "saves", "alone"}

CallShape ==
  /\ DOMAIN call = Tasks
  /\ \A t \in Tasks : DOMAIN call[t] = Columns /\ call[t].op \in Ops

\* A value a field may hold: its compiled-in one, or one its type accepts, as wide as the field.
Fits(k, v) ==
  /\ v \in Nat
  /\ v = Default[k] \/ Accepts(k, v)
  /\ TypeOf[k] = "U32" => v <= MaxU32

\* The lines of a settings file, or of the buffer it is built or read in.
IsText(lines) ==
  /\ lines = [k \in DOMAIN lines |-> lines[k]]
  /\ \A k \in DOMAIN lines : k \in Keys /\ lines[k] \in Nat \cup {Garbage}

Printed6(d, lines) == \A k \in DOMAIN lines : lines[k] = format_entry(k, d[k])

MemoryHeld ==
  /\ data = [k \in Keys |-> data[k]]
  /\ \A k \in Keys : Fits(k, data[k])

TextsTyped ==
  /\ file # NoFile => IsText(file)
  /\ \A t \in Tasks : call[t].op \in {"parse", "format", "write"} => IsText(call[t].lines)
  /\ card \in {"mounted", "host", "absent"}

\* A save has the card until a host takes it; while formatting it visits keys of the table.
SavesPlaced ==
  \A t \in Tasks :
    /\ call[t].op \in {"format", "write"} => card # "absent"
    /\ call[t].op = "write" => card = "mounted"
    /\ call[t].op = "format" => call[t].left \in Seq(Keys)

\* A save no other call ran beside has in its buffer what memory says, for every key it
\* has visited.
SavesAlone ==
  \A t \in Tasks : call[t].op \in {"format", "write"} /\ call[t].alone =>
    /\ ~Busy(Other(t))
    /\ Keys = DOMAIN call[t].lines \cup (IF call[t].op = "write" THEN {} ELSE Range(call[t].left))
    /\ Printed6(data, call[t].lines)

\* What the last undisturbed save wrote is in the file.
KeptOnFile ==
  kept # Unknown =>
    /\ DOMAIN file = Keys /\ Printed6(kept, file)
    /\ \A k \in Keys : Fits(k, kept[k])

\* The answer of "settings diff" is about the file and the memory of now.
ForetoldStands ==
  foretold # Unknown => file # NoFile /\ foretold = [changed |-> Diff(data, file)]

\* The saves made and under way.
Saver(t) == call[t].op \in {"format", "write"} \/ (call[t].op = "reset" /\ call[t].saves)
SavesDue(t)   == IF Saver(t) THEN 1 ELSE 0

SavesBounded == revision \in Nat /\ revision + (SavesDue("shell") + SavesDue("tick")) <= MaxSaves

SettingsIInv ==
  /\ CallShape /\ MemoryHeld /\ TextsTyped /\ SavesPlaced /\ SavesAlone
  /\ KeptOnFile /\ ForetoldStands /\ SavesBounded

-----------------------------------------------------------------------------
(* Conversions.                                                            *)

LEMMA LimitsTyped ==
  /\ Size \in Nat /\ MaxU8 \in Nat /\ MaxU32 \in Nat /\ Gpios \subseteq Nat
  /\ Printed \in Nat \ {0} /\ MaxSaves \in Nat \ {0}
  /\ Wide \in Nat /\ Infinite \in Nat /\ Wide <= Infinite
BY SettingsAssumption

\* "%.6f" is never further from the value than half a digit.
LEMMA Rounds ==
  ASSUME NEW v \in Nat
  PROVE  LET r == Rounded(v) IN
         r \in Nat /\ 2 * v \in 2 * r - Printed .. 2 * r + Printed /\ 2 * r \in 2 * v - Printed .. 2 * v + Printed
<1> DEFINE D == 2 * Printed
           x == 2 * v + Printed
           q == x \div D
<1>1. Printed \in Nat \ {0} /\ D \in Nat \ {0} /\ x \in Nat
  BY LimitsTyped
<1>2. q \in Int /\ x % D \in 0 .. D - 1 /\ x = D * q + (x % D)
  <2> HIDE DEF D, x
  <2> QED
    BY <1>1, DivMod
<1>3. D * q = 2 * (Printed * q)
  <2> HIDE DEF q
  <2> QED
    BY <1>1, <1>2
<1>4. PICK m \in 0 .. D - 1 : x = D * q + m
  BY <1>2
<1>5. q >= 0
  <2> HIDE DEF q, x, D
  <2>1. CASE q <= -1
    <3>1. D * q <= -D
      BY <2>1, <1>1, <1>2
    <3> QED
      BY <3>1, <1>1, <1>2, <1>4
  <2> QED
    BY <2>1, <1>2
<1>6. Printed * q \in Nat
  BY <1>1, <1>2, <1>5
<1> DEFINE r == Printed * q
<1>7. r \in Nat /\ 2 * v + Printed = 2 * r + m /\ m \in 0 .. 2 * Printed - 1
  BY <1>3, <1>4, <1>6
<1> HIDE DEF r
<1>8. 2 * v \in 2 * r - Printed .. 2 * r + Printed /\ 2 * r \in 2 * v - Printed .. 2 * v + Printed
  BY <1>1, <1>7
<1> QED
  BY <1>7, <1>8 DEF r, Rounded

\* A text too long for the buffer loses some of its eight last digits, and is still a number.
LEMMA Cuts ==
  ASSUME NEW p \in Nat
  PROVE  /\ Cut(p) \in Nat
         /\ p < Wide => Cut(p) = p
<1>1. CASE p < Wide \/ p >= Infinite
  BY <1>1, LimitsTyped DEF Cut
<1>2. CASE ~(p < Wide \/ p >= Infinite)
  <2> DEFINE Fit(d)  == d \in Tens /\ p \div d < Wide
             Least(d) == Fit(d) /\ \A e \in Tens : p \div e < Wide => d <= e
             lost == CHOOSE d \in Tens : p \div d < Wide /\ \A e \in Tens : p \div e < Wide => d <= e
  <2>1. p \div (100 * 1000 * 1000) < Wide
    BY <1>2, SettingsAssumption, LimitsTyped, SMT
  <2>2. \E d : Least(d)
    <3>1. p \div (100 * 1000 * 1000) < Wide => \E d : Least(d)
      <4> DEFINE F(d) == p \div d < Wide
      <4>1. \A d : Least(d) <=> d \in Tens /\ F(d) /\ \A e \in Tens : F(e) => d <= e
        OBVIOUS
      <4> HIDE DEF Least, F
      <4>2. F(100 * 1000 * 1000) => \E d \in Tens : F(d) /\ \A e \in Tens : F(e) => d <= e
        BY SMT DEF Tens
      <4> QED
        BY <4>1, <4>2 DEF F
    <3> QED
      BY <2>1, <3>1
  <2>3. lost \in Tens
    BY <2>2
  <2>4. Cut(p) = Printed * (p \div (Printed * lost))
    BY <1>2 DEF Cut
  <2> HIDE DEF lost
  <2>5. lost \in Nat \ {0}
    BY <2>3, SMT DEF Tens
  <2> DEFINE D == Printed * lost
  <2>6. D \in Nat \ {0}
    BY <2>5, LimitsTyped
  <2> HIDE DEF D
  <2>7. p \div D \in Nat
    BY <2>6
  <2> QED
    BY <1>2, <2>4, <2>7, LimitsTyped DEF D
<1> QED
  BY <1>1, <1>2

\* What is printed is a text; everything but a FLOAT is printed as it is.
LEMMA FormatEntryIs ==
  ASSUME NEW k, NEW v \in Nat
  PROVE  /\ format_entry(k, v) \in Nat
         /\ TypeOf[k] # "FLOAT" => format_entry(k, v) = v
         /\ TypeOf[k] = "FLOAT" /\ Rounded(v) < Wide =>
              /\ format_entry(k, v) < Infinite
              /\ 2 * format_entry(k, v) \in 2 * v - Printed .. 2 * v + Printed
<1>1. CASE TypeOf[k] # "FLOAT"
  BY <1>1 DEF format_entry
<1>2. CASE TypeOf[k] = "FLOAT"
  <2>1. Rounded(v) \in Nat
    BY Rounds
  <2>2. Cut(Rounded(v)) \in Nat /\ (Rounded(v) < Wide => Cut(Rounded(v)) = Rounded(v))
    BY <2>1, Cuts
  <2>3. format_entry(k, v) = Cut(Rounded(v))
    BY <1>2 DEF format_entry
  <2>4. 2 * Rounded(v) \in 2 * v - Printed .. 2 * v + Printed
    BY Rounds
  <2> QED
    BY <1>2, <2>1, <2>2, <2>3, <2>4, LimitsTyped
<1> QED
  BY <1>1, <1>2

\* A compiled-in value fits its field.
LEMMA DefaultHeld ==
  /\ DOMAIN Default = Keys
  /\ \A k \in Keys : Fits(k, Default[k])
BY SettingsAssumption DEF Fits

\* parse_into() leaves in a field what the field can hold, whatever the text.
LEMMA ParseHeld ==
  ASSUME NEW k \in Keys, NEW v, Fits(k, v), NEW text \in Nat \cup {Garbage}
  PROVE  Fits(k, parse_into(v, k, text))
<1>1. CASE ~Accepts(k, text)
  BY <1>1 DEF parse_into
<1>2. CASE Accepts(k, text)
  <2>1. text \in Nat
    BY <1>2 DEF Accepts
  <2>2. CASE TypeOf[k] = "U32" /\ text > MaxU32
    <3>1. parse_into(v, k, text) = MaxU32 /\ MaxU32 \in Nat
      BY <1>2, <2>2, SettingsAssumption DEF parse_into
    <3>2. Accepts(k, MaxU32)
      BY <2>2, SettingsAssumption DEF Accepts, Garbage
    <3> QED
      BY <3>1, <3>2 DEF Fits
  <2>3. CASE TypeOf[k] = "FLOAT" /\ text > Infinite
    <3>1. parse_into(v, k, text) = Infinite
      BY <1>2, <2>3 DEF parse_into
    <3> QED
      BY <2>3, <3>1, LimitsTyped DEF Fits, Accepts, Garbage
  <2>4. CASE ~(TypeOf[k] = "U32" /\ text > MaxU32) /\ ~(TypeOf[k] = "FLOAT" /\ text > Infinite)
    BY <1>2, <2>1, <2>4, LimitsTyped, SMTT(30) DEF parse_into, Fits
  <2> QED
    BY <2>2, <2>3, <2>4
<1> QED
  BY <1>1, <1>2

LEMMA ParseLineHeld ==
  ASSUME NEW k \in Keys, NEW v, Fits(k, v), NEW lines, IsText(lines)
  PROVE  Fits(k, ParseLine(v, k, lines))
BY ParseHeld DEF ParseLine, IsText

\* What save() prints of a value a field can hold, the next boot reads back.
LEMMA PrintedIsRead ==
  ASSUME NEW k \in Keys, NEW v, Fits(k, v), NEW lines,
         k \in DOMAIN lines, lines[k] = format_entry(k, v)
  PROVE  LET r == ParseLine(Default[k], k, lines) IN
         IF TypeOf[k] = "FLOAT"
         THEN Rounded(v) < Wide => 2 * r \in 2 * v - Printed .. 2 * v + Printed
         ELSE r = v
<1>1. ParseLine(Default[k], k, lines) = parse_into(Default[k], k, format_entry(k, v))
  BY DEF ParseLine
<1>2. v \in Nat
  BY DEF Fits
<1>3. CASE TypeOf[k] = "FLOAT"
  <2> SUFFICES ASSUME Rounded(v) < Wide
               PROVE  2 * ParseLine(Default[k], k, lines) \in 2 * v - Printed .. 2 * v + Printed
    BY <1>3
  <2>1. Accepts(k, format_entry(k, v)) /\ format_entry(k, v) \in Nat /\ format_entry(k, v) < Infinite
    BY <1>2, <1>3, FormatEntryIs DEF Accepts, Garbage
  <2>2. ParseLine(Default[k], k, lines) = format_entry(k, v)
    BY <1>1, <1>3, <2>1, LimitsTyped DEF parse_into
  <2> QED
    BY <1>2, <1>3, <2>2, FormatEntryIs
<1>4. CASE TypeOf[k] # "FLOAT"
  <2>1. ParseLine(Default[k], k, lines) = parse_into(Default[k], k, v)
    BY <1>1, <1>2, <1>4, FormatEntryIs
  <2>2. CASE Accepts(k, v)
    <3>1. ~(TypeOf[k] = "U32" /\ v > MaxU32)
      BY <1>2, LimitsTyped DEF Fits
    <3> QED
      BY <1>4, <2>1, <2>2, <3>1 DEF parse_into
  <2>3. CASE ~Accepts(k, v)
    BY <1>4, <2>1, <2>3 DEF parse_into, Fits
  <2> QED
    BY <2>2, <2>3
<1> QED
  BY <1>3, <1>4

-----------------------------------------------------------------------------
(* The calls.                                                              *)

LEMMA TwoTasks ==
  /\ "shell" \in Tasks /\ "tick" \in Tasks /\ "shell" # "tick"
  /\ \A t \in Tasks : Other(t) \in Tasks /\ Other(t) # t
  /\ \A s, t \in Tasks : s = t \/ s = Other(t)
  /\ Other("shell") = "tick" /\ Other("tick") = "shell"
BY DEF Tasks, Other

\* What each way of writing to call leaves in it.
Same(s)   == call'[s].op = call[s].op /\ call'[s].left = call[s].left
             /\ call'[s].lines = call[s].lines /\ call'[s].saves = call[s].saves
Frozen(s) == Same(s) /\ call'[s].alone = call[s].alone

LEMMA Enters ==
  ASSUME CallShape, NEW t \in Tasks, NEW op \in Ops, NEW left, NEW lines, NEW saves,
         Enter(t, op, left, lines, saves)
  PROVE  /\ CallShape'
         /\ call'[t].op = op /\ call'[t].left = left /\ call'[t].lines = lines
         /\ call'[t].saves = saves
         /\ call'[t].alone => ~Busy(Other(t))
         /\ Same(Other(t))
         /\ call'[Other(t)].alone => ~Busy(Other(t))
<1> DEFINE new == [op |-> op, left |-> left, lines |-> lines, saves |-> saves,
                   alone |-> ~Busy(Other(t)) /\ call[t].alone]
           o   == Other(t)
           old == [call[o] EXCEPT !.alone = ~Busy(o)]
<1>1. o \in Tasks /\ o # t /\ \A s \in Tasks : s = t \/ s = o
  BY TwoTasks
<1>2. DOMAIN call' = Tasks /\ call'[t] = new /\ call'[o] = old
  BY <1>1 DEF Enter
<1> HIDE DEF o
<1>3. /\ DOMAIN new = Columns /\ new.op = op /\ new.left = left /\ new.lines = lines
      /\ new.saves = saves /\ (new.alone => ~Busy(Other(t)))
  BY DEF Columns
<1>4. DOMAIN call[o] = Columns
  BY <1>1 DEF CallShape
<1>5. /\ DOMAIN old = Columns /\ old.op = call[o].op /\ old.left = call[o].left
      /\ old.lines = call[o].lines /\ old.saves = call[o].saves
      /\ (old.alone => ~Busy(o))
  BY <1>4 DEF Columns
<1> HIDE DEF new, old
<1>6. CallShape'
  <2> SUFFICES ASSUME NEW s \in Tasks PROVE DOMAIN call'[s] = Columns /\ call'[s].op \in Ops
    BY <1>2 DEF CallShape
  <2> QED
    BY <1>1, <1>2, <1>3, <1>5 DEF CallShape
<1> QED
  BY <1>2, <1>3, <1>5, <1>6 DEF o, Same

LEMMA Returns ==
  ASSUME CallShape, NEW t \in Tasks, Return(t)
  PROVE  /\ CallShape'
         /\ call'[t].op \in {"idle", "done"}
         /\ Frozen(Other(t))
<1> DEFINE new == [Idle EXCEPT !.op = IF t = "tick" THEN "done" ELSE "idle"]
<1>1. Other(t) \in Tasks /\ Other(t) # t
  BY TwoTasks
<1>2. new.op \in {"idle", "done"} /\ DOMAIN new = Columns
  BY DEF Idle, Columns
<1>3. DOMAIN call' = Tasks /\ call'[t] = new /\ \A s \in Tasks \ {t} : call'[s] = call[s]
  BY DEF Return, CallShape
<1> HIDE DEF new
<1> QED
  BY <1>1, <1>2, <1>3 DEF CallShape, Frozen, Same, Ops

LEMMA Steps ==
  ASSUME CallShape, NEW t \in Tasks, Step(t)
  PROVE  /\ CallShape'
         /\ call'[t].op = call[t].op /\ call'[t].left = Tail(call[t].left)
         /\ call'[t].lines = call[t].lines /\ call'[t].saves = call[t].saves
         /\ call'[t].alone = call[t].alone
         /\ Frozen(Other(t))
<1> DEFINE new == [call[t] EXCEPT !.left = Tail(@)]
<1>1. Other(t) \in Tasks /\ Other(t) # t
  BY TwoTasks
<1>2. /\ DOMAIN new = Columns /\ new.op = call[t].op /\ new.left = Tail(call[t].left)
      /\ new.lines = call[t].lines /\ new.saves = call[t].saves /\ new.alone = call[t].alone
  BY DEF CallShape, Columns
<1>3. DOMAIN call' = Tasks /\ call'[t] = new /\ \A s \in Tasks \ {t} : call'[s] = call[s]
  BY DEF Step, CallShape
<1> HIDE DEF new
<1> QED
  BY <1>1, <1>2, <1>3 DEF CallShape, Frozen, Same

LEMMA Formats ==
  ASSUME CallShape, NEW t \in Tasks, FormatEntry(t)
  PROVE  LET k == Head(call[t].left) IN
         /\ CallShape'
         /\ call'[t].op = "format" /\ call'[t].left = Tail(call[t].left)
         /\ call'[t].lines = [j \in DOMAIN call[t].lines \cup {k} |->
                                IF j = k THEN format_entry(k, data[k]) ELSE call[t].lines[j]]
         /\ call'[t].saves = call[t].saves /\ call'[t].alone = call[t].alone
         /\ Frozen(Other(t))
<1> DEFINE k   == Head(call[t].left)
           buf == [j \in DOMAIN call[t].lines \cup {k} |->
                     IF j = k THEN format_entry(k, data[k]) ELSE call[t].lines[j]]
           new == [[call[t] EXCEPT !.left = Tail(@)] EXCEPT !.lines = buf]
<1>1. Other(t) \in Tasks /\ Other(t) # t
  BY TwoTasks
<1>2. DOMAIN call' = Tasks /\ call'[t] = new /\ \A s \in Tasks \ {t} : call'[s] = call[s]
  BY DEF FormatEntry, CallShape
<1> HIDE DEF buf
<1>3. /\ DOMAIN new = Columns /\ new.op = call[t].op /\ new.left = Tail(call[t].left)
      /\ new.lines = buf /\ new.saves = call[t].saves /\ new.alone = call[t].alone
  BY DEF CallShape, Columns
<1> HIDE DEF new
<1>4. call[t].op = "format"
  BY DEF FormatEntry
<1> QED
  BY <1>1, <1>2, <1>3, <1>4 DEF CallShape, Frozen, Same, buf

LEMMA Opens ==
  ASSUME CallShape, NEW t \in Tasks, call' = [call EXCEPT ![t].op = "write"]
  PROVE  /\ CallShape'
         /\ call'[t].op = "write" /\ call'[t].left = call[t].left
         /\ call'[t].lines = call[t].lines /\ call'[t].saves = call[t].saves
         /\ call'[t].alone = call[t].alone
         /\ Frozen(Other(t))
<1> DEFINE new == [call[t] EXCEPT !.op = "write"]
<1>1. Other(t) \in Tasks /\ Other(t) # t
  BY TwoTasks
<1>2. /\ DOMAIN new = Columns /\ new.op = "write" /\ new.left = call[t].left
      /\ new.lines = call[t].lines /\ new.saves = call[t].saves /\ new.alone = call[t].alone
  BY DEF CallShape, Columns
<1>3. DOMAIN call' = Tasks /\ call'[t] = new /\ \A s \in Tasks \ {t} : call'[s] = call[s]
  BY DEF CallShape
<1> HIDE DEF new
<1> QED
  BY <1>1, <1>2, <1>3 DEF CallShape, Frozen, Same, Ops

\* "settings set" only tells the other task's call that it is no longer alone.
LEMMA Disturbs ==
  ASSUME CallShape, call' = [call EXCEPT !["tick"].alone = ~Busy("tick")]
  PROVE  /\ CallShape' /\ Frozen("shell") /\ Same("tick")
         /\ call'["tick"].alone => ~Busy("tick")
<1> DEFINE new == [call["tick"] EXCEPT !.alone = ~Busy("tick")]
<1>0. DOMAIN call["tick"] = Columns
  BY TwoTasks DEF CallShape
<1>1. /\ DOMAIN new = Columns /\ new.op = call["tick"].op /\ new.left = call["tick"].left
      /\ new.lines = call["tick"].lines /\ new.saves = call["tick"].saves
      /\ (new.alone => ~Busy("tick"))
  BY <1>0 DEF Columns
<1>2. DOMAIN call' = Tasks /\ call'["tick"] = new /\ \A s \in Tasks \ {"tick"} : call'[s] = call[s]
  BY TwoTasks DEF CallShape
<1> HIDE DEF new
<1> QED
  BY <1>1, <1>2, TwoTasks DEF CallShape, Frozen, Same

-----------------------------------------------------------------------------
(* Steps.                                                                  *)

\* A save begins, or the card refuses it.
LEMMA Begins ==
  ASSUME CallShape, NEW t \in Tasks, BeginSave(t)
  PROVE  \/ /\ card = "mounted"
            /\ call'[t].op = "format" /\ call'[t].left = Table /\ call'[t].lines = Empty
            /\ call'[t].alone => ~Busy(Other(t))
            /\ Same(Other(t)) /\ (call'[Other(t)].alone => ~Busy(Other(t)))
            /\ CallShape'
         \/ /\ card # "mounted"
            /\ call'[t].op \in {"idle", "done"} /\ Frozen(Other(t))
            /\ CallShape'
<1>1. "format" \in Ops
  BY DEF Ops
<1>2. CASE card = "mounted"
  <2>1. Enter(t, "format", Table, Empty, FALSE)
    BY <1>2 DEF BeginSave
  <2> QED
    BY <1>1, <1>2, <2>1, Enters
<1>3. CASE card # "mounted"
  <2>1. Return(t)
    BY <1>3 DEF BeginSave
  <2> QED
    BY <1>3, <2>1, Returns
<1> QED
  BY <1>2, <1>3

\* After a restart no call is under way.
LEMMA BootIdles ==
  ASSUME NEW c, Boot(c)
  PROVE  CallShape' /\ \A t \in Tasks : call'[t].op = "idle"
BY DEF Boot, Idle, CallShape, Columns, Ops

LEMMA TableTyped == Table \in Seq(Keys) /\ Range(Table) = Keys
BY SettingsAssumption DEF Keys

\* A call keeps its columns.
LEMMA ShapeStep ==
  ASSUME SettingsIInv, SettingsNext PROVE CallShape'
<1> USE DEF SettingsIInv
<1>1. ASSUME NEW k \in Keys, NEW x \in Texts[k], set(k, x)
      PROVE  CallShape'
  BY <1>1, Disturbs DEF set
<1>2. ASSUME NEW k \in Keys, reset_module(ModuleOf[k])
      PROVE  CallShape'
  BY <1>2, Enters, TwoTasks DEF reset_module, Ops
<1>3. ASSUME NEW saves \in BOOLEAN, reset_all(saves)
      PROVE  CallShape'
  BY <1>3, Enters, TwoTasks DEF reset_all, Ops
<1>4. CASE ResetEntry \/ ParseEntry
  BY <1>4, Steps, TwoTasks DEF ResetEntry, ParseEntry
<1>5. CASE ResetDone \/ ParseDone
  BY <1>5, Begins, Returns, TwoTasks DEF ResetDone, ParseDone
<1>6. CASE save
  BY <1>6, Begins, TwoTasks DEF save
<1>7. CASE load
  BY <1>7, Begins, Enters, TwoTasks DEF load, Ops
<1>8. ASSUME NEW mode \in Modes, confirm(mode)
      PROVE  CallShape'
  BY <1>8, Begins, TwoTasks DEF confirm
<1>9. ASSUME NEW t \in Tasks, FormatEntry(t)
      PROVE  CallShape'
  BY <1>9, Formats
<1>10. ASSUME NEW t \in Tasks, SaveOpen(t)
       PROVE  CallShape'
  BY <1>10, Opens, Returns DEF SaveOpen
<1>11. ASSUME NEW t \in Tasks, SaveWrite(t)
       PROVE  CallShape'
  BY <1>11, Returns DEF SaveWrite
<1>12. ASSUME NEW t \in Tasks, SaveFail(t)
       PROVE  CallShape'
  BY <1>12, Returns DEF SaveFail
<1>13. CASE HostTakes
  BY <1>13, Returns, TwoTasks DEF HostTakes, CallShape
<1>14. CASE diff \/ HostReturns
  BY <1>14 DEF diff, HostReturns, CallShape
<1>15. ASSUME NEW lines \in HostLines, HostEdits(lines)
       PROVE  CallShape'
  BY <1>15 DEF HostEdits, CallShape
<1>16. ASSUME NEW c \in {"mounted", "absent"}, Boot(c)
       PROVE  CallShape'
  BY <1>16, BootIdles
<1> QED
  BY <1>1, <1>2, <1>3, <1>4, <1>5, <1>6, <1>7, <1>8, <1>9, <1>10, <1>11, <1>12, <1>13, <1>14,
     <1>15, <1>16 DEF SettingsNext, factory_reset


\* A store into one field.
LEMMA PutHeld ==
  ASSUME MemoryHeld, NEW k, NEW v, data' = [data EXCEPT ![k] = v], k \in Keys => Fits(k, v)
  PROVE  MemoryHeld'
<1>1. DOMAIN data = Keys
  BY DEF MemoryHeld
<1>2. data' = [j \in Keys |-> data'[j]]
  BY <1>1
<1>3. \A j \in Keys : data'[j] = IF j = k THEN v ELSE data[j]
  BY <1>1
<1> QED
  BY <1>2, <1>3 DEF MemoryHeld

\* set(), load() and confirm() go through parse_into(); the others store a compiled-in value.
LEMMA MemoryStep ==
  ASSUME SettingsIInv, SettingsNext PROVE MemoryHeld'
<1> USE DEF SettingsIInv
<1>1. ASSUME NEW k \in Keys, NEW x \in Texts[k], set(k, x)
      PROVE  MemoryHeld'
  <2>1. Fits(k, parse_into(data[k], k, x))
    BY ParseHeld, SettingsAssumption DEF MemoryHeld
  <2> QED
    BY <1>1, <2>1, PutHeld DEF set
<1>2. ASSUME NEW k \in Keys, reset_module(ModuleOf[k])
      PROVE  MemoryHeld'
  BY <1>2 DEF reset_module, MemoryHeld
<1>3. ASSUME NEW saves \in BOOLEAN, reset_all(saves)
      PROVE  MemoryHeld'
  BY <1>3 DEF reset_all, MemoryHeld
<1>4. CASE ResetEntry
  <2> DEFINE k == Head(call["shell"].left)
  <2>1. data' = [data EXCEPT ![k] = Default[k]]
    BY <1>4 DEF ResetEntry
  <2> HIDE DEF k
  <2> QED
    BY <2>1, PutHeld, DefaultHeld
<1>5. CASE ParseEntry
  <2> DEFINE k == Head(call["shell"].left)
             v == ParseLine(data[k], k, call["shell"].lines)
  <2>1. data' = [data EXCEPT ![k] = v]
    BY <1>5 DEF ParseEntry
  <2>2. IsText(call["shell"].lines)
    BY <1>5, TwoTasks DEF ParseEntry, TextsTyped
  <2> HIDE DEF k
  <2>3. k \in Keys => Fits(k, v)
    BY <2>2, ParseLineHeld DEF MemoryHeld
  <2> HIDE DEF v
  <2> QED
    BY <2>1, <2>3, PutHeld
<1>6. ASSUME NEW mode \in Modes, confirm(mode)
      PROVE  MemoryHeld'
  <2>1. mode \in Nat /\ CommMode \in Keys
    BY SettingsAssumption, LimitsTyped
  <2>2. Fits(CommMode, parse_into(data[CommMode], CommMode, mode))
    BY <2>1, ParseHeld DEF MemoryHeld
  <2> QED
    BY <1>6, <2>2, PutHeld DEF confirm
<1>7. ASSUME NEW c \in {"mounted", "absent"}, Boot(c)
      PROVE  MemoryHeld'
  <2>1. CASE file # NoFile /\ data' = parse_file(Default, file)
    <3>1. IsText(file)
      BY <2>1 DEF TextsTyped
    <3>2. \A k \in Keys : Fits(k, ParseLine(Default[k], k, file))
      BY <3>1, ParseLineHeld, DefaultHeld
    <3> QED
      BY <2>1, <3>2 DEF parse_file, MemoryHeld
  <2>2. CASE data' = Default
    <3>1. Default = [k \in Keys |-> Default[k]]
      BY SettingsAssumption
    <3> QED
      BY <2>2, <3>1, DefaultHeld DEF MemoryHeld
  <2> QED
    BY <1>7, <2>1, <2>2 DEF Boot
<1>8. CASE ResetDone \/ save \/ load
  BY <1>8 DEF ResetDone, save, load, MemoryHeld
<1>9. CASE ParseDone \/ diff
  BY <1>9 DEF ParseDone, diff, MemoryHeld
<1>10. ASSUME NEW t \in Tasks, FormatEntry(t)
       PROVE  MemoryHeld'
  BY <1>10 DEF FormatEntry, MemoryHeld
<1>11. ASSUME NEW t \in Tasks, SaveOpen(t)
       PROVE  MemoryHeld'
  BY <1>11 DEF SaveOpen, MemoryHeld
<1>12. ASSUME NEW t \in Tasks, SaveWrite(t)
       PROVE  MemoryHeld'
  BY <1>12 DEF SaveWrite, MemoryHeld
<1>13. ASSUME NEW t \in Tasks, SaveFail(t)
       PROVE  MemoryHeld'
  BY <1>13 DEF SaveFail, MemoryHeld
<1>14. CASE HostTakes \/ HostReturns
  BY <1>14 DEF HostTakes, HostReturns, MemoryHeld
<1>15. ASSUME NEW lines \in HostLines, HostEdits(lines)
       PROVE  MemoryHeld'
  BY <1>15 DEF HostEdits, MemoryHeld
<1> QED
  BY <1>1, <1>2, <1>3, <1>4, <1>5, <1>6, <1>7, <1>8, <1>9, <1>10, <1>11, <1>12, <1>13, <1>14,
     <1>15 DEF SettingsNext, factory_reset


\* A reset visits some sequence of keys, from outside every save.
LEMMA ResetEnters ==
  ASSUME CallShape, NEW m, reset_module(m)
  PROVE  /\ call'["shell"].op = "reset" /\ ~call'["shell"].saves
         /\ Same("tick") /\ (call'["tick"].alone => ~Busy("tick"))
         /\ call["shell"].op = "idle" /\ UNCHANGED <<data, file, card, revision, kept, foretold>>
<1>1. PICK left : Enter("shell", "reset", left, Empty, FALSE)
  BY DEF reset_module
<1>2. "reset" \in Ops
  BY DEF Ops
<1>3. /\ call'["shell"].op = "reset" /\ call'["shell"].saves = FALSE
      /\ Same(Other("shell")) /\ (call'[Other("shell")].alone => ~Busy(Other("shell")))
  BY <1>1, <1>2, TwoTasks, Enters
<1> QED
  BY <1>3, TwoTasks DEF reset_module

\* A load of a file visits the whole table with the text in its buffer.
LEMMA LoadEnters ==
  ASSUME CallShape, load, file # NoFile
  PROVE  /\ call'["shell"].op = "parse" /\ call'["shell"].lines = file
         /\ Same("tick") /\ (call'["tick"].alone => ~Busy("tick"))
         /\ call["shell"].op = "idle" /\ UNCHANGED <<data, file, card, revision, kept, foretold>>
<1>1. Enter("shell", "parse", Table, file, FALSE)
  BY DEF load
<1>2. "parse" \in Ops
  BY DEF Ops
<1>3. /\ call'["shell"].op = "parse" /\ call'["shell"].lines = file
      /\ Same(Other("shell")) /\ (call'[Other("shell")].alone => ~Busy(Other("shell")))
  BY <1>1, <1>2, TwoTasks, Enters
<1> QED
  BY <1>3, TwoTasks DEF load

LEMMA TextsBuilt ==
  /\ IsText(Empty)
  /\ \A d : (\A k \in Keys : Fits(k, d[k])) => IsText(Lines(d))
  /\ \A lines, k, x : IsText(lines) /\ k \in Keys /\ x \in Nat \cup {Garbage}
       => IsText([j \in DOMAIN lines \cup {k} |-> IF j = k THEN x ELSE lines[j]])
<1>1. IsText(Empty)
  BY DEF IsText, Empty
<1>2. ASSUME NEW d, \A k \in Keys : Fits(k, d[k]) PROVE IsText(Lines(d))
  BY <1>2, FormatEntryIs DEF IsText, Lines, Fits
<1>3. ASSUME NEW lines, NEW k \in Keys, NEW x \in Nat \cup {Garbage}, IsText(lines)
      PROVE  IsText([j \in DOMAIN lines \cup {k} |-> IF j = k THEN x ELSE lines[j]])
  BY <1>3 DEF IsText
<1> QED
  BY <1>1, <1>2, <1>3, ZenonT(40)

\* The host leaves a text, or no file.
LEMMA HostTexts ==
  ASSUME TextsTyped, NEW lines \in HostLines
  PROVE  lines = NoFile \/ IsText(lines)
<1>1. CASE file = NoFile
  BY <1>1, TextsBuilt DEF HostLines
<1>2. CASE file # NoFile
  <2>1. IsText(file)
    BY <1>2 DEF TextsTyped
  <2>2. ASSUME NEW k \in DOMAIN file, lines = [j \in DOMAIN file \ {k} |-> file[j]]
        PROVE  IsText(lines)
    BY <2>1, <2>2 DEF IsText
  <2>3. ASSUME NEW k \in Keys, NEW x \in Texts[k],
               lines = [j \in DOMAIN file \cup {k} |-> IF j = k THEN x ELSE file[j]]
        PROVE  IsText(lines)
    <3>1. x \in Nat \cup {Garbage}
      BY SettingsAssumption
    <3> QED
      BY <2>1, <2>3, <3>1, TextsBuilt
  <2>4. \/ lines = NoFile
        \/ \E k \in DOMAIN file : lines = [j \in DOMAIN file \ {k} |-> file[j]]
        \/ \E k \in Keys : \E x \in Texts[k] :
             lines = [j \in DOMAIN file \cup {k} |-> IF j = k THEN x ELSE file[j]]
    <3> DEFINE dropped == {[j \in DOMAIN file \ {k} |-> file[j]] : k \in DOMAIN file}
               edited(k) == {[j \in DOMAIN file \cup {k} |-> IF j = k THEN x ELSE file[j]] :
                               x \in Texts[k]}
    <3>1. lines \in {NoFile} \cup dropped \cup UNION {edited(k) : k \in Keys}
      BY <1>2 DEF HostLines
    <3>2. lines = NoFile \/ lines \in dropped \/ \E k \in Keys : lines \in edited(k)
      <4> HIDE DEF dropped, edited
      <4> QED
        BY <3>1
    <3> QED
      BY <3>2
  <2> QED
    BY <2>2, <2>3, <2>4
<1> QED
  BY <1>1, <1>2

\* The file and the buffers hold texts of keys, whoever wrote them.
LEMMA TextsStep ==
  ASSUME SettingsIInv, SettingsNext PROVE TextsTyped'
<1> USE DEF SettingsIInv
<1>1. ASSUME NEW k \in Keys, NEW x \in Texts[k], set(k, x)
      PROVE  TextsTyped'
  BY <1>1, Disturbs, TwoTasks DEF set, TextsTyped, Frozen, Same
<1>2. ASSUME NEW k \in Keys, reset_module(ModuleOf[k])
      PROVE  TextsTyped'
  BY <1>2, ResetEnters, TwoTasks DEF TextsTyped, Same
<1>3. ASSUME NEW saves \in BOOLEAN, reset_all(saves)
      PROVE  TextsTyped'
  BY <1>3, Enters, TwoTasks DEF reset_all, TextsTyped, Same, Ops
<1>4. CASE ResetEntry \/ ParseEntry
  BY <1>4, Steps, TwoTasks DEF ResetEntry, ParseEntry, TextsTyped, Frozen, Same
<1>5. CASE ResetDone \/ ParseDone
  BY <1>5, Begins, Returns, TextsBuilt, TwoTasks DEF ResetDone, ParseDone, TextsTyped, Frozen, Same
<1>6. CASE save
  BY <1>6, Begins, TextsBuilt, TwoTasks DEF save, TextsTyped, Frozen, Same
<1>7. CASE load
  <2>1. CASE file = NoFile
    BY <1>7, <2>1, Begins, TextsBuilt, TwoTasks DEF load, TextsTyped, Frozen, Same
  <2>2. CASE file # NoFile
    BY <1>7, <2>2, LoadEnters, TwoTasks DEF TextsTyped, Same
  <2> QED
    BY <2>1, <2>2
<1>8. ASSUME NEW mode \in Modes, confirm(mode)
      PROVE  TextsTyped'
  BY <1>8, Begins, TextsBuilt, TwoTasks, SMTT(30) DEF confirm, TextsTyped, Frozen, Same
<1>9. ASSUME NEW t \in Tasks, FormatEntry(t)
      PROVE  TextsTyped'
  <2> DEFINE k == Head(call[t].left)
  <2>1. k \in Keys
    BY <1>9, HeadTailProperties DEF FormatEntry, SavesPlaced
  <2>2. IsText(call[t].lines)
    BY <1>9 DEF FormatEntry, TextsTyped
  <2>3. format_entry(k, data[k]) \in Nat \cup {Garbage}
    BY <2>1, FormatEntryIs DEF MemoryHeld, Fits
  <2> HIDE DEF k
  <2>4. /\ call'[t].lines = [j \in DOMAIN call[t].lines \cup {k} |->
                               IF j = k THEN format_entry(k, data[k]) ELSE call[t].lines[j]]
        /\ Frozen(Other(t))
    BY <1>9, Formats DEF k
  <2>5. IsText(call'[t].lines)
    BY <2>1, <2>2, <2>3, <2>4, TextsBuilt, SMTT(30)
  <2> QED
    BY <1>9, <2>4, <2>5, TwoTasks DEF FormatEntry, TextsTyped, Frozen, Same
<1>10. ASSUME NEW t \in Tasks, SaveOpen(t)
       PROVE  TextsTyped'
  <2>1. CASE file' = Empty /\ call' = [call EXCEPT ![t].op = "write"]
    <3>1. IsText(call'[t].lines) /\ Frozen(Other(t)) /\ IsText(file')
      BY <1>10, <2>1, Opens, TextsBuilt DEF SaveOpen, TextsTyped
    <3> QED
      BY <1>10, <3>1, TwoTasks DEF SaveOpen, TextsTyped, Frozen, Same
  <2>2. CASE file' = file /\ Return(t)
    BY <1>10, <2>2, Returns, TwoTasks DEF SaveOpen, TextsTyped, Frozen, Same
  <2> QED
    BY <1>10, <2>1, <2>2 DEF SaveOpen
<1>11. ASSUME NEW t \in Tasks, SaveWrite(t)
       PROVE  TextsTyped'
  <2>1. \E s \in Tasks : call[s].op = "write" /\ file' = call[s].lines
    BY <1>11, TwoTasks DEF SaveWrite
  <2>2. IsText(file')
    BY <2>1 DEF TextsTyped
  <2> QED
    BY <1>11, <2>2, Returns, TwoTasks DEF SaveWrite, TextsTyped, Frozen, Same
<1>12. ASSUME NEW t \in Tasks, SaveFail(t)
       PROVE  TextsTyped'
  BY <1>12, Returns, TwoTasks DEF SaveFail, TextsTyped, Frozen, Same
<1>13. CASE HostTakes
  BY <1>13, Returns, TwoTasks DEF HostTakes, TextsTyped, Frozen, Same
<1>14. CASE diff \/ HostReturns
  BY <1>14 DEF diff, HostReturns, TextsTyped
<1>15. ASSUME NEW lines \in HostLines, HostEdits(lines)
       PROVE  TextsTyped'
  BY <1>15, HostTexts DEF HostEdits, TextsTyped
<1>16. ASSUME NEW c \in {"mounted", "absent"}, Boot(c)
       PROVE  TextsTyped'
  <2>1. file' \in {file, Lines(Default), NoFile, Empty} /\ card' = c
    BY <1>16 DEF Boot
  <2>2. file' # NoFile => IsText(file')
    BY <2>1, TextsBuilt, DefaultHeld DEF TextsTyped
  <2> QED
    BY <1>16, <2>1, <2>2, BootIdles DEF TextsTyped
<1> QED
  BY <1>1, <1>2, <1>3, <1>4, <1>5, <1>6, <1>7, <1>8, <1>9, <1>10, <1>11, <1>12, <1>13, <1>14,
     <1>15, <1>16 DEF SettingsNext, factory_reset


\* A host takes the card only from a save it cuts short.
LEMMA PlacedStep ==
  ASSUME SettingsIInv, SettingsNext PROVE SavesPlaced'
<1> USE DEF SettingsIInv
<1>1. ASSUME NEW k \in Keys, NEW x \in Texts[k], set(k, x)
      PROVE  SavesPlaced'
  BY <1>1, Disturbs, TwoTasks DEF set, SavesPlaced, Frozen, Same
<1>2. ASSUME NEW k \in Keys, reset_module(ModuleOf[k])
      PROVE  SavesPlaced'
  BY <1>2, ResetEnters, TwoTasks DEF SavesPlaced, Same
<1>3. ASSUME NEW saves \in BOOLEAN, reset_all(saves)
      PROVE  SavesPlaced'
  BY <1>3, Enters, TwoTasks DEF reset_all, SavesPlaced, Same, Ops
<1>4. CASE ResetEntry \/ ParseEntry
  BY <1>4, Steps, TwoTasks DEF ResetEntry, ParseEntry, SavesPlaced, Frozen, Same
<1>5. CASE ResetDone \/ ParseDone
  BY <1>5, Begins, Returns, TableTyped, TwoTasks DEF ResetDone, ParseDone, SavesPlaced, Frozen, Same
<1>6. CASE save
  BY <1>6, Begins, TableTyped, TwoTasks DEF save, SavesPlaced, Frozen, Same
<1>7. CASE load
  <2>1. CASE file = NoFile
    BY <1>7, <2>1, Begins, TableTyped, TwoTasks DEF load, SavesPlaced, Frozen, Same
  <2>2. CASE file # NoFile
    BY <1>7, <2>2, LoadEnters, TwoTasks DEF SavesPlaced, Same
  <2> QED
    BY <2>1, <2>2
<1>8. ASSUME NEW mode \in Modes, confirm(mode)
      PROVE  SavesPlaced'
  BY <1>8, Begins, TableTyped, TwoTasks DEF confirm, SavesPlaced, Frozen, Same
<1>9. ASSUME NEW t \in Tasks, FormatEntry(t)
      PROVE  SavesPlaced'
  <2>1. Tail(call[t].left) \in Seq(Keys)
    BY <1>9, HeadTailProperties DEF FormatEntry, SavesPlaced
  <2>2. call'[t].op = "format" /\ call'[t].left = Tail(call[t].left) /\ Frozen(Other(t))
    BY <1>9, Formats
  <2> QED
    <3>1. UNCHANGED card /\ call[t].op = "format"
      BY <1>9 DEF FormatEntry
    <3> DEFINE Placed(s) ==
                 /\ call[s].op \in {"format", "write"} => card # "absent"
                 /\ call[s].op = "write" => card = "mounted"
                 /\ call[s].op = "format" => call[s].left \in Seq(Keys)
    <3>2. Placed(t)'
      BY <2>1, <2>2, <3>1 DEF SavesPlaced
    <3>3. Placed(Other(t))'
      <4>1. Other(t) \in Tasks
        BY TwoTasks
      <4> QED
        BY <2>2, <3>1, <4>1 DEF SavesPlaced, Frozen, Same
    <3>4. \A s \in Tasks : Placed(s)'
      <4> HIDE DEF Placed
      <4> QED
        BY <3>2, <3>3, TwoTasks
    <3> QED
      BY <3>4 DEF SavesPlaced
<1>10. ASSUME NEW t \in Tasks, SaveOpen(t)
       PROVE  SavesPlaced'
  <2>1. CASE card = "mounted" /\ call' = [call EXCEPT ![t].op = "write"]
    BY <1>10, <2>1, Opens, TwoTasks DEF SaveOpen, SavesPlaced, Frozen, Same
  <2>2. CASE Return(t)
    BY <1>10, <2>2, Returns, TwoTasks DEF SaveOpen, SavesPlaced, Frozen, Same
  <2> QED
    BY <1>10, <2>1, <2>2 DEF SaveOpen
<1>11. ASSUME NEW t \in Tasks, SaveWrite(t)
       PROVE  SavesPlaced'
  BY <1>11, Returns, TwoTasks DEF SaveWrite, SavesPlaced, Frozen, Same
<1>12. ASSUME NEW t \in Tasks, SaveFail(t)
       PROVE  SavesPlaced'
  BY <1>12, Returns, TwoTasks DEF SaveFail, SavesPlaced, Frozen, Same
<1>13. CASE HostTakes
  <2>1. call["tick"].op \in {"idle", "done"} /\ card' = "host"
    BY <1>13 DEF HostTakes, Busy
  <2>2. Other("shell") = "tick"
    BY TwoTasks
  <2>3. CASE call["shell"].op = "write"
    <3>1. Return("shell")
      BY <1>13, <2>3 DEF HostTakes
    <3> QED
      BY <2>1, <2>2, <3>1, Returns, TwoTasks DEF SavesPlaced, Frozen, Same
  <2>4. CASE call["shell"].op # "write"
    BY <1>13, <2>1, <2>2, <2>4, TwoTasks DEF HostTakes, SavesPlaced
  <2> QED
    BY <2>3, <2>4
<1>14. CASE HostReturns
  BY <1>14 DEF HostReturns, SavesPlaced
<1>15. CASE diff
  BY <1>15 DEF diff, SavesPlaced
<1>16. ASSUME NEW lines \in HostLines, HostEdits(lines)
       PROVE  SavesPlaced'
  BY <1>16 DEF HostEdits, SavesPlaced
<1>17. ASSUME NEW c \in {"mounted", "absent"}, Boot(c)
       PROVE  SavesPlaced'
  BY <1>17, BootIdles DEF SavesPlaced
<1> QED
  BY <1>1, <1>2, <1>3, <1>4, <1>5, <1>6, <1>7, <1>8, <1>9, <1>10, <1>11, <1>12, <1>13, <1>14,
     <1>15, <1>16, <1>17 DEF SettingsNext, factory_reset


\* SavesAlone, for one task.
AloneAt(t) ==
  call[t].op \in {"format", "write"} /\ call[t].alone =>
    /\ ~Busy(Other(t))
    /\ Keys = DOMAIN call[t].lines \cup (IF call[t].op = "write" THEN {} ELSE Range(call[t].left))
    /\ Printed6(data, call[t].lines)

LEMMA AloneAtBoth ==
  ASSUME NEW t \in Tasks, AloneAt(t)', AloneAt(Other(t))'
  PROVE  SavesAlone'
<1>1. \A s \in Tasks : AloneAt(s)'
  <2> HIDE DEF AloneAt
  <2> QED
    BY TwoTasks
<1> QED
  BY <1>1 DEF SavesAlone, AloneAt

\* A call that was told of another, or had one beside it, is not alone.
LEMMA NotAlone ==
  ASSUME NEW s \in Tasks, Same(s), call'[s].alone => ~Busy(s)
  PROVE  AloneAt(s)'
BY DEF AloneAt, Same, Busy

LEMMA Disturbed ==
  ASSUME SavesAlone, NEW s \in Tasks, Frozen(s), Busy(Other(s))
  PROVE  AloneAt(s)'
BY DEF SavesAlone, AloneAt, Frozen, Same

\* One that nothing touches stays as it is.
LEMMA StaysAlone ==
  ASSUME SavesAlone, NEW s \in Tasks, Frozen(s), UNCHANGED data, Busy(Other(s))' => Busy(Other(s))
  PROVE  AloneAt(s)'
<1> SUFFICES ASSUME call[s].op \in {"format", "write"}, call[s].alone
             PROVE  /\ ~Busy(Other(s))'
                    /\ Keys = DOMAIN call[s].lines
                                \cup (IF call[s].op = "write" THEN {} ELSE Range(call[s].left))
                    /\ Printed6(data', call[s].lines)
  BY DEF AloneAt, Frozen, Same, Printed6
<1> QED
  BY DEF SavesAlone, Printed6

\* One that has just begun has printed nothing yet.
LEMMA BeginsAlone ==
  ASSUME NEW t \in Tasks, call'[t].op = "format", call'[t].left = Table, call'[t].lines = Empty,
         call'[t].alone => ~Busy(Other(t)), Same(Other(t))
  PROVE  AloneAt(t)'
<1>1. Busy(Other(t))' <=> Busy(Other(t))
  BY DEF Busy, Same
<1>2. DOMAIN Empty = {}
  BY DEF Empty
<1> QED
  BY <1>1, <1>2, TableTyped DEF AloneAt, Printed6

\* And while another begins, one is not alone any more.
LEMMA BeginsBeside ==
  ASSUME CallShape, NEW t \in Tasks, BeginSave(t), card = "mounted"
  PROVE  SavesAlone'
<1>1. /\ call'[t].op = "format" /\ call'[t].left = Table /\ call'[t].lines = Empty
      /\ call'[t].alone => ~Busy(Other(t))
      /\ Same(Other(t)) /\ (call'[Other(t)].alone => ~Busy(Other(t)))
  BY Begins
<1> QED
  BY <1>1, BeginsAlone, NotAlone, AloneAtBoth, TwoTasks

\* A save that ends leaves the other call, which was not alone beside it.
LEMMA EndsAlone ==
  ASSUME CallShape, SavesAlone, NEW t \in Tasks, call[t].op = "write", Return(t)
  PROVE  SavesAlone'
<1>1. call'[t].op \in {"idle", "done"} /\ Frozen(Other(t))
  BY Returns
<1>2. AloneAt(t)'
  BY <1>1 DEF AloneAt
<1>3. Other(t) \in Tasks /\ Other(Other(t)) = t
  BY TwoTasks DEF Tasks
<1>4. AloneAt(Other(t))'
  BY <1>1, <1>3, Disturbed DEF Busy
<1> QED
  BY <1>2, <1>4, AloneAtBoth

LEMMA RangeOfTail ==
  ASSUME NEW S, NEW s \in Seq(S), s # <<>>
  PROVE  Range(s) = {Head(s)} \cup Range(Tail(s))
<1>1. Len(s) \in Nat \ {0} /\ DOMAIN s = 1 .. Len(s)
  BY EmptySeq
<1>2. /\ Tail(s) \in Seq(S) /\ Len(Tail(s)) = Len(s) - 1
      /\ \A i \in 1 .. Len(Tail(s)) : Tail(s)[i] = s[i + 1]
  BY HeadTailProperties
<1>3. DOMAIN Tail(s) = 1 .. Len(s) - 1 /\ Head(s) = s[1]
  BY <1>1, <1>2
<1>4. \A i \in 1 .. Len(s) : i = 1 \/ (i - 1 \in 1 .. Len(s) - 1 /\ s[i] = Tail(s)[i - 1])
  BY <1>1, <1>2
<1>5. Range(s) \subseteq {Head(s)} \cup Range(Tail(s))
  <2> SUFFICES ASSUME NEW x \in Range(s) PROVE x = Head(s) \/ x \in Range(Tail(s))
    OBVIOUS
  <2>1. PICK i \in 1 .. Len(s) : x = s[i]
    BY <1>1 DEF Range
  <2>2. CASE i = 1
    BY <1>3, <2>1, <2>2
  <2>3. CASE i # 1
    <3>1. i - 1 \in DOMAIN Tail(s) /\ x = Tail(s)[i - 1]
      BY <1>3, <1>4, <2>1, <2>3
    <3> QED
      BY <3>1 DEF Range
  <2> QED
    BY <2>2, <2>3
<1>6. Head(s) \in Range(s) /\ Range(Tail(s)) \subseteq Range(s)
  BY <1>1, <1>2, <1>3 DEF Range
<1> QED
  BY <1>5, <1>6

\* Whatever changes memory under a save tells it, or had to wait for it.
LEMMA AloneStep ==
  ASSUME SettingsIInv, SettingsNext PROVE SavesAlone'
<1> USE DEF SettingsIInv
<1>1. ASSUME NEW k \in Keys, NEW x \in Texts[k], set(k, x)
      PROVE  SavesAlone'
  <2>1. Frozen("shell") /\ Same("tick") /\ (call'["tick"].alone => ~Busy("tick"))
    BY <1>1, Disturbs DEF set
  <2>2. AloneAt("shell")'
    BY <1>1, <2>1 DEF set, AloneAt, Frozen, Same
  <2> QED
    BY <2>1, <2>2, NotAlone, AloneAtBoth, TwoTasks
<1>2. ASSUME NEW k \in Keys, reset_module(ModuleOf[k])
      PROVE  SavesAlone'
  <2>1. AloneAt("shell")'
    BY <1>2, ResetEnters DEF AloneAt
  <2> QED
    BY <1>2, <2>1, ResetEnters, NotAlone, AloneAtBoth, TwoTasks
<1>3. ASSUME NEW saves \in BOOLEAN, reset_all(saves)
      PROVE  SavesAlone'
  <2>1. Enter("shell", "reset", Table, Empty, saves) /\ "reset" \in Ops
    BY <1>3 DEF reset_all, Ops
  <2>2. /\ call'["shell"].op = "reset"
        /\ Same(Other("shell")) /\ (call'[Other("shell")].alone => ~Busy(Other("shell")))
    BY <2>1, Enters, TwoTasks
  <2>3. AloneAt("shell")'
    BY <2>2 DEF AloneAt
  <2> QED
    BY <2>2, <2>3, NotAlone, AloneAtBoth, TwoTasks
<1>4. CASE ResetEntry \/ ParseEntry
  <2>1. Step("shell") /\ call["shell"].op \in {"reset", "parse"}
    BY <1>4 DEF ResetEntry, ParseEntry
  <2>2. call'["shell"].op \in {"reset", "parse"} /\ Frozen("tick")
    BY <2>1, Steps, TwoTasks
  <2>3. AloneAt("shell")'
    BY <2>2 DEF AloneAt
  <2>4. Busy(Other("tick"))
    BY <2>1, TwoTasks DEF Busy
  <2> QED
    BY <2>2, <2>3, <2>4, Disturbed, AloneAtBoth, TwoTasks
<1>5. CASE ResetDone \/ ParseDone
  <2>1. call["shell"].op \in {"reset", "parse"} /\ (BeginSave("shell") \/ Return("shell"))
    BY <1>5 DEF ResetDone, ParseDone
  <2>2. CASE BeginSave("shell") /\ card = "mounted"
    BY <2>2, BeginsBeside, TwoTasks
  <2>3. CASE Return("shell")
    <3>1. call'["shell"].op \in {"idle", "done"} /\ Frozen("tick")
      BY <2>3, Returns, TwoTasks
    <3>2. AloneAt("shell")'
      BY <3>1 DEF AloneAt
    <3>3. Busy(Other("tick"))
      BY <2>1, TwoTasks DEF Busy
    <3> QED
      BY <3>1, <3>2, <3>3, Disturbed, AloneAtBoth, TwoTasks
  <2> QED
    BY <2>1, <2>2, <2>3 DEF BeginSave
<1>6. CASE save
  BY <1>6, BeginsBeside, TwoTasks DEF save
<1>7. CASE load
  <2>1. CASE file = NoFile
    BY <1>7, <2>1, BeginsBeside, TwoTasks DEF load
  <2>2. CASE file # NoFile
    <3>1. AloneAt("shell")'
      BY <1>7, <2>2, LoadEnters DEF AloneAt
    <3> QED
      BY <1>7, <2>2, <3>1, LoadEnters, NotAlone, AloneAtBoth, TwoTasks
  <2> QED
    BY <2>1, <2>2
<1>8. ASSUME NEW mode \in Modes, confirm(mode)
      PROVE  SavesAlone'
  <2>1. BeginSave("tick") /\ card # "host"
    BY <1>8 DEF confirm
  <2>2. CASE card = "mounted"
    BY <2>1, <2>2, BeginsBeside, TwoTasks
  <2>3. CASE card # "mounted"
    <3>1. card = "absent"
      BY <2>1, <2>3 DEF TextsTyped
    <3>2. call'["tick"].op \in {"idle", "done"} /\ Frozen("shell")
      BY <2>1, <2>3, Begins, TwoTasks
    <3>3. call["shell"].op \notin {"format", "write"}
      BY <3>1, TwoTasks DEF SavesPlaced
    <3>4. AloneAt("shell")' /\ AloneAt("tick")'
      BY <3>2, <3>3 DEF AloneAt, Frozen, Same
    <3> QED
      BY <3>4, AloneAtBoth, TwoTasks
  <2> QED
    BY <2>2, <2>3
<1>9. ASSUME NEW t \in Tasks, FormatEntry(t)
      PROVE  SavesAlone'
  <2> DEFINE k == Head(call[t].left)
  <2>1. /\ call[t].op = "format" /\ call[t].left # <<>> /\ UNCHANGED data
        /\ call[t].left \in Seq(Keys)
    BY <1>9 DEF FormatEntry, SavesPlaced
  <2>2. /\ call'[t].op = "format" /\ call'[t].left = Tail(call[t].left)
        /\ call'[t].lines = [j \in DOMAIN call[t].lines \cup {k} |->
                               IF j = k THEN format_entry(k, data[k]) ELSE call[t].lines[j]]
        /\ call'[t].alone = call[t].alone /\ Frozen(Other(t))
    BY <1>9, Formats
  <2>3. AloneAt(Other(t))'
    <3>1. Other(t) \in Tasks /\ Other(Other(t)) = t
      BY TwoTasks DEF Tasks
    <3>2. Busy(t)
      BY <2>1 DEF Busy
    <3> QED
      BY <2>2, <3>1, <3>2, Disturbed
  <2>4. Range(call[t].left) = {k} \cup Range(Tail(call[t].left))
    BY <2>1, RangeOfTail
  <2> HIDE DEF k
  <2>5. AloneAt(t)'
    <3>1. SUFFICES ASSUME call[t].alone
                   PROVE  /\ ~Busy(Other(t))'
                          /\ Keys = DOMAIN call'[t].lines \cup Range(call'[t].left)
                          /\ Printed6(data', call'[t].lines)
      BY <2>2 DEF AloneAt
    <3>2. /\ ~Busy(Other(t))
          /\ Keys = DOMAIN call[t].lines \cup Range(call[t].left)
          /\ Printed6(data, call[t].lines)
      BY <2>1, <3>1 DEF SavesAlone
    <3>3. ~Busy(Other(t))'
      BY <2>2, <3>2 DEF Frozen, Same, Busy
    <3>4. DOMAIN call'[t].lines = DOMAIN call[t].lines \cup {k}
      BY <2>2
    <3>5. Printed6(data', call'[t].lines)
      BY <2>1, <2>2, <3>2 DEF Printed6
    <3> QED
      BY <2>2, <2>4, <3>2, <3>3, <3>4, <3>5
  <2> QED
    BY <2>3, <2>5, AloneAtBoth
<1>10. ASSUME NEW t \in Tasks, SaveOpen(t)
       PROVE  SavesAlone'
  <2>1. call[t].op = "format" /\ call[t].left = <<>> /\ UNCHANGED data
    BY <1>10 DEF SaveOpen
  <2>2. ASSUME Frozen(Other(t)) PROVE AloneAt(Other(t))'
    <3>1. Other(t) \in Tasks /\ Other(Other(t)) = t
      BY TwoTasks DEF Tasks
    <3>2. Busy(t)
      BY <2>1 DEF Busy
    <3> QED
      BY <2>2, <3>1, <3>2, Disturbed
  <2>3. CASE call' = [call EXCEPT ![t].op = "write"]
    <3>1. /\ call'[t].op = "write" /\ call'[t].lines = call[t].lines
          /\ call'[t].alone = call[t].alone /\ Frozen(Other(t))
      BY <2>3, Opens
    <3>2. Range(call[t].left) = {}
      BY <2>1 DEF Range
    <3>3. ASSUME call[t].alone
          PROVE  /\ ~Busy(Other(t))'
                 /\ Keys = DOMAIN call'[t].lines
                 /\ Printed6(data', call'[t].lines)
      <4>1. /\ ~Busy(Other(t))
            /\ Keys = DOMAIN call[t].lines \cup Range(call[t].left)
            /\ Printed6(data, call[t].lines)
        BY <2>1, <3>3 DEF SavesAlone
      <4> QED
        BY <2>1, <3>1, <3>2, <4>1 DEF Frozen, Same, Busy, Printed6
    <3>4. AloneAt(t)'
      BY <3>1, <3>3 DEF AloneAt
    <3> QED
      BY <2>2, <3>1, <3>4, AloneAtBoth
  <2>4. CASE Return(t)
    <3>1. call'[t].op \in {"idle", "done"} /\ Frozen(Other(t))
      BY <2>4, Returns
    <3>2. AloneAt(t)'
      BY <3>1 DEF AloneAt
    <3> QED
      BY <2>2, <3>1, <3>2, AloneAtBoth
  <2> QED
    BY <1>10, <2>3, <2>4 DEF SaveOpen
<1>11. ASSUME NEW t \in Tasks, SaveWrite(t)
       PROVE  SavesAlone'
  BY <1>11, EndsAlone DEF SaveWrite
<1>12. ASSUME NEW t \in Tasks, SaveFail(t)
       PROVE  SavesAlone'
  BY <1>12, EndsAlone DEF SaveFail
<1>13. CASE HostTakes
  <2>1. CASE call["shell"].op = "write" /\ Return("shell")
    BY <2>1, EndsAlone, TwoTasks
  <2>2. CASE UNCHANGED call
    BY <1>13, <2>2 DEF HostTakes, SavesAlone, Printed6, Busy
  <2> QED
    BY <1>13, <2>1, <2>2 DEF HostTakes
<1>14. CASE diff \/ HostReturns
  BY <1>14 DEF diff, HostReturns, SavesAlone, Printed6, Busy
<1>15. ASSUME NEW lines \in HostLines, HostEdits(lines)
       PROVE  SavesAlone'
  BY <1>15 DEF HostEdits, SavesAlone, Printed6, Busy
<1>16. ASSUME NEW c \in {"mounted", "absent"}, Boot(c)
       PROVE  SavesAlone'
  BY <1>16, BootIdles DEF SavesAlone
<1> QED
  BY <1>1, <1>2, <1>3, <1>4, <1>5, <1>6, <1>7, <1>8, <1>9, <1>10, <1>11, <1>12, <1>13, <1>14,
     <1>15, <1>16 DEF SettingsNext, factory_reset


\* Whoever opens or edits the file forgets what was kept; a save that ran alone has it in
\* its buffer.
LEMMA KeptStep ==
  ASSUME SettingsIInv, SettingsNext PROVE KeptOnFile'
<1> USE DEF SettingsIInv
<1>1. ASSUME NEW k \in Keys, NEW x \in Texts[k], set(k, x)
      PROVE  KeptOnFile'
  BY <1>1 DEF set, KeptOnFile, Printed6
<1>2. ASSUME NEW k \in Keys, reset_module(ModuleOf[k])
      PROVE  KeptOnFile'
  BY <1>2 DEF reset_module, KeptOnFile, Printed6
<1>3. ASSUME NEW saves \in BOOLEAN, reset_all(saves)
      PROVE  KeptOnFile'
  BY <1>3 DEF reset_all, KeptOnFile, Printed6
<1>4. CASE ResetEntry \/ ResetDone \/ save \/ load
  BY <1>4 DEF ResetEntry, ResetDone, save, load, KeptOnFile, Printed6
<1>5. CASE ParseEntry \/ ParseDone \/ diff
  BY <1>5 DEF ParseEntry, ParseDone, diff, KeptOnFile, Printed6
<1>6. ASSUME NEW mode \in Modes, confirm(mode)
      PROVE  KeptOnFile'
  BY <1>6 DEF confirm, KeptOnFile, Printed6
<1>7. ASSUME NEW t \in Tasks, FormatEntry(t)
      PROVE  KeptOnFile'
  BY <1>7 DEF FormatEntry, KeptOnFile, Printed6
<1>8. ASSUME NEW t \in Tasks, SaveOpen(t)
      PROVE  KeptOnFile'
  BY <1>8 DEF SaveOpen, KeptOnFile, Printed6
<1>9. ASSUME NEW t \in Tasks, SaveWrite(t)
      PROVE  KeptOnFile'
  <2>1. CASE ~call[t].alone
    BY <1>9, <2>1 DEF SaveWrite, KeptOnFile
  <2>2. CASE call[t].alone
    <3>1. call[t].op = "write" /\ kept' = data
      BY <1>9, <2>2 DEF SaveWrite
    <3>2. /\ ~Busy(Other(t)) /\ Keys = DOMAIN call[t].lines
          /\ Printed6(data, call[t].lines)
      BY <2>2, <3>1 DEF SavesAlone
    <3>3. file' = call[t].lines
      BY <1>9, <3>2 DEF SaveWrite, Busy
    <3> QED
      BY <3>1, <3>2, <3>3 DEF KeptOnFile, MemoryHeld, Printed6
  <2> QED
    BY <2>1, <2>2
<1>10. ASSUME NEW t \in Tasks, SaveFail(t)
       PROVE  KeptOnFile'
  BY <1>10 DEF SaveFail, KeptOnFile, Printed6
<1>11. CASE HostTakes \/ HostReturns
  BY <1>11 DEF HostTakes, HostReturns, KeptOnFile, Printed6
<1>12. ASSUME NEW lines \in HostLines, HostEdits(lines)
       PROVE  KeptOnFile'
  BY <1>12 DEF HostEdits, KeptOnFile
<1>13. ASSUME NEW c \in {"mounted", "absent"}, Boot(c)
       PROVE  KeptOnFile'
  <2>1. CASE file' = Lines(Default) /\ kept' = Default
    BY <2>1, DefaultHeld DEF KeptOnFile, Printed6, Lines
  <2>2. CASE kept' = Unknown
    BY <2>2 DEF KeptOnFile
  <2>3. CASE UNCHANGED <<file, kept>>
    BY <2>3 DEF KeptOnFile, Printed6
  <2> QED
    BY <1>13, <2>1, <2>2, <2>3 DEF Boot
<1> QED
  BY <1>1, <1>2, <1>3, <1>4, <1>5, <1>6, <1>7, <1>8, <1>9, <1>10, <1>11, <1>12,
     <1>13 DEF SettingsNext, factory_reset


\* Every store into memory or the file takes the answer back.
LEMMA ForetoldStep ==
  ASSUME SettingsIInv, SettingsNext PROVE ForetoldStands'
<1> USE DEF SettingsIInv
<1>1. ASSUME NEW k \in Keys, NEW x \in Texts[k], set(k, x)
      PROVE  ForetoldStands'
  BY <1>1 DEF set, ForetoldStands
<1>2. ASSUME NEW k \in Keys, reset_module(ModuleOf[k])
      PROVE  ForetoldStands'
  BY <1>2 DEF reset_module, ForetoldStands, Diff
<1>3. ASSUME NEW saves \in BOOLEAN, reset_all(saves)
      PROVE  ForetoldStands'
  BY <1>3 DEF reset_all, ForetoldStands, Diff
<1>4. CASE ResetEntry \/ ParseEntry
  BY <1>4 DEF ResetEntry, ParseEntry, ForetoldStands
<1>5. CASE ResetDone \/ ParseDone \/ save \/ load
  BY <1>5 DEF ResetDone, ParseDone, save, load, ForetoldStands, Diff
<1>6. CASE diff
  BY <1>6 DEF diff, ForetoldStands, Diff
<1>7. ASSUME NEW mode \in Modes, confirm(mode)
      PROVE  ForetoldStands'
  BY <1>7 DEF confirm, ForetoldStands
<1>8. ASSUME NEW t \in Tasks, FormatEntry(t)
      PROVE  ForetoldStands'
  BY <1>8 DEF FormatEntry, ForetoldStands, Diff
<1>9. ASSUME NEW t \in Tasks, SaveOpen(t)
      PROVE  ForetoldStands'
  BY <1>9 DEF SaveOpen, ForetoldStands, Diff
<1>10. ASSUME NEW t \in Tasks, SaveWrite(t)
       PROVE  ForetoldStands'
  BY <1>10 DEF SaveWrite, ForetoldStands
<1>11. ASSUME NEW t \in Tasks, SaveFail(t)
       PROVE  ForetoldStands'
  BY <1>11 DEF SaveFail, ForetoldStands, Diff
<1>12. CASE HostTakes \/ HostReturns
  BY <1>12 DEF HostTakes, HostReturns, ForetoldStands, Diff
<1>13. ASSUME NEW lines \in HostLines, HostEdits(lines)
       PROVE  ForetoldStands'
  BY <1>13 DEF HostEdits, ForetoldStands
<1>14. ASSUME NEW c \in {"mounted", "absent"}, Boot(c)
       PROVE  ForetoldStands'
  BY <1>14 DEF Boot, ForetoldStands
<1> QED
  BY <1>1, <1>2, <1>3, <1>4, <1>5, <1>6, <1>7, <1>8, <1>9, <1>10, <1>11, <1>12, <1>13,
     <1>14 DEF SettingsNext, factory_reset


LEMMA DueAdds ==
  ASSUME NEW t \in Tasks
  PROVE  /\ SavesDue("shell") + SavesDue("tick") = SavesDue(t) + SavesDue(Other(t))
         /\ SavesDue("shell")' + SavesDue("tick")' = SavesDue(t)' + SavesDue(Other(t))'
         /\ \A s : SavesDue(s) \in {0, 1} /\ SavesDue(s)' \in {0, 1}
         /\ \A s : ~Busy(s) => SavesDue(s) = 0
<1>1. \A s : SavesDue(s) \in {0, 1} /\ SavesDue(s)' \in {0, 1}
  BY DEF SavesDue
<1>2. \A s : ~Busy(s) => SavesDue(s) = 0
  BY DEF SavesDue, Saver, Busy
<1>3. t = "shell" \/ t = "tick"
  BY DEF Tasks
<1> QED
  BY <1>1, <1>2, <1>3, TwoTasks

\* Room leaves place for one more save.
LEMMA RoomIs ==
  ASSUME NEW t \in Tasks, revision \in Nat, Room, ~Busy(t)
  PROVE  revision + (SavesDue(Other(t)) + 1) <= MaxSaves
<1> DEFINE B == {s \in Tasks : Busy(s)}
<1>1. revision + Cardinality(B) < MaxSaves /\ MaxSaves \in Nat
  BY LimitsTyped DEF Room
<1>2. CASE Busy(Other(t))
  <2>1. B = {Other(t)}
    BY <1>2, TwoTasks
  <2>2. Cardinality(B) = 1
    BY <2>1, FS_Singleton
  <2> QED
    BY <1>1, <2>2, DueAdds
<1>3. CASE ~Busy(Other(t))
  <2>1. B = {}
    BY <1>3, TwoTasks
  <2>2. Cardinality(B) = 0
    BY <2>1, FS_EmptySet
  <2>3. SavesDue(Other(t)) = 0
    BY <1>3, DueAdds
  <2> QED
    BY <1>1, <2>2, <2>3
<1> QED
  BY <1>2, <1>3

\* One task's share of the count changes, the other's does not grow.
LEMMA CountKept ==
  ASSUME NEW t \in Tasks, SavesBounded, revision' \in Nat, SavesDue(Other(t))' <= SavesDue(Other(t)),
         revision' + SavesDue(t)' <= revision + SavesDue(t)
  PROVE  SavesBounded'
<1>1. MaxSaves \in Nat
  BY LimitsTyped
<1>2. PICK a, b, c, d \in {0, 1} :
        a = SavesDue(t) /\ b = SavesDue(Other(t)) /\ c = SavesDue(t)' /\ d = SavesDue(Other(t))'
  BY DueAdds
<1>3. revision \in Nat /\ revision + (a + b) <= MaxSaves
  BY <1>2, DueAdds DEF SavesBounded
<1>4. revision' + (c + d) <= MaxSaves
  BY <1>1, <1>2, <1>3
<1> QED
  BY <1>2, <1>4, DueAdds DEF SavesBounded

LEMMA CountAdded ==
  ASSUME NEW t \in Tasks, SavesBounded, revision' = revision, Room, ~Busy(t),
         SavesDue(Other(t))' <= SavesDue(Other(t))
  PROVE  SavesBounded'
<1>1. MaxSaves \in Nat /\ revision \in Nat
  BY LimitsTyped DEF SavesBounded
<1>2. PICK b, c, d \in {0, 1} : b = SavesDue(Other(t)) /\ c = SavesDue(t)' /\ d = SavesDue(Other(t))'
  BY DueAdds
<1>3. revision + (b + 1) <= MaxSaves
  BY <1>1, <1>2, RoomIs
<1>4. revision' + (c + d) <= MaxSaves
  BY <1>1, <1>2, <1>3
<1> QED
  BY <1>1, <1>2, <1>4, DueAdds DEF SavesBounded

LEMMA DueSame ==
  ASSUME NEW s, Same(s) PROVE SavesDue(s)' = SavesDue(s) /\ SavesDue(s)' <= SavesDue(s)
<1>1. SavesDue(s)' = SavesDue(s)
  BY DEF Same, SavesDue, Saver
<1>2. SavesDue(s) \in {0, 1}
  BY DEF SavesDue
<1> QED
  BY <1>1, <1>2

\* A save that ends, refused or not, gives its place back.
LEMMA CountEnded ==
  ASSUME CallShape, SavesBounded, NEW t \in Tasks, Return(t),
         revision' \in {revision} \cup (IF Saver(t) THEN {revision + 1} ELSE {})
  PROVE  SavesBounded'
<1>1. SavesDue(t)' = 0 /\ SavesDue(Other(t))' <= SavesDue(Other(t))
  <2>1. call'[t].op \in {"idle", "done"} /\ Frozen(Other(t))
    BY Returns
  <2> QED
    BY <2>1, DueSame DEF SavesDue, Saver, Frozen
<1>2. revision \in Nat /\ SavesDue(t) \in {0, 1} /\ (Saver(t) => SavesDue(t) = 1)
  BY DEF SavesBounded, SavesDue
<1>3. revision' \in Nat /\ revision' + SavesDue(t)' <= revision + SavesDue(t)
  BY <1>1, <1>2
<1> QED
  BY <1>1, <1>3, CountKept

LEMMA SavesHeld ==
  ASSUME SavesBounded, Same("shell"), Same("tick"), UNCHANGED revision
  PROVE  SavesBounded'
<1>1. SavesDue("shell")' = SavesDue("shell") /\ SavesDue("tick")' = SavesDue("tick")
  BY DueSame
<1> QED
  BY <1>1 DEF SavesBounded

\* A save is let in only where another fits.
LEMMA BoundedStep ==
  ASSUME SettingsIInv, SettingsNext PROVE SavesBounded'
<1> USE DEF SettingsIInv
<1>1. ASSUME NEW k \in Keys, NEW x \in Texts[k], set(k, x)
      PROVE  SavesBounded'
  <2>1. Same("shell") /\ Same("tick") /\ UNCHANGED revision
    BY <1>1, Disturbs DEF set, Frozen
  <2> QED
    BY <2>1, SavesHeld
<1>2. ASSUME NEW k \in Keys, reset_module(ModuleOf[k])
      PROVE  SavesBounded'
  <2>1. SavesDue("shell")' = 0 /\ Same("tick") /\ UNCHANGED revision
    BY <1>2, ResetEnters DEF SavesDue, Saver
  <2> QED
    BY <2>1, DueSame, DueAdds, CountKept, TwoTasks DEF SavesBounded
<1>3. ASSUME NEW saves \in BOOLEAN, reset_all(saves)
      PROVE  SavesBounded'
  <2>1. Enter("shell", "reset", Table, Empty, saves) /\ "reset" \in Ops /\ UNCHANGED revision
    BY <1>3 DEF reset_all, Ops
  <2>2. call'["shell"].op = "reset" /\ call'["shell"].saves = saves /\ Same("tick")
    BY <2>1, Enters, TwoTasks
  <2>3. ~Busy("shell") /\ (saves => Room)
    BY <1>3 DEF reset_all, Busy
  <2>4. CASE saves
    BY <2>1, <2>2, <2>3, <2>4, DueSame, CountAdded, TwoTasks
  <2>5. CASE ~saves
    <3>1. SavesDue("shell")' = 0
      BY <2>2, <2>5 DEF SavesDue, Saver
    <3> QED
      BY <2>1, <2>2, <3>1, DueSame, DueAdds, CountKept, TwoTasks DEF SavesBounded
  <2> QED
    BY <2>4, <2>5
<1>4. CASE ResetEntry \/ ParseEntry
  <2>1. Step("shell") /\ UNCHANGED revision
    BY <1>4 DEF ResetEntry, ParseEntry
  <2>2. /\ call'["shell"].op = call["shell"].op /\ call'["shell"].saves = call["shell"].saves
        /\ Same("tick")
    BY <2>1, Steps, TwoTasks DEF Frozen
  <2>3. SavesDue("shell")' = SavesDue("shell")
    BY <2>2 DEF SavesDue, Saver
  <2> QED
    BY <2>1, <2>2, <2>3, DueSame, DueAdds, CountKept, TwoTasks DEF SavesBounded
<1>5. CASE ResetDone \/ ParseDone
  <2>1. \/ BeginSave("shell") /\ card = "mounted" /\ Saver("shell")
        \/ Return("shell")
    BY <1>5 DEF ResetDone, ParseDone, BeginSave, Saver
  <2>2. UNCHANGED revision
    BY <1>5 DEF ResetDone, ParseDone
  <2>3. CASE BeginSave("shell") /\ card = "mounted" /\ Saver("shell")
    <3>1. Same("tick")
      BY <2>3, Begins, TwoTasks DEF Frozen
    <3>2. SavesDue("shell") = 1 /\ SavesDue("shell")' \in {0, 1}
      BY <2>3 DEF SavesDue
    <3> QED
      BY <2>2, <3>1, <3>2, DueSame, CountKept, TwoTasks DEF SavesBounded
  <2>4. CASE Return("shell")
    BY <2>2, <2>4, CountEnded, TwoTasks
  <2> QED
    BY <2>1, <2>3, <2>4
<1>6. CASE save
  <2>1. BeginSave("shell") /\ Room /\ ~Busy("shell") /\ UNCHANGED revision
    BY <1>6 DEF save, Busy
  <2>2. Same("tick")
    BY <2>1, Begins, TwoTasks DEF Frozen
  <2> QED
    BY <2>1, <2>2, DueSame, CountAdded, TwoTasks
<1>7. CASE load
  <2>1. CASE file = NoFile
    <3>1. BeginSave("shell") /\ Room /\ ~Busy("shell") /\ UNCHANGED revision
      BY <1>7, <2>1 DEF load, Busy
    <3>2. Same("tick")
      BY <3>1, Begins, TwoTasks DEF Frozen
    <3> QED
      BY <3>1, <3>2, DueSame, CountAdded, TwoTasks
  <2>2. CASE file # NoFile
    <3>1. SavesDue("shell")' = 0 /\ Same("tick") /\ UNCHANGED revision
      BY <1>7, <2>2, LoadEnters DEF SavesDue, Saver
    <3> QED
      BY <3>1, DueSame, DueAdds, CountKept, TwoTasks DEF SavesBounded
  <2> QED
    BY <2>1, <2>2
<1>8. ASSUME NEW mode \in Modes, confirm(mode)
      PROVE  SavesBounded'
  <2>1. BeginSave("tick") /\ Room /\ ~Busy("tick") /\ UNCHANGED revision
    BY <1>8 DEF confirm, Busy
  <2>2. Same("shell")
    BY <2>1, Begins, TwoTasks DEF Frozen
  <2> QED
    BY <2>1, <2>2, DueSame, CountAdded, TwoTasks
<1>9. ASSUME NEW t \in Tasks, FormatEntry(t)
      PROVE  SavesBounded'
  <2>1. call[t].op = "format" /\ UNCHANGED revision
    BY <1>9 DEF FormatEntry
  <2>2. call'[t].op = "format" /\ Same(Other(t))
    BY <1>9, Formats DEF Frozen
  <2>3. SavesDue(t)' = 1 /\ SavesDue(t) = 1
    BY <2>1, <2>2 DEF SavesDue, Saver
  <2> QED
    BY <2>1, <2>2, <2>3, DueSame, CountKept DEF SavesBounded
<1>10. ASSUME NEW t \in Tasks, SaveOpen(t)
       PROVE  SavesBounded'
  <2>1. call[t].op = "format" /\ UNCHANGED revision
    BY <1>10 DEF SaveOpen
  <2>2. CASE call' = [call EXCEPT ![t].op = "write"]
    <3>1. Same(Other(t))
      BY <2>2, Opens DEF Frozen
    <3>2. SavesDue(t) = 1 /\ SavesDue(t)' \in {0, 1}
      BY <2>1 DEF SavesDue, Saver
    <3> QED
      BY <2>1, <3>1, <3>2, DueSame, CountKept DEF SavesBounded
  <2>3. CASE Return(t)
    BY <2>1, <2>3, CountEnded
  <2> QED
    BY <1>10, <2>2, <2>3 DEF SaveOpen
<1>11. ASSUME NEW t \in Tasks, SaveWrite(t)
       PROVE  SavesBounded'
  <2>1. Return(t) /\ Saver(t) /\ revision' = revision + 1
    BY <1>11 DEF SaveWrite, Saver
  <2> QED
    BY <2>1, CountEnded
<1>12. ASSUME NEW t \in Tasks, SaveFail(t)
       PROVE  SavesBounded'
  <2>1. Return(t) /\ UNCHANGED revision
    BY <1>12 DEF SaveFail
  <2> QED
    BY <2>1, CountEnded
<1>13. CASE HostTakes
  <2>1. CASE Return("shell")
    BY <1>13, <2>1, CountEnded, TwoTasks DEF HostTakes
  <2>2. CASE UNCHANGED call
    BY <1>13, <2>2 DEF HostTakes, SavesBounded, SavesDue, Saver
  <2> QED
    BY <1>13, <2>1, <2>2 DEF HostTakes
<1>14. CASE diff \/ HostReturns
  BY <1>14 DEF diff, HostReturns, SavesBounded, SavesDue, Saver
<1>15. ASSUME NEW lines \in HostLines, HostEdits(lines)
       PROVE  SavesBounded'
  BY <1>15 DEF HostEdits, SavesBounded, SavesDue, Saver
<1>16. ASSUME NEW c \in {"mounted", "absent"}, Boot(c)
       PROVE  SavesBounded'
  <2>1. revision' \in {0, 1}
    BY <1>16 DEF Boot
  <2>2. SavesDue("shell")' = 0 /\ SavesDue("tick")' = 0
    BY <1>16, BootIdles, TwoTasks DEF SavesDue, Saver
  <2> QED
    BY <2>1, <2>2, LimitsTyped DEF SavesBounded
<1> QED
  BY <1>1, <1>2, <1>3, <1>4, <1>5, <1>6, <1>7, <1>8, <1>9, <1>10, <1>11, <1>12, <1>13, <1>14,
     <1>15, <1>16 DEF SettingsNext, factory_reset


-----------------------------------------------------------------------------
(* Theorems.                                                               *)

LEMMA SettingsInitHolds == SettingsInit => SettingsIInv
<1> SUFFICES ASSUME SettingsInit PROVE SettingsIInv
  OBVIOUS
<1>1. \A t \in Tasks : call[t] = Idle
  BY DEF SettingsInit
<1>2. CallShape
  BY <1>1 DEF SettingsInit, CallShape, Idle, Columns, Ops
<1>3. \A t \in Tasks : call[t].op = "idle"
  BY <1>1 DEF Idle
<1>4. MemoryHeld
  <2>1. Default = [k \in Keys |-> Default[k]]
    BY SettingsAssumption
  <2> QED
    BY <2>1, DefaultHeld DEF SettingsInit, MemoryHeld
<1>5. TextsTyped /\ SavesPlaced /\ SavesAlone
  BY <1>3 DEF SettingsInit, TextsTyped, SavesPlaced, SavesAlone
<1>6. KeptOnFile /\ ForetoldStands
  BY DEF SettingsInit, KeptOnFile, ForetoldStands
<1>7. SavesBounded
  <2>1. SavesDue("shell") = 0 /\ SavesDue("tick") = 0
    BY <1>3, TwoTasks DEF SavesDue, Saver
  <2> QED
    BY <2>1, LimitsTyped DEF SettingsInit, SavesBounded
<1> QED
  BY <1>2, <1>4, <1>5, <1>6, <1>7 DEF SettingsIInv

\* Every step of a call, of the host and of a restart keeps the invariant.
LEMMA SettingsStepHolds == SettingsIInv /\ [SettingsNext]_settingsVars => SettingsIInv'
<1> SUFFICES ASSUME SettingsIInv, [SettingsNext]_settingsVars PROVE SettingsIInv'
  OBVIOUS
<1>1. CASE SettingsNext
  BY <1>1, ShapeStep, MemoryStep, TextsStep, PlacedStep, AloneStep, KeptStep, ForetoldStep,
     BoundedStep DEF SettingsIInv
<1>2. CASE UNCHANGED settingsVars
  BY <1>2 DEF settingsVars, SettingsIInv, CallShape, MemoryHeld, TextsTyped, SavesPlaced,
              SavesAlone, KeptOnFile, ForetoldStands, SavesBounded, Busy, Printed6, Diff, SavesDue, Saver
<1> QED
  BY <1>1, <1>2

\* The invariant of the settings in memory and on the card holds in every reachable state.
THEOREM SettingsInductive == SettingsSpec => []SettingsIInv
BY SettingsInitHolds, SettingsStepHolds, PTL DEF SettingsSpec

\* Whatever a host wrote into settings.conf or a cut save left of it, memory holds what its
\* fields can hold, and the bound on the saves of a boot is kept.
THEOREM SettingsTypeCorrect == SettingsSpec => []SettingsTypeOK
<1>1. SettingsIInv => SettingsTypeOK
  <2> SUFFICES ASSUME SettingsIInv PROVE SettingsTypeOK
    OBVIOUS
  <2> USE DEF SettingsIInv
  <2>1. DOMAIN data = Keys /\ \A k \in Keys : data[k] = Default[k] \/ Accepts(k, data[k])
    BY DEF MemoryHeld, Fits
  <2>2. file # NoFile => \A k \in DOMAIN file : k \in Keys /\ file[k] \in Nat \cup {Garbage}
    BY DEF TextsTyped, IsText
  <2>3. revision \in 0 .. MaxSaves
    <3>1. SavesDue("shell") \in {0, 1} /\ SavesDue("tick") \in {0, 1}
      BY DueAdds, TwoTasks
    <3> QED
      BY <3>1, LimitsTyped DEF SavesBounded
  <2> QED
    BY <2>1, <2>2, <2>3 DEF SettingsTypeOK, TextsTyped, CallShape, Ops
<1> QED
  BY <1>1, SettingsInductive, PTL

\* What save() kept is what a boot reads, for every table of settings, every type, every value
\* whose text fits the 32 bytes it is printed into, and every interleaving of the shell,
\* COMM_CONFIG, the USB host and restarts.
THEOREM KeptIsRead == SettingsSpec => SavedIsRead
<1> DEFINE Read == \A k \in Keys :
             IF TypeOf[k] = "FLOAT"
             THEN Rounded(kept[k]) < Wide =>
                    2 * data'[k] \in 2 * kept[k] - Printed .. 2 * kept[k] + Printed
             ELSE data'[k] = kept[k]
<1>1. ASSUME SettingsIInv, Boot("mounted"), kept # Unknown PROVE Read
  <2>1. DOMAIN file = Keys /\ Printed6(kept, file) /\ \A k \in Keys : Fits(k, kept[k])
    BY <1>1 DEF SettingsIInv, KeptOnFile
  <2>2. file # NoFile
    <3>1. DOMAIN NoFile = {"missing"}
      BY DEF NoFile
    <3> QED
      BY <2>1, <3>1, SettingsAssumption
  <2>3. data' = parse_file(Default, file)
    BY <1>1, <2>2 DEF Boot
  <2>4. \A k \in Keys : data'[k] = ParseLine(Default[k], k, file)
    BY <2>3 DEF parse_file
  <2> QED
    BY <2>1, <2>4, PrintedIsRead DEF Printed6
<1>2. SettingsIInv /\ [SettingsNext]_settingsVars
        => [Boot("mounted") /\ kept # Unknown => Read]_settingsVars
  <2> HIDE DEF Read
  <2> QED
    BY <1>1
<1> QED
  BY <1>2, SettingsInductive, PTL DEF SettingsSpec, SavedIsRead

\* diff() and a boot parse the same file over the same values.
THEOREM BootDoesWhatDiffTold == SettingsSpec => DiffForetellsBoot
<1> DEFINE Told == foretold.changed
                     = {k \in Keys : format_entry(k, data'[k]) # format_entry(k, data[k])}
<1>1. ASSUME SettingsIInv, Boot("mounted"), foretold # Unknown PROVE Told
  <2>1. file # NoFile /\ foretold = [changed |-> Diff(data, file)]
    BY <1>1 DEF SettingsIInv, ForetoldStands
  <2>2. data' = parse_file(Default, file)
    BY <1>1, <2>1 DEF Boot
  <2> QED
    BY <2>1, <2>2 DEF Diff
<1>2. SettingsIInv /\ [SettingsNext]_settingsVars
        => [Boot("mounted") /\ foretold # Unknown => Told]_settingsVars
  <2> HIDE DEF Told
  <2> QED
    BY <1>1
<1> QED
  BY <1>2, SettingsInductive, PTL DEF SettingsSpec, DiffForetellsBoot
=============================================================================
