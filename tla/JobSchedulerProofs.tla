------------------------- MODULE JobSchedulerProofs -------------------------
(***************************************************************************)
(* Proofs about JobScheduler: for any table, any requests and any ids, a   *)
(* job keeps its schedule and its limit, and its id tells it from the      *)
(* others until the ids have wrapped.                                      *)
(*                                                                         *)
(* What the routine task finds in a slot depends on how far the shell task *)
(* has come with filling it, so the invariant says of every slot which of  *)
(* its fields can be relied upon (todo names the stores that are still to  *)
(* come), and of a job whose call was not interrupted also where it stands *)
(* in its schedule.                                                        *)
(***************************************************************************)
EXTENDS JobScheduler, SequenceTheorems, TLAPS

Fields == {"next_id", "kind", "state", "interval", "remaining"}

\* The requests that a schedule_* call accepts, and the lines that stand for their jobs.
Taken     == {r \in Requests : Accepts(r)}
Lines     == {l \in [kind : Kinds \ {"Once"}, interval : Nat, remaining : Nat,
                    state : States \cup {None}, command : Taken] :
                /\ l.kind = l.command.kind
                /\ l.kind = "Interval" => l.interval > 0
                /\ l.kind = "OnStateEnter" => l.state = l.command.state}

Job == [active : BOOLEAN, kind : Kinds, id : 0 .. IdMax, state : States \cup {None},
        interval : Nat, next : Nat, remaining : Nat, fired : Nat,
        command : Requests \cup {NoCommand}]
Sight == [limit : Nat, since : Nat, missed : Nat, torn : BOOLEAN, nth : Nat,
          unsure : BOOLEAN]

CallTyped ==
  \/ call = Idle
  \/ call \in [op : {"found"}, slot : Slots, request : Taken]
  \/ call \in [op : {"fill"}, slot : Slots, request : Taken, todo : (SUBSET Fields) \ {{}}]
  \/ call \in [op : {"cancelAll"}, slot : Slots]
  \/ call.op \in {"look", "copy"} /\ call.slot \in Slots /\ call.lines \in Seq(Lines)
  \/ call.op \in {"open", "write"} /\ call.lines \in Seq(Lines)
ClockTyped ==
  /\ next_id \in 1 .. IdMax /\ last_state \in States \cup {None}
  /\ now \in 0 .. MaxTime /\ made \in Nat
FileTyped ==
  /\ saved \in Seq(Lines) /\ routine.lines \in Seq(Lines)
  /\ routine.at \in {"boot", "read", "load", "loop"}
Typed == jobs \in [Slots -> Job] /\ seen \in [Slots -> Sight] /\ CallTyped /\ ClockTyped /\ FileTyped

\* The bound on the ids is kept.
Pending == call.op = "found" \/ IdInHand
Room ==
  /\ made <= MaxJobs /\ (Pending => made < MaxJobs)
  /\ routine.at = "load" => made + Len(routine.lines) < MaxJobs

\* A slot that held a job since the last boot, and the stores it still waits for.
Used(s) == jobs[s].id # 0
Todo(s) == IF Filling(s) THEN call.todo ELSE {}

StoredJob(j, todo) ==
  /\ j.command \in Taken
  /\ "kind" \notin todo => j.kind = j.command.kind
  /\ "interval" \notin todo /\ j.command.kind # "OnStateEnter" => j.interval > 0
  /\ "state" \notin todo /\ j.command.kind = "OnStateEnter" => j.state = j.command.state

\* No poll has seen it: nothing is counted and it is not anchored.
Awaits(j, e, todo) ==
  /\ j.fired = 0 /\ e.missed = 0 /\ j.next = 0
  /\ "remaining" \notin todo => j.remaining = e.limit

CountsDown(j, e) ==
  e.limit # 0 => /\ j.fired <= e.limit
                 /\ j.active => j.remaining >= 1 /\ j.fired + j.remaining = e.limit

\* Firings and misses never run ahead of the intervals gone by, and the next occurrence is
\* one interval further.
KeepsTime(j, e, t) ==
  /\ (j.fired + e.missed) * j.interval <= t - e.since
  /\ j.active => /\ (j.fired + e.missed + 1) * j.interval <= j.next - e.since
                 /\ j.next - t \in 1 .. j.interval

Kept(j, e, todo, t) ==
  /\ StoredJob(j, todo)
  /\ ~e.torn /\ e.since = 0 => Awaits(j, e, todo)
  /\ ~e.torn /\ e.since # 0 =>
       /\ todo = {} /\ e.since <= t /\ CountsDown(j, e)
       /\ j.kind # "OnStateEnter" => KeepsTime(j, e, t)

JobsKept ==
  \A s \in Slots :
    /\ jobs[s].active \/ seen[s].since # 0 => Used(s)
    /\ Used(s) => Kept(jobs[s], seen[s], Todo(s), now)

\* The slot in hand: a slot being filled is taken, and only a poll may free it; the slot
\* list() is about to copy held a job.
CallKept ==
  /\ call.op = "fill" => /\ Used(call.slot) /\ jobs[call.slot].command = call.request
                         /\ seen[call.slot].limit = Limit(call.request)
                         /\ routine.at # "loop" => jobs[call.slot].active
  /\ call.op = "copy" => Used(call.slot)

\* The id that follows n others.
IdAfter(n) == 1 + (n % IdMax)

\* The jobs whose ids are theirs: nothing interrupted their calls, and their ids were not
\* given out in the middle of a call.  They are numbered up to the id in hand, if one is.
Counts(s) == Used(s) /\ ~seen[s].torn /\ ~seen[s].unsure
Frontier  == IF IdInHand THEN seen[call.slot].nth ELSE made
Numbered(s) ==
  Counts(s) => /\ jobs[s].id = IdAfter(seen[s].nth)
               /\ seen[s].nth < Frontier \/ (IdInHand /\ s = call.slot)
Apart(s, t) == s # t /\ Counts(s) /\ Counts(t) => seen[s].nth # seen[t].nth
InOrder ==
  /\ next_id = IdAfter(made) /\ Frontier <= made
  /\ IdInHand => jobs[call.slot].id = IdAfter(Frontier)
  /\ \A s \in Slots : Numbered(s)
  /\ \A s, t \in Slots : Apart(s, t)

IInv == Typed /\ Room /\ JobsKept /\ CallKept /\ InOrder

-----------------------------------------------------------------------------
(* The ids.                                                                *)

\* Remainders go up by one, and start again at zero.
LEMMA NextRemainder ==
  ASSUME NEW m \in Nat \ {0}, NEW n \in Nat
  PROVE  /\ n % m \in 0 .. m - 1
         /\ (n + 1) % m = IF n % m = m - 1 THEN 0 ELSE (n % m) + 1
<1> DEFINE q == n \div m  r == n % m  q1 == (n + 1) \div m  r1 == (n + 1) % m
<1>1. n = m * q + r /\ r \in 0 .. m - 1 /\ q \in Int
  OBVIOUS
<1>2. n + 1 = m * q1 + r1 /\ r1 \in 0 .. m - 1 /\ q1 \in Int
  OBVIOUS
<1> HIDE DEF q, r, q1, r1
<1>3. m * q1 - m * q = m * (q1 - q)
  BY <1>1, <1>2
<1>4. m * (q1 - q) = r - r1 + 1
  BY <1>1, <1>2, <1>3
<1>5. q1 - q = 0 \/ q1 - q = 1
  <2>1. q1 - q < 2
    <3> SUFFICES ASSUME q1 - q >= 2 PROVE FALSE
      BY <1>1, <1>2
    <3>1. m * (q1 - q) >= m * 2
      BY <1>1, <1>2
    <3> QED
      BY <1>1, <1>2, <1>4, <3>1
  <2>2. q1 - q > -1
    <3> SUFFICES ASSUME q1 - q <= -1 PROVE FALSE
      BY <1>1, <1>2
    <3>1. m * (q1 - q) <= m * (-1)
      BY <1>1, <1>2
    <3> QED
      BY <1>1, <1>2, <1>4, <3>1
  <2> QED
    BY <1>1, <1>2, <2>1, <2>2
<1>6. r1 = IF r = m - 1 THEN 0 ELSE r + 1
  <2>1. CASE q1 - q = 0
    BY <1>1, <1>2, <1>4, <2>1
  <2>2. CASE q1 - q = 1
    BY <1>1, <1>2, <1>4, <2>2
  <2> QED
    BY <1>5, <2>1, <2>2
<1> QED
  BY <1>1, <1>6 DEF r, r1

\* Equal remainders lie at least the modulus apart.
LEMMA EqualRemainders ==
  ASSUME NEW m \in Nat \ {0}, NEW a \in Nat, NEW b \in Nat, a % m = b % m, a > b
  PROVE  a - b >= m
<1> DEFINE p == a \div m  q == b \div m  r == a % m
<1>1. a = m * p + r /\ b = m * q + r /\ p \in Int /\ q \in Int /\ r \in Int
  OBVIOUS
<1> HIDE DEF p, q, r
<1>2. a - b = m * (p - q)
  BY <1>1
<1>3. p - q >= 1
  <2> SUFFICES ASSUME p - q <= 0 PROVE FALSE
    BY <1>1
  <2>1. m * (p - q) <= 0
    BY <1>1
  <2> QED
    BY <1>2, <2>1
<1>4. m * (p - q) >= m
  BY <1>1, <1>3
<1> QED
  BY <1>2, <1>4

\* The ids are handed out in the order of IdAfter.
LEMMA IdsFollow ==
  ASSUME NEW n \in Nat
  PROVE  IdAfter(n) \in 1 .. IdMax /\ IdAfter(n + 1) = NextId(IdAfter(n))
<1> DEFINE r == n % IdMax  r1 == (n + 1) % IdMax
<1>1. IdMax \in Nat \ {0}
  BY JobAssumption
<1>2. r \in 0 .. IdMax - 1 /\ r1 = IF r = IdMax - 1 THEN 0 ELSE r + 1
  BY <1>1, NextRemainder
<1>3. IdAfter(n) = 1 + r /\ IdAfter(n + 1) = 1 + r1
  BY DEF IdAfter
<1> HIDE DEF r, r1
<1> QED
  BY <1>1, <1>2, <1>3 DEF NextId

LEMMA IdsApart ==
  ASSUME NEW a \in Nat, NEW b \in Nat, a # b, IdAfter(a) = IdAfter(b)
  PROVE  a - b >= IdMax \/ b - a >= IdMax
<1> DEFINE r == a % IdMax  q == b % IdMax
<1>1. IdMax \in Nat \ {0}
  BY JobAssumption
<1>2. r \in 0 .. IdMax - 1 /\ q \in 0 .. IdMax - 1
  BY <1>1, NextRemainder
<1>3. IdAfter(a) = 1 + r /\ IdAfter(b) = 1 + q
  BY DEF IdAfter
<1>4. r = q
  <2>1. r \in Int /\ q \in Int
    BY <1>1, <1>2
  <2>2. 1 + r = 1 + q
    BY <1>3
  <2> HIDE DEF r, q
  <2> QED
    BY <2>1, <2>2
<1>5. CASE a > b
  BY <1>1, <1>4, <1>5, EqualRemainders
<1>6. CASE b > a
  BY <1>1, <1>4, <1>6, EqualRemainders
<1> QED
  BY <1>5, <1>6

-----------------------------------------------------------------------------
(* Jobs and lines keep their types.                                        *)

LEMMA JobFields ==
  ASSUME NEW j \in Job
  PROVE  /\ j.active \in BOOLEAN /\ j.kind \in Kinds /\ j.id \in 0 .. IdMax
         /\ j.state \in States \cup {None} /\ j.interval \in Nat /\ j.next \in Nat
         /\ j.remaining \in Nat /\ j.fired \in Nat /\ j.command \in Requests \cup {NoCommand}
BY DEF Job

LEMMA RequestFields ==
  ASSUME NEW r \in Taken
  PROVE  /\ r \in Requests /\ r.kind \in Kinds /\ r.interval \in Nat /\ r.repeat \in Nat
         /\ r.state \in States /\ (r.kind = "OnStateEnter" \/ r.interval > 0)
         /\ Limit(r) \in Nat
<1>1. r \in Requests /\ r.kind \in Kinds /\ r.interval \in Nat /\ r.repeat \in Nat /\ r.state \in States
  BY JobAssumption DEF Taken
<1>2. r.kind = "OnStateEnter" \/ r.interval > 0
  BY DEF Taken, Accepts
<1>3. Limit(r) \in Nat
  BY <1>1 DEF Limit, Kinds
<1> QED
  BY <1>1, <1>2, <1>3

\* The job that allocate() puts into a slot.
NewJob(r) == [NoJob EXCEPT !.active = TRUE, !.id = next_id, !.command = r]

LEMMA NewJobTyped ==
  ASSUME NEW r \in Taken, next_id \in 1 .. IdMax
  PROVE  /\ NewJob(r) \in Job /\ NoJob \in Job
         /\ NewJob(r).active /\ NewJob(r).id = next_id /\ NewJob(r).command = r
         /\ NewJob(r).kind = "Interval" /\ NewJob(r).fired = 0 /\ NewJob(r).next = 0
         /\ NewJob(r).remaining = 0
<1>1. next_id \in 0 .. IdMax /\ 0 \in 0 .. IdMax /\ r \in Requests
  BY JobAssumption, RequestFields
<1>2. NoJob \in Job
  BY <1>1 DEF NoJob, Job, Kinds
<1>3. NewJob(r) \in Job
  BY <1>1, <1>2 DEF NewJob, Job
<1> QED
  BY <1>2, <1>3 DEF NewJob, NoJob

LEMMA RestoredTyped ==
  ASSUME NEW l \in Lines, next_id \in 1 .. IdMax
  PROVE  /\ Restored(l) \in Job
         /\ Restored(l).active /\ Restored(l).id = next_id /\ Restored(l).kind = l.kind
         /\ Restored(l).state = l.state /\ Restored(l).interval = l.interval
         /\ Restored(l).remaining = l.remaining /\ Restored(l).command = l.command
         /\ Restored(l).next = 0 /\ Restored(l).fired = 0
<1>1. next_id \in 0 .. IdMax /\ 0 \in 0 .. IdMax
  BY JobAssumption
<1>2. /\ l.kind \in Kinds /\ l.interval \in Nat /\ l.remaining \in Nat
      /\ l.state \in States \cup {None} /\ l.command \in Requests
  BY DEF Lines, Taken
<1>3. NoJob \in Job
  BY <1>1 DEF NoJob, Job, Kinds
<1>4. Restored(l) \in Job
  BY <1>1, <1>2, <1>3 DEF Restored, Job
<1> QED
  BY <1>4 DEF Restored, NoJob

LEMMA FilledTyped ==
  ASSUME NEW j \in Job, NEW r \in Taken, NEW field
  PROVE  Filled(j, r, field) \in Job
<1>1. /\ r.kind \in Kinds /\ r.state \in States \cup {None} /\ r.interval \in Nat /\ Limit(r) \in Nat
  BY RequestFields
<1> QED
  BY <1>1 DEF Filled, Job

\* A job that is not a once job and whose fields are all stored makes a line.
LEMMA LineTyped ==
  ASSUME NEW j \in Job, StoredJob(j, {}), j.kind # "Once"
  PROVE  Line(j) \in Lines
<1>1. /\ j.kind \in Kinds \ {"Once"} /\ j.interval \in Nat /\ j.remaining \in Nat
      /\ j.state \in States \cup {None} /\ j.command \in Taken
  BY JobFields DEF StoredJob
<1>2. /\ j.kind = j.command.kind
      /\ j.command.kind # "OnStateEnter" => j.interval > 0
      /\ j.command.kind = "OnStateEnter" => j.state = j.command.state
  BY DEF StoredJob
<1> QED
  BY <1>1, <1>2 DEF Line, Lines

\* The whole occurrences that went by.
LEMMA WholeOccurrences ==
  ASSUME NEW d \in Nat, NEW i \in Nat \ {0}
  PROVE  d \div i \in Nat /\ (d \div i) * i <= d
<1> DEFINE k == d \div i
<1>1. k \in Int /\ i * k <= d /\ d < i * k + i
  OBVIOUS
<1> HIDE DEF k
<1>2. k >= 0
  <2> SUFFICES ASSUME k <= -1 PROVE FALSE
    BY <1>1
  <2>1. i * k <= i * (-1)
    BY <1>1
  <2> QED
    BY <1>1, <2>1
<1> QED
  BY <1>1, <1>2 DEF k

LEMMA PolledTyped ==
  ASSUME NEW j \in Job, NEW t \in Nat, NEW state, ~Divides0(j, t, state)
  PROVE  /\ Polled(j, t, state) \in Job
         /\ Due(j, t, state) => Missed(j, t) \in Nat
<1> USE JobFields
<1>1. Due(j, t, state) /\ j.kind # "OnStateEnter" => t - j.next \in Nat /\ j.interval \in Nat \ {0}
  BY DEF Due, Divides0
<1>2. Due(j, t, state) => Missed(j, t) \in Nat
  BY <1>1, WholeOccurrences DEF Missed
<1>3. Resumed(j, t) \in Nat
  BY DEF Resumed
<1>4. /\ t + j.interval \in Nat /\ j.fired + 1 \in Nat
      /\ (IF j.remaining = 0 THEN 0 ELSE j.remaining - 1) \in Nat
      /\ (j.active /\ j.remaining # 1) \in BOOLEAN
  OBVIOUS
<1>5. Fired(j, t) \in Job
  BY <1>3, <1>4 DEF Fired, Job
<1>6. [j EXCEPT !.next = t + j.interval] \in Job
  BY <1>4 DEF Job
<1> QED
  BY <1>2, <1>5, <1>6 DEF Polled

-----------------------------------------------------------------------------
(* The variables keep their types.                                         *)

\* The call in progress, by its kind.
LEMMA CallShapes ==
  ASSUME CallTyped
  PROVE  /\ call.op \in {None, "found", "fill", "cancelAll", "look", "copy", "open", "write"}
         /\ call.op = None <=> call = Idle
         /\ call.op \in {"found", "fill"} => call.slot \in Slots /\ call.request \in Taken
         /\ call.op = "fill" => call.todo \in SUBSET Fields /\ call.todo # {}
         /\ call.op \in {"cancelAll", "look", "copy"} => call.slot \in Slots
         /\ call.op \in {"look", "copy", "open", "write"} => call.lines \in Seq(Lines)
<1> USE DEF Idle, None
<1>1. CASE call = Idle
  BY <1>1
<1>2. CASE call \in [op : {"found"}, slot : Slots, request : Taken]
  BY <1>2
<1>3. CASE call \in [op : {"fill"}, slot : Slots, request : Taken, todo : (SUBSET Fields) \ {{}}]
  BY <1>3
<1>4. CASE call \in [op : {"cancelAll"}, slot : Slots]
  BY <1>4
<1>5. CASE \/ call.op \in {"look", "copy"} /\ call.slot \in Slots /\ call.lines \in Seq(Lines)
           \/ call.op \in {"open", "write"} /\ call.lines \in Seq(Lines)
  BY <1>5
<1> QED
  BY <1>1, <1>2, <1>3, <1>4, <1>5 DEF CallTyped

LEMMA CursorTyped ==
  ASSUME CallTyped, call = Idle \/ call.op \in {"cancelAll", "look", "copy"}
  PROVE  Cursor \in Slots
<1>1. 1 \in Slots
  BY JobAssumption DEF Slots
<1> QED
  BY <1>1, CallShapes DEF Cursor

LEMMA NextSlotTyped ==
  ASSUME CallTyped, call = Idle \/ call.op \in {"cancelAll", "look", "copy"}, Cursor # NSlots
  PROVE  Cursor + 1 \in Slots
<1>1. Cursor \in 1 .. NSlots
  BY CursorTyped DEF Slots
<1> QED
  BY <1>1, JobAssumption DEF Slots

LEMMA AfterSlotTyped ==
  ASSUME CallTyped, call = Idle \/ call.op \in {"look", "copy"}, NEW lines \in Seq(Lines),
         call' = AfterSlot(lines)
  PROVE  CallTyped'
BY NextSlotTyped DEF CallTyped, AfterSlot

LEMMA CallStep ==
  ASSUME Typed, JobsKept, CallKept, [Next]_vars
  PROVE  CallTyped'
<1> USE DEF Typed
<1>0. CallTyped /\ <<>> \in Seq(Lines)
  OBVIOUS
<1>1. CASE \E r \in Requests : FindSlot(r)
  BY <1>1 DEF FindSlot, FirstFree, Free, CallTyped, Taken
<1>2. CASE TakeSlot
  <2>1. call.slot \in Slots /\ call.request \in Taken
    BY <1>0, <1>2, CallShapes DEF TakeSlot
  <2>2. Stores(call.request) \in SUBSET Fields /\ "next_id" \in Stores(call.request)
    BY DEF Stores, Fields
  <2>3. call' \in [op : {"fill"}, slot : Slots, request : Taken, todo : (SUBSET Fields) \ {{}}]
    BY <1>2, <2>1, <2>2 DEF TakeSlot
  <2> QED
    BY <2>3 DEF CallTyped
<1>3. CASE StoreField
  <2>1. PICK field \in call.todo :
          call' = IF call.todo = {field} THEN Idle ELSE [call EXCEPT !.todo = call.todo \ {field}]
    BY <1>3 DEF StoreField
  <2>2. call \in [op : {"fill"}, slot : Slots, request : Taken, todo : (SUBSET Fields) \ {{}}]
    BY <1>0, <1>3 DEF StoreField, CallTyped, Idle, None
  <2>3. CASE call.todo = {field}
    BY <2>1, <2>3 DEF CallTyped
  <2>4. CASE call.todo # {field}
    <3>1. call.todo \ {field} \in (SUBSET Fields) \ {{}}
      BY <2>1, <2>2, <2>4
    <3>2. call' \in [op : {"fill"}, slot : Slots, request : Taken, todo : (SUBSET Fields) \ {{}}]
      BY <2>1, <2>2, <2>4, <3>1
    <3> QED
      BY <3>2 DEF CallTyped
  <2> QED
    BY <2>3, <2>4
<1>4. CASE CancelAll
  <2>1. CASE Cursor = NSlots
    BY <1>4, <2>1 DEF CancelAll, CallTyped
  <2>2. CASE Cursor # NSlots
    <3>1. Cursor + 1 \in Slots
      BY <1>0, <1>4, <2>2, NextSlotTyped DEF CancelAll
    <3> QED
      BY <1>4, <2>2, <3>1 DEF CancelAll, CallTyped
  <2> QED
    BY <2>1, <2>2
<1>5. CASE LookAtSlot
  <2> DEFINE lines == IF call = Idle THEN <<>> ELSE call.lines
  <2>1. lines \in Seq(Lines) /\ (call = Idle \/ call.op = "look")
    BY <1>0, <1>5, CallShapes DEF LookAtSlot
  <2>2. Cursor \in Slots
    BY <1>0, <2>1, CursorTyped
  <2>3. call' = IF jobs[Cursor].active THEN [op |-> "copy", slot |-> Cursor, lines |-> lines]
                                       ELSE AfterSlot(lines)
    BY <1>5 DEF LookAtSlot
  <2> HIDE DEF lines
  <2>4. CASE jobs[Cursor].active
    BY <2>1, <2>2, <2>3, <2>4 DEF CallTyped
  <2>5. CASE ~jobs[Cursor].active
    BY <1>0, <2>1, <2>3, <2>5, AfterSlotTyped
  <2> QED
    BY <2>4, <2>5
<1>6. CASE CopySlot
  <2> DEFINE j == jobs[call.slot]
             lines == IF j.kind = "Once" THEN call.lines ELSE Append(call.lines, Line(j))
  <2>1. call.op = "copy" /\ call.slot \in Slots /\ call.lines \in Seq(Lines)
    BY <1>0, <1>6, CallShapes DEF CopySlot
  <2>2. j \in Job /\ StoredJob(j, {})
    BY <2>1 DEF CallKept, JobsKept, Kept, Todo, Filling
  <2>3. lines \in Seq(Lines)
    <3>1. CASE j.kind = "Once"
      BY <2>1, <3>1
    <3>2. CASE j.kind # "Once"
      <4>1. Line(j) \in Lines
        BY <2>2, <3>2, LineTyped
      <4> QED
        BY <2>1, <3>2, <4>1
    <3> QED
      BY <3>1, <3>2
  <2>4. call' = AfterSlot(lines)
    BY <1>6 DEF CopySlot
  <2> QED
    BY <1>0, <2>1, <2>3, <2>4, AfterSlotTyped
<1>7. CASE OpenFile
  BY <1>0, <1>7, CallShapes DEF OpenFile, CallTyped
<1>8. CASE WriteFile
  BY <1>8 DEF WriteFile, CallTyped
<1>9. CASE Reboot \/ Panic
  BY <1>9 DEF Reboot, Panic, Restarted, CallTyped
<1>10. CASE (\E id \in 1 .. IdMax : Cancel(id)) \/ RoutineStep \/ UNCHANGED vars
  <2>1. call' = call
    BY <1>10 DEF Cancel, RoutineStep, ReadFile, LoadLine, EndLoad, Poll, vars
  <2> QED
    BY <1>0, <2>1 DEF CallTyped
<1> QED
  BY <1>1, <1>2, <1>3, <1>4, <1>5, <1>6, <1>7, <1>8, <1>9, <1>10 DEF Next, ShellStep

\* What a call stands for is in the table before it is filled.
LEMMA FillsItsSlot ==
  ASSUME CallTyped, NEW s \in Slots
  PROVE  /\ Todo(s) \in SUBSET Fields
         /\ Filling(s) <=> Todo(s) # {}
         /\ Filling(s) => call.op = "fill" /\ s = call.slot /\ Todo(s) = call.todo
BY CallShapes DEF Todo, Filling

LEMMA ExceptTyped ==
  ASSUME NEW S, NEW T, NEW f \in [S -> T], NEW x \in S, NEW v \in T
  PROVE  /\ [f EXCEPT ![x] = v] \in [S -> T]
         /\ [f EXCEPT ![x] = v][x] = v
         /\ \A y \in S \ {x} : [f EXCEPT ![x] = v][y] = f[y]
OBVIOUS

\* The table and what is remembered of it.
LEMMA TableStep ==
  ASSUME Typed, [Next]_vars
  PROVE  jobs' \in [Slots -> Job] /\ seen' \in [Slots -> Sight]
<1> USE DEF Typed
<1>0. next_id \in 1 .. IdMax /\ made \in Nat /\ now \in Nat
  BY DEF ClockTyped
<1>1. CASE TakeSlot
  <2>1. call.slot \in Slots /\ call.request \in Taken
    BY <1>1, CallShapes DEF TakeSlot
  <2>2. jobs' = [jobs EXCEPT ![call.slot] = NewJob(call.request)]
    BY <1>1 DEF TakeSlot, NewJob
  <2>3. NewJob(call.request) \in Job
    BY <1>0, <2>1, NewJobTyped
  <2>4. Unseen(Limit(call.request)) \in Sight
    BY <1>0, <2>1, RequestFields DEF Unseen, IdInHand, Sight
  <2>5. seen' = [seen EXCEPT ![call.slot] = Unseen(Limit(call.request))]
    BY <1>1 DEF TakeSlot
  <2> QED
    BY <2>1, <2>2, <2>3, <2>4, <2>5, ExceptTyped
<1>2. CASE StoreField
  <2>1. PICK field \in call.todo :
          jobs' = [jobs EXCEPT ![call.slot] = Filled(jobs[call.slot], call.request, field)]
    BY <1>2 DEF StoreField
  <2>2. call.slot \in Slots /\ call.request \in Taken
    BY <1>2, CallShapes DEF StoreField
  <2>3. Filled(jobs[call.slot], call.request, field) \in Job
    BY <2>2, FilledTyped
  <2>4. seen' = seen
    BY <1>2 DEF StoreField
  <2> QED
    BY <2>1, <2>2, <2>3, <2>4, ExceptTyped
<1>3. CASE (\E id \in 1 .. IdMax : Cancel(id)) \/ CancelAll
  <2>1. PICK s \in Slots : jobs' = [jobs EXCEPT ![s].active = FALSE]
    <3>1. CASE CancelAll
      BY <3>1, CursorTyped DEF CancelAll
    <3> QED
      BY <1>3, <3>1 DEF Cancel
  <2>2. [jobs[s] EXCEPT !.active = FALSE] \in Job
    BY DEF Job
  <2>3. seen' = seen
    BY <1>3 DEF Cancel, CancelAll
  <2> QED
    BY <2>1, <2>2, <2>3, ExceptTyped
<1>4. CASE LoadLine
  <2>1. CASE UNCHANGED <<jobs, seen>>
    BY <2>1
  <2>2. CASE ~UNCHANGED <<jobs, seen>>
    <3> DEFINE line == Head(routine.lines)
    <3>1. line \in Lines
      BY <1>4 DEF LoadLine, FileTyped
    <3>2. PICK s \in Slots :
            /\ jobs' = [jobs EXCEPT ![s] = Restored(line)]
            /\ seen' = [u \in Slots |->
                 IF u = s THEN Unseen(line.remaining)
                          ELSE [seen[u] EXCEPT !.torn = @ \/ Filling(u)]]
      BY <1>4, <2>2 DEF LoadLine
    <3>3. Restored(line) \in Job
      BY <1>0, <3>1, RestoredTyped
    <3>4. Unseen(line.remaining) \in Sight
      BY <1>0, <3>1 DEF Unseen, IdInHand, Sight, Lines
    <3> HIDE DEF line
    <3>5. ASSUME NEW u \in Slots PROVE [seen[u] EXCEPT !.torn = @ \/ Filling(u)] \in Sight
      <4>1. (seen[u].torn \/ Filling(u)) \in BOOLEAN
        OBVIOUS
      <4> QED
        BY <4>1 DEF Sight
    <3> QED
      BY <3>2, <3>3, <3>4, <3>5, ExceptTyped
  <2> QED
    BY <2>1, <2>2
<1>5. CASE Poll
  <2>1. PICK t \in now + 1 .. MaxTime, state \in States :
          /\ \A s \in Slots : ~Divides0(jobs[s], t, state)
          /\ jobs' = [s \in Slots |-> Polled(jobs[s], t, state)]
          /\ seen' = [s \in Slots |->
               [seen[s] EXCEPT
                  !.torn   = @ \/ Filling(s),
                  !.since  = IF jobs[s].active /\ ~Filling(s) /\ @ = 0 THEN t ELSE @,
                  !.missed = IF Due(jobs[s], t, state) THEN @ + Missed(jobs[s], t) ELSE @]]
    BY <1>5 DEF Poll
  <2>2. t \in Nat
    BY <1>0, JobAssumption
  <2>3. ASSUME NEW s \in Slots
        PROVE  /\ Polled(jobs[s], t, state) \in Job
               /\ Due(jobs[s], t, state) => Missed(jobs[s], t) \in Nat
    BY <2>1, <2>2, PolledTyped
  <2>4. ASSUME NEW s \in Slots PROVE seen'[s] \in Sight
    <3> DEFINE torn == seen[s].torn \/ Filling(s)
               since == IF jobs[s].active /\ ~Filling(s) /\ seen[s].since = 0 THEN t ELSE seen[s].since
               missed == IF Due(jobs[s], t, state) THEN seen[s].missed + Missed(jobs[s], t)
                                                   ELSE seen[s].missed
    <3>1. seen[s] \in Sight /\ seen[s].since \in Nat /\ seen[s].missed \in Nat
      BY DEF Sight
    <3>2. torn \in BOOLEAN /\ since \in Nat /\ missed \in Nat
      BY <2>2, <2>3, <3>1
    <3>3. seen'[s] = [seen[s] EXCEPT !.torn = torn, !.since = since, !.missed = missed]
      BY <2>1
    <3> HIDE DEF torn, since, missed
    <3> QED
      BY <3>1, <3>2, <3>3 DEF Sight
  <2> QED
    BY <2>1, <2>3, <2>4
<1>6. CASE Reboot \/ Panic
  <2>1. jobs' = [s \in Slots |-> NoJob] /\ seen' = [s \in Slots |-> [Unseen(0) EXCEPT !.nth = 0, !.unsure = FALSE]]
    BY <1>6 DEF Reboot, Panic, Restarted
  <2>2. NoJob \in Job
    BY JobAssumption DEF NoJob, Job, Kinds
  <2>3. [Unseen(0) EXCEPT !.nth = 0, !.unsure = FALSE] \in Sight
    BY <1>0 DEF Unseen, IdInHand, Sight
  <2> QED
    BY <2>1, <2>2, <2>3
<1>7. CASE \/ \E r \in Requests : FindSlot(r)
           \/ LookAtSlot \/ CopySlot \/ OpenFile \/ WriteFile \/ ReadFile \/ EndLoad \/ UNCHANGED vars
  <2>1. UNCHANGED <<jobs, seen>>
    BY <1>7 DEF FindSlot, LookAtSlot, CopySlot, OpenFile, WriteFile, ReadFile, EndLoad, vars
  <2> QED
    BY <2>1
<1> QED
  BY <1>1, <1>2, <1>3, <1>4, <1>5, <1>6, <1>7 DEF Next, ShellStep, RoutineStep

\* The id in hand is counted, once, up from itself or from what next_id is by now.
LEMMA IdIsCounted ==
  ASSUME Typed, InOrder, StoreField
  PROVE  \E field \in call.todo :
           /\ call' = IF call.todo = {field} THEN Idle ELSE [call EXCEPT !.todo = call.todo \ {field}]
           /\ field # "next_id" => UNCHANGED <<next_id, made>>
           /\ field = "next_id" => /\ IdInHand /\ Frontier \in Nat
                                   /\ made' \in Nat /\ Frontier < made' /\ made' <= made + 1
                                   /\ next_id' = IdAfter(made')
<1>1. PICK field \in call.todo :
        /\ call' = IF call.todo = {field} THEN Idle ELSE [call EXCEPT !.todo = call.todo \ {field}]
        /\ \/ field # "next_id" /\ UNCHANGED <<next_id, made>>
           \/ field = "next_id" /\ next_id' = NextId(next_id) /\ made' = made + 1
           \/ /\ field = "next_id" /\ next_id' = NextId(jobs[call.slot].id)
              /\ made' = seen[call.slot].nth + 1
  BY DEF StoreField
<1>2. CASE field # "next_id"
  BY <1>1, <1>2
<1>3. CASE field = "next_id"
  <2>1. call.op = "fill" /\ IdInHand
    BY <1>3 DEF StoreField, IdInHand
  <2>2. call.slot \in Slots
    BY <2>1, CallShapes DEF Typed
  <2>3. Frontier = seen[call.slot].nth /\ Frontier \in Nat /\ made \in Nat
    BY <2>1, <2>2 DEF Frontier, Typed, ClockTyped, Sight
  <2>4. /\ Frontier <= made /\ next_id = IdAfter(made) /\ jobs[call.slot].id = IdAfter(Frontier)
    BY <2>1 DEF InOrder
  <2>5. NextId(IdAfter(made)) = IdAfter(made + 1) /\ NextId(IdAfter(Frontier)) = IdAfter(Frontier + 1)
    BY <2>3, IdsFollow
  <2> HIDE DEF Frontier
  <2>6. /\ made' = made + 1 \/ made' = Frontier + 1
        /\ next_id' = IdAfter(made')
    BY <1>1, <1>3, <2>3, <2>4, <2>5
  <2>7. made' \in Nat /\ Frontier < made' /\ made' <= made + 1
    BY <2>3, <2>4, <2>6
  <2> QED
    BY <1>1, <1>3, <2>1, <2>3, <2>6, <2>7
<1> QED
  BY <1>2, <1>3

LEMMA ClockStep ==
  ASSUME Typed, InOrder, [Next]_vars
  PROVE  ClockTyped' /\ next_id' = IdAfter(made')
<1> USE DEF Typed, ClockTyped
<1>0. made \in Nat /\ 0 \in Nat /\ IdAfter(0) = 1
  <2>1. 0 % IdMax = 0
    BY JobAssumption
  <2> QED
    BY <2>1 DEF IdAfter
<1>a. next_id = IdAfter(made)
  BY DEF InOrder
<1>1. CASE StoreField \/ LoadLine
  <2>1. UNCHANGED <<last_state, now>>
    BY <1>1 DEF StoreField, LoadLine
  <2>2. \/ UNCHANGED <<next_id, made>>
        \/ made' \in Nat /\ next_id' = IdAfter(made')
    <3>1. CASE StoreField
      BY <3>1, IdIsCounted
    <3>2. CASE LoadLine
      <4>1. IdAfter(made + 1) = NextId(IdAfter(made)) /\ made + 1 \in Nat
        BY <1>0, IdsFollow
      <4> QED
        BY <1>a, <3>2, <4>1 DEF LoadLine
    <3> QED
      BY <1>1, <3>1, <3>2
  <2>3. made' \in Nat => IdAfter(made') \in 1 .. IdMax
    BY IdsFollow
  <2> QED
    BY <1>a, <2>1, <2>2, <2>3
<1>2. CASE Poll
  <2>1. PICK t \in now + 1 .. MaxTime, state \in States : now' = t /\ last_state' = state
    BY <1>2, Zenon DEF Poll
  <2>2. UNCHANGED <<next_id, made>>
    BY <1>2 DEF Poll
  <2> QED
    BY <1>a, <2>1, <2>2, JobAssumption
<1>3. CASE Reboot \/ Panic
  <2>1. next_id' = 1 /\ last_state' = None /\ now' = 0 /\ made' = 0
    BY <1>3 DEF Reboot, Panic, Restarted
  <2> QED
    BY <1>0, <2>1, JobAssumption
<1>4. CASE \/ \E r \in Requests : FindSlot(r)
           \/ TakeSlot \/ CancelAll \/ (\E id \in 1 .. IdMax : Cancel(id))
           \/ LookAtSlot \/ CopySlot \/ OpenFile \/ WriteFile \/ ReadFile \/ EndLoad \/ UNCHANGED vars
  <2>1. UNCHANGED <<next_id, last_state, now, made>>
    BY <1>4 DEF FindSlot, TakeSlot, CancelAll, Cancel, LookAtSlot, CopySlot, OpenFile, WriteFile,
                ReadFile, EndLoad, vars
  <2> QED
    BY <1>a, <2>1
<1> QED
  BY <1>1, <1>2, <1>3, <1>4 DEF Next, ShellStep, RoutineStep

LEMMA FileStep ==
  ASSUME Typed, [Next]_vars
  PROVE  FileTyped'
<1> USE DEF Typed, FileTyped
<1>0. <<>> \in Seq(Lines)
  OBVIOUS
<1>1. CASE OpenFile
  BY <1>0, <1>1 DEF OpenFile
<1>2. CASE WriteFile
  <2>1. call.lines \in Seq(Lines)
    BY <1>2, CallShapes DEF WriteFile
  <2>2. PICK n \in 0 .. Len(call.lines) : saved' = SubSeq(call.lines, 1, n)
    BY <1>2 DEF WriteFile
  <2>3. SubSeq(call.lines, 1, n) \in Seq(Lines)
    BY <2>1, <2>2
  <2> QED
    BY <1>2, <2>2, <2>3 DEF WriteFile
<1>3. CASE ReadFile
  <2>1. PICK lines \in {saved, <<>>} : routine' = [at |-> "read", lines |-> lines]
    BY <1>3, Zenon DEF ReadFile
  <2>2. lines \in Seq(Lines) /\ saved' = saved
    BY <1>0, <1>3, <2>1 DEF ReadFile
  <2> QED
    BY <2>1, <2>2
<1>4. CASE LoadLine
  <2>1. Tail(routine.lines) \in Seq(Lines)
    BY <1>4 DEF LoadLine
  <2> QED
    BY <1>4, <2>1 DEF LoadLine
<1>5. CASE EndLoad
  <2>1. routine'.lines = routine.lines /\ routine'.at = "loop" /\ saved' = saved
    BY <1>5 DEF EndLoad
  <2> QED
    BY <1>0, <2>1
<1>6. CASE Reboot \/ Panic
  <2>1. routine'.lines = <<>> /\ routine'.at = "boot" /\ saved' = saved
    BY <1>6 DEF Reboot, Panic, Restarted, Booting
  <2> QED
    BY <1>0, <2>1
<1>7. CASE \/ \E r \in Requests : FindSlot(r)
           \/ TakeSlot \/ StoreField \/ CancelAll \/ (\E id \in 1 .. IdMax : Cancel(id))
           \/ LookAtSlot \/ CopySlot \/ Poll \/ UNCHANGED vars
  <2>1. UNCHANGED <<saved, routine>>
    BY <1>7 DEF FindSlot, TakeSlot, StoreField, CancelAll, Cancel, LookAtSlot, CopySlot, Poll, vars
  <2> QED
    BY <2>1
<1> QED
  BY <1>1, <1>2, <1>3, <1>4, <1>5, <1>6, <1>7 DEF Next, ShellStep, RoutineStep

LEMMA TypedStep ==
  ASSUME IInv, [Next]_vars
  PROVE  Typed'
<1>1. Typed /\ JobsKept /\ CallKept /\ InOrder
  BY DEF IInv
<1>2. CallTyped'
  BY <1>1, CallStep
<1>3. jobs' \in [Slots -> Job] /\ seen' \in [Slots -> Sight]
  BY <1>1, TableStep
<1>4. ClockTyped' /\ FileTyped'
  BY <1>1, ClockStep, FileStep
<1> QED
  BY <1>2, <1>3, <1>4 DEF Typed

-----------------------------------------------------------------------------
(* The bound on the ids is kept.                                           *)

LEMMA RoomStep ==
  ASSUME Typed, Room, InOrder, [Next]_vars
  PROVE  Room'
<1>0. made \in Nat /\ MaxJobs \in Nat /\ (Pending => made < MaxJobs) /\ made <= MaxJobs
  BY JobAssumption DEF Typed, ClockTyped, Room
<1>1. CASE ShellStep
  <2>1. routine.at # "load" /\ routine' = routine
    BY <1>1 DEF ShellStep, FindSlot, TakeSlot, StoreField, Cancel, CancelAll, LookAtSlot, CopySlot,
                OpenFile, WriteFile
  <2>2. made' <= MaxJobs /\ (Pending' => made' < MaxJobs)
    <3>1. CASE \E r \in Requests : FindSlot(r)
      <4>1. made' = made /\ made < MaxJobs
        BY <3>1 DEF FindSlot
      <4> QED
        BY <1>0, <4>1
    <3>2. CASE TakeSlot
      <4>1. made' = made /\ Pending
        BY <3>2 DEF TakeSlot, Pending, IdInHand
      <4> QED
        BY <1>0, <4>1
    <3>3. CASE StoreField
      <4>1. PICK field \in call.todo :
              /\ call' = IF call.todo = {field} THEN Idle
                         ELSE [call EXCEPT !.todo = call.todo \ {field}]
              /\ field # "next_id" => made' = made
              /\ field = "next_id" => made' \in Nat /\ made' <= made + 1
        BY <3>3, IdIsCounted
      <4>2. call.op = "fill" /\ call \in [op : {"fill"}, slot : Slots, request : Taken,
                                          todo : (SUBSET Fields) \ {{}}]
        BY <3>3 DEF StoreField, Typed, CallTyped, Idle, None
      <4>3. call'.op = "fill" => call'.todo = call.todo \ {field}
        BY <4>1, <4>2 DEF Idle, None
      <4>4. call'.op # "found"
        BY <4>1, <4>2 DEF Idle, None
      <4>5. CASE field = "next_id"
        <5>1. Pending /\ ~Pending' /\ made' \in Nat /\ made' <= made + 1
          BY <4>1, <4>2, <4>3, <4>4, <4>5 DEF Pending, IdInHand
        <5> QED
          BY <1>0, <5>1
      <4>6. CASE field # "next_id"
        <5>1. Pending' => Pending
          BY <4>1, <4>2, <4>3, <4>4, <4>6 DEF Pending, IdInHand
        <5>2. made' = made
          BY <4>1, <4>6
        <5> QED
          BY <1>0, <5>1, <5>2
      <4> QED
        BY <4>5, <4>6
    <3>4. CASE \/ \E id \in 1 .. IdMax : Cancel(id)
               \/ CancelAll \/ LookAtSlot \/ CopySlot \/ OpenFile \/ WriteFile
      <4>1. made' = made
        BY <3>4 DEF Cancel, CancelAll, LookAtSlot, CopySlot, OpenFile, WriteFile
      <4>2. call'.op \notin {"found", "fill"}
        <5>1. CASE (\E id \in 1 .. IdMax : Cancel(id)) \/ CancelAll
          BY <5>1 DEF Cancel, CancelAll, Idle, None
        <5>2. CASE LookAtSlot \/ CopySlot
          BY <5>2 DEF LookAtSlot, CopySlot, AfterSlot, Idle, None
        <5>3. CASE OpenFile
          <6>1. call.op = "open" /\ call' = [call EXCEPT !.op = "write"]
            BY <5>3 DEF OpenFile
          <6>2. call'.op = call.op \/ call'.op = "write"
            BY <6>1
          <6> QED
            BY <6>1, <6>2
        <5>4. CASE WriteFile
          BY <5>4 DEF WriteFile, Idle, None
        <5> QED
          BY <3>4, <5>1, <5>2, <5>3, <5>4
      <4>3. ~Pending'
        BY <4>2 DEF Pending, IdInHand
      <4> QED
        BY <1>0, <4>1, <4>3
    <3> QED
      BY <1>1, <3>1, <3>2, <3>3, <3>4 DEF ShellStep
  <2> QED
    BY <2>1, <2>2 DEF Room
<1>2. CASE LoadLine
  <2>1. /\ routine.at \in {"read", "load"} /\ routine.lines # <<>> /\ Fits /\ call' = call
        /\ routine' = [at |-> "load", lines |-> Tail(routine.lines)]
        /\ made' = made \/ made' = made + 1
    BY <1>2 DEF LoadLine
  <2>2. /\ Len(routine.lines) \in Nat \ {0} /\ Len(routine'.lines) = Len(routine.lines) - 1
    BY <2>1 DEF Typed, FileTyped
  <2>3. made + Len(routine.lines) < MaxJobs
    BY <2>1 DEF Fits, Room
  <2> QED
    BY <1>0, <2>1, <2>2, <2>3 DEF Room
<1>3. CASE ReadFile \/ EndLoad \/ Poll
  <2>1. UNCHANGED <<made, call>>
    BY <1>3 DEF ReadFile, EndLoad, Poll
  <2>2. routine' = routine \/ routine'.at # "load"
    <3>1. CASE ReadFile
      <4>1. PICK lines \in {saved, <<>>} : routine' = [at |-> "read", lines |-> lines]
        BY <3>1, Zenon DEF ReadFile
      <4> QED
        BY <4>1
    <3>2. CASE EndLoad
      BY <3>2 DEF EndLoad
    <3>3. CASE Poll
      BY <3>3 DEF Poll
    <3> QED
      BY <1>3, <3>1, <3>2, <3>3
  <2> QED
    BY <2>1, <2>2 DEF Room, Pending, IdInHand
<1>4. CASE Reboot \/ Panic
  <2>1. made' = 0 /\ ~Pending' /\ routine'.at = "boot"
    BY <1>4 DEF Reboot, Panic, Restarted, Booting, Pending, IdInHand, Idle, None
  <2> QED
    BY <1>0, <2>1 DEF Room
<1>5. CASE UNCHANGED vars
  BY <1>5 DEF vars, Room, Pending, IdInHand
<1> QED
  BY <1>1, <1>2, <1>3, <1>4, <1>5 DEF Next, RoutineStep

-----------------------------------------------------------------------------
(* What is done to one job keeps it in order.                              *)

LEMMA SightFields ==
  ASSUME NEW e \in Sight
  PROVE  /\ e.limit \in Nat /\ e.since \in Nat /\ e.missed \in Nat /\ e.torn \in BOOLEAN /\ e.nth \in Nat
         /\ e.unsure \in BOOLEAN
BY DEF Sight

LEMMA DroppedIsKept ==
  ASSUME NEW j \in Job, NEW e \in Sight, NEW todo, NEW t, Kept(j, e, todo, t)
  PROVE  Kept([j EXCEPT !.active = FALSE], e, todo, t)
<1> DEFINE d == [j EXCEPT !.active = FALSE]
<1>1. /\ ~d.active /\ d.kind = j.kind /\ d.state = j.state /\ d.interval = j.interval
      /\ d.next = j.next /\ d.remaining = j.remaining /\ d.fired = j.fired /\ d.command = j.command
  BY DEF Job
<1> HIDE DEF d
<1>2. StoredJob(d, todo) /\ (Awaits(j, e, todo) => Awaits(d, e, todo))
  BY <1>1 DEF Kept, StoredJob, Awaits
<1>3. (CountsDown(j, e) => CountsDown(d, e)) /\ (KeepsTime(j, e, t) => KeepsTime(d, e, t))
  BY <1>1 DEF CountsDown, KeepsTime
<1>4. Kept(d, e, todo, t)
  BY <1>1, <1>2, <1>3, Zenon DEF Kept
<1> QED
  BY <1>4 DEF d

\* An interrupted call leaves a slot whose stored fields can still be relied upon.
LEMMA TornIsKept ==
  ASSUME NEW j, NEW e, NEW d \in Sight, NEW todo, NEW t, NEW u, Kept(j, e, todo, t), d.torn
  PROVE  Kept(j, d, todo, u)
BY DEF Kept

LEMMA NewJobIsKept ==
  ASSUME NEW r \in Taken, NEW t, next_id \in 1 .. IdMax, made \in Nat
  PROVE  Kept(NewJob(r), Unseen(Limit(r)), Stores(r), t)
<1> DEFINE j == NewJob(r)  e == Unseen(Limit(r))
<1>1. /\ j.command = r /\ j.kind = "Interval" /\ j.fired = 0 /\ j.next = 0 /\ j.remaining = 0
  BY NewJobTyped
<1>2. e.limit = Limit(r) /\ e.since = 0 /\ e.missed = 0
  BY DEF Unseen
<1>3. r.kind \in Kinds /\ r.repeat \in Nat
  BY RequestFields
<1> HIDE DEF j, e
<1>4. StoredJob(j, Stores(r))
  BY <1>1, <1>3 DEF StoredJob, Stores, Kinds
<1>5. Awaits(j, e, Stores(r))
  BY <1>1, <1>2, <1>3 DEF Awaits, Stores, Limit, Kinds
<1> QED
  BY <1>2, <1>4, <1>5 DEF Kept, j, e

LEMMA RestoredIsKept ==
  ASSUME NEW l \in Lines, NEW t, next_id \in 1 .. IdMax, made \in Nat
  PROVE  Kept(Restored(l), Unseen(l.remaining), {}, t)
<1> DEFINE j == Restored(l)  e == Unseen(l.remaining)
<1>1. /\ j.command = l.command /\ j.kind = l.kind /\ j.state = l.state /\ j.interval = l.interval
      /\ j.remaining = l.remaining /\ j.fired = 0 /\ j.next = 0
  BY RestoredTyped
<1>2. e.limit = l.remaining /\ e.since = 0 /\ e.missed = 0
  BY DEF Unseen
<1>3. /\ l.command \in Taken /\ l.kind \in Kinds \ {"Once"} /\ l.kind = l.command.kind
      /\ l.kind = "Interval" => l.interval > 0
      /\ l.kind = "OnStateEnter" => l.state = l.command.state
  BY DEF Lines
<1> HIDE DEF j, e
<1>4. StoredJob(j, {})
  BY <1>1, <1>3 DEF StoredJob, Kinds
<1>5. Awaits(j, e, {})
  BY <1>1, <1>2 DEF Awaits
<1> QED
  BY <1>2, <1>4, <1>5 DEF Kept, j, e

LEMMA FilledIsKept ==
  ASSUME NEW j \in Job, NEW e \in Sight, NEW todo \in SUBSET Fields, NEW field \in todo, NEW t,
         Kept(j, e, todo, t), j.command \in Taken, e.limit = Limit(j.command)
  PROVE  Kept(Filled(j, j.command, field), e, todo \ {field}, t)
<1> DEFINE r == j.command  d == Filled(j, r, field)  left == todo \ {field}
<1>1. r \in Taken /\ r.kind \in Kinds /\ (r.kind = "OnStateEnter" \/ r.interval > 0)
  BY RequestFields
<1>2. /\ d.command = r /\ d.fired = j.fired /\ d.next = j.next
      /\ d.kind = IF field = "kind" THEN r.kind ELSE j.kind
      /\ d.state = IF field = "state" THEN r.state ELSE j.state
      /\ d.interval = IF field = "interval" THEN r.interval ELSE j.interval
      /\ d.remaining = IF field = "remaining" THEN Limit(r) ELSE j.remaining
  BY DEF Filled, Job
<1>3. ~e.torn => e.since = 0 /\ Awaits(j, e, todo)
  <2>1. todo # {}
    OBVIOUS
  <2> QED
    BY <2>1, Zenon DEF Kept
<1> HIDE DEF d
<1>4. StoredJob(d, left)
  BY <1>1, <1>2 DEF Kept, StoredJob
<1>5. ~e.torn => Awaits(d, e, left)
  BY <1>2, <1>3 DEF Awaits
<1> QED
  BY <1>3, <1>4, <1>5 DEF Kept, d

\* A late occurrence is fired, those behind it are dropped, and the sum stays behind the clock.
LEMMA CaughtUp ==
  ASSUME NEW a \in Nat, NEW i \in Nat \ {0}, NEW next \in Nat, NEW since \in Nat, NEW t \in Nat,
         (a + 1) * i <= next - since, t >= next
  PROVE  LET k == (t - next) \div i
         IN  k \in Nat /\ (a + 1 + k) * i <= t - since /\ (a + 1 + k + 1) * i <= (t + i) - since
<1> DEFINE k == (t - next) \div i
<1>1. k \in Nat /\ k * i <= t - next
  BY WholeOccurrences
<1> HIDE DEF k
<1>2. (a + 1 + k) * i = (a + 1) * i + k * i
  BY <1>1
<1>3. (a + 1 + k + 1) * i = (a + 1 + k) * i + i
  BY <1>1
<1>4. (a + 1) * i \in Int /\ k * i \in Int /\ (a + 1 + k) * i \in Int
  BY <1>1
<1>5. (a + 1 + k) * i <= t - since
  BY <1>1, <1>2, <1>4
<1> QED
  BY <1>1, <1>3, <1>4, <1>5 DEF k

\* What is remembered of a job when poll() has passed a slot that nobody is filling.
Saw(d, e, j, t, state) ==
  /\ d.limit = e.limit
  /\ d.since = IF j.active /\ e.since = 0 THEN t ELSE e.since
  /\ d.missed = IF Due(j, t, state) THEN e.missed + Missed(j, t) ELSE e.missed

\* A poll touches the counters, the schedule and the active flag.
LEMMA PolledFields ==
  ASSUME NEW j \in Job, NEW t, NEW state
  PROVE  LET p == Polled(j, t, state)
         IN  /\ p.kind = j.kind /\ p.state = j.state /\ p.interval = j.interval /\ p.id = j.id
             /\ p.command = j.command
             /\ p.active => j.active
             /\ Due(j, t, state) =>
                  /\ p.fired = j.fired + 1 /\ p.next = Resumed(j, t)
                  /\ p.remaining = IF j.remaining = 0 THEN 0 ELSE j.remaining - 1
                  /\ p.active <=> j.remaining # 1
             /\ ~Due(j, t, state) =>
                  /\ p.fired = j.fired /\ p.remaining = j.remaining
                  /\ p.active <=> j.active
                  /\ p.next = IF j.active /\ j.kind # "OnStateEnter" /\ j.next = 0
                              THEN t + j.interval ELSE j.next
<1>1. CASE Due(j, t, state)
  <2>1. Polled(j, t, state) = Fired(j, t) /\ j.active
    BY <1>1 DEF Polled, Due
  <2> QED
    BY <1>1, <2>1 DEF Fired, Job
<1>2. CASE ~Due(j, t, state) /\ j.active /\ j.kind # "OnStateEnter" /\ j.next = 0
  <2>1. Polled(j, t, state) = [j EXCEPT !.next = t + j.interval]
    BY <1>2 DEF Polled
  <2> QED
    BY <1>2, <2>1 DEF Job
<1>3. CASE ~Due(j, t, state) /\ ~(j.active /\ j.kind # "OnStateEnter" /\ j.next = 0)
  <2>1. Polled(j, t, state) = j
    BY <1>3 DEF Polled
  <2> QED
    BY <1>3, <2>1
<1> QED
  BY <1>1, <1>2, <1>3

\* The count of a job that fires, or does not.
LEMMA PolledCountsDown ==
  ASSUME NEW j \in Job, NEW e \in Sight, NEW d \in Sight, NEW t \in Nat, NEW state,
         Saw(d, e, j, t, state),
         \/ CountsDown(j, e)
         \/ j.fired = 0 /\ j.remaining = e.limit
  PROVE  CountsDown(Polled(j, t, state), d)
<1> DEFINE p == Polled(j, t, state)
<1>1. d.limit = e.limit
  BY DEF Saw
<1>2. j.fired \in Nat /\ j.remaining \in Nat /\ e.limit \in Nat
  BY JobFields, SightFields
<1>3. /\ p.active => j.active
      /\ Due(j, t, state) => /\ p.fired = j.fired + 1 /\ j.active
                             /\ p.remaining = IF j.remaining = 0 THEN 0 ELSE j.remaining - 1
                             /\ p.active <=> j.remaining # 1
      /\ ~Due(j, t, state) => /\ p.fired = j.fired /\ p.remaining = j.remaining
                              /\ p.active <=> j.active
  BY PolledFields DEF Due
<1>4. e.limit # 0 => /\ j.fired <= e.limit
                     /\ j.active => j.remaining >= 1 /\ j.fired + j.remaining = e.limit
  BY <1>2 DEF CountsDown
<1> HIDE DEF p
<1>5. CountsDown(p, d)
  <2> SUFFICES ASSUME e.limit # 0
               PROVE  /\ p.fired <= e.limit
                      /\ p.active => p.remaining >= 1 /\ p.fired + p.remaining = e.limit
    BY <1>1 DEF CountsDown
  <2>1. CASE Due(j, t, state)
    BY <1>2, <1>3, <1>4, <2>1
  <2>2. CASE ~Due(j, t, state)
    BY <1>2, <1>3, <1>4, <2>2
  <2> QED
    BY <2>1, <2>2
<1> QED
  BY <1>5 DEF p

\* The schedule of a timed job that the poll anchors.
LEMMA AnchoredKeepsTime ==
  ASSUME NEW j \in Job, NEW e \in Sight, NEW d \in Sight, NEW t \in Nat \ {0}, NEW state,
         j.kind # "OnStateEnter", j.interval > 0, j.active, j.next = 0,
         Saw(d, e, j, t, state), j.fired = 0, e.missed = 0, e.since = 0
  PROVE  KeepsTime(Polled(j, t, state), d, t)
<1> DEFINE p == Polled(j, t, state)
<1>1. ~Due(j, t, state)
  BY DEF Due
<1>2. d.since = t /\ d.missed = 0
  BY <1>1 DEF Saw
<1>3. p.fired = 0 /\ p.next = t + j.interval /\ p.interval = j.interval
  BY <1>1, PolledFields
<1>4. j.interval \in Nat
  BY JobFields
<1> HIDE DEF p
<1>5. KeepsTime(p, d, t)
  BY <1>2, <1>3, <1>4 DEF KeepsTime
<1> QED
  BY <1>5 DEF p

\* The schedule of a timed job that the poll finds anchored.
LEMMA PolledKeepsTime ==
  ASSUME NEW j \in Job, NEW e \in Sight, NEW d \in Sight, NEW now0 \in Nat, NEW t \in Nat, t > now0, NEW state,
         j.kind # "OnStateEnter", j.interval > 0, e.since # 0, e.since <= now0, KeepsTime(j, e, now0),
         Saw(d, e, j, t, state)
  PROVE  KeepsTime(Polled(j, t, state), d, t)
<1> DEFINE p == Polled(j, t, state)
           f == p.fired + d.missed  g == p.next
           a == j.fired + e.missed  i == j.interval  next == j.next  since == e.since
<1>1. a \in Nat /\ i \in Nat \ {0} /\ next \in Nat /\ since \in Nat /\ j.fired \in Nat /\ e.missed \in Nat
  BY JobFields, SightFields
<1>2. /\ a * i <= now0 - since
      /\ j.active => (a + 1) * i <= next - since /\ next > now0 /\ next <= now0 + i
  BY <1>1 DEF KeepsTime
<1>3. d.since = since
  BY DEF Saw
<1>4. p.interval = i /\ (p.active => j.active)
  BY PolledFields
<1> SUFFICES /\ f * i <= t - since
             /\ p.active => (f + 1) * i <= g - since /\ g - t \in 1 .. i
  BY <1>3, <1>4 DEF KeepsTime
<1>5. CASE ~Due(j, t, state)
  <2>1. p.fired = j.fired /\ d.missed = e.missed
    BY <1>5, PolledFields DEF Saw
  <2>2. j.active => g = next /\ t < next
    BY <1>1, <1>2, <1>5, PolledFields DEF Due
  <2> HIDE DEF p
  <2>3. f = a
    BY <2>1
  <2> HIDE DEF f, g, a, i, next, since
  <2>4. a * i \in Int /\ (a + 1) * i \in Int
    BY <1>1
  <2>5. a * i <= t - since
    BY <1>1, <1>2, <2>4
  <2>6. j.active => g - t \in 1 .. i
    BY <1>1, <1>2, <2>2
  <2> QED
    BY <1>2, <1>4, <2>2, <2>3, <2>5, <2>6
<1>6. CASE Due(j, t, state)
  <2>1. j.active /\ t >= next
    BY <1>6 DEF Due
  <2>2. /\ p.fired = j.fired + 1 /\ g = Resumed(j, t)
        /\ d.missed = e.missed + Missed(j, t)
    BY <1>6, PolledFields DEF Saw
  <2>3. CASE Late(j, t)
    <3> DEFINE k == (t - next) \div i
    <3>1. Missed(j, t) = k /\ Resumed(j, t) = t + i
      BY <2>3 DEF Missed, Resumed
    <3>2. k \in Nat /\ (a + 1 + k) * i <= t - since /\ (a + 1 + k + 1) * i <= (t + i) - since
      BY <1>1, <1>2, <2>1, CaughtUp
    <3> HIDE DEF p, k
    <3>3. f = a + 1 + k /\ g = t + i
      BY <1>1, <2>2, <3>1, <3>2
    <3> HIDE DEF f, g, a, i, next, since
    <3>4. g - t \in 1 .. i
      BY <1>1, <3>3
    <3>5. f * i <= t - since
      BY <3>2, <3>3, Zenon
    <3>6. (f + 1) * i <= (t + i) - since
      BY <3>2, <3>3, Zenon
    <3>7. (f + 1) * i <= g - since
      BY <3>3, <3>6, Zenon
    <3> QED
      BY <3>4, <3>5, <3>7
  <2>4. CASE ~Late(j, t)
    <3>1. Missed(j, t) = 0 /\ Resumed(j, t) = next + i
      BY <2>4 DEF Missed, Resumed
    <3>2. t - next < i
      BY <1>1, <2>1, <2>4 DEF Late
    <3> HIDE DEF p
    <3>3. f = a + 1 /\ g = next + i
      BY <1>1, <2>2, <3>1
    <3> HIDE DEF f, g, a, i, next, since
    <3>4. (a + 1) * i \in Int /\ (a + 1 + 1) * i = (a + 1) * i + i
      BY <1>1
    <3>5. (a + 1) * i <= t - since
      BY <1>1, <1>2, <2>1, <3>4
    <3>6. (a + 1 + 1) * i <= (next + i) - since
      BY <1>1, <1>2, <2>1, <3>4
    <3>7. g - t \in 1 .. i
      BY <1>1, <2>1, <3>2, <3>3
    <3>8. f * i <= t - since
      BY <3>3, <3>5, Zenon
    <3>9. (f + 1) * i <= (next + i) - since
      BY <3>3, <3>6, Zenon
    <3>10. (f + 1) * i <= g - since
      BY <3>3, <3>9, Zenon
    <3> QED
      BY <3>7, <3>8, <3>10
  <2> QED
    BY <2>3, <2>4
<1> QED
  BY <1>5, <1>6

\* A poll that comes upon a slot nobody is filling.
LEMMA PolledIsKept ==
  ASSUME NEW j \in Job, NEW e \in Sight, NEW d \in Sight, NEW now0 \in Nat, NEW t \in Nat, t > now0,
         NEW state, Kept(j, e, {}, now0), Saw(d, e, j, t, state), d.torn <=> e.torn
  PROVE  Kept(Polled(j, t, state), d, {}, t)
<1> DEFINE p == Polled(j, t, state)
<1>0. /\ p.kind = j.kind /\ p.state = j.state /\ p.interval = j.interval /\ p.command = j.command
  BY PolledFields
<1>1. StoredJob(j, {}) /\ StoredJob(p, {})
  BY <1>0 DEF Kept, StoredJob
<1>2. j.kind # "OnStateEnter" => j.interval > 0
  BY <1>1 DEF StoredJob
<1>3. CASE e.torn
  BY <1>1, <1>3 DEF Kept
<1>4. CASE ~e.torn /\ e.since = 0 /\ j.active
  <2>1. j.fired = 0 /\ e.missed = 0 /\ j.next = 0 /\ j.remaining = e.limit
    BY <1>4 DEF Kept, Awaits
  <2>2. d.since = t /\ t \in Nat \ {0}
    BY <1>4 DEF Saw
  <2>3. CountsDown(p, d)
    BY <2>1, PolledCountsDown
  <2>4. j.kind # "OnStateEnter" => KeepsTime(p, d, t)
    BY <1>2, <1>4, <2>1, <2>2, AnchoredKeepsTime
  <2> HIDE DEF p
  <2>5. Kept(p, d, {}, t)
    BY <1>0, <1>1, <1>4, <2>2, <2>3, <2>4 DEF Kept
  <2> QED
    BY <2>5 DEF p
<1>5. CASE ~e.torn /\ e.since = 0 /\ ~j.active
  <2>1. ~Due(j, t, state)
    BY <1>5 DEF Due
  <2>2. Awaits(j, e, {})
    BY <1>5 DEF Kept
  <2>3. d.since = 0 /\ d.missed = e.missed /\ d.limit = e.limit
    BY <1>5, <2>1 DEF Saw
  <2>4. p.fired = j.fired /\ p.next = j.next /\ p.remaining = j.remaining
    BY <1>5, <2>1, PolledFields
  <2> HIDE DEF p
  <2>5. Awaits(p, d, {})
    BY <2>2, <2>3, <2>4 DEF Awaits
  <2>6. Kept(p, d, {}, t)
    BY <1>1, <2>3, <2>5 DEF Kept
  <2> QED
    BY <2>6 DEF p
<1>6. CASE ~e.torn /\ e.since # 0
  <2>1. /\ e.since <= now0 /\ CountsDown(j, e)
        /\ j.kind # "OnStateEnter" => KeepsTime(j, e, now0)
    BY <1>6 DEF Kept
  <2>2. d.since = e.since /\ e.since \in Nat
    BY <1>6, SightFields DEF Saw
  <2>3. CountsDown(p, d)
    BY <2>1, PolledCountsDown
  <2>4. j.kind # "OnStateEnter" => KeepsTime(p, d, t)
    BY <1>2, <1>6, <2>1, PolledKeepsTime
  <2>5. d.since <= t
    BY <2>1, <2>2
  <2> HIDE DEF p
  <2>6. Kept(p, d, {}, t)
    BY <1>0, <1>1, <1>6, <2>2, <2>3, <2>4, <2>5 DEF Kept
  <2> QED
    BY <2>6 DEF p
<1> QED
  BY <1>3, <1>4, <1>5, <1>6

-----------------------------------------------------------------------------
(* Every job is kept.                                                      *)

\* The steps of a call that fills no slot.
LEMMA FillsNothing ==
  ASSUME CallTyped,
         \/ (\E r \in Requests : FindSlot(r)) \/ (\E id \in 1 .. IdMax : Cancel(id))
         \/ CancelAll \/ LookAtSlot \/ CopySlot \/ OpenFile \/ WriteFile
  PROVE  /\ \A s \in Slots : Todo(s) = {} /\ Todo(s)' = {}
         /\ call.op # "fill" /\ call'.op # "fill"
<1>1. call.op # "fill" /\ call'.op # "fill"
  <2>1. CASE (\E r \in Requests : FindSlot(r)) \/ (\E id \in 1 .. IdMax : Cancel(id)) \/ CancelAll
    BY <2>1 DEF FindSlot, Cancel, CancelAll, Idle, None
  <2>2. CASE LookAtSlot \/ CopySlot
    BY <2>2 DEF LookAtSlot, CopySlot, AfterSlot, Idle, None
  <2>3. CASE OpenFile
    <3>1. call.op = "open" /\ call' = [call EXCEPT !.op = "write"]
      BY <2>3 DEF OpenFile
    <3>2. call'.op = call.op \/ call'.op = "write"
      BY <3>1
    <3> QED
      BY <3>1, <3>2
  <2>4. CASE WriteFile
    BY <2>4 DEF WriteFile, Idle, None
  <2> QED
    BY <2>1, <2>2, <2>3, <2>4
<1> QED
  BY <1>1 DEF Todo, Filling

LEMMA JobsStayKept ==
  ASSUME Typed, JobsKept, CallKept, [Next]_vars
  PROVE  JobsKept'
<1> USE DEF Typed
<1>0. /\ next_id \in 1 .. IdMax /\ made \in Nat /\ now \in Nat /\ CallTyped
      /\ \A s \in Slots : jobs[s] \in Job /\ seen[s] \in Sight
  BY DEF ClockTyped
<1> DEFINE Holds(s) == /\ jobs[s].active \/ seen[s].since # 0 => Used(s)
                       /\ Used(s) => Kept(jobs[s], seen[s], Todo(s), now)
<1>a. JobsKept <=> \A s \in Slots : Holds(s)
  BY DEF JobsKept
<1>b. JobsKept' <=> \A s \in Slots : Holds(s)'
  BY DEF JobsKept
<1>1. CASE \/ (\E r \in Requests : FindSlot(r)) \/ LookAtSlot \/ CopySlot \/ OpenFile \/ WriteFile
  <2>1. UNCHANGED <<jobs, seen, now>>
    BY <1>1 DEF FindSlot, LookAtSlot, CopySlot, OpenFile, WriteFile
  <2>2. \A s \in Slots : Todo(s)' = Todo(s)
    BY <1>0, <1>1, FillsNothing
  <2> QED
    BY <1>a, <1>b, <2>1, <2>2 DEF Used
<1>2. CASE ReadFile \/ EndLoad \/ UNCHANGED vars
  <2>1. UNCHANGED <<jobs, seen, now, call>>
    BY <1>2 DEF ReadFile, EndLoad, vars
  <2> QED
    BY <1>a, <1>b, <2>1 DEF Used, Todo, Filling
<1>3. CASE (\E id \in 1 .. IdMax : Cancel(id)) \/ CancelAll
  <2>1. PICK s \in Slots : jobs' = [jobs EXCEPT ![s].active = FALSE]
    <3>1. CASE CancelAll
      BY <3>1, CursorTyped DEF CancelAll
    <3> QED
      BY <1>3, <3>1 DEF Cancel
  <2>2. UNCHANGED <<seen, now>> /\ \A u \in Slots : Todo(u)' = Todo(u)
    BY <1>0, <1>3, FillsNothing DEF Cancel, CancelAll
  <2>3. jobs'[s] = [jobs[s] EXCEPT !.active = FALSE] /\ \A u \in Slots \ {s} : jobs'[u] = jobs[u]
    BY <2>1
  <2>4. Used(s)' = Used(s) /\ jobs'[s].active = FALSE
    BY <1>0, <2>3 DEF Used, Job
  <2>5. Used(s) => Kept(jobs'[s], seen[s], Todo(s), now)
    BY <1>0, <1>a, <2>3, DroppedIsKept
  <2>6. Holds(s)'
    BY <1>a, <2>2, <2>4, <2>5
  <2>7. ASSUME NEW u \in Slots \ {s} PROVE Holds(u)'
    BY <1>a, <2>2, <2>3 DEF Used
  <2> QED
    BY <1>b, <2>6, <2>7
<1>4. CASE TakeSlot
  <2>1. PICK s \in Slots, r \in Taken : s = call.slot /\ r = call.request
    BY <1>0, <1>4, CallShapes DEF TakeSlot
  <2>2. /\ jobs' = [jobs EXCEPT ![s] = NewJob(r)]
        /\ seen' = [seen EXCEPT ![s] = Unseen(Limit(r))]
        /\ call' = [op |-> "fill", slot |-> s, request |-> r, todo |-> Stores(r)]
        /\ now' = now
    BY <1>4, <2>1 DEF TakeSlot, NewJob
  <2>3. jobs'[s] = NewJob(r) /\ seen'[s] = Unseen(Limit(r)) /\ Todo(s)' = Stores(r)
    BY <2>1, <2>2 DEF Todo, Filling
  <2>4. \A u \in Slots \ {s} : jobs'[u] = jobs[u] /\ seen'[u] = seen[u] /\ Todo(u)' = Todo(u)
    BY <2>1, <2>2 DEF Todo, Filling
  <2>5. Used(s)'
    BY <1>0, <2>1, <2>3, NewJobTyped DEF Used
  <2>6. Kept(NewJob(r), Unseen(Limit(r)), Stores(r), now')
    BY <1>0, <2>1, NewJobIsKept
  <2>7. Holds(s)'
    BY <2>3, <2>5, <2>6
  <2>8. ASSUME NEW u \in Slots \ {s} PROVE Holds(u)'
    BY <1>a, <2>2, <2>4 DEF Used
  <2> QED
    BY <1>b, <2>7, <2>8
<1>5. CASE StoreField
  <2>0. PICK s \in Slots, r \in Taken, j \in Job :
          s = call.slot /\ r = call.request /\ j = jobs[s]
    BY <1>0, <1>5, CallShapes DEF StoreField
  <2>1. PICK field \in call.todo :
          /\ jobs' = [jobs EXCEPT ![s] = Filled(j, r, field)]
          /\ call' = IF call.todo = {field} THEN Idle ELSE [call EXCEPT !.todo = call.todo \ {field}]
    BY <1>5, <2>0 DEF StoreField
  <2>2. /\ call.op = "fill" /\ call.todo \in SUBSET Fields
        /\ call \in [op : {"fill"}, slot : Slots, request : Taken, todo : (SUBSET Fields) \ {{}}]
    BY <1>0, <1>5, CallShapes DEF StoreField, CallTyped, Idle, None
  <2>3. UNCHANGED <<seen, now>>
    BY <1>5 DEF StoreField
  <2>4. Used(s) /\ j.command = r /\ seen[s].limit = Limit(r)
    BY <2>0, <2>2 DEF CallKept
  <2>5. Todo(s) = call.todo /\ Todo(s)' = call.todo \ {field}
    BY <2>0, <2>1, <2>2 DEF Todo, Filling, Idle, None
  <2>6. \A u \in Slots \ {s} : Todo(u) = {} /\ Todo(u)' = {}
    BY <2>0, <2>1, <2>2 DEF Todo, Filling, Idle, None
  <2>7. Kept(j, seen[s], call.todo, now)
    BY <1>a, <2>0, <2>4, <2>5
  <2>8. Kept(Filled(j, r, field), seen[s], call.todo \ {field}, now)
    BY <1>0, <2>1, <2>2, <2>4, <2>7, FilledIsKept
  <2>9. jobs'[s] = Filled(j, r, field) /\ \A u \in Slots \ {s} : jobs'[u] = jobs[u]
    BY <1>0, <2>0, <2>1
  <2>10. Filled(j, r, field).id = j.id
    BY <2>0 DEF Filled, Job
  <2>11. Holds(s)'
    BY <2>0, <2>3, <2>4, <2>5, <2>8, <2>9, <2>10 DEF Used
  <2>12. ASSUME NEW u \in Slots \ {s} PROVE Holds(u)'
    BY <1>a, <2>3, <2>6, <2>9 DEF Used
  <2> QED
    BY <1>b, <2>11, <2>12
<1>6. CASE LoadLine
  <2>1. CASE UNCHANGED <<jobs, seen>>
    <3>1. UNCHANGED <<now, call>>
      BY <1>6 DEF LoadLine
    <3> QED
      BY <1>a, <1>b, <2>1, <3>1 DEF Used, Todo, Filling
  <2>2. CASE ~UNCHANGED <<jobs, seen>>
    <3> DEFINE line == Head(routine.lines)
    <3>1. line \in Lines
      BY <1>6 DEF LoadLine, FileTyped
    <3>2. PICK s \in Slots :
            /\ FirstFree(s)
            /\ jobs' = [jobs EXCEPT ![s] = Restored(line)]
            /\ seen' = [u \in Slots |->
                 IF u = s THEN Unseen(line.remaining)
                          ELSE [seen[u] EXCEPT !.torn = @ \/ Filling(u)]]
      BY <1>6, <2>2 DEF LoadLine
    <3>3. UNCHANGED <<now, call>> /\ routine.at # "loop"
      BY <1>6 DEF LoadLine
    <3> HIDE DEF line
    <3>4. jobs'[s] = Restored(line) /\ seen'[s] = Unseen(line.remaining)
      BY <3>2
    <3>5. ~Filling(s)
      BY <3>2, <3>3 DEF FirstFree, Free, Filling, CallKept
    <3>6. Todo(s)' = {} /\ \A u \in Slots : Todo(u)' = Todo(u)
      BY <3>3, <3>5 DEF Todo, Filling
    <3>7. Holds(s)'
      <4>1. Used(s)'
        BY <1>0, <3>1, <3>4, RestoredTyped DEF Used
      <4>2. Kept(Restored(line), Unseen(line.remaining), {}, now')
        BY <1>0, <3>1, RestoredIsKept
      <4> QED
        BY <3>4, <3>6, <4>1, <4>2
    <3>8. ASSUME NEW u \in Slots \ {s} PROVE Holds(u)'
      <4>1. jobs'[u] = jobs[u] /\ seen'[u] = [seen[u] EXCEPT !.torn = seen[u].torn \/ Filling(u)]
        BY <3>2
      <4>2. seen'[u].since = seen[u].since
        BY <1>0, <4>1 DEF Sight
      <4>3. CASE Filling(u)
        <5>1. seen'[u].torn /\ seen'[u] \in Sight
          BY <1>0, <4>1, <4>3, TableStep DEF Sight
        <5>2. Used(u) => Kept(jobs[u], seen'[u], Todo(u), now)
          BY <1>a, <5>1, TornIsKept
        <5> QED
          BY <1>a, <3>3, <3>6, <4>1, <4>2, <5>2 DEF Used
      <4>4. CASE ~Filling(u)
        <5>1. seen'[u] = seen[u]
          BY <1>0, <4>1, <4>4 DEF Sight
        <5> QED
          BY <1>a, <3>3, <3>6, <4>1, <5>1 DEF Used
      <4> QED
        BY <4>3, <4>4
    <3> QED
      BY <1>b, <3>7, <3>8
  <2> QED
    BY <2>1, <2>2
<1>7. CASE Poll
  <2>1. PICK t \in now + 1 .. MaxTime, state \in States :
          /\ now' = t
          /\ jobs' = [s \in Slots |-> Polled(jobs[s], t, state)]
          /\ seen' = [s \in Slots |->
               [seen[s] EXCEPT
                  !.torn   = @ \/ Filling(s),
                  !.since  = IF jobs[s].active /\ ~Filling(s) /\ @ = 0 THEN t ELSE @,
                  !.missed = IF Due(jobs[s], t, state) THEN @ + Missed(jobs[s], t) ELSE @]]
    BY <1>7 DEF Poll
  <2>2. t \in Nat /\ t > now
    BY <1>0, JobAssumption
  <2>3. ASSUME NEW s \in Slots PROVE Holds(s)'
    <3>1. /\ jobs[s] \in Job /\ seen[s] \in Sight /\ seen'[s] \in Sight
          /\ jobs'[s] = Polled(jobs[s], t, state)
      BY <1>0, <2>1, TableStep
    <3>2. /\ seen'[s].torn <=> (seen[s].torn \/ Filling(s))
          /\ seen'[s].since = IF jobs[s].active /\ ~Filling(s) /\ seen[s].since = 0 THEN t ELSE seen[s].since
          /\ seen'[s].missed = IF Due(jobs[s], t, state) THEN seen[s].missed + Missed(jobs[s], t)
                                                         ELSE seen[s].missed
          /\ seen'[s].limit = seen[s].limit
      BY <1>0, <2>1 DEF Sight
    <3>3. jobs'[s].id = jobs[s].id /\ (jobs'[s].active => jobs[s].active)
      BY <3>1, PolledFields
    <3>4. Todo(s)' = Todo(s)
      BY <1>7 DEF Poll, Todo, Filling
    <3>5. jobs'[s].active \/ seen'[s].since # 0 => Used(s)
      BY <1>a, <3>2, <3>3
    <3>6. ASSUME Used(s) PROVE Kept(jobs'[s], seen'[s], Todo(s), t)
      <4>1. Kept(jobs[s], seen[s], Todo(s), now)
        BY <1>a, <3>6
      <4>2. CASE Filling(s)
        <5>1. StoredJob(jobs'[s], Todo(s))
          BY <3>1, <4>1, PolledFields DEF Kept, StoredJob
        <5> QED
          BY <3>2, <4>2, <5>1 DEF Kept
      <4>3. CASE ~Filling(s)
        <5>1. Saw(seen'[s], seen[s], jobs[s], t, state)
          BY <3>2, <4>3 DEF Saw
        <5>2. Todo(s) = {}
          BY <4>3 DEF Todo
        <5> QED
          BY <1>0, <2>2, <3>1, <3>2, <4>1, <4>3, <5>1, <5>2, PolledIsKept
      <4> QED
        BY <4>2, <4>3
    <3> QED
      BY <2>1, <3>3, <3>4, <3>5, <3>6 DEF Used
  <2> QED
    BY <1>b, <2>3, SMTT(30)
<1>8. CASE Reboot \/ Panic
  <2>1. jobs' = [s \in Slots |-> NoJob] /\ seen' = [s \in Slots |-> [Unseen(0) EXCEPT !.nth = 0, !.unsure = FALSE]]
    BY <1>8 DEF Reboot, Panic, Restarted
  <2>2. ASSUME NEW s \in Slots PROVE Holds(s)'
    <3>1. jobs'[s].active = FALSE /\ jobs'[s].id = 0 /\ seen'[s].since = 0
      BY <2>1 DEF NoJob, Unseen
    <3> QED
      BY <3>1 DEF Used
  <2> QED
    BY <1>b, <2>2
<1> QED
  BY <1>1, <1>2, <1>3, <1>4, <1>5, <1>6, <1>7, <1>8 DEF Next, ShellStep, RoutineStep


-----------------------------------------------------------------------------
(* The call in progress finds its slot as it left it.                      *)

\* What a poll leaves alone.
LEMMA PolledSlot ==
  ASSUME Typed, Poll, NEW s \in Slots
  PROVE  /\ jobs'[s].id = jobs[s].id /\ jobs'[s].command = jobs[s].command
         /\ seen'[s].limit = seen[s].limit /\ seen'[s].nth = seen[s].nth
         /\ seen'[s].torn <=> (seen[s].torn \/ Filling(s))
         /\ seen'[s].unsure = seen[s].unsure
<1>1. PICK t \in now + 1 .. MaxTime, state \in States :
        /\ jobs' = [u \in Slots |-> Polled(jobs[u], t, state)]
        /\ seen' = [u \in Slots |->
             [seen[u] EXCEPT
                !.torn   = @ \/ Filling(u),
                !.since  = IF jobs[u].active /\ ~Filling(u) /\ @ = 0 THEN t ELSE @,
                !.missed = IF Due(jobs[u], t, state) THEN @ + Missed(jobs[u], t) ELSE @]]
  BY DEF Poll
<1>2. jobs[s] \in Job /\ seen[s] \in Sight
  BY DEF Typed
<1>3. jobs'[s].id = jobs[s].id /\ jobs'[s].command = jobs[s].command
  <2>1. jobs'[s] = Polled(jobs[s], t, state)
    BY <1>1
  <2> QED
    BY <1>2, <2>1, PolledFields
<1>4. /\ seen'[s].limit = seen[s].limit /\ seen'[s].nth = seen[s].nth
      /\ seen'[s].torn <=> (seen[s].torn \/ Filling(s))
      /\ seen'[s].unsure = seen[s].unsure
  BY <1>1, <1>2 DEF Sight
<1> QED
  BY <1>3, <1>4, SMTT(30)

LEMMA CallStaysKept ==
  ASSUME Typed, JobsKept, CallKept, [Next]_vars
  PROVE  CallKept'
<1> USE DEF Typed
<1>0. /\ next_id \in 1 .. IdMax /\ made \in Nat /\ now \in Nat /\ CallTyped
      /\ \A s \in Slots : jobs[s] \in Job /\ seen[s] \in Sight
  BY DEF ClockTyped
<1>1. CASE \/ (\E r \in Requests : FindSlot(r)) \/ (\E id \in 1 .. IdMax : Cancel(id))
           \/ CancelAll \/ LookAtSlot \/ CopySlot \/ OpenFile \/ WriteFile
  <2>1. call'.op # "fill"
    BY <1>0, <1>1, FillsNothing
  <2>2. ASSUME call'.op = "copy" PROVE jobs'[call'.slot].id # 0
    <3>1. CASE LookAtSlot
      <4>1. Cursor \in Slots
        BY <1>0, <3>1, CursorTyped DEF LookAtSlot
      <4>2. jobs[Cursor].active /\ call'.slot = Cursor /\ jobs' = jobs
        BY <2>2, <3>1 DEF LookAtSlot, AfterSlot
      <4>3. jobs[Cursor].id # 0
        BY <4>1, <4>2 DEF JobsKept, Used
      <4> QED
        BY <4>2, <4>3
    <3>2. CASE ~LookAtSlot
      <4>1. call'.op # "copy"
        <5>1. CASE (\E r \in Requests : FindSlot(r)) \/ CancelAll
          BY <5>1 DEF FindSlot, CancelAll, Idle, None
        <5>2. CASE \E id \in 1 .. IdMax : Cancel(id)
          BY <5>2 DEF Cancel, Idle, None
        <5>3. CASE CopySlot
          BY <5>3 DEF CopySlot, AfterSlot
        <5>4. CASE OpenFile
          <6>1. call.op = "open" /\ call' = [call EXCEPT !.op = "write"]
            BY <5>4 DEF OpenFile
          <6>2. call'.op = call.op \/ call'.op = "write"
            BY <6>1
          <6> QED
            BY <6>1, <6>2
        <5>5. CASE WriteFile
          BY <5>5 DEF WriteFile, Idle, None
        <5> QED
          BY <1>1, <3>2, <5>1, <5>2, <5>3, <5>4, <5>5
      <4> QED
        BY <2>2, <4>1
    <3> QED
      BY <3>1, <3>2
  <2> QED
    BY <2>1, <2>2 DEF CallKept, Used
<1>2. CASE TakeSlot
  <2>1. PICK s \in Slots, r \in Taken : s = call.slot /\ r = call.request
    BY <1>0, <1>2, CallShapes DEF TakeSlot
  <2>2. call' = [op |-> "fill", slot |-> s, request |-> r, todo |-> Stores(r)]
    BY <1>2, <2>1 DEF TakeSlot
  <2>3. jobs'[s] = NewJob(r) /\ seen'[s] = Unseen(Limit(r))
    BY <1>2, <2>1 DEF TakeSlot, NewJob
  <2>4. jobs'[s].id # 0 /\ jobs'[s].active /\ jobs'[s].command = r
    BY <1>0, <2>3, NewJobTyped
  <2>5. seen'[s].limit = Limit(r)
    BY <2>3 DEF Unseen
  <2> QED
    BY <2>2, <2>4, <2>5 DEF CallKept, Used
<1>3. CASE StoreField
  <2>0. PICK s \in Slots, r \in Taken, j \in Job :
          s = call.slot /\ r = call.request /\ j = jobs[s]
    BY <1>0, <1>3, CallShapes DEF StoreField
  <2>1. PICK field \in call.todo :
          /\ jobs' = [jobs EXCEPT ![s] = Filled(j, r, field)]
          /\ call' = IF call.todo = {field} THEN Idle ELSE [call EXCEPT !.todo = call.todo \ {field}]
    BY <1>3, <2>0 DEF StoreField
  <2>2. /\ call.op = "fill" /\ seen' = seen /\ routine' = routine
        /\ call \in [op : {"fill"}, slot : Slots, request : Taken, todo : (SUBSET Fields) \ {{}}]
    BY <1>3 DEF StoreField, CallTyped, Idle, None
  <2>3. call' = Idle \/ (call'.op = "fill" /\ call'.slot = s /\ call'.request = r)
    BY <2>0, <2>1, <2>2
  <2>4. jobs'[s] = Filled(j, r, field)
    BY <1>0, <2>0, <2>1
  <2>5. jobs'[s].id = j.id /\ jobs'[s].active = j.active /\ jobs'[s].command = j.command
    BY <2>0, <2>4 DEF Filled, Job
  <2>6. /\ j.id # 0 /\ j.command = r /\ seen[s].limit = Limit(r)
        /\ routine.at # "loop" => j.active
    BY <2>0, <2>2 DEF CallKept, Used
  <2>7. CASE call' = Idle
    BY <2>7 DEF CallKept, Idle, None
  <2>8. CASE call'.op = "fill" /\ call'.slot = s /\ call'.request = r
    BY <2>2, <2>5, <2>6, <2>8 DEF CallKept, Used
  <2> QED
    BY <2>3, <2>7, <2>8
<1>4. CASE ReadFile \/ EndLoad \/ UNCHANGED vars
  <2>1. UNCHANGED <<jobs, seen, call>> /\ (routine'.at # "loop" => routine.at # "loop")
    <3>1. CASE ReadFile
      BY <3>1 DEF ReadFile
    <3> QED
      BY <1>4, <3>1 DEF EndLoad, vars
  <2> QED
    BY <2>1 DEF CallKept, Used
<1>5. CASE LoadLine
  <2>0. UNCHANGED call /\ routine.at # "loop"
    BY <1>5 DEF LoadLine
  <2>1. CASE UNCHANGED <<jobs, seen>>
    BY <2>0, <2>1 DEF CallKept, Used
  <2>2. CASE ~UNCHANGED <<jobs, seen>>
    <3> DEFINE line == Head(routine.lines)
    <3>1. line \in Lines
      BY <1>5 DEF LoadLine, FileTyped
    <3>2. PICK s \in Slots :
            /\ FirstFree(s)
            /\ jobs' = [jobs EXCEPT ![s] = Restored(line)]
            /\ seen' = [u \in Slots |->
                 IF u = s THEN Unseen(line.remaining)
                          ELSE [seen[u] EXCEPT !.torn = @ \/ Filling(u)]]
      BY <1>5, <2>2 DEF LoadLine
    <3> HIDE DEF line
    <3>3. jobs'[s].id # 0
      BY <1>0, <3>1, <3>2, RestoredTyped
    <3>4. ASSUME NEW u \in Slots \ {s} PROVE jobs'[u] = jobs[u] /\ seen'[u].limit = seen[u].limit
      BY <1>0, <3>2 DEF Sight
    <3>5. ASSUME call.op = "fill" PROVE call.slot \in Slots \ {s}
      <4>1. call.slot \in Slots
        BY <1>0, <3>5, CallShapes
      <4>2. jobs[call.slot].active /\ ~jobs[s].active
        BY <2>0, <3>2, <3>5 DEF CallKept, FirstFree, Free
      <4> QED
        BY <4>1, <4>2
    <3>6. ASSUME call.op = "copy" PROVE jobs'[call.slot].id # 0
      <4>1. call.slot \in Slots /\ jobs[call.slot].id # 0
        BY <1>0, <3>6, CallShapes DEF CallKept, Used
      <4> QED
        BY <3>3, <3>4, <4>1
    <3>7. ASSUME call.op = "fill"
          PROVE  /\ jobs'[call.slot] = jobs[call.slot]
                 /\ seen'[call.slot].limit = seen[call.slot].limit
      BY <3>4, <3>5, <3>7
    <3> QED
      BY <2>0, <3>6, <3>7 DEF CallKept, Used
  <2> QED
    BY <2>1, <2>2
<1>6. CASE Poll
  <2>1. UNCHANGED call /\ routine'.at = "loop"
    BY <1>6 DEF Poll
  <2>2. ASSUME NEW s \in Slots
        PROVE  /\ jobs'[s].id = jobs[s].id /\ jobs'[s].command = jobs[s].command
               /\ seen'[s].limit = seen[s].limit
    BY <1>0, <1>6, PolledSlot
  <2>3. call.op \in {"fill", "copy"} => call.slot \in Slots
    BY <1>0, CallShapes
  <2> QED
    BY <2>1, <2>2, <2>3 DEF CallKept, Used
<1>7. CASE Reboot \/ Panic
  BY <1>7 DEF Reboot, Panic, Restarted, CallKept, Idle, None
<1> QED
  BY <1>1, <1>2, <1>3, <1>4, <1>5, <1>6, <1>7 DEF Next, ShellStep, RoutineStep

-----------------------------------------------------------------------------
(* The numbers of the jobs.                                                *)

\* Nothing is numbered anew.
LEMMA OrderIsLeft ==
  ASSUME InOrder, next_id' = IdAfter(made'), made' = made,
         IdInHand' <=> IdInHand,
         IdInHand => call'.slot = call.slot /\ call.slot \in Slots,
         \A s \in Slots :
           /\ jobs'[s].id = jobs[s].id /\ seen'[s].nth = seen[s].nth
           /\ seen[s].torn => seen'[s].torn
           /\ seen[s].unsure => seen'[s].unsure
  PROVE  InOrder'
<1>1. Frontier' = Frontier
  BY DEF Frontier
<1>2. \A s \in Slots : Counts(s)' => Counts(s)
  BY DEF Counts, Used
<1>3. ASSUME NEW s \in Slots PROVE Numbered(s)'
  BY <1>1, <1>2 DEF InOrder, Numbered, IdAfter
<1>4. ASSUME NEW s \in Slots, NEW t \in Slots PROVE Apart(s, t)'
  BY <1>2 DEF InOrder, Apart
<1>5. Frontier' <= made' /\ (IdInHand' => jobs'[call'.slot].id = IdAfter(Frontier'))
  BY <1>1 DEF InOrder
<1> QED
  BY <1>3, <1>4, <1>5 DEF InOrder, IdAfter

\* A slot gets a new job and the next number, while no id is in hand; the id is counted at
\* once, or is in hand from now on.
LEMMA OrderIsExtended ==
  ASSUME InOrder, ~IdInHand, next_id' = IdAfter(made'), made \in Nat,
         \A s \in Slots : seen[s].nth \in Nat,
         NEW n \in Slots, jobs'[n].id = next_id, seen'[n].nth = made,
         \/ made' = made + 1 /\ ~IdInHand'
         \/ made' = made /\ IdInHand' /\ call'.slot = n,
         \A s \in Slots \ {n} :
           /\ jobs'[s] = jobs[s] /\ seen'[s].nth = seen[s].nth
           /\ seen[s].torn => seen'[s].torn
           /\ seen[s].unsure => seen'[s].unsure
  PROVE  InOrder'
<1>0. next_id = IdAfter(made)
  BY DEF InOrder
<1>1. Frontier' = made'
  BY DEF Frontier
<1>2. ASSUME NEW s \in Slots \ {n}, Counts(s)'
      PROVE  /\ Counts(s) /\ seen[s].nth < made
             /\ jobs'[s].id = IdAfter(seen[s].nth) /\ seen'[s].nth = seen[s].nth
  <2>1. Counts(s) /\ jobs'[s] = jobs[s] /\ seen'[s].nth = seen[s].nth
    BY <1>2 DEF Counts, Used
  <2>2. jobs[s].id = IdAfter(seen[s].nth) /\ seen[s].nth < made
    BY <2>1 DEF InOrder, Numbered, Frontier
  <2> QED
    BY <2>1, <2>2
<1>3. Numbered(n)'
  <2>1. jobs'[n].id = IdAfter(seen'[n].nth)
    BY <1>0
  <2>2. seen'[n].nth < made' \/ (IdInHand' /\ n = call'.slot)
    OBVIOUS
  <2> QED
    BY <1>1, <2>1, <2>2 DEF Numbered, IdAfter
<1>4. ASSUME NEW s \in Slots \ {n} PROVE Numbered(s)'
  <2> SUFFICES ASSUME Counts(s)'
               PROVE  jobs'[s].id = IdAfter(seen'[s].nth) /\ seen'[s].nth < made'
    BY <1>1 DEF Numbered, IdAfter
  <2>1. jobs'[s].id = IdAfter(seen'[s].nth) /\ seen'[s].nth = seen[s].nth /\ seen[s].nth < made
    BY <1>2
  <2> QED
    BY <2>1
<1>5. ASSUME NEW s \in Slots, NEW t \in Slots, s # t, Counts(s)', Counts(t)'
      PROVE  seen'[s].nth # seen'[t].nth
  <2>1. CASE s = n
    <3>1. t \in Slots \ {n} /\ seen'[s].nth = made
      BY <1>5, <2>1
    <3>2. seen'[t].nth < made
      BY <1>2, <1>5, <3>1
    <3> QED
      BY <3>1, <3>2
  <2>2. CASE t = n
    <3>1. s \in Slots \ {n} /\ seen'[t].nth = made
      BY <1>5, <2>2
    <3>2. seen'[s].nth < made
      BY <1>2, <1>5, <3>1
    <3> QED
      BY <3>1, <3>2
  <2>3. CASE s # n /\ t # n
    <3>1. s \in Slots \ {n} /\ t \in Slots \ {n}
      BY <2>3
    <3>2. /\ Counts(s) /\ seen'[s].nth = seen[s].nth
          /\ Counts(t) /\ seen'[t].nth = seen[t].nth
      BY <1>2, <1>5, <3>1
    <3> QED
      BY <1>5, <3>2 DEF InOrder, Apart
  <2> QED
    BY <2>1, <2>2, <2>3
<1>6. \A s, t \in Slots : Apart(s, t)'
  BY <1>5 DEF Apart
<1>7. Frontier' <= made' /\ (IdInHand' => jobs'[call'.slot].id = IdAfter(Frontier'))
  BY <1>0, <1>1 DEF IdAfter
<1> QED
  BY <1>3, <1>4, <1>6, <1>7 DEF InOrder, IdAfter

\* A line that is scheduled while a call has an id in hand gets a job that does not count.
LEMMA OrderIsUntouched ==
  ASSUME InOrder, IdInHand, call.slot \in Slots, made \in Nat, seen[call.slot].nth \in Nat,
         next_id' = IdAfter(made'), made' = made + 1, call' = call,
         NEW n \in Slots, n # call.slot, seen'[n].unsure,
         \A s \in Slots \ {n} :
           /\ jobs'[s] = jobs[s] /\ seen'[s].nth = seen[s].nth
           /\ seen[s].torn => seen'[s].torn
           /\ seen[s].unsure => seen'[s].unsure
  PROVE  InOrder'
<1>1. IdInHand' /\ Frontier' = Frontier /\ Frontier \in Nat
  BY DEF Frontier, IdInHand
<1>2. \A s \in Slots : Counts(s)' => s # n /\ Counts(s)
  BY DEF Counts, Used
<1>3. ASSUME NEW s \in Slots PROVE Numbered(s)'
  BY <1>1, <1>2 DEF InOrder, Numbered, IdAfter
<1>4. ASSUME NEW s \in Slots, NEW t \in Slots PROVE Apart(s, t)'
  BY <1>2 DEF InOrder, Apart
<1>5. Frontier' <= made'
  <2>1. Frontier <= made
    BY DEF InOrder
  <2> HIDE DEF Frontier
  <2> QED
    BY <1>1, <2>1
<1>6. jobs'[call'.slot].id = IdAfter(Frontier')
  BY <1>1 DEF InOrder
<1> QED
  BY <1>3, <1>4, <1>5, <1>6 DEF InOrder, IdAfter

LEMMA OrderIsKept ==
  ASSUME Typed, CallKept, InOrder, [Next]_vars
  PROVE  InOrder'
<1> USE DEF Typed
<1>0. /\ next_id \in 1 .. IdMax /\ made \in Nat /\ now \in Nat /\ CallTyped
      /\ \A s \in Slots : jobs[s] \in Job /\ seen[s] \in Sight /\ seen[s].nth \in Nat
  BY SightFields DEF ClockTyped
<1>a. next_id' = IdAfter(made')
  BY ClockStep
<1>b. IdInHand => call.slot \in Slots
  BY <1>0, CallShapes DEF IdInHand
<1>1. CASE \/ (\E r \in Requests : FindSlot(r)) \/ LookAtSlot \/ CopySlot \/ OpenFile \/ WriteFile
  <2>1. UNCHANGED <<jobs, seen, made>>
    BY <1>1 DEF FindSlot, LookAtSlot, CopySlot, OpenFile, WriteFile
  <2>2. ~IdInHand /\ ~IdInHand'
    BY <1>0, <1>1, FillsNothing DEF IdInHand
  <2> QED
    BY <1>a, <2>1, <2>2, OrderIsLeft
<1>2. CASE ReadFile \/ EndLoad \/ UNCHANGED vars
  <2>1. UNCHANGED <<jobs, seen, made, call>>
    BY <1>2 DEF ReadFile, EndLoad, vars
  <2>2. IdInHand' <=> IdInHand
    BY <2>1 DEF IdInHand
  <2> QED
    BY <1>a, <1>b, <2>1, <2>2, OrderIsLeft
<1>3. CASE (\E id \in 1 .. IdMax : Cancel(id)) \/ CancelAll
  <2>1. PICK s \in Slots : jobs' = [jobs EXCEPT ![s].active = FALSE]
    <3>1. CASE CancelAll
      BY <3>1, CursorTyped DEF CancelAll
    <3> QED
      BY <1>3, <3>1 DEF Cancel
  <2>2. UNCHANGED <<seen, made>>
    BY <1>3 DEF Cancel, CancelAll
  <2>3. ~IdInHand /\ ~IdInHand'
    BY <1>0, <1>3, FillsNothing DEF IdInHand
  <2>4. \A u \in Slots : jobs'[u].id = jobs[u].id
    BY <1>0, <2>1 DEF Job
  <2> QED
    BY <1>a, <2>2, <2>3, <2>4, OrderIsLeft
<1>4. CASE TakeSlot
  <2>1. PICK n \in Slots, r \in Taken : n = call.slot /\ r = call.request
    BY <1>0, <1>4, CallShapes DEF TakeSlot
  <2>2. /\ call.op = "found" /\ made' = made
        /\ call' = [op |-> "fill", slot |-> n, request |-> r, todo |-> Stores(r)]
    BY <1>4, <2>1 DEF TakeSlot
  <2>3. jobs'[n] = NewJob(r) /\ seen'[n] = Unseen(Limit(r))
    BY <1>4, <2>1 DEF TakeSlot, NewJob
  <2>4. jobs'[n].id = next_id /\ seen'[n].nth = made
    BY <1>0, <2>3, NewJobTyped DEF Unseen
  <2>5. ~IdInHand /\ IdInHand' /\ call'.slot = n
    BY <2>2 DEF IdInHand, Stores
  <2>6. \A s \in Slots \ {n} : jobs'[s] = jobs[s] /\ seen'[s] = seen[s]
    BY <1>4, <2>1 DEF TakeSlot
  <2> QED
    BY <1>0, <1>a, <2>2, <2>4, <2>5, <2>6, OrderIsExtended
<1>5. CASE StoreField
  <2>0. PICK n \in Slots, r \in Taken, j \in Job :
          n = call.slot /\ r = call.request /\ j = jobs[n]
    BY <1>0, <1>5, CallShapes DEF StoreField
  <2>1. PICK field :
          /\ jobs' = [jobs EXCEPT ![n] = Filled(j, r, field)]
    BY <1>5, <2>0 DEF StoreField
  <2>2. /\ call.op = "fill" /\ seen' = seen
        /\ call \in [op : {"fill"}, slot : Slots, request : Taken, todo : (SUBSET Fields) \ {{}}]
    BY <1>5 DEF StoreField, CallTyped, Idle, None
  <2>3. Filled(j, r, field).id = j.id
    BY <2>0 DEF Filled, Job
  <2>4. \A s \in Slots : jobs'[s].id = jobs[s].id
    BY <2>0, <2>1, <2>3
  <2>5. PICK store \in call.todo :
          /\ call' = IF call.todo = {store} THEN Idle ELSE [call EXCEPT !.todo = call.todo \ {store}]
          /\ store # "next_id" => UNCHANGED <<next_id, made>>
          /\ store = "next_id" => /\ IdInHand /\ Frontier \in Nat
                                  /\ made' \in Nat /\ Frontier < made' /\ made' <= made + 1
                                  /\ next_id' = IdAfter(made')
    BY <1>5, IdIsCounted
  <2>6. CASE store # "next_id"
    <3>1. (IdInHand' <=> IdInHand) /\ (IdInHand => call'.slot = call.slot)
      BY <2>2, <2>5, <2>6 DEF IdInHand, Idle, None
    <3> QED
      BY <1>a, <1>b, <2>2, <2>4, <2>5, <2>6, <3>1, OrderIsLeft
  <2>7. CASE store = "next_id"
    <3>1. IdInHand /\ ~IdInHand'
      BY <2>2, <2>5, <2>7 DEF IdInHand, Idle, None
    <3>2. Frontier' = made' /\ seen[n].nth = Frontier
      BY <2>0, <3>1 DEF Frontier
    <3>3. ASSUME NEW s \in Slots PROVE Numbered(s)'
      <4> SUFFICES ASSUME Counts(s)
                   PROVE  jobs'[s].id = IdAfter(seen[s].nth) /\ seen[s].nth < made'
        BY <2>2, <2>4, <3>2 DEF Numbered, Counts, Used, IdAfter
      <4>1. /\ jobs[s].id = IdAfter(seen[s].nth)
            /\ seen[s].nth < Frontier \/ s = n
        BY <2>0 DEF InOrder, Numbered
      <4>2. seen[s].nth <= Frontier /\ Frontier < made' /\ Frontier \in Nat /\ made' \in Nat
        BY <1>0, <2>5, <2>7, <3>2, <4>1
      <4>3. seen[s].nth < made'
        BY <1>0, <4>2
      <4> QED
        BY <2>4, <4>1, <4>3
    <3>4. ASSUME NEW s \in Slots, NEW t \in Slots PROVE Apart(s, t)'
      BY <2>2, <2>4 DEF InOrder, Apart, Counts, Used
    <3>5. Frontier' <= made'
      BY <2>5, <2>7, <3>2
    <3> QED
      BY <1>a, <3>1, <3>3, <3>4, <3>5 DEF InOrder
  <2> QED
    BY <2>6, <2>7
<1>6. CASE LoadLine
  <2>0. UNCHANGED call /\ (IdInHand' <=> IdInHand) /\ routine.at # "loop"
    BY <1>6 DEF LoadLine, IdInHand
  <2>1. CASE UNCHANGED <<jobs, seen, made>>
    BY <1>a, <1>b, <2>0, <2>1, OrderIsLeft
  <2>2. CASE ~UNCHANGED <<jobs, seen, made>>
    <3> DEFINE line == Head(routine.lines)
    <3>1. line \in Lines
      BY <1>6 DEF LoadLine, FileTyped
    <3>2. PICK n \in Slots :
            /\ FirstFree(n)
            /\ jobs' = [jobs EXCEPT ![n] = Restored(line)]
            /\ made' = made + 1
            /\ seen' = [u \in Slots |->
                 IF u = n THEN Unseen(line.remaining)
                          ELSE [seen[u] EXCEPT !.torn = @ \/ Filling(u)]]
      BY <1>6, <2>2 DEF LoadLine
    <3> HIDE DEF line
    <3>3. jobs'[n].id = next_id /\ seen'[n].nth = made /\ seen'[n].unsure = IdInHand
      BY <1>0, <3>1, <3>2, RestoredTyped DEF Unseen
    <3>4. ASSUME NEW s \in Slots \ {n}
          PROVE  /\ jobs'[s] = jobs[s] /\ seen'[s].nth = seen[s].nth
                 /\ seen[s].torn => seen'[s].torn
                 /\ seen[s].unsure => seen'[s].unsure
      BY <1>0, <3>2 DEF Sight
    <3>5. CASE IdInHand
      <4>1. n # call.slot
        BY <2>0, <3>2, <3>5 DEF CallKept, IdInHand, FirstFree, Free
      <4> QED
        BY <1>0, <1>a, <1>b, <2>0, <3>2, <3>3, <3>4, <3>5, <4>1, OrderIsUntouched
    <3>6. CASE ~IdInHand
      BY <1>0, <1>a, <2>0, <3>2, <3>3, <3>4, <3>6, OrderIsExtended
    <3> QED
      BY <3>5, <3>6
  <2> QED
    BY <2>1, <2>2
<1>7. CASE Poll
  <2>1. UNCHANGED <<call, made>> /\ (IdInHand' <=> IdInHand)
    BY <1>7 DEF Poll, IdInHand
  <2>2. \A s \in Slots : /\ jobs'[s].id = jobs[s].id /\ seen'[s].nth = seen[s].nth
                         /\ seen[s].torn => seen'[s].torn
                         /\ seen[s].unsure => seen'[s].unsure
    BY <1>7, PolledSlot
  <2> QED
    BY <1>a, <1>b, <2>1, <2>2, OrderIsLeft
<1>8. CASE Reboot \/ Panic
  <2>1. \A s \in Slots : ~Used(s)'
    BY <1>8 DEF Reboot, Panic, Restarted, Used, NoJob
  <2>2. ~IdInHand' /\ made' = 0
    BY <1>8 DEF Reboot, Panic, Restarted, IdInHand, Idle, None
  <2> QED
    BY <1>a, <2>1, <2>2 DEF InOrder, Numbered, Apart, Counts, Frontier
<1> QED
  BY <1>1, <1>2, <1>3, <1>4, <1>5, <1>6, <1>7, <1>8 DEF Next, ShellStep, RoutineStep

-----------------------------------------------------------------------------
(* The inductive invariant and what follows from it.                       *)

LEMMA IInvAtFirst ==
  ASSUME Init
  PROVE  IInv
<1> USE DEF Init
<1>1. 1 \in 1 .. IdMax /\ 0 \in 0 .. MaxTime /\ 0 \in Nat /\ <<>> \in Seq(Lines) /\ 0 <= MaxJobs
  BY JobAssumption
<1>2. jobs \in [Slots -> Job]
  <2>1. NoJob \in Job
    BY JobAssumption DEF NoJob, Job, Kinds
  <2> QED
    BY <2>1
<1>3. seen \in [Slots -> Sight]
  BY <1>1 DEF Unseen, IdInHand, Sight
<1>4. Typed
  BY <1>1, <1>2, <1>3 DEF Typed, CallTyped, ClockTyped, FileTyped, Booting
<1>5. \A s \in Slots : jobs[s].id = 0 /\ ~jobs[s].active /\ seen[s].since = 0
  BY DEF NoJob, Unseen
<1>6. Room
  BY <1>1 DEF Room, Pending, IdInHand, Idle, None, Booting
<1>7. JobsKept
  BY <1>5 DEF JobsKept, Used
<1>8. CallKept
  BY DEF CallKept, Idle, None
<1>9. InOrder
  <2>1. IdAfter(0) = 1
    <3>1. 0 % IdMax = 0
      BY JobAssumption
    <3> QED
      BY <3>1 DEF IdAfter
  <2> QED
    BY <1>5, <2>1 DEF InOrder, Used, Apart, Counts, Numbered, Frontier, IdInHand, Idle, None
<1> QED
  BY <1>4, <1>6, <1>7, <1>8, <1>9 DEF IInv

LEMMA IInvIsKept ==
  ASSUME IInv, [Next]_vars
  PROVE  IInv'
<1>1. Typed /\ Room /\ JobsKept /\ CallKept /\ InOrder
  BY DEF IInv
<1>2. Typed' /\ Room' /\ JobsKept' /\ CallKept' /\ InOrder'
  BY <1>1, TypedStep, RoomStep, JobsStayKept, CallStaysKept, OrderIsKept
<1> QED
  BY <1>2 DEF IInv

\* Between any two steps of the two tasks, each slot holds what the stores made so far have
\* put there, and a job whose call was not interrupted is where its schedule says.
THEOREM Inductive == Spec => []IInv
<1>1. Init => IInv
  BY IInvAtFirst
<1>2. IInv /\ [Next]_vars => IInv'
  BY IInvIsKept
<1> QED
  BY <1>1, <1>2, PTL DEF Spec

\* A job that a poll has seen and whose call was not interrupted has all its fields.
LEMMA WholeIsKept ==
  ASSUME IInv, NEW s \in Slots, Whole(s)
  PROVE  /\ jobs[s] \in Job /\ seen[s] \in Sight /\ now \in Nat
         /\ Used(s) /\ Todo(s) = {} /\ StoredJob(jobs[s], {})
         /\ seen[s].since <= now /\ CountsDown(jobs[s], seen[s])
         /\ Timed(s) => KeepsTime(jobs[s], seen[s], now)
<1>1. jobs[s] \in Job /\ seen[s] \in Sight /\ now \in Nat
  BY DEF IInv, Typed, ClockTyped
<1>2. Used(s) /\ Kept(jobs[s], seen[s], Todo(s), now)
  BY DEF IInv, JobsKept, Whole
<1>3. Todo(s) = {}
  BY <1>2 DEF Kept, Whole
<1> QED
  BY <1>1, <1>2, <1>3 DEF Kept, Whole, Timed

\* However calls, polls, restarts and failed writes follow each other, the table, the ids and
\* the clock stay in their ranges, a slot in use carries an id and a command, and no once job
\* is ever in the file (JobScheduler.h, saveJobs()).
THEOREM TypesAreKept == Spec => []TypeOK
<1>1. IInv => TypeOK
  <2> SUFFICES ASSUME IInv PROVE TypeOK
    OBVIOUS
  <2>1. ASSUME NEW s \in Slots
        PROVE  /\ jobs[s].kind \in Kinds /\ jobs[s].active \in BOOLEAN
               /\ jobs[s].id \in 0 .. IdMax
               /\ jobs[s].active => jobs[s].id # 0 /\ jobs[s].command \in Requests
               /\ {jobs[s].interval, jobs[s].next, jobs[s].remaining, jobs[s].fired} \subseteq Nat
               /\ jobs[s].state \in States \cup {None}
    <3>1. jobs[s] \in Job
      BY DEF IInv, Typed
    <3>2. jobs[s].active => jobs[s].id # 0 /\ jobs[s].command \in Taken
      BY DEF IInv, JobsKept, Used, Kept, StoredJob
    <3> QED
      BY <3>1, <3>2, JobFields DEF Taken
  <2>2. /\ next_id \in 1 .. IdMax /\ last_state \in States \cup {None}
        /\ now \in 0 .. MaxTime /\ made \in 0 .. MaxJobs
        /\ routine.at \in {"boot", "read", "load", "loop"}
    BY JobAssumption DEF IInv, Typed, ClockTyped, FileTyped, Room
  <2>3. call \in Calls \/ call.op \in {"look", "copy", "open", "write"}
    <3>1. CallTyped
      BY DEF IInv, Typed
    <3> QED
      BY <3>1 DEF CallTyped, Calls, Taken, Fields
  <2>4. \A k \in 1 .. Len(saved) : saved[k].kind # "Once" /\ saved[k].command.kind # "Once"
    <3>1. saved \in Seq(Lines)
      BY DEF IInv, Typed, FileTyped
    <3>2. \A k \in 1 .. Len(saved) : saved[k] \in Lines
      BY <3>1
    <3> QED
      BY <3>2 DEF Lines
  <2> QED
    BY <2>1, <2>2, <2>3, <2>4 DEF TypeOK
<1> QED
  BY <1>1, Inductive, PTL

\* A job with a repeat count never fires more often than that, and while it is active the
\* firings made and those left add up to its count (poll(), the decrement at the end).
THEOREM LimitsHold == Spec => []StopsAtItsLimit
<1>1. IInv => StopsAtItsLimit
  BY WholeIsKept DEF CountsDown, StopsAtItsLimit
<1> QED
  BY <1>1, Inductive, PTL

\* Whatever stalls the routine task, firings and misses together stay behind the intervals
\* gone by since the job was first polled (poll() contract, rule 2).
THEOREM NoBurstMakesUp == Spec => []NeverAheadOfTime
<1>1. IInv => NeverAheadOfTime
  BY WholeIsKept DEF KeepsTime, NeverAheadOfTime
<1> QED
  BY <1>1, Inductive, PTL

\* After every poll a timed job is due later than now and within one interval.
THEOREM DueWithinOneInterval == Spec => []NothingIsSavedUp
<1>1. IInv => NothingIsSavedUp
  BY WholeIsKept DEF KeepsTime, NothingIsSavedUp
<1> QED
  BY <1>1, Inductive, PTL

\* Two live jobs that got their ids in calls nothing interrupted, or in a load that
\* interrupted no call, share an id only if a whole round of ids lies between them, whatever
\* the width of the ids (next_id_, JobScheduler.cpp).
THEOREM IdsNameOneJob == Spec => []IdsTellJobsApart
<1>1. IInv => IdsTellJobsApart
  <2> SUFFICES ASSUME IInv, NEW s \in Slots, NEW t \in Slots, s # t, Sure(s), Sure(t),
                      jobs[s].id = jobs[t].id
               PROVE  seen[s].nth - seen[t].nth >= IdMax \/ seen[t].nth - seen[s].nth >= IdMax
    BY DEF IdsTellJobsApart
  <2>1. seen[s].nth \in Nat /\ seen[t].nth \in Nat /\ Counts(s) /\ Counts(t)
    BY WholeIsKept, SightFields DEF Sure, Whole, Counts
  <2>2. jobs[s].id = IdAfter(seen[s].nth) /\ jobs[t].id = IdAfter(seen[t].nth)
    BY <2>1 DEF IInv, InOrder, Numbered
  <2>3. seen[s].nth # seen[t].nth
    BY <2>1 DEF IInv, InOrder, Apart
  <2> QED
    BY <2>1, <2>2, <2>3, IdsApart
<1> QED
  BY <1>1, Inductive, PTL

\* The clock is moved by poll() alone.
LEMMA OnlyPollsTellTime ==
  ASSUME IInv, [Next]_vars, now' > now
  PROVE  Poll
<1>1. now \in Nat
  BY DEF IInv, Typed, ClockTyped
<1>2. ASSUME now' = now \/ now' = 0 PROVE FALSE
  BY <1>1, <1>2
<1>3. (ShellStep \/ ReadFile \/ LoadLine \/ EndLoad \/ UNCHANGED vars) => now' = now
  BY DEF ShellStep, FindSlot, TakeSlot, StoreField, Cancel, CancelAll, LookAtSlot, CopySlot,
         OpenFile, WriteFile, ReadFile, LoadLine, EndLoad, vars
<1>4. Reboot \/ Panic => now' = 0
  BY DEF Reboot, Panic, Restarted
<1> QED
  BY <1>2, <1>3, <1>4 DEF Next, RoutineStep

\* A poll fires a state job exactly when it sees the machine come from another state into
\* the job's own; the first poll of a boot fires none (poll(), state_entered).
THEOREM StateJobsFireOnEntry == Spec => FiresOnEveryEntry
<1>1. IInv /\ [Next]_vars =>
        [now' > now =>
           \A s \in Slots : Whole(s) /\ ~Timed(s) /\ jobs[s].active =>
             (jobs'[s].fired > jobs[s].fired
                <=> /\ last_state' = jobs[s].command.state
                    /\ last_state \notin {None, last_state'})]_vars
  <2> SUFFICES ASSUME IInv, [Next]_vars, now' > now,
                      NEW s \in Slots, Whole(s), ~Timed(s), jobs[s].active
               PROVE  jobs'[s].fired > jobs[s].fired
                        <=> /\ last_state' = jobs[s].command.state
                            /\ last_state \notin {None, last_state'}
    OBVIOUS
  <2>1. PICK t \in now + 1 .. MaxTime, state \in States :
          /\ last_state' = state
          /\ jobs' = [u \in Slots |-> Polled(jobs[u], t, state)]
    BY OnlyPollsTellTime, Zenon DEF Poll
  <2>2. jobs'[s] = Polled(jobs[s], t, state) /\ jobs[s] \in Job /\ jobs[s].fired \in Nat
    BY <2>1, WholeIsKept, JobFields
  <2>3. jobs[s].kind = "OnStateEnter" /\ jobs[s].state = jobs[s].command.state
    BY WholeIsKept DEF StoredJob, Timed
  <2>4. Due(jobs[s], t, state) <=> /\ state = jobs[s].command.state
                                   /\ last_state \notin {None, state}
    BY <2>3 DEF Due, Entered
  <2>5. jobs'[s].fired = IF Due(jobs[s], t, state) THEN jobs[s].fired + 1 ELSE jobs[s].fired
    BY <2>2, PolledFields
  <2>6. jobs'[s].fired > jobs[s].fired <=> Due(jobs[s], t, state)
    BY <2>2, <2>5
  <2> QED
    BY <2>1, <2>4, <2>6
<1> QED
  BY <1>1, Inductive, PTL DEF Spec, FiresOnEveryEntry

=============================================================================
