-------------------------- MODULE CommandPathProofs --------------------------
(***************************************************************************)
(* Theorems about CommandPath, for any requests, requesters, links, slots  *)
(* and queue length.                                                       *)
(***************************************************************************)
EXTENDS CommandPath, TLAPS

-----------------------------------------------------------------------------
(* The inductive invariant, first half: slots and the work on them.         *)

\* TypeOK, part by part.
RxStates == {Idle} \cup [at : {"ready"}, slot : Slots, key : Keys, asker : Nat]
                   \cup [at : {"reply"}, slot : {Nothing}, key : Keys, asker : Nat]
CacheTyped ==
  /\ slotRequest \in [Slots -> Requests \cup {Nothing}]
  /\ slotState \in [Slots -> {"free", "in flight", "done"}]
  /\ slotResult \in [Slots -> Payloads \cup {Nothing}]
  /\ highWater \in [Sources -> Nat]
ReceiveTyped == rx \in [Links -> RxStates] /\ rxView \in Payloads \cup {Nothing}
QueueTyped   == queue \in Seq(Jobs) /\ Len(queue) <= QueueDepth
ShellTyped   ==
  /\ shell \in {"idle", "run", "complete", "check", "send"}
  /\ job \in Jobs /\ shellView \in Payloads \cup {Nothing}
RestTyped    ==
  /\ boot \in 1 .. MaxBoot
  /\ generation \in [Direct -> Nat] /\ session \in [Direct -> Nat]
  /\ executed \in [Keys -> Nat]
  /\ told \in [Keys -> SUBSET Outcomes] /\ refused \subseteq Keys
Typed == CacheTyped /\ ReceiveTyped /\ QueueTyped /\ ShellTyped /\ RestTyped

\* A slot that is not free holds a request, a done one its result; a task about to send has
\* something to send; the shell completes and answers remote commands only.
SlotShapes ==
  /\ \A s \in Slots : slotState[s] # "free" => slotRequest[s] \in Requests
  /\ \A s \in Slots : slotRequest[s] # Nothing => slotState[s] # "free"
  /\ \A s \in Slots : slotState[s] = "done" => slotResult[s] \in Payloads
  /\ \A l \in Links : rx[l].at = "reply" => rxView \in Payloads
  /\ shell \in {"complete", "check", "send"} => job # NoJob
  /\ shell \in {"check", "send"} => shellView \in Payloads

\* Every piece of work names a slot that is in flight and holds its request ...
ReadyOwns ==
  \A l \in Links : rx[l].at = "ready" =>
    slotState[rx[l].slot] = "in flight" /\ KeyOf[slotRequest[rx[l].slot]] = rx[l].key
QueueOwns ==
  \A i \in 1 .. Len(queue) : queue[i] # NoJob =>
    slotState[queue[i].slot] = "in flight" /\ slotRequest[queue[i].slot] = queue[i].request
ShellOwns ==
  shell \in {"run", "complete"} /\ job # NoJob =>
    slotState[job.slot] = "in flight" /\ slotRequest[job.slot] = job.request

\* ... and no two name the same slot.
ReadyAlone ==
  /\ \A l, m \in Links :
       rx[l].at = "ready" /\ rx[m].at = "ready" /\ rx[l].slot = rx[m].slot => l = m
  /\ \A l \in Links, i \in 1 .. Len(queue) :
       rx[l].at = "ready" /\ queue[i] # NoJob => rx[l].slot # queue[i].slot
QueueAlone ==
  \A i, j \in 1 .. Len(queue) :
    queue[i] # NoJob /\ queue[j] # NoJob /\ queue[i].slot = queue[j].slot => i = j
ShellAlone ==
  shell \in {"run", "complete"} /\ job # NoJob =>
    /\ \A l \in Links : rx[l].at = "ready" => rx[l].slot # job.slot
    /\ \A i \in 1 .. Len(queue) : queue[i] # NoJob => queue[i].slot # job.slot

\* A slot in flight has work, or had a result too long to record.
HasWork(s) ==
  \/ \E l \in Links : rx[l].at = "ready" /\ rx[l].slot = s
  \/ \E i \in 1 .. Len(queue) : queue[i].slot = s
  \/ shell \in {"run", "complete"} /\ job.slot = s
  \/ slotRequest[s] \in Long
NoneLeaks == \A s \in Slots : slotState[s] = "in flight" => HasWork(s)

Ownership == ReadyOwns /\ QueueOwns /\ ShellOwns /\ ReadyAlone /\ QueueAlone /\ ShellAlone
SlotInv == Typed /\ SlotShapes /\ Ownership /\ NoneLeaks

-----------------------------------------------------------------------------
(* Second half: what was run and what was said of each key.                 *)

\* No two slots hold one key, and what a slot holds is below the high water mark of its source.
OneSlotPerKey ==
  \A s, t \in Slots :
    slotRequest[s] # Nothing /\ slotRequest[t] # Nothing
      /\ KeyOf[slotRequest[s]] = KeyOf[slotRequest[t]] => s = t
HeldIsSeen ==
  \A s \in Slots : slotRequest[s] # Nothing =>
    KeyOf[slotRequest[s]].seq <= highWater[KeyOf[slotRequest[s]].source]

\* No request of this key is accepted any more.
Spent(k) ==
  \A q \in Requests : KeyOf[q] = k =>
    Target[q] < boot \/ (Target[q] = boot /\ k.seq <= highWater[k.source])

\* The outcomes requesters have been told of, or can still be from a recorded or prepared result.
\* BUSY is none: it may be said of any key at any time.
Final == Outcomes \ {"busy"}
Known == {rxView, shellView} \cup {slotResult[s] : s \in Slots}
Said(k) == (told[k] \ {"busy"}) \cup {v \in Final : [key |-> k, status |-> v] \in Known}

Truth ==
  \A k \in Keys :
    /\ \A v, w \in Said(k) : v = w
    /\ Said(k) \cap {"success", "failed"} # {} => executed[k] = 1
    /\ k \in refused => executed[k] = 0 /\ Said(k) = {}
    /\ executed[k] # 0 \/ Said(k) # {} \/ k \in refused => Spent(k)

\* A request in flight is for this boot, was not refused, and nothing was said of it; until the
\* shell has run it its key has not been run.
InFlightUnsaid ==
  \A s \in Slots, k \in Keys : slotState[s] = "in flight" /\ KeyOf[slotRequest[s]] = k =>
    Target[slotRequest[s]] = boot /\ Said(k) = {} /\ k \notin refused
WorkNotRun ==
  /\ \A l \in Links : rx[l].at = "ready" => executed[rx[l].key] = 0
  /\ \A i \in 1 .. Len(queue) : queue[i] # NoJob => executed[KeyOf[queue[i].request]] = 0
  /\ shell = "run" /\ job # NoJob => executed[KeyOf[job.request]] = 0
  /\ shell = "complete" => executed[KeyOf[job.request]] = 1

KeyInv == OneSlotPerKey /\ HeldIsSeen /\ Truth /\ InFlightUnsaid /\ WorkNotRun /\ AtMostOnce

IInv == SlotInv /\ KeyInv

-----------------------------------------------------------------------------
(* Types.                                                                   *)

LEMMA KeysTyped ==
  \A q \in Requests : KeyOf[q] \in Keys /\ KeyOf[q].source \in Sources /\ KeyOf[q].seq \in Nat \ {0}
BY RequestsAssumption DEF Keys, Sources

LEMMA ResultTyped ==
  ASSUME NEW q \in Requests,
         NEW status \in {"success", "failed", "busy", "rejected", "pong", "conflict"}
  PROVE  /\ Result(q, status) \in Payloads
         /\ Result(q, status).key = KeyOf[q] /\ Result(q, status).status = status
BY KeysTyped DEF Result, Payloads

\* Whoever is idle has no work, and a local line names no slot.
LEMMA Idleness ==
  /\ Idle \in RxStates /\ Idle.at = "idle" /\ NoJob \in Jobs /\ NoJob.slot = Nothing
  /\ \A x \in RxStates : x.at = "ready" => x.slot \in Slots /\ x.key \in Keys /\ x.asker \in Nat
  /\ \A x \in RxStates : x.at \in {"ready", "reply"} => x # Idle
  /\ \A j \in Jobs : j # NoJob => j.slot \in Slots /\ j.request \in Requests
  /\ \A j \in Jobs : j.slot \in Slots => j # NoJob
  /\ \A j \in Jobs : j.link \in Links
<1>1. Idle \in RxStates /\ Idle.at = "idle" /\ NoJob \in Jobs /\ NoJob.slot = Nothing
  BY DEF Idle, RxStates, NoJob, Jobs
<1>2. \A x \in RxStates : x.at = "ready" => x.slot \in Slots /\ x.key \in Keys /\ x.asker \in Nat
  BY DEF Idle, RxStates
<1>3. \A x \in RxStates : x.at \in {"ready", "reply"} => x # Idle
  BY DEF Idle, RxStates
<1>4. \A j \in Jobs : j # NoJob => j.slot \in Slots /\ j.request \in Requests
  BY DEF Jobs
<1>5. \A j \in Jobs : j.slot \in Slots => j # NoJob
  BY <1>1, NothingAssumption
<1>6. \A j \in Jobs : j.link \in Links
  BY DEF Jobs, NoJob, Links
<1> QED BY <1>1, <1>2, <1>3, <1>4, <1>5, <1>6

LEMMA PrepareTyped ==
  ASSUME ReceiveTyped, RestTyped, NEW l \in Links, NEW q \in Requests, NEW r \in Payloads, Prepare(l, q, r)
  PROVE  /\ ReceiveTyped'
         /\ rx'[l].at = "reply" /\ rxView' \in Payloads
         /\ \A m \in Links : m # l => rx'[m] = rx[m]
<1>1. (IF l \in Direct THEN session[l] ELSE 0) \in Nat
  BY DEF RestTyped
<1> QED BY <1>1, KeysTyped DEF Prepare, ReceiveTyped, RxStates

LEMMA ReserveTyped ==
  ASSUME CacheTyped, NEW q \in Requests, NEW s \in Slots, NEW st \in {"in flight", "done"},
         NEW r \in Payloads \cup {Nothing}, Reserve(q, s, st, r)
  PROVE  CacheTyped'
BY KeysTyped DEF Reserve, CacheTyped

LEMMA InitTyped == Init => Typed
<1> SUFFICES ASSUME Init PROVE Typed
  OBVIOUS
<1>1. CacheTyped
  BY DEF Init, CacheTyped, AllSlots
<1>2. ReceiveTyped
  BY Idleness DEF Init, ReceiveTyped
<1>3. QueueTyped /\ ShellTyped
  BY Idleness, QueueAssumption DEF Init, QueueTyped, ShellTyped
<1>4. RestTyped
  BY BoundAssumption DEF Init, RestTyped
<1> QED BY <1>1, <1>2, <1>3, <1>4 DEF Typed

LEMMA ReceiveStepTyped ==
  ASSUME Typed, SlotShapes, ReadyOwns, NEW l \in Links, ReceiveStep(l)
  PROVE  Typed'
<1> USE DEF Typed
<1>1. ASSUME NEW q \in Requests, IntakeReplay(l, q) PROVE Typed'
  <2>1. PICK s \in Slots : slotState[s] = "done" /\ Prepare(l, q, slotResult[s])
    BY <1>1 DEF IntakeReplay
  <2>2. ReceiveTyped'
    BY <2>1, PrepareTyped DEF SlotShapes
  <2> QED BY <1>1, <2>2
          DEF IntakeReplay, cache, shellTask, links, CacheTyped, QueueTyped, ShellTyped, RestTyped
<1>2. ASSUME NEW q \in Requests, IntakeTransient(l, q) PROVE Typed'
  <2>1. ReceiveTyped'
    BY <1>2, PrepareTyped, ResultTyped DEF IntakeTransient
  <2> QED BY <1>2, <2>1
          DEF IntakeTransient, cache, shellTask, links, CacheTyped, QueueTyped, ShellTyped, RestTyped
<1>3. ASSUME NEW q \in Requests, IntakeAnswered(l, q) PROVE Typed'
  <2> DEFINE result == Result(q, IF StaleTarget(q) \/ Kind[q] = "invalid" THEN "rejected" ELSE "pong")
  <2>1. PICK s \in Room : Reserve(q, s, "done", result) /\ Prepare(l, q, result)
    BY <1>3 DEF IntakeAnswered
  <2>2. result \in Payloads
    BY ResultTyped
  <2>3. ReceiveTyped' /\ CacheTyped'
    BY <2>1, <2>2, PrepareTyped, ReserveTyped DEF Room
  <2> QED BY <1>3, <2>3 DEF IntakeAnswered, shellTask, links, QueueTyped, ShellTyped, RestTyped
<1>4. ASSUME NEW q \in Requests, IntakeReady(l, q) PROVE Typed'
  <2>1. PICK s \in Room :
          /\ Reserve(q, s, "in flight", Nothing)
          /\ rx' = [rx EXCEPT ![l] = [at |-> "ready", slot |-> s, key |-> KeyOf[q],
                                      asker |-> IF l \in Direct THEN session[l] ELSE 0]]
    BY <1>4 DEF IntakeReady
  <2>2. (IF l \in Direct THEN session[l] ELSE 0) \in Nat
    BY DEF RestTyped
  <2>3. ReceiveTyped'
    BY <1>4, <2>1, <2>2, KeysTyped DEF IntakeReady, ReceiveTyped, RxStates, Room
  <2>4. CacheTyped'
    BY <2>1, ReserveTyped DEF Room
  <2> QED BY <1>4, <2>3, <2>4 DEF IntakeReady, shellTask, links, QueueTyped, ShellTyped, RestTyped
<1>5. CASE Submit(l)
  <2> DEFINE item == [slot |-> rx[l].slot, request |-> slotRequest[rx[l].slot], link |-> l,
                      generation |-> IF l \in Direct THEN generation[l] ELSE 0, asker |-> rx[l].asker]
  <2>1. rx[l].slot \in Slots /\ rx[l].asker \in Nat
    BY <1>5, Idleness DEF Submit, ReceiveTyped
  <2>2. slotRequest[rx[l].slot] \in Requests
    BY <1>5, <2>1 DEF Submit, SlotShapes, ReadyOwns
  <2>3. (IF l \in Direct THEN generation[l] ELSE 0) \in Nat
    BY DEF RestTyped
  <2>4. item \in Jobs
    BY <2>1, <2>2, <2>3 DEF Jobs
  <2>5. queue' = Append(queue, item) /\ Len(queue) < QueueDepth
    BY <1>5 DEF Submit
  <2> HIDE DEF item
  <2>6. QueueTyped'
    BY <2>4, <2>5, QueueAssumption DEF QueueTyped
  <2>7. ReceiveTyped'
    BY <1>5, Idleness DEF Submit, ReceiveTyped
  <2> QED BY <1>5, <2>6, <2>7 DEF Submit, cache, shellTask, links, CacheTyped, ShellTyped, RestTyped
<1>6. CASE RejectBusy(l)
  <2>1. rx[l].slot \in Slots
    BY <1>6, Idleness DEF RejectBusy, ReceiveTyped
  <2>2. slotRequest[rx[l].slot] \in Requests
    BY <1>6, <2>1 DEF RejectBusy, SlotShapes, ReadyOwns
  <2>3. Result(slotRequest[rx[l].slot], "busy") \in Payloads
    BY <2>2, ResultTyped
  <2>4. ReceiveTyped'
    BY <1>6, <2>2, <2>3, PrepareTyped DEF RejectBusy
  <2>5. CacheTyped'
    BY <1>6, <2>1, <2>3 DEF RejectBusy, CacheTyped
  <2>6. refused' \subseteq Keys
    BY <1>6, <2>2, KeysTyped DEF RejectBusy, RestTyped
  <2> QED BY <1>6, <2>4, <2>5, <2>6 DEF RejectBusy, shellTask, links, QueueTyped, ShellTyped, RestTyped
<1>7. CASE Reply(l)
  <2>1. ReceiveTyped'
    BY <1>7, Idleness DEF Reply, ReceiveTyped
  <2>2. told' \in [Keys -> SUBSET Outcomes]
    BY <1>7 DEF Reply, Send, SlotShapes, Payloads, RestTyped
  <2> QED BY <1>7, <2>1, <2>2
          DEF Reply, cache, shellTask, links, CacheTyped, QueueTyped, ShellTyped, RestTyped
<1> QED BY <1>1, <1>2, <1>3, <1>4, <1>5, <1>6, <1>7 DEF ReceiveStep

LEMMA ShellStepTyped ==
  ASSUME Typed, SlotShapes, ShellOwns, ShellStep
  PROVE  Typed'
<1> USE DEF Typed
<1>1. CASE ShellReceive
  <2>1. Head(queue) \in Jobs /\ Tail(queue) \in Seq(Jobs) /\ Len(Tail(queue)) = Len(queue) - 1
        /\ Len(queue) \in Nat
    BY <1>1 DEF ShellReceive, QueueTyped
  <2>2. QueueTyped'
    BY <1>1, <2>1, QueueAssumption DEF ShellReceive, QueueTyped
  <2>3. ShellTyped'
    BY <1>1, <2>1 DEF ShellReceive, ShellTyped
  <2> QED BY <1>1, <2>2, <2>3 DEF ShellReceive, cache, receive, links, CacheTyped, ReceiveTyped, RestTyped
<1>2. CASE ShellRun
  <2>1. executed' \in [Keys -> Nat]
    BY <1>2, Idleness, KeysTyped DEF ShellRun, RestTyped, ShellTyped
  <2> QED BY <1>2, <2>1
          DEF ShellRun, cache, receive, links, CacheTyped, ReceiveTyped, QueueTyped, ShellTyped, RestTyped
<1>3. CASE ShellRunLocal
  BY <1>3 DEF ShellRunLocal, cache, receive, links, CacheTyped, ReceiveTyped, QueueTyped, ShellTyped,
              RestTyped
<1>4. ASSUME NEW status \in {"success", "failed"}, ShellComplete(status) PROVE Typed'
  <2>1. job.slot \in Slots /\ job # NoJob
    BY <1>4, Idleness DEF ShellComplete, SlotShapes, ShellTyped
  <2>2. slotRequest[job.slot] \in Requests
    BY <1>4, <2>1 DEF ShellComplete, SlotShapes, ShellOwns
  <2>3. Result(slotRequest[job.slot], status) \in Payloads
    BY <2>2, ResultTyped
  <2>4. CacheTyped' /\ ShellTyped'
    BY <1>4, <2>1, <2>3 DEF ShellComplete, CacheTyped, ShellTyped
  <2> QED BY <1>4, <2>4 DEF ShellComplete, receive, links, ReceiveTyped, QueueTyped, RestTyped
<1>5. CASE ShellCompleteTooLong \/ ShellCheck
  <2>1. ShellTyped'
    BY <1>5, Idleness DEF ShellCompleteTooLong, ShellCheck, ShellTyped
  <2> QED BY <1>5, <2>1 DEF ShellCompleteTooLong, ShellCheck, cache, receive, links,
                CacheTyped, ReceiveTyped, QueueTyped, RestTyped
<1>6. CASE ShellSend
  <2>1. ShellTyped'
    BY <1>6, Idleness DEF ShellSend, ShellTyped
  <2>2. told' \in [Keys -> SUBSET Outcomes]
    BY <1>6 DEF ShellSend, Send, SlotShapes, Payloads, RestTyped
  <2> QED BY <1>6, <2>1, <2>2 DEF ShellSend, cache, receive, links, CacheTyped, ReceiveTyped, QueueTyped,
                RestTyped
<1> QED BY <1>1, <1>2, <1>3, <1>4, <1>5, <1>6 DEF ShellStep

LEMMA OtherStepTyped ==
  ASSUME Typed, SubmitLocal \/ (\E l \in Direct : Connect(l) \/ Disconnect(l)) \/ Reboot \/ UNCHANGED vars
  PROVE  Typed'
<1> USE DEF Typed
<1>1. CASE SubmitLocal
  <2>1. QueueTyped'
    BY <1>1, Idleness, QueueAssumption DEF SubmitLocal, QueueTyped
  <2> QED BY <1>1, <2>1 DEF SubmitLocal, cache, receive, shellTask, links, CacheTyped, ReceiveTyped,
                ShellTyped, RestTyped
<1>2. ASSUME NEW l \in Direct, Connect(l) \/ Disconnect(l) PROVE Typed'
  <2>1. RestTyped'
    BY <1>2 DEF Connect, Disconnect, RestTyped
  <2> QED BY <1>2, <2>1 DEF Connect, Disconnect, cache, receive, shellTask, CacheTyped, ReceiveTyped,
                QueueTyped, ShellTyped
<1>3. CASE Reboot
  <2>1. CacheTyped'
    BY <1>3 DEF Reboot, CacheTyped, AllSlots
  <2>2. ReceiveTyped' /\ QueueTyped' /\ ShellTyped'
    BY <1>3, Idleness, QueueAssumption DEF Reboot, ReceiveTyped, QueueTyped, ShellTyped
  <2>3. RestTyped'
    BY <1>3, BoundAssumption DEF Reboot, RestTyped
  <2> QED BY <2>1, <2>2, <2>3
<1>4. CASE UNCHANGED vars
  BY <1>4 DEF vars, cache, receive, shellTask, links, CacheTyped, ReceiveTyped, QueueTyped, ShellTyped,
              RestTyped
<1> QED BY <1>1, <1>2, <1>3, <1>4

-----------------------------------------------------------------------------
(* Slots and the work on them.                                              *)

LEMMA InitSlots == Init => SlotShapes /\ Ownership /\ NoneLeaks
<1> SUFFICES ASSUME Init PROVE SlotShapes /\ Ownership /\ NoneLeaks
  OBVIOUS
<1>1. /\ \A l \in Links : rx[l].at = "idle"
      /\ Len(queue) = 0 /\ shell = "idle"
  BY Idleness DEF Init
<1>2. \A s \in Slots : slotState[s] = "free" /\ slotRequest[s] = Nothing
  BY DEF Init, AllSlots
<1>3. SlotShapes /\ NoneLeaks
  BY <1>1, <1>2 DEF SlotShapes, NoneLeaks
<1>4. 1 .. Len(queue) = {}
  BY <1>1
<1>5. ReadyOwns /\ ReadyAlone
  BY <1>1 DEF ReadyOwns, ReadyAlone
<1>6. QueueOwns /\ QueueAlone
  BY <1>4 DEF QueueOwns, QueueAlone
<1>7. ShellOwns /\ ShellAlone
  BY <1>1 DEF ShellOwns, ShellAlone
<1> QED BY <1>3, <1>5, <1>6, <1>7 DEF Ownership

\* Whatever is work names a slot and a request.
WorkTyped ==
  /\ \A l \in Links : rx[l].at = "ready" => rx[l].slot \in Slots /\ rx[l].key \in Keys
  /\ \A i \in 1 .. Len(queue) :
       queue[i] # NoJob <=> queue[i].slot \in Slots
  /\ \A i \in 1 .. Len(queue) : queue[i] # NoJob => queue[i].request \in Requests
  /\ job # NoJob <=> job.slot \in Slots
  /\ job # NoJob => job.request \in Requests

LEMMA WorkIsTyped == SlotInv => WorkTyped
<1> SUFFICES ASSUME SlotInv PROVE WorkTyped
  OBVIOUS
<1>1. \A i \in 1 .. Len(queue) : queue[i] \in Jobs
  BY DEF SlotInv, Typed, QueueTyped
<1>2. \A l \in Links : rx[l] \in RxStates
  BY DEF SlotInv, Typed, ReceiveTyped
<1>3. job \in Jobs
  BY DEF SlotInv, Typed, ShellTyped
<1> QED BY <1>1, <1>2, <1>3, Idleness DEF WorkTyped

\* A step that starts no work, and leaves the slots of the work that remains alone, keeps them owned.
LEMMA WorkShrinks ==
  ASSUME SlotInv, queue' = queue,
         \A m \in Links : rx'[m].at = "ready" =>
           /\ rx'[m] = rx[m]
           /\ slotState'[rx[m].slot] = slotState[rx[m].slot]
           /\ slotRequest'[rx[m].slot] = slotRequest[rx[m].slot],
         \A i \in 1 .. Len(queue) : queue[i] # NoJob =>
           /\ slotState'[queue[i].slot] = slotState[queue[i].slot]
           /\ slotRequest'[queue[i].slot] = slotRequest[queue[i].slot],
         shell' \in {"run", "complete"} /\ job' # NoJob =>
           /\ shell \in {"run", "complete"} /\ job' = job
           /\ slotState'[job.slot] = slotState[job.slot]
           /\ slotRequest'[job.slot] = slotRequest[job.slot]
  PROVE  Ownership'
<1> USE DEF SlotInv, Ownership
<1>1. ReadyOwns'
  <2> SUFFICES ASSUME NEW m \in Links, rx'[m].at = "ready"
               PROVE  slotState'[rx'[m].slot] = "in flight" /\ KeyOf[slotRequest'[rx'[m].slot]] = rx'[m].key
    BY DEF ReadyOwns
  <2>1. rx'[m] = rx[m] /\ slotState[rx[m].slot] = "in flight" /\ KeyOf[slotRequest[rx[m].slot]] = rx[m].key
    BY DEF ReadyOwns
  <2> QED BY <2>1
<1>2. QueueOwns'
  BY DEF QueueOwns
<1>3. ShellOwns'
  BY DEF ShellOwns
<1>4. ReadyAlone'
  BY DEF ReadyAlone
<1>5. QueueAlone'
  BY DEF QueueAlone
<1>6. ShellAlone'
  BY DEF ShellAlone
<1> QED BY <1>1, <1>2, <1>3, <1>4, <1>5, <1>6

\* intake() answers from the cache, or without it: no slot and no work changes.
LEMMA AnswerKeepsSlots ==
  ASSUME SlotInv, NEW l \in Links, NEW q \in Requests, IntakeReplay(l, q) \/ IntakeTransient(l, q)
  PROVE  SlotShapes' /\ Ownership' /\ NoneLeaks'
<1>1. PICK r \in Payloads : Prepare(l, q, r)
  <2>1. CASE IntakeReplay(l, q)
    BY <2>1 DEF IntakeReplay, SlotInv, SlotShapes
  <2>2. CASE IntakeTransient(l, q)
    BY <2>2, ResultTyped DEF IntakeTransient
  <2> QED BY <2>1, <2>2
<1>2. /\ rx'[l].at = "reply" /\ rxView' \in Payloads
      /\ \A m \in Links : m # l => rx'[m] = rx[m]
  BY <1>1, PrepareTyped DEF SlotInv, Typed
<1>3. rx[l].at # "ready"
  BY Idleness DEF IntakeReplay, IntakeTransient, Arrives
<1>4. UNCHANGED <<cache, queue, shellTask>>
  BY DEF IntakeReplay, IntakeTransient
<1>5. SlotShapes'
  BY <1>2, <1>4 DEF SlotInv, SlotShapes, cache, shellTask
<1>6. Ownership'
  BY <1>2, <1>4, WorkShrinks DEF cache, shellTask
<1>7. NoneLeaks'
  BY <1>2, <1>3, <1>4 DEF SlotInv, NoneLeaks, HasWork, cache, shellTask
<1> QED BY <1>5, <1>6, <1>7

\* A slot with room has no work on it: giving it away orphans nobody.
LEMMA RoomIsFree ==
  ASSUME SlotInv, NEW s \in Room
  PROVE  /\ \A l \in Links : rx[l].at = "ready" => rx[l].slot # s
         /\ \A i \in 1 .. Len(queue) : queue[i] # NoJob => queue[i].slot # s
         /\ shell \in {"run", "complete"} /\ job # NoJob => job.slot # s
BY DEF SlotInv, Ownership, ReadyOwns, QueueOwns, ShellOwns, Room

LEMMA ReserveChanges ==
  ASSUME CacheTyped, NEW q \in Requests, NEW s \in Slots, NEW st, NEW r, Reserve(q, s, st, r)
  PROVE  /\ slotRequest'[s] = q /\ slotState'[s] = st /\ slotResult'[s] = r
         /\ \A t \in Slots : t # s => /\ slotRequest'[t] = slotRequest[t] /\ slotState'[t] = slotState[t]
                                      /\ slotResult'[t] = slotResult[t]
BY DEF Reserve, CacheTyped

\* A fresh request that is answered at once leaves its slot done.
LEMMA AnsweredKeepsSlots ==
  ASSUME SlotInv, NEW l \in Links, NEW q \in Requests, IntakeAnswered(l, q)
  PROVE  SlotShapes' /\ Ownership' /\ NoneLeaks'
<1> DEFINE result == Result(q, IF StaleTarget(q) \/ Kind[q] = "invalid" THEN "rejected" ELSE "pong")
<1>1. PICK s \in Room : Reserve(q, s, "done", result) /\ Prepare(l, q, result)
  BY DEF IntakeAnswered
<1>2. result \in Payloads /\ q # Nothing
  BY ResultTyped, RequestsAssumption
<1> HIDE DEF result
<1>3. /\ rx'[l].at = "reply" /\ rxView' \in Payloads
      /\ \A m \in Links : m # l => rx'[m] = rx[m]
  BY <1>1, <1>2, PrepareTyped DEF SlotInv, Typed
<1>11. CacheTyped /\ s \in Slots
  BY DEF SlotInv, Typed, Room
<1>4. /\ s \in Slots /\ slotRequest'[s] = q /\ slotState'[s] = "done" /\ slotResult'[s] = result
      /\ \A t \in Slots : t # s => /\ slotRequest'[t] = slotRequest[t] /\ slotState'[t] = slotState[t]
                                   /\ slotResult'[t] = slotResult[t]
  BY <1>1, <1>11, ReserveChanges
<1>5. /\ \A m \in Links : rx[m].at = "ready" => rx[m].slot # s
      /\ \A i \in 1 .. Len(queue) : queue[i] # NoJob => queue[i].slot # s
      /\ shell \in {"run", "complete"} /\ job # NoJob => job.slot # s
  BY RoomIsFree
<1>6. rx[l].at # "ready" /\ UNCHANGED <<queue, shellTask>>
  BY Idleness DEF IntakeAnswered, Arrives
<1>7. SlotShapes'
  BY <1>2, <1>3, <1>4, <1>6 DEF SlotInv, SlotShapes, shellTask
<1>8. WorkTyped
  BY WorkIsTyped
<1>9. Ownership'
  BY <1>3, <1>4, <1>5, <1>6, <1>8, WorkShrinks DEF shellTask, WorkTyped
<1>10. NoneLeaks'
  BY <1>3, <1>4, <1>6, ZenonT(60) DEF SlotInv, NoneLeaks, HasWork, shellTask
<1> QED BY <1>7, <1>9, <1>10

\* A fresh command takes its slot in flight with the receive task as its only worker.
LEMMA ReadyTakesSlot ==
  ASSUME SlotInv, NEW l \in Links, NEW q \in Requests, IntakeReady(l, q)
  PROVE  SlotShapes' /\ Ownership' /\ NoneLeaks'
<1> DEFINE asker == IF l \in Direct THEN session[l] ELSE 0
<1>1. PICK s \in Room :
        /\ Reserve(q, s, "in flight", Nothing)
        /\ rx' = [rx EXCEPT ![l] = [at |-> "ready", slot |-> s, key |-> KeyOf[q], asker |-> asker]]
  BY DEF IntakeReady
<1> HIDE DEF asker
<1>2. q # Nothing
  BY RequestsAssumption
<1>3. /\ rx'[l].at = "ready" /\ rx'[l].slot = s /\ rx'[l].key = KeyOf[q]
      /\ \A m \in Links : m # l => rx'[m] = rx[m]
  BY <1>1 DEF SlotInv, Typed, ReceiveTyped
<1>4. /\ s \in Slots /\ slotRequest'[s] = q /\ slotState'[s] = "in flight" /\ slotResult'[s] = Nothing
      /\ \A t \in Slots : t # s => /\ slotRequest'[t] = slotRequest[t] /\ slotState'[t] = slotState[t]
                                   /\ slotResult'[t] = slotResult[t]
  BY <1>1, ReserveChanges, ZenonT(60) DEF SlotInv, Typed, Room
<1>5. /\ \A m \in Links : rx[m].at = "ready" => rx[m].slot # s
      /\ \A i \in 1 .. Len(queue) : queue[i] # NoJob => queue[i].slot # s
      /\ shell \in {"run", "complete"} /\ job # NoJob => job.slot # s
  BY RoomIsFree
<1>6. rx[l].at # "ready" /\ UNCHANGED <<rxView, queue, shellTask>>
  BY Idleness DEF IntakeReady, Arrives
<1>7. SlotShapes'
  BY <1>2, <1>3, <1>4, <1>6, ZenonT(60) DEF SlotInv, SlotShapes, shellTask
<1>8. WorkTyped
  BY WorkIsTyped
<1>9. Ownership'
  <2>1. ReadyOwns'
    <3> SUFFICES ASSUME NEW m \in Links, rx'[m].at = "ready"
                 PROVE  slotState'[rx'[m].slot] = "in flight" /\ KeyOf[slotRequest'[rx'[m].slot]] = rx'[m].key
      BY DEF ReadyOwns
    <3>1. CASE m = l
      BY <3>1, <1>3, <1>4
    <3>2. CASE m # l
      <4>1. rx'[m] = rx[m] /\ rx[m].slot \in Slots /\ rx[m].slot # s
        BY <3>2, <1>3, <1>5, <1>8 DEF WorkTyped
      <4> QED BY <4>1, <1>4, ZenonT(60) DEF SlotInv, Ownership, ReadyOwns
    <3> QED BY <3>1, <3>2
  <2>2. QueueOwns'
    <3> SUFFICES ASSUME NEW i \in 1 .. Len(queue), queue[i] # NoJob
                 PROVE  /\ slotState'[queue[i].slot] = "in flight"
                        /\ slotRequest'[queue[i].slot] = queue[i].request
      BY <1>6 DEF QueueOwns
    <3>1. queue[i].slot \in Slots /\ queue[i].slot # s
      BY <1>5, <1>8 DEF WorkTyped
    <3> QED BY <3>1, <1>4 DEF SlotInv, Ownership, QueueOwns
  <2>3. ShellOwns'
    BY <1>4, <1>5, <1>6, <1>8 DEF SlotInv, Ownership, shellTask, WorkTyped, ShellOwns
  <2>4. ReadyAlone'
    <3>1. ASSUME NEW m \in Links, NEW n \in Links, rx'[m].at = "ready", rx'[n].at = "ready",
                 rx'[m].slot = rx'[n].slot
          PROVE  m = n
      BY <3>1, <1>3, <1>5 DEF SlotInv, Ownership, ReadyAlone
    <3>2. ASSUME NEW m \in Links, NEW i \in 1 .. Len(queue), rx'[m].at = "ready", queue[i] # NoJob
          PROVE  rx'[m].slot # queue[i].slot
      BY <3>2, <1>3, <1>5 DEF SlotInv, Ownership, ReadyAlone
    <3> QED BY <3>1, <3>2, <1>6 DEF ReadyAlone
  <2>5. QueueAlone'
    BY <1>6 DEF SlotInv, Ownership, QueueAlone
  <2>6. ShellAlone'
    BY <1>3, <1>5, <1>6 DEF SlotInv, Ownership, shellTask, ShellAlone
  <2> QED BY <2>1, <2>2, <2>3, <2>4, <2>5, <2>6 DEF Ownership
<1>10. NoneLeaks'
  <2> SUFFICES ASSUME NEW t \in Slots, slotState'[t] = "in flight" PROVE HasWork(t)'
    BY DEF NoneLeaks
  <2>1. CASE t = s
    BY <2>1, <1>3 DEF HasWork
  <2>2. CASE t # s
    BY <2>2, <1>3, <1>4, <1>6, ZenonT(60) DEF SlotInv, NoneLeaks, HasWork, shellTask
  <2> QED BY <2>1, <2>2
<1> QED BY <1>7, <1>9, <1>10

\* Submit(): the work moves from the receive task to the queue.
LEMMA SubmitMovesWork ==
  ASSUME SlotInv, NEW l \in Links, Submit(l)
  PROVE  SlotShapes' /\ Ownership' /\ NoneLeaks'
<1> DEFINE item == [slot |-> rx[l].slot, request |-> slotRequest[rx[l].slot], link |-> l,
                    generation |-> IF l \in Direct THEN generation[l] ELSE 0, asker |-> rx[l].asker]
           n == Len(queue)
<1>1. rx[l].at = "ready" /\ queue' = Append(queue, item) /\ UNCHANGED <<cache, rxView, shellTask>>
  BY DEF Submit
<1>2. rx'[l].at = "idle" /\ \A m \in Links : m # l => rx'[m] = rx[m]
  BY Idleness DEF Submit, SlotInv, Typed, ReceiveTyped
<1>3. WorkTyped
  BY WorkIsTyped
<1>4. /\ item.slot = rx[l].slot /\ item.request = slotRequest[rx[l].slot]
      /\ rx[l].slot \in Slots /\ slotState[rx[l].slot] = "in flight"
  BY <1>1, <1>3 DEF WorkTyped, SlotInv, Ownership, ReadyOwns
<1>5. item # NoJob
  BY <1>4, NothingAssumption DEF NoJob
<1> HIDE DEF item
<1>6. /\ n \in Nat /\ Len(queue') = n + 1 /\ queue'[n + 1] = item
      /\ \A i \in 1 .. n : queue'[i] = queue[i]
  BY <1>1 DEF SlotInv, Typed, QueueTyped
<1>7. SlotShapes'
  BY <1>1, <1>2 DEF SlotInv, SlotShapes, cache, shellTask
<1> HIDE DEF n
<1>8. (\A i \in 1 .. n + 1 : i \in 1 .. n \/ i = n + 1) /\ n + 1 \in 1 .. n + 1
      /\ \A i \in 1 .. n : i \in 1 .. n + 1
  BY <1>6
<1>9. ReadyOwns'
  BY <1>1, <1>2 DEF SlotInv, Ownership, ReadyOwns, cache
<1>10. QueueOwns'
  BY <1>1, <1>4, <1>6, <1>8, ZenonT(60) DEF SlotInv, Ownership, QueueOwns, cache, n
<1>11. ShellOwns'
  BY <1>1 DEF SlotInv, Ownership, ShellOwns, cache, shellTask
<1>12. ReadyAlone'
  <2>1. ASSUME NEW m \in Links, NEW i \in 1 .. n + 1, rx'[m].at = "ready", queue'[i] # NoJob
        PROVE  rx'[m].slot # queue'[i].slot
    <3>1. m # l /\ rx'[m] = rx[m]
      BY <2>1, <1>2
    <3>2. CASE i \in 1 .. n
      BY <2>1, <3>1, <3>2, <1>6 DEF SlotInv, Ownership, ReadyAlone, n
    <3>3. CASE i = n + 1
      <4>1. rx[m].slot # rx[l].slot
        BY <2>1, <3>1, <1>1 DEF SlotInv, Ownership, ReadyAlone
      <4> QED BY <4>1, <3>1, <3>3, <1>4, <1>6
    <3> QED BY <3>2, <3>3, <1>8
  <2> QED BY <2>1, <1>2, <1>6 DEF SlotInv, Ownership, ReadyAlone
<1>13. QueueAlone'
  <2> SUFFICES ASSUME NEW i \in 1 .. n + 1, NEW j \in 1 .. n + 1, queue'[i] # NoJob, queue'[j] # NoJob,
                      queue'[i].slot = queue'[j].slot
               PROVE  i = j
    BY <1>6 DEF QueueAlone
  <2>1. \A k \in 1 .. n : queue[k] # NoJob => queue[k].slot # item.slot
    BY <1>1, <1>4 DEF SlotInv, Ownership, ReadyAlone, n
  <2> QED BY <2>1, <1>6, <1>8 DEF SlotInv, Ownership, QueueAlone, n
<1>14. ShellAlone'
  <2> SUFFICES ASSUME shell \in {"run", "complete"}, job # NoJob
               PROVE  /\ \A m \in Links : rx'[m].at = "ready" => rx'[m].slot # job.slot
                      /\ \A i \in 1 .. n + 1 : queue'[i] # NoJob => queue'[i].slot # job.slot
    BY <1>1, <1>6 DEF ShellAlone, shellTask
  <2>1. rx[l].slot # job.slot
    BY <1>1 DEF SlotInv, Ownership, ShellAlone
  <2> QED BY <2>1, <1>2, <1>4, <1>6, <1>8 DEF SlotInv, Ownership, ShellAlone, n
<1>15. NoneLeaks'
  <2> SUFFICES ASSUME NEW t \in Slots, slotState[t] = "in flight" PROVE HasWork(t)'
    BY <1>1 DEF NoneLeaks, cache
  <2>1. CASE t = rx[l].slot
    <3>1. queue'[n + 1].slot = t
      BY <2>1, <1>4, <1>6
    <3>2. n + 1 \in 1 .. Len(queue')
      BY <1>6, <1>8
    <3> QED BY <3>1, <3>2 DEF HasWork
  <2>2. CASE t # rx[l].slot
    <3>1. HasWork(t)
      BY DEF SlotInv, NoneLeaks
    <3>2. ASSUME NEW i \in 1 .. n, queue[i].slot = t PROVE i \in 1 .. Len(queue') /\ queue'[i].slot = t
      <4>1. i \in 1 .. Len(queue')
        BY <1>6, <1>8
      <4> QED BY <4>1, <3>2, <1>6
    <3> QED BY <2>2, <3>1, <3>2, <1>1, <1>2 DEF HasWork, cache, shellTask, n
  <2> QED BY <2>1, <2>2
<1> QED BY <1>7, <1>9, <1>10, <1>11, <1>12, <1>13, <1>14, <1>15 DEF Ownership

\* reject_busy() or complete() records a result: slot s is done, and its one worker is done with it.
Recorded(s) ==
  /\ slotRequest' = slotRequest /\ queue' = queue
  /\ slotState' = [slotState EXCEPT ![s] = "done"]
  /\ \A m \in Links : rx'[m].at = "ready" => rx'[m] = rx[m] /\ rx[m].slot # s
  /\ \A m \in Links : rx[m].at = "ready" /\ rx[m].slot # s => rx'[m] = rx[m]
  /\ \A i \in 1 .. Len(queue) : queue[i] # NoJob => queue[i].slot # s
  /\ shell' \in {"run", "complete"} /\ job' # NoJob =>
       shell \in {"run", "complete"} /\ job' = job /\ job.slot # s
  /\ shell \in {"run", "complete"} /\ job.slot \in Slots \ {s} => shell' = shell /\ job' = job

LEMMA RecordEndsWork ==
  ASSUME SlotInv, NEW s \in Slots, Recorded(s)
  PROVE  Ownership' /\ NoneLeaks'
<1>1. slotState'[s] = "done" /\ \A t \in Slots : t # s => slotState'[t] = slotState[t]
  BY DEF Recorded, SlotInv, Typed, CacheTyped
<1>2. WorkTyped
  BY WorkIsTyped
<1>3. Ownership'
  BY <1>1, <1>2, WorkShrinks DEF WorkTyped, Recorded
<1>4. NoneLeaks'
  <2> SUFFICES ASSUME NEW t \in Slots, slotState'[t] = "in flight" PROVE HasWork(t)'
    BY DEF NoneLeaks
  <2>1. t # s /\ slotState[t] = "in flight"
    BY <1>1
  <2>2. HasWork(t)
    BY <2>1 DEF SlotInv, NoneLeaks
  <2> QED BY <2>1, <2>2 DEF HasWork, Recorded
<1> QED BY <1>3, <1>4

LEMMA RejectEndsWork ==
  ASSUME SlotInv, NEW l \in Links, RejectBusy(l)
  PROVE  SlotShapes' /\ Ownership' /\ NoneLeaks'
<1> DEFINE s == rx[l].slot  q == slotRequest[s]  r == Result(q, "busy")
<1>1. /\ rx[l].at = "ready" /\ Prepare(l, q, r)
      /\ slotState' = [slotState EXCEPT ![s] = "done"] /\ slotResult' = [slotResult EXCEPT ![s] = r]
      /\ UNCHANGED <<slotRequest, queue, shellTask>>
  BY DEF RejectBusy
<1>2. WorkTyped
  BY WorkIsTyped
<1>3. s \in Slots /\ slotState[s] = "in flight"
  BY <1>1, <1>2 DEF WorkTyped, SlotInv, Ownership, ReadyOwns
<1>4. q \in Requests /\ r \in Payloads
  BY <1>3, ResultTyped DEF SlotInv, SlotShapes
<1>5. /\ rx'[l].at = "reply" /\ rxView' \in Payloads
      /\ \A m \in Links : m # l => rx'[m] = rx[m]
  BY <1>1, <1>4, PrepareTyped DEF SlotInv, Typed
<1>6. \A m \in Links : m # l /\ rx[m].at = "ready" => rx[m].slot # s
  BY <1>1 DEF SlotInv, Ownership, ReadyAlone
<1>7. \A i \in 1 .. Len(queue) : queue[i] # NoJob => queue[i].slot # s
  BY <1>1 DEF SlotInv, Ownership, ReadyAlone
<1>8. shell \in {"run", "complete"} /\ job # NoJob => job.slot # s
  BY <1>1 DEF SlotInv, Ownership, ShellAlone
<1> HIDE DEF s, q, r
<1>9. Recorded(s)
  <2>1. \A m \in Links : rx'[m].at = "ready" => rx'[m] = rx[m] /\ rx[m].slot # s
    BY <1>5, <1>6
  <2>2. \A m \in Links : rx[m].at = "ready" /\ rx[m].slot # s => rx'[m] = rx[m]
    BY <1>5 DEF s
  <2>3. shell' = shell /\ job' = job
    BY <1>1 DEF shellTask
  <2> QED BY <2>1, <2>2, <2>3, <1>1, <1>7, <1>8 DEF Recorded
<1>10. \A t \in Slots :
         \/ slotState'[t] = slotState[t] /\ slotResult'[t] = slotResult[t]
         \/ slotState[t] = "in flight" /\ slotState'[t] = "done" /\ slotResult'[t] = r
  BY <1>1, <1>3 DEF SlotInv, Typed, CacheTyped
<1>11. SlotShapes'
  BY <1>1, <1>4, <1>5, <1>10 DEF SlotInv, SlotShapes, shellTask
<1> QED BY <1>3, <1>9, <1>11, RecordEndsWork

LEMMA CompleteEndsWork ==
  ASSUME SlotInv, NEW status \in {"success", "failed"}, ShellComplete(status)
  PROVE  SlotShapes' /\ Ownership' /\ NoneLeaks'
<1> DEFINE s == job.slot  q == slotRequest[s]  r == Result(q, status)
<1>1. /\ shell = "complete" /\ job # NoJob
      /\ slotState' = [slotState EXCEPT ![s] = "done"] /\ slotResult' = [slotResult EXCEPT ![s] = r]
      /\ shellView' = r /\ shell' \in {"check", "send"}
      /\ UNCHANGED <<slotRequest, queue, receive, job>>
  BY DEF ShellComplete, SlotInv, SlotShapes
<1>2. WorkTyped
  BY WorkIsTyped
<1>3. s \in Slots /\ slotState[s] = "in flight"
  BY <1>1, <1>2 DEF WorkTyped, SlotInv, Ownership, ShellOwns
<1>4. q \in Requests /\ r \in Payloads
  BY <1>3, ResultTyped DEF SlotInv, SlotShapes
<1>5. /\ \A m \in Links : rx[m].at = "ready" => rx[m].slot # s
      /\ \A i \in 1 .. Len(queue) : queue[i] # NoJob => queue[i].slot # s
  BY <1>1 DEF SlotInv, Ownership, ShellAlone
<1>6. job.slot \notin Slots \ {s}
  OBVIOUS
<1> HIDE DEF s, q, r
<1>9. Recorded(s)
  BY <1>1, <1>5, <1>6 DEF Recorded, receive
<1>10. \A t \in Slots :
         \/ slotState'[t] = slotState[t] /\ slotResult'[t] = slotResult[t]
         \/ slotState[t] = "in flight" /\ slotState'[t] = "done" /\ slotResult'[t] = r
  BY <1>1, <1>3 DEF SlotInv, Typed, CacheTyped
<1>11. SlotShapes'
  BY <1>1, <1>4, <1>10 DEF SlotInv, SlotShapes, receive
<1> QED BY <1>3, <1>9, <1>11, RecordEndsWork

\* SubmitLocal: a line without a slot joins the queue.
LEMMA LocalHasNoSlot ==
  ASSUME SlotInv, SubmitLocal
  PROVE  SlotShapes' /\ Ownership' /\ NoneLeaks'
<1> DEFINE n == Len(queue)
<1>1. queue' = Append(queue, NoJob) /\ UNCHANGED <<cache, receive, shellTask>>
  BY DEF SubmitLocal
<1>2. /\ n \in Nat /\ Len(queue') = n + 1 /\ queue'[n + 1] = NoJob
      /\ \A i \in 1 .. n : queue'[i] = queue[i]
  BY <1>1 DEF SlotInv, Typed, QueueTyped
<1> HIDE DEF n
<1>3. (\A i \in 1 .. n + 1 : i \in 1 .. n \/ i = n + 1) /\ \A i \in 1 .. n : i \in 1 .. n + 1
  BY <1>2
<1>4. \A i \in 1 .. Len(queue') : queue'[i] # NoJob => i \in 1 .. Len(queue) /\ queue'[i] = queue[i]
  BY <1>2, <1>3 DEF n
<1>5. SlotShapes'
  BY <1>1 DEF SlotInv, SlotShapes, cache, receive, shellTask
<1>6. ReadyOwns' /\ ShellOwns'
  BY <1>1 DEF SlotInv, Ownership, ReadyOwns, ShellOwns, cache, receive, shellTask
<1>7. QueueOwns'
  BY <1>1, <1>4 DEF SlotInv, Ownership, QueueOwns, cache
<1>8. ReadyAlone'
  BY <1>1, <1>4 DEF SlotInv, Ownership, ReadyAlone, receive
<1>9. QueueAlone'
  BY <1>4 DEF SlotInv, Ownership, QueueAlone
<1>10. ShellAlone'
  BY <1>1, <1>4 DEF SlotInv, Ownership, ShellAlone, receive, shellTask
<1>11. NoneLeaks'
  <2> SUFFICES ASSUME NEW t \in Slots, slotState[t] = "in flight" PROVE HasWork(t)'
    BY <1>1 DEF NoneLeaks, cache
  <2>1. HasWork(t)
    BY DEF SlotInv, NoneLeaks
  <2>2. ASSUME NEW i \in 1 .. Len(queue), queue[i].slot = t
        PROVE  i \in 1 .. Len(queue') /\ queue'[i].slot = t
    <3>1. i \in 1 .. Len(queue')
      BY <1>2, <1>3 DEF n
    <3> QED BY <3>1, <2>2, <1>2 DEF n
  <2> QED BY <2>1, <2>2, <1>1 DEF HasWork, cache, receive, shellTask
<1> QED BY <1>5, <1>6, <1>7, <1>8, <1>9, <1>10, <1>11 DEF Ownership

\* xQueueReceive(): the work moves from the head of the queue to the shell task.
LEMMA ReceiveMovesWork ==
  ASSUME SlotInv, ShellReceive
  PROVE  SlotShapes' /\ Ownership' /\ NoneLeaks'
<1> DEFINE n == Len(queue)
<1>1. /\ shell = "idle" /\ queue # << >> /\ queue' = Tail(queue) /\ job' = Head(queue) /\ shell' = "run"
      /\ UNCHANGED <<cache, receive, shellView>>
  BY DEF ShellReceive
<1>2. /\ n \in Nat \ {0} /\ Len(queue') = n - 1 /\ job' = queue[1]
      /\ \A i \in 1 .. n - 1 : queue'[i] = queue[i + 1]
  BY <1>1 DEF SlotInv, Typed, QueueTyped
<1> HIDE DEF n
<1>3. /\ \A i \in 1 .. n - 1 : i + 1 \in 1 .. n /\ i + 1 # 1
      /\ 1 \in 1 .. n
      /\ \A i \in 1 .. n : i # 1 => i - 1 \in 1 .. n - 1 /\ (i - 1) + 1 = i
      /\ \A i, j \in 1 .. n - 1 : i + 1 = j + 1 => i = j
  BY <1>2
<1>4. SlotShapes'
  BY <1>1 DEF SlotInv, SlotShapes, cache, receive
<1>5. ReadyOwns'
  BY <1>1 DEF SlotInv, Ownership, ReadyOwns, cache, receive
<1>6. QueueOwns'
  <2> SUFFICES ASSUME NEW i \in 1 .. n - 1, queue'[i] # NoJob
               PROVE  slotState[queue'[i].slot] = "in flight" /\ slotRequest[queue'[i].slot] = queue'[i].request
    BY <1>1, <1>2 DEF QueueOwns, cache
  <2>1. queue'[i] = queue[i + 1] /\ i + 1 \in 1 .. Len(queue)
    BY <1>2, <1>3 DEF n
  <2> QED BY <2>1 DEF SlotInv, Ownership, QueueOwns
<1>11. ShellOwns'
  BY <1>1, <1>2, <1>3 DEF SlotInv, Ownership, QueueOwns, ShellOwns, cache, n
<1>7. ReadyAlone'
  BY <1>1, <1>2, <1>3 DEF SlotInv, Ownership, ReadyAlone, receive, n
<1>8. QueueAlone'
  BY <1>2, <1>3 DEF SlotInv, Ownership, QueueAlone, n
<1>9. ShellAlone'
  BY <1>1, <1>2, <1>3 DEF SlotInv, Ownership, ReadyAlone, QueueAlone, ShellAlone, receive, n
<1>10. NoneLeaks'
  <2> SUFFICES ASSUME NEW t \in Slots, slotState[t] = "in flight" PROVE HasWork(t)'
    BY <1>1 DEF NoneLeaks, cache
  <2>1. HasWork(t)
    BY DEF SlotInv, NoneLeaks
  <2>2. ASSUME NEW i \in 1 .. n, queue[i].slot = t PROVE HasWork(t)'
    <3>1. CASE i = 1
      BY <2>2, <3>1, <1>1, <1>2 DEF HasWork
    <3>2. CASE i # 1
      <4>1. i - 1 \in 1 .. Len(queue') /\ queue'[i - 1] = queue[i]
        BY <3>2, <1>2, <1>3
      <4> QED BY <4>1, <2>2 DEF HasWork
    <3> QED BY <3>1, <3>2
  <2> QED BY <2>1, <2>2, <1>1 DEF HasWork, cache, receive, n
<1> QED BY <1>4, <1>5, <1>6, <1>7, <1>8, <1>9, <1>10, <1>11 DEF Ownership

\* The other steps of the shell task, and an answer that leaves.
LEMMA ShellKeepsSlots ==
  ASSUME SlotInv, ShellRun \/ ShellRunLocal \/ ShellCompleteTooLong \/ ShellCheck \/ ShellSend
  PROVE  SlotShapes' /\ Ownership' /\ NoneLeaks'
<1>1. UNCHANGED <<cache, receive, queue>>
  BY DEF ShellRun, ShellRunLocal, ShellCompleteTooLong, ShellCheck, ShellSend
<1>2. /\ shell' \in {"run", "complete"} /\ job' # NoJob => shell \in {"run", "complete"} /\ job' = job
      /\ shell' \in {"complete", "check", "send"} => job' # NoJob
      /\ shell' \in {"check", "send"} => shell \in {"check", "send"} /\ shellView' = shellView
  BY DEF ShellRun, ShellRunLocal, ShellCompleteTooLong, ShellCheck, ShellSend, SlotInv, SlotShapes, Typed,
         ShellTyped
<1>3. SlotShapes'
  BY <1>1, <1>2 DEF SlotInv, SlotShapes, cache, receive
<1>4. Ownership'
  BY <1>1, <1>2, WorkShrinks DEF cache, receive
<1>5. NoneLeaks'
  <2> SUFFICES ASSUME NEW t \in Slots, slotState[t] = "in flight" PROVE HasWork(t)'
    BY <1>1 DEF NoneLeaks, cache
  <2>1. HasWork(t)
    BY DEF SlotInv, NoneLeaks
  <2>2. CASE shell \in {"run", "complete"} /\ job.slot = t
    <3>1. job # NoJob /\ slotRequest[t] = job.request
      BY <2>2, WorkIsTyped DEF WorkTyped, SlotInv, Ownership, ShellOwns
    <3>2. CASE ShellRun
      BY <3>2, <2>2 DEF ShellRun, HasWork
    <3>3. CASE ShellCompleteTooLong
      BY <3>3, <3>1, <1>1 DEF ShellCompleteTooLong, HasWork, cache
    <3> QED BY <3>1, <3>2, <3>3, <2>2 DEF ShellRunLocal, ShellCheck, ShellSend
  <2> QED BY <2>1, <2>2, <1>1 DEF HasWork, cache, receive
<1> QED BY <1>3, <1>4, <1>5

LEMMA ReplyKeepsSlots ==
  ASSUME SlotInv, NEW l \in Links, Reply(l)
  PROVE  SlotShapes' /\ Ownership' /\ NoneLeaks'
<1>1. rx[l].at = "reply" /\ UNCHANGED <<cache, rxView, queue, shellTask>>
  BY DEF Reply
<1>2. rx'[l].at = "idle" /\ \A m \in Links : m # l => rx'[m] = rx[m]
  BY Idleness DEF Reply, SlotInv, Typed, ReceiveTyped
<1>3. SlotShapes'
  BY <1>1, <1>2 DEF SlotInv, SlotShapes, cache, shellTask
<1>4. Ownership'
  BY <1>1, <1>2, WorkShrinks DEF cache, shellTask
<1>5. NoneLeaks'
  BY <1>1, <1>2 DEF SlotInv, NoneLeaks, HasWork, cache, shellTask
<1> QED BY <1>3, <1>4, <1>5

\* Sessions come and go without touching slots; a reboot empties them all.
LEMMA OtherKeepsSlots ==
  ASSUME SlotInv, (\E l \in Direct : Connect(l) \/ Disconnect(l)) \/ UNCHANGED vars
  PROVE  SlotShapes' /\ Ownership' /\ NoneLeaks'
<1>1. UNCHANGED <<cache, receive, queue, shellTask>>
  BY DEF Connect, Disconnect, vars
<1>2. SlotShapes'
  BY <1>1 DEF SlotInv, SlotShapes, cache, receive, shellTask
<1>3. Ownership'
  BY <1>1, WorkShrinks DEF cache, receive, shellTask
<1>4. NoneLeaks'
  BY <1>1 DEF SlotInv, NoneLeaks, HasWork, cache, receive, shellTask
<1> QED BY <1>2, <1>3, <1>4

LEMMA RebootEmptiesSlots ==
  ASSUME SlotInv, Reboot
  PROVE  SlotShapes' /\ Ownership' /\ NoneLeaks'
<1>1. (\A l \in Links : rx'[l].at = "idle") /\ shell' = "idle" /\ queue' = << >>
  BY Idleness DEF Reboot
<1>2. \A s \in Slots : slotState'[s] = "free" /\ slotRequest'[s] = Nothing
  BY DEF Reboot, AllSlots
<1>3. 1 .. Len(queue') = {}
  BY <1>1
<1>4. SlotShapes' /\ NoneLeaks'
  BY <1>1, <1>2 DEF SlotShapes, NoneLeaks
<1>5. ReadyOwns' /\ ReadyAlone'
  BY <1>1 DEF ReadyOwns, ReadyAlone
<1>6. QueueOwns' /\ QueueAlone'
  BY <1>3 DEF QueueOwns, QueueAlone
<1>7. ShellOwns' /\ ShellAlone'
  BY <1>1 DEF ShellOwns, ShellAlone
<1> QED BY <1>4, <1>5, <1>6, <1>7 DEF Ownership

\* Every step keeps the slots and the work on them in order.
LEMMA SlotsInductive == SlotInv /\ [Next]_vars => SlotInv'
<1> SUFFICES ASSUME SlotInv, [Next]_vars PROVE SlotInv'
  OBVIOUS
<1>1. Typed'
  BY ReceiveStepTyped, ShellStepTyped, OtherStepTyped DEF SlotInv, Ownership, Next
<1>2. ASSUME NEW l \in Links, ReceiveStep(l) PROVE SlotShapes' /\ Ownership' /\ NoneLeaks'
  BY <1>2, AnswerKeepsSlots, AnsweredKeepsSlots, ReadyTakesSlot, SubmitMovesWork, RejectEndsWork,
     ReplyKeepsSlots DEF ReceiveStep
<1>3. CASE ShellStep
  <2>1. SlotShapes' /\ Ownership' /\ NoneLeaks'
    BY <1>3, ReceiveMovesWork, ShellKeepsSlots, CompleteEndsWork DEF ShellStep
  <2> QED BY <1>1, <2>1 DEF SlotInv
<1>4. CASE SubmitLocal \/ (\E l \in Direct : Connect(l) \/ Disconnect(l)) \/ Reboot \/ UNCHANGED vars
  <2>1. SlotShapes' /\ Ownership' /\ NoneLeaks'
    BY <1>4, LocalHasNoSlot, OtherKeepsSlots, RebootEmptiesSlots
  <2> QED BY <1>1, <2>1 DEF SlotInv
<1> QED BY <1>1, <1>2, <1>3, <1>4 DEF SlotInv, Next

-----------------------------------------------------------------------------
(* What was run and what was said.                                          *)

\* What a key was said to have come to: told, or still to be told from a recorded or prepared result.
LEMMA SaidMeans ==
  ASSUME NEW k \in Keys, NEW v
  PROVE  v \in Said(k) <=>
           \/ v \in told[k] /\ v # "busy"
           \/ v \in Final /\ \E p \in Payloads : p \in Known /\ p.key = k /\ p.status = v
<1>1. v \in Final => [key |-> k, status |-> v] \in Payloads
  BY DEF Final, Outcomes, Payloads
<1>2. \A p \in Payloads : p.key = k /\ p.status = v => p = [key |-> k, status |-> v]
  BY DEF Payloads
<1> QED BY <1>1, <1>2 DEF Said

\* A step after which at most the result r is new.
Adds(r) ==
  /\ r \in Payloads \cup {Nothing}
  /\ \A p \in Known' : p \in Known \/ p = Nothing \/ p = r
  /\ \A k \in Keys : told'[k] \ {"busy"} \subseteq Said(k)

LEMMA SaidGrows ==
  ASSUME NEW r, Adds(r), NEW k \in Keys, NEW v, v \in Said(k)', v \notin Said(k)
  PROVE  r \in Payloads /\ r.key = k /\ r.status = v /\ v \in Final
<1>1. v \in Final /\ [key |-> k, status |-> v] \in Known'
  BY DEF Said, Adds
<1>2. [key |-> k, status |-> v] \in Payloads
  BY <1>1 DEF Final, Outcomes, Payloads
<1>3. [key |-> k, status |-> v] \notin Known
  BY <1>1 DEF Said
<1>4. [key |-> k, status |-> v] = r
  BY <1>1, <1>2, <1>3, NothingAssumption DEF Adds
<1> QED BY <1>1, <1>2, <1>4

\* What follows for the keys when no outcome is new, the cache and the boot are the same, and
\* nothing was run.
QuietStep ==
  /\ UNCHANGED <<boot, cache, executed, refused>>
  /\ \A k \in Keys : Said(k)' \subseteq Said(k)

\* KeyInv but for the part about the work.
KeysOk == OneSlotPerKey /\ HeldIsSeen /\ Truth /\ InFlightUnsaid /\ AtMostOnce

LEMMA QuietKeepsKeys ==
  ASSUME SlotInv, KeyInv, QuietStep
  PROVE  KeysOk'
<1>1. OneSlotPerKey' /\ HeldIsSeen' /\ AtMostOnce'
  BY DEF QuietStep, KeyInv, OneSlotPerKey, HeldIsSeen, AtMostOnce, cache
<1>2. Truth'
  <2> SUFFICES ASSUME NEW k \in Keys
               PROVE  /\ \A v, w \in Said(k)' : v = w
                      /\ Said(k)' \cap {"success", "failed"} # {} => executed'[k] = 1
                      /\ k \in refused' => executed'[k] = 0 /\ Said(k)' = {}
                      /\ executed'[k] # 0 \/ Said(k)' # {} \/ k \in refused' => Spent(k)'
    BY DEF Truth
  <2>1. Spent(k)' <=> Spent(k)
    BY DEF QuietStep, Spent, cache
  <2> QED BY <2>1 DEF QuietStep, KeyInv, Truth
<1>3. InFlightUnsaid'
  BY DEF QuietStep, KeyInv, InFlightUnsaid, cache
<1> QED BY <1>1, <1>2, <1>3 DEF KeysOk

\* A request in flight was the last of its source to be accepted, or one before it.
LEMMA InFlightSpent ==
  ASSUME SlotInv, KeyInv, NEW s \in Slots, slotState[s] = "in flight"
  PROVE  /\ slotRequest[s] \in Requests /\ KeyOf[slotRequest[s]] \in Keys
         /\ Said(KeyOf[slotRequest[s]]) = {} /\ KeyOf[slotRequest[s]] \notin refused
         /\ Spent(KeyOf[slotRequest[s]])
<1>1. slotRequest[s] \in Requests /\ KeyOf[slotRequest[s]] \in Keys /\ slotRequest[s] # Nothing
  BY KeysTyped, RequestsAssumption DEF SlotInv, SlotShapes
<1>2. /\ Target[slotRequest[s]] = boot /\ Said(KeyOf[slotRequest[s]]) = {}
      /\ KeyOf[slotRequest[s]] \notin refused
  BY <1>1 DEF KeyInv, InFlightUnsaid
<1>3. KeyOf[slotRequest[s]].seq <= highWater[KeyOf[slotRequest[s]].source]
  BY <1>1 DEF KeyInv, HeldIsSeen
<1>4. \A p \in Requests : KeyOf[p] = KeyOf[slotRequest[s]] => Target[p] = boot
  BY <1>1, <1>2, TargetAssumption
<1> QED BY <1>1, <1>2, <1>3, <1>4 DEF Spent

\* A request not seen before, for this boot, names a key nothing was run or said of.
LEMMA UnseenIsUnsaid ==
  ASSUME SlotInv, KeyInv, NEW q \in Requests, IsUnseen(q), Target[q] = boot
  PROVE  executed[KeyOf[q]] = 0 /\ Said(KeyOf[q]) = {} /\ KeyOf[q] \notin refused
<1>1. KeyOf[q] \in Keys /\ KeyOf[q].source \in Sources /\ KeyOf[q].seq \in Nat
  BY KeysTyped
<1>2. highWater[KeyOf[q].source] \in Nat
  BY <1>1 DEF SlotInv, Typed, CacheTyped
<1>4. boot \in Nat
  BY BoundAssumption DEF SlotInv, Typed, RestTyped
<1>3. ~Spent(KeyOf[q])
  BY <1>1, <1>2, <1>4 DEF Spent, IsUnseen
<1> QED BY <1>1, <1>3 DEF KeyInv, Truth

\* Accepting a fresh request: no slot holds its key, and the marks only rise.
LEMMA ReserveKeepsHeld ==
  ASSUME SlotInv, KeyInv, boot' = boot, NEW q \in Requests, IsUnseen(q), NEW s \in Slots, NEW st, NEW r,
         Reserve(q, s, st, r)
  PROVE  /\ OneSlotPerKey' /\ HeldIsSeen'
         /\ \A t \in Slots : slotRequest[t] # Nothing => KeyOf[slotRequest[t]] # KeyOf[q]
         /\ \A k \in Keys : Spent(k) => Spent(k)'
         /\ Target[q] = boot => Spent(KeyOf[q])'
<1>1. /\ slotRequest'[s] = q /\ \A t \in Slots : t # s => slotRequest'[t] = slotRequest[t]
  BY ReserveChanges DEF SlotInv, Typed
<1>2. \A t \in Slots : slotRequest[t] # Nothing => KeyOf[slotRequest[t]] # KeyOf[q]
  BY DEF IsUnseen, Holding
<1>3. OneSlotPerKey'
  BY <1>1, <1>2 DEF KeyInv, OneSlotPerKey
<1>4. /\ KeyOf[q] \in Keys /\ KeyOf[q].source \in Sources /\ KeyOf[q].seq \in Nat
      /\ \A c \in Sources : highWater[c] \in Nat
      /\ highWater' = [highWater EXCEPT ![KeyOf[q].source] = KeyOf[q].seq]
      /\ KeyOf[q].seq > highWater[KeyOf[q].source]
      /\ highWater \in [Sources -> Nat]
  BY KeysTyped DEF Reserve, IsUnseen, SlotInv, Typed, CacheTyped
<1>5. /\ highWater'[KeyOf[q].source] = KeyOf[q].seq
      /\ \A c \in Sources : highWater[c] <= highWater'[c] /\ highWater'[c] \in Nat
  BY <1>4
<1>6. \A k \in Keys : k.source \in Sources /\ k.seq \in Nat
  BY KeysTyped DEF Keys
<1>7. HeldIsSeen'
  <2> SUFFICES ASSUME NEW t \in Slots, slotRequest'[t] # Nothing
               PROVE  KeyOf[slotRequest'[t]].seq <= highWater'[KeyOf[slotRequest'[t]].source]
    BY DEF HeldIsSeen
  <2>1. CASE t = s
    BY <2>1, <1>1, <1>4, <1>5
  <2>2. CASE t # s
    <3>1. slotRequest[t] \in Requests /\ slotRequest'[t] = slotRequest[t]
      BY <2>2, <1>1 DEF SlotInv, Typed, CacheTyped
    <3>2. KeyOf[slotRequest[t]].source \in Sources /\ KeyOf[slotRequest[t]].seq \in Nat
      BY <3>1, KeysTyped
    <3>3. KeyOf[slotRequest[t]].seq <= highWater[KeyOf[slotRequest[t]].source]
      BY <3>1 DEF KeyInv, HeldIsSeen
    <3> QED BY <3>1, <3>2, <3>3, <1>4, <1>5
  <2> QED BY <2>1, <2>2
<1>8. ASSUME NEW k \in Keys, Spent(k) PROVE Spent(k)'
  <2> SUFFICES ASSUME NEW p \in Requests, KeyOf[p] = k
               PROVE  Target[p] < boot \/ (Target[p] = boot /\ k.seq <= highWater'[k.source])
    BY DEF Spent
  <2>1. Target[p] < boot \/ (Target[p] = boot /\ k.seq <= highWater[k.source])
    BY <1>8 DEF Spent
  <2> QED BY <2>1, <1>4, <1>5, <1>6
<1>9. Target[q] = boot => Spent(KeyOf[q])'
  BY <1>4, <1>5, TargetAssumption DEF Spent
<1> QED BY <1>2, <1>3, <1>7, <1>8, <1>9

\* An outcome v is recorded for a key nothing was said of.
FirstOutcome(k, v) ==
  /\ executed' = executed /\ boot' = boot /\ refused' = refused
  /\ v \in Final /\ Said(k) = {} /\ k \notin refused /\ Spent(k)'
  /\ v \in {"success", "failed"} => executed[k] = 1
  /\ Said(k)' \subseteq {v}
  /\ \A j \in Keys : j # k => Said(j)' \subseteq Said(j)
  /\ \A j \in Keys : Spent(j) => Spent(j)'

LEMMA FirstOutcomeIsTrue ==
  ASSUME Truth, NEW k \in Keys, NEW v, FirstOutcome(k, v)
  PROVE  Truth'
<1> SUFFICES ASSUME NEW j \in Keys
             PROVE  /\ \A x, w \in Said(j)' : x = w
                    /\ Said(j)' \cap {"success", "failed"} # {} => executed'[j] = 1
                    /\ j \in refused' => executed'[j] = 0 /\ Said(j)' = {}
                    /\ executed'[j] # 0 \/ Said(j)' # {} \/ j \in refused' => Spent(j)'
  BY DEF Truth
<1>1. CASE j = k
  BY <1>1 DEF FirstOutcome
<1>2. CASE j # k
  BY <1>2 DEF FirstOutcome, Truth
<1> QED BY <1>1, <1>2

\* No outcome is new; what is refused now has not been run.
NoOutcome ==
  /\ executed' = executed
  /\ \A j \in Keys : j \in refused' => j \in refused \/ (executed[j] = 0 /\ Said(j) = {} /\ Spent(j))
  /\ \A j \in Keys : Said(j)' \subseteq Said(j)
  /\ \A j \in Keys : Spent(j) => Spent(j)'

LEMMA NoOutcomeIsTrue ==
  ASSUME Truth, NoOutcome
  PROVE  Truth'
<1> SUFFICES ASSUME NEW j \in Keys
             PROVE  /\ \A x, w \in Said(j)' : x = w
                    /\ Said(j)' \cap {"success", "failed"} # {} => executed'[j] = 1
                    /\ j \in refused' => executed'[j] = 0 /\ Said(j)' = {}
                    /\ executed'[j] # 0 \/ Said(j)' # {} \/ j \in refused' => Spent(j)'
  BY DEF Truth
<1> QED BY DEF NoOutcome, Truth

-----------------------------------------------------------------------------
(* One lemma per action: what it does to the keys.                          *)

LEMMA AnswerKeepsKeys ==
  ASSUME SlotInv, KeyInv, NEW l \in Links, NEW q \in Requests, IntakeReplay(l, q) \/ IntakeTransient(l, q)
  PROVE  KeyInv'
<1>1. PICK r \in Payloads : Prepare(l, q, r) /\ (r \in Known \/ r.status \notin Final)
  <2>1. CASE IntakeReplay(l, q)
    BY <2>1 DEF IntakeReplay, SlotInv, SlotShapes, Known
  <2>2. CASE IntakeTransient(l, q)
    BY <2>2, ResultTyped DEF IntakeTransient, Final, Outcomes
  <2> QED BY <2>1, <2>2
<1>2. /\ rx'[l].at = "reply" /\ rxView' = r
      /\ \A m \in Links : m # l => rx'[m] = rx[m]
  BY <1>1, PrepareTyped DEF SlotInv, Typed, Prepare
<1>3. UNCHANGED <<boot, cache, queue, shellTask, executed, told, refused>>
  BY DEF IntakeReplay, IntakeTransient
<1>4. Adds(r)
  BY <1>1, <1>2, <1>3 DEF Adds, Known, Said, cache, shellTask
<1>5. ASSUME NEW k \in Keys, NEW v, v \in Said(k)' PROVE v \in Said(k)
  <2>1. CASE r.status \notin Final
    BY <2>1, <1>4, <1>5, SaidGrows
  <2>2. CASE r \in Known
    <3>1. Adds(Nothing)
      BY <2>2, <1>4 DEF Adds
    <3> QED BY <3>1, <1>5, SaidGrows, NothingAssumption
  <2> QED BY <2>1, <2>2, <1>1
<1>6. KeysOk'
  BY <1>3, <1>5, QuietKeepsKeys DEF QuietStep
<1>7. WorkNotRun'
  BY <1>2, <1>3 DEF KeyInv, WorkNotRun, shellTask
<1> QED BY <1>6, <1>7 DEF KeysOk, KeyInv

LEMMA AnsweredKeepsKeys ==
  ASSUME SlotInv, KeyInv, NEW l \in Links, NEW q \in Requests, IntakeAnswered(l, q)
  PROVE  KeyInv'
<1> DEFINE status == IF StaleTarget(q) \/ Kind[q] = "invalid" THEN "rejected" ELSE "pong"
           k == KeyOf[q]
<1>1. PICK s \in Room : Reserve(q, s, "done", Result(q, status)) /\ Prepare(l, q, Result(q, status))
  BY DEF IntakeAnswered
<1>2. /\ Result(q, status) \in Payloads
      /\ Result(q, status).key = k /\ Result(q, status).status = status
  BY ResultTyped
<1>3. /\ status \in {"rejected", "pong"}
      /\ status = "pong" => Target[q] = boot
  BY DEF StaleTarget
<1>4. IsUnseen(q) /\ UNCHANGED <<boot, queue, shellTask, executed, told, refused>>
  BY DEF IntakeAnswered, IsFresh
<1> DEFINE r == Result(q, status)
<1>5. /\ rx'[l].at = "reply" /\ rxView' = r
      /\ \A m \in Links : m # l => rx'[m] = rx[m]
  BY <1>1, <1>2, PrepareTyped DEF SlotInv, Typed, Prepare
<1> HIDE DEF status, r
<1>6. s \in Slots /\ CacheTyped
  BY DEF Room, SlotInv, Typed
<1>7. /\ slotRequest'[s] = q /\ slotState'[s] = "done" /\ slotResult'[s] = r
      /\ \A t \in Slots : t # s => /\ slotRequest'[t] = slotRequest[t] /\ slotState'[t] = slotState[t]
                                   /\ slotResult'[t] = slotResult[t]
  BY <1>1, <1>6, ReserveChanges DEF r
<1>8. /\ OneSlotPerKey' /\ HeldIsSeen'
      /\ \A t \in Slots : slotRequest[t] # Nothing => KeyOf[slotRequest[t]] # k
      /\ \A j \in Keys : Spent(j) => Spent(j)'
      /\ Target[q] = boot => Spent(k)'
  BY <1>1, <1>4, <1>6, ReserveKeepsHeld
<1>9. Adds(r)
  BY <1>2, <1>4, <1>5, <1>7 DEF Adds, Known, Said, shellTask, r
<1>10. \A j \in Keys : \A v \in Said(j)' : v \in Said(j) \/ (j = k /\ v = status /\ status = "pong")
  <2> SUFFICES ASSUME NEW j \in Keys, NEW v, v \in Said(j)', v \notin Said(j)
               PROVE  j = k /\ v = status /\ status = "pong"
    OBVIOUS
  <2>1. r.key = j /\ r.status = v /\ v \in Final
    BY <1>9, SaidGrows
  <2> QED BY <2>1, <1>2, <1>3 DEF r, Final, Outcomes
<1>11. k \in Keys
  BY KeysTyped
<1>12. Truth'
  <2>1. CASE status = "rejected"
    <3>1. NoOutcome
      BY <2>1, <1>4, <1>8, <1>10 DEF NoOutcome
    <3> QED BY <3>1, NoOutcomeIsTrue DEF KeyInv
  <2>2. CASE status = "pong"
    <3>1. executed[k] = 0 /\ Said(k) = {} /\ k \notin refused /\ Spent(k)'
      BY <2>2, <1>3, <1>4, <1>8, UnseenIsUnsaid
    <3> HIDE DEF k
    <3>2. FirstOutcome(k, "pong")
      BY <2>2, <3>1, <1>4, <1>8, <1>10, <1>11 DEF FirstOutcome, Final, Outcomes
    <3> QED BY <3>2, <1>11, FirstOutcomeIsTrue DEF KeyInv
  <2> QED BY <2>1, <2>2, <1>3
<1>13. InFlightUnsaid'
  <2> SUFFICES ASSUME NEW t \in Slots, NEW j \in Keys, slotState'[t] = "in flight", KeyOf[slotRequest'[t]] = j
               PROVE  Target[slotRequest'[t]] = boot' /\ Said(j)' = {} /\ j \notin refused'
    BY DEF InFlightUnsaid
  <2>1. t # s /\ slotState[t] = "in flight" /\ slotRequest'[t] = slotRequest[t]
    BY <1>7
  <2>2. slotRequest[t] # Nothing
    BY <2>1, RequestsAssumption DEF SlotInv, SlotShapes
  <2>3. j # k /\ Target[slotRequest[t]] = boot /\ Said(j) = {} /\ j \notin refused
    BY <2>1, <2>2, <1>8 DEF KeyInv, InFlightUnsaid
  <2> QED BY <2>1, <2>3, <1>4, <1>10
<1>14. WorkNotRun'
  BY <1>4, <1>5 DEF KeyInv, WorkNotRun, shellTask
<1>15. AtMostOnce'
  BY <1>4 DEF KeyInv, AtMostOnce
<1> QED BY <1>8, <1>12, <1>13, <1>14, <1>15 DEF KeyInv

LEMMA ReadyKeepsKeys ==
  ASSUME SlotInv, KeyInv, NEW l \in Links, NEW q \in Requests, IntakeReady(l, q)
  PROVE  KeyInv'
<1> DEFINE k == KeyOf[q]
           asker == IF l \in Direct THEN session[l] ELSE 0
<1>1. PICK s \in Room :
        /\ Reserve(q, s, "in flight", Nothing)
        /\ rx' = [rx EXCEPT ![l] = [at |-> "ready", slot |-> s, key |-> k, asker |-> asker]]
  BY DEF IntakeReady
<1> HIDE DEF asker
<1>2. IsUnseen(q) /\ Target[q] = boot /\ UNCHANGED <<boot, rxView, queue, shellTask, executed, told, refused>>
  BY DEF IntakeReady, IsFresh, StaleTarget
<1>3. /\ rx'[l].key = k
      /\ \A m \in Links : m # l => rx'[m] = rx[m]
  BY <1>1 DEF SlotInv, Typed, ReceiveTyped
<1>4. s \in Slots /\ CacheTyped
  BY DEF Room, SlotInv, Typed
<1>5. /\ slotRequest'[s] = q /\ slotState'[s] = "in flight" /\ slotResult'[s] = Nothing
      /\ \A t \in Slots : t # s => /\ slotRequest'[t] = slotRequest[t] /\ slotState'[t] = slotState[t]
                                   /\ slotResult'[t] = slotResult[t]
  BY <1>1, <1>4, ReserveChanges, ZenonT(60)
<1>6. /\ OneSlotPerKey' /\ HeldIsSeen'
      /\ \A t \in Slots : slotRequest[t] # Nothing => KeyOf[slotRequest[t]] # k
      /\ \A j \in Keys : Spent(j) => Spent(j)'
  BY <1>1, <1>2, <1>4, ReserveKeepsHeld
<1>7. executed[k] = 0 /\ Said(k) = {} /\ k \notin refused
  BY <1>2, UnseenIsUnsaid
<1>8. Adds(Nothing)
  BY <1>2, <1>5 DEF Adds, Known, Said, shellTask
<1>9. \A j \in Keys : Said(j)' \subseteq Said(j)
  BY <1>8, SaidGrows, NothingAssumption
<1>10. Truth'
  BY <1>2, <1>6, <1>9, NoOutcomeIsTrue DEF NoOutcome, KeyInv
<1>11. InFlightUnsaid'
  <2> SUFFICES ASSUME NEW t \in Slots, NEW j \in Keys, slotState'[t] = "in flight", KeyOf[slotRequest'[t]] = j
               PROVE  Target[slotRequest'[t]] = boot' /\ Said(j)' = {} /\ j \notin refused'
    BY DEF InFlightUnsaid
  <2>1. CASE t = s
    BY <2>1, <1>2, <1>5, <1>7, <1>9
  <2>2. CASE t # s
    BY <2>2, <1>2, <1>5, <1>9 DEF KeyInv, InFlightUnsaid
  <2> QED BY <2>1, <2>2
<1>12. WorkNotRun'
  BY <1>2, <1>3, <1>7 DEF KeyInv, WorkNotRun, shellTask
<1>13. AtMostOnce'
  BY <1>2 DEF KeyInv, AtMostOnce
<1> QED BY <1>6, <1>10, <1>11, <1>12, <1>13 DEF KeyInv

\* A slot in flight becomes done with the first outcome of its key.
RecordsOutcome(s, v) ==
  /\ UNCHANGED <<boot, slotRequest, highWater, executed, refused>>
  /\ \A t \in Slots : slotState'[t] = "in flight" => t # s /\ slotState[t] = "in flight"
  /\ executed[KeyOf[slotRequest[s]]] = 1
  /\ Adds(Result(slotRequest[s], v))

LEMMA RecordKeepsKeys ==
  ASSUME SlotInv, KeyInv, NEW s \in Slots, slotState[s] = "in flight",
         NEW v \in {"success", "failed"}, RecordsOutcome(s, v)
  PROVE  KeysOk'
<1>1. PICK q \in Requests, k \in Keys :
        q = slotRequest[s] /\ k = KeyOf[q] /\ Said(k) = {} /\ k \notin refused /\ Spent(k)
  BY InFlightSpent
<1> DEFINE r == Result(q, v)
<1>2. r \in Payloads /\ r.key = k /\ r.status = v
  <2>1. v \in {"success", "failed", "busy", "rejected", "pong", "conflict"}
    OBVIOUS
  <2> QED BY <1>1, <2>1, ResultTyped
<1>3. /\ Adds(r) /\ UNCHANGED <<boot, slotRequest, highWater, executed, refused>>
      /\ executed[k] = 1
  BY <1>1 DEF RecordsOutcome
<1>10. \A t \in Slots : slotRequest[t] # Nothing /\ KeyOf[slotRequest[t]] = k => t = s
  BY <1>1, RequestsAssumption DEF KeyInv, OneSlotPerKey
<1> HIDE DEF r
<1>4. \A j \in Keys : \A x \in Said(j)' : x \in Said(j) \/ (j = k /\ x = v)
  <2> SUFFICES ASSUME NEW j \in Keys, NEW x, x \in Said(j)', x \notin Said(j)
               PROVE  j = k /\ x = v
    OBVIOUS
  <2> QED BY <1>2, <1>3, SaidGrows
<1>5. \A j \in Keys : Spent(j) => Spent(j)'
  BY <1>3 DEF Spent
<1>6. Truth'
  <2>1. FirstOutcome(k, v)
    BY <1>1, <1>3, <1>4, <1>5 DEF FirstOutcome, Final, Outcomes
  <2> QED BY <2>1, <1>1, FirstOutcomeIsTrue DEF KeyInv
<1>7. OneSlotPerKey' /\ HeldIsSeen' /\ AtMostOnce'
  BY <1>3 DEF KeyInv, OneSlotPerKey, HeldIsSeen, AtMostOnce
<1>8. InFlightUnsaid'
  <2> SUFFICES ASSUME NEW t \in Slots, NEW j \in Keys, slotState'[t] = "in flight", KeyOf[slotRequest[t]] = j
               PROVE  Target[slotRequest[t]] = boot /\ Said(j)' = {} /\ j \notin refused'
    BY <1>3 DEF InFlightUnsaid
  <2>1. t # s /\ slotState[t] = "in flight"
    BY DEF RecordsOutcome
  <2>2. slotRequest[t] # Nothing
    BY <2>1, RequestsAssumption DEF SlotInv, SlotShapes
  <2>3. j # k /\ Target[slotRequest[t]] = boot /\ Said(j) = {} /\ j \notin refused
    BY <2>1, <2>2, <1>10 DEF KeyInv, InFlightUnsaid
  <2> QED BY <2>3, <1>3, <1>4
<1> QED BY <1>6, <1>7, <1>8 DEF KeysOk

LEMMA RejectKeepsKeys ==
  ASSUME SlotInv, KeyInv, NEW l \in Links, RejectBusy(l)
  PROVE  KeyInv'
<1> DEFINE s == rx[l].slot  q == slotRequest[s]  r == Result(q, "busy")
<1>1. /\ rx[l].at = "ready" /\ Prepare(l, q, r)
      /\ slotState' = [slotState EXCEPT ![s] = "done"] /\ slotResult' = [slotResult EXCEPT ![s] = r]
      /\ refused' = refused \cup {KeyOf[q]}
      /\ UNCHANGED <<boot, slotRequest, highWater, queue, shellTask, executed, told>>
  BY DEF RejectBusy
<1>2. s \in Slots /\ slotState[s] = "in flight" /\ KeyOf[q] = rx[l].key
  BY <1>1, WorkIsTyped DEF WorkTyped, SlotInv, Ownership, ReadyOwns
<1>3. /\ q \in Requests /\ executed[KeyOf[q]] = 0
      /\ KeyOf[q] \in Keys /\ Said(KeyOf[q]) = {} /\ Spent(KeyOf[q])
  BY <1>1, <1>2, InFlightSpent DEF KeyInv, WorkNotRun
<1>4. r \in Payloads
  BY <1>3, ResultTyped
<1>5. /\ rx'[l].at = "reply" /\ rxView' = r
      /\ \A m \in Links : m # l => rx'[m] = rx[m]
  BY <1>1, <1>3, <1>4, PrepareTyped DEF SlotInv, Typed, Prepare
<1>6. \A t \in Slots :
        \/ t # s /\ slotState'[t] = slotState[t] /\ slotResult'[t] = slotResult[t]
        \/ t = s /\ slotState'[t] = "done" /\ slotResult'[t] = r
  BY <1>1, <1>2 DEF SlotInv, Typed, CacheTyped
<1>7. Adds(r)
  BY <1>1, <1>4, <1>5, <1>6 DEF Adds, Known, Said, shellTask
<1>8. \A j \in Keys : Said(j)' \subseteq Said(j)
  <2> SUFFICES ASSUME NEW j \in Keys, NEW v, v \in Said(j)', v \notin Said(j)
               PROVE  FALSE
    OBVIOUS
  <2>1. r.status = v /\ v \in Final
    BY <1>7, SaidGrows
  <2>2. r.status = "busy"
    BY <1>3, ResultTyped
  <2> QED BY <2>1, <2>2 DEF Final
<1> HIDE DEF s
<1>11. Truth'
  <2>1. \A j \in Keys : Spent(j) => Spent(j)'
    BY <1>1 DEF Spent
  <2>2. NoOutcome
    BY <1>1, <1>3, <1>8, <2>1 DEF NoOutcome
  <2> QED BY <2>2, NoOutcomeIsTrue DEF KeyInv
<1>12. OneSlotPerKey' /\ HeldIsSeen' /\ AtMostOnce'
  BY <1>1 DEF KeyInv, OneSlotPerKey, HeldIsSeen, AtMostOnce
<1>13. InFlightUnsaid'
  <2> SUFFICES ASSUME NEW t \in Slots, NEW j \in Keys, slotState'[t] = "in flight", KeyOf[slotRequest[t]] = j
               PROVE  Target[slotRequest[t]] = boot /\ Said(j)' = {} /\ j \notin refused'
    BY <1>1 DEF InFlightUnsaid
  <2>1. t # s /\ slotState[t] = "in flight"
    BY <1>6
  <2>2. slotRequest[t] # Nothing /\ q # Nothing
    BY <2>1, <1>3, RequestsAssumption DEF SlotInv, SlotShapes
  <2>3. /\ j # KeyOf[q] /\ Target[slotRequest[t]] = boot /\ Said(j) = {} /\ j \notin refused
    BY <2>1, <2>2, <1>2 DEF KeyInv, InFlightUnsaid, OneSlotPerKey
  <2> QED BY <2>3, <1>1, <1>8
<1>9. KeysOk'
  BY <1>11, <1>12, <1>13 DEF KeysOk
<1>10. WorkNotRun'
  BY <1>1, <1>5 DEF KeyInv, WorkNotRun, shellTask
<1> QED BY <1>9, <1>10 DEF KeysOk, KeyInv

LEMMA CompleteKeepsKeys ==
  ASSUME SlotInv, KeyInv, NEW status \in {"success", "failed"}, ShellComplete(status)
  PROVE  KeyInv'
<1> DEFINE s == job.slot  q == slotRequest[s]  r == Result(q, status)
<1>1. /\ shell = "complete" /\ job # NoJob
      /\ slotState' = [slotState EXCEPT ![s] = "done"] /\ slotResult' = [slotResult EXCEPT ![s] = r]
      /\ shellView' = r /\ shell' \in {"check", "send"}
      /\ UNCHANGED <<boot, slotRequest, highWater, queue, receive, job, executed, told, refused>>
  BY DEF ShellComplete, SlotInv, SlotShapes
<1>2. s \in Slots /\ slotState[s] = "in flight" /\ q = job.request
  BY <1>1, WorkIsTyped DEF WorkTyped, SlotInv, Ownership, ShellOwns
<1>3. q \in Requests /\ executed[KeyOf[q]] = 1
  BY <1>1, <1>2, InFlightSpent DEF KeyInv, WorkNotRun
<1>4. r \in Payloads
  BY <1>3, ResultTyped
<1>6. \A t \in Slots :
        \/ t # s /\ slotState'[t] = slotState[t] /\ slotResult'[t] = slotResult[t]
        \/ t = s /\ slotState'[t] = "done" /\ slotResult'[t] = r
  BY <1>1, <1>2 DEF SlotInv, Typed, CacheTyped
<1>7. Adds(r)
  BY <1>1, <1>4, <1>6 DEF Adds, Known, Said, receive
<1>8. RecordsOutcome(s, status)
  BY <1>1, <1>3, <1>6, <1>7 DEF RecordsOutcome
<1>9. KeysOk'
  <2> HIDE DEF s
  <2> QED BY <1>2, <1>8, RecordKeepsKeys
<1>10. WorkNotRun'
  BY <1>1 DEF KeyInv, WorkNotRun, receive
<1> QED BY <1>9, <1>10 DEF KeysOk, KeyInv

\* run_command_line(): the key of the job is run, and no other work has that key.
LEMMA RunKeepsKeys ==
  ASSUME SlotInv, KeyInv, ShellRun
  PROVE  KeyInv'
<1>1. /\ shell = "run" /\ job # NoJob /\ shell' = "complete"
      /\ executed' = [executed EXCEPT ![KeyOf[job.request]] = @ + 1]
      /\ UNCHANGED <<boot, cache, receive, queue, job, shellView, told, refused>>
  BY DEF ShellRun
<1>2. WorkTyped
  BY WorkIsTyped
<1>3. job.slot \in Slots /\ slotState[job.slot] = "in flight" /\ slotRequest[job.slot] = job.request
  BY <1>1, <1>2 DEF WorkTyped, SlotInv, Ownership, ShellOwns
<1>4. PICK k \in Keys : k = KeyOf[job.request] /\ Said(k) = {} /\ k \notin refused /\ Spent(k)
  BY <1>3, InFlightSpent
<1>5. /\ executed[k] = 0 /\ executed'[k] = 1
      /\ \A j \in Keys : j # k => executed'[j] = executed[j]
  BY <1>1, <1>4 DEF KeyInv, WorkNotRun, SlotInv, Typed, RestTyped
<1>6. \A j \in Keys : Said(j)' = Said(j) /\ (Spent(j)' <=> Spent(j))
  BY <1>1 DEF Said, Known, Spent, cache, receive
<1>7. Truth'
  <2> SUFFICES ASSUME NEW j \in Keys
               PROVE  /\ \A x, w \in Said(j) : x = w
                      /\ Said(j) \cap {"success", "failed"} # {} => executed'[j] = 1
                      /\ j \in refused => executed'[j] = 0 /\ Said(j) = {}
                      /\ executed'[j] # 0 \/ Said(j) # {} \/ j \in refused => Spent(j)
    BY <1>1, <1>6 DEF Truth
  <2>1. CASE j = k
    BY <2>1, <1>4
  <2>2. CASE j # k
    BY <2>2, <1>5 DEF KeyInv, Truth
  <2> QED BY <2>1, <2>2
<1>8. OneSlotPerKey' /\ HeldIsSeen'
  BY <1>1 DEF KeyInv, OneSlotPerKey, HeldIsSeen, cache
<1>9. InFlightUnsaid'
  BY <1>1, <1>6 DEF KeyInv, InFlightUnsaid, cache
<1>10. \A t \in Slots : slotState[t] = "in flight" /\ t # job.slot => KeyOf[slotRequest[t]] # k
  BY <1>3, <1>4, InFlightSpent, RequestsAssumption, ZenonT(60) DEF KeyInv, OneSlotPerKey
<1>11. \A l \in Links : rx[l].at = "ready" => executed'[rx[l].key] = 0
  <2> SUFFICES ASSUME NEW l \in Links, rx[l].at = "ready" PROVE executed'[rx[l].key] = 0
    OBVIOUS
  <2>1. rx[l].slot \in Slots /\ rx[l].slot # job.slot /\ rx[l].key \in Keys
    BY <1>1, <1>2 DEF WorkTyped, SlotInv, Ownership, ShellAlone
  <2>2. slotState[rx[l].slot] = "in flight" /\ KeyOf[slotRequest[rx[l].slot]] = rx[l].key
    BY DEF SlotInv, Ownership, ReadyOwns
  <2> QED BY <2>1, <2>2, <1>5, <1>10 DEF KeyInv, WorkNotRun
<1>12. \A i \in 1 .. Len(queue) : queue[i] # NoJob => executed'[KeyOf[queue[i].request]] = 0
  <2> SUFFICES ASSUME NEW i \in 1 .. Len(queue), queue[i] # NoJob
               PROVE  executed'[KeyOf[queue[i].request]] = 0
    OBVIOUS
  <2>1. queue[i].slot \in Slots /\ queue[i].slot # job.slot /\ KeyOf[queue[i].request] \in Keys
    BY <1>1, <1>2, KeysTyped DEF WorkTyped, SlotInv, Ownership, ShellAlone
  <2>2. slotState[queue[i].slot] = "in flight" /\ slotRequest[queue[i].slot] = queue[i].request
    BY DEF SlotInv, Ownership, QueueOwns
  <2> QED BY <2>1, <2>2, <1>5, <1>10 DEF KeyInv, WorkNotRun
<1>13. WorkNotRun'
  BY <1>1, <1>4, <1>5, <1>11, <1>12 DEF WorkNotRun, receive
<1>14. AtMostOnce'
  BY <1>5 DEF KeyInv, AtMostOnce
<1> QED BY <1>7, <1>8, <1>9, <1>13, <1>14 DEF KeyInv

\* No other step says anything new, or runs anything.
LEMMA QuietSteps ==
  ASSUME SlotInv,
         \/ \E l \in Links : Submit(l) \/ Reply(l)
         \/ ShellReceive \/ ShellRunLocal \/ ShellCompleteTooLong \/ ShellCheck \/ ShellSend
         \/ SubmitLocal \/ (\E l \in Direct : Connect(l) \/ Disconnect(l)) \/ UNCHANGED vars
  PROVE  QuietStep
<1>1. UNCHANGED <<boot, cache, executed, refused, rxView>> /\ (shellView' = shellView \/ shellView' = Nothing)
  BY DEF Submit, Reply, ShellReceive, ShellRunLocal, ShellCompleteTooLong, ShellCheck, ShellSend, SubmitLocal,
         Connect, Disconnect, vars, receive, shellTask, cache
<1>2. \A k \in Keys : told'[k] \ {"busy"} \subseteq Said(k)
  <2>1. ASSUME NEW l, NEW p \in Payloads, Send(l, p), p \in Known, NEW k \in Keys
        PROVE  told'[k] \ {"busy"} \subseteq Said(k)
    <3>1. p = [key |-> p.key, status |-> p.status]
      BY DEF Payloads
    <3>2. \A v \in told'[k] : v \in told[k] \/ (k = p.key /\ v = p.status /\ v \in Outcomes)
      BY <2>1 DEF Send, SlotInv, Typed, RestTyped
    <3> QED BY <3>1, <3>2, <2>1 DEF Said, Final
  <2>2. ASSUME NEW l \in Links, Reply(l) PROVE \A k \in Keys : told'[k] \ {"busy"} \subseteq Said(k)
    BY <2>1, <2>2 DEF Reply, SlotInv, SlotShapes, Known, Said
  <2>3. CASE ShellSend
    BY <2>1, <2>3 DEF ShellSend, SlotInv, SlotShapes, Known, Said
  <2>4. CASE told' = told
    BY <2>4 DEF Said
  <2> QED BY <2>2, <2>3, <2>4
          DEF Submit, ShellReceive, ShellRunLocal, ShellCompleteTooLong, ShellCheck, SubmitLocal, Connect,
              Disconnect, vars
<1>3. Adds(Nothing)
  BY <1>1, <1>2 DEF Adds, Known, cache
<1> QED BY <1>1, <1>3, SaidGrows, NothingAssumption DEF QuietStep

\* What is waiting to run moves on without having been run.
LEMMA QuietWork ==
  ASSUME SlotInv, KeyInv,
         \/ \E l \in Links : Submit(l) \/ Reply(l)
         \/ ShellReceive \/ ShellRunLocal \/ ShellCompleteTooLong \/ ShellCheck \/ ShellSend
         \/ SubmitLocal \/ (\E l \in Direct : Connect(l) \/ Disconnect(l)) \/ UNCHANGED vars
  PROVE  WorkNotRun'
<1>1. ASSUME NEW l \in Links, Submit(l) PROVE WorkNotRun'
  <2> DEFINE item == [slot |-> rx[l].slot, request |-> slotRequest[rx[l].slot], link |-> l,
                      generation |-> IF l \in Direct THEN generation[l] ELSE 0, asker |-> rx[l].asker]
  <2>1. /\ rx[l].at = "ready" /\ queue' = Append(queue, item) /\ UNCHANGED <<shellTask, executed>>
    BY <1>1 DEF Submit
  <2>2. rx'[l].at = "idle" /\ \A m \in Links : m # l => rx'[m] = rx[m]
    BY <1>1, Idleness DEF Submit, SlotInv, Typed, ReceiveTyped
  <2>3. executed[KeyOf[item.request]] = 0
    BY <2>1 DEF KeyInv, WorkNotRun, SlotInv, Ownership, ReadyOwns
  <2> HIDE DEF item
  <2>4. \A i \in 1 .. Len(queue') : queue'[i] = item \/ (i \in 1 .. Len(queue) /\ queue'[i] = queue[i])
    BY <2>1 DEF SlotInv, Typed, QueueTyped
  <2> QED BY <2>1, <2>2, <2>3, <2>4 DEF KeyInv, WorkNotRun, shellTask
<1>2. ASSUME NEW l \in Links, Reply(l) PROVE WorkNotRun'
  <2>1. rx'[l].at = "idle" /\ \A m \in Links : m # l => rx'[m] = rx[m]
    BY <1>2, Idleness DEF Reply, SlotInv, Typed, ReceiveTyped
  <2> QED BY <1>2, <2>1 DEF Reply, KeyInv, WorkNotRun, shellTask
<1>3. CASE ShellReceive
  <2>1. /\ queue # << >> /\ queue' = Tail(queue) /\ job' = Head(queue) /\ shell' = "run"
        /\ UNCHANGED <<receive, executed>>
    BY <1>3 DEF ShellReceive
  <2>2. 1 \in 1 .. Len(queue) /\ job' = queue[1]
    BY <2>1 DEF SlotInv, Typed, QueueTyped
  <2>3. \A i \in 1 .. Len(queue') : i + 1 \in 1 .. Len(queue) /\ queue'[i] = queue[i + 1]
    BY <2>1 DEF SlotInv, Typed, QueueTyped
  <2> QED BY <2>1, <2>2, <2>3 DEF KeyInv, WorkNotRun, receive
<1>4. CASE SubmitLocal
  <2>1. queue' = Append(queue, NoJob) /\ UNCHANGED <<receive, shellTask, executed>>
    BY <1>4 DEF SubmitLocal
  <2>2. \A i \in 1 .. Len(queue') : queue'[i] = NoJob \/ (i \in 1 .. Len(queue) /\ queue'[i] = queue[i])
    BY <2>1 DEF SlotInv, Typed, QueueTyped
  <2> QED BY <2>1, <2>2 DEF KeyInv, WorkNotRun, receive, shellTask
<1>5. CASE ShellRunLocal \/ ShellCompleteTooLong \/ ShellCheck \/ ShellSend
  <2>1. shell' \in {"idle", "send"} /\ UNCHANGED <<receive, queue, executed>>
    BY <1>5 DEF ShellRunLocal, ShellCompleteTooLong, ShellCheck, ShellSend
  <2> QED BY <2>1 DEF KeyInv, WorkNotRun, receive
<1>6. CASE (\E l \in Direct : Connect(l) \/ Disconnect(l)) \/ UNCHANGED vars
  <2>1. UNCHANGED <<receive, queue, shellTask, executed>>
    BY <1>6 DEF Connect, Disconnect, vars
  <2> QED BY <2>1 DEF KeyInv, WorkNotRun, receive, shellTask
<1> QED BY <1>1, <1>2, <1>3, <1>4, <1>5, <1>6

\* A reboot forgets the cache, but every key used so far names a boot that is over.
LEMMA RebootKeepsKeys ==
  ASSUME SlotInv, KeyInv, Reboot
  PROVE  KeyInv'
<1>1. /\ boot' = boot + 1 /\ boot \in Nat
      /\ \A s \in Slots : slotRequest'[s] = Nothing /\ slotState'[s] = "free" /\ slotResult'[s] = Nothing
      /\ rxView' = Nothing /\ shellView' = Nothing /\ queue' = << >> /\ shell' = "idle"
      /\ \A l \in Links : rx'[l].at = "idle"
      /\ UNCHANGED <<executed, told, refused>>
  BY Idleness, BoundAssumption DEF Reboot, AllSlots, SlotInv, Typed, RestTyped
<1>2. Adds(Nothing)
  BY <1>1 DEF Adds, Known, Said
<1>3. \A k \in Keys : Said(k)' \subseteq Said(k)
  BY <1>2, SaidGrows, NothingAssumption
<1>4. \A k \in Keys : Spent(k) => Spent(k)'
  BY <1>1, RequestsAssumption DEF Spent
<1>5. Truth'
  BY <1>1, <1>3, <1>4, NoOutcomeIsTrue DEF NoOutcome, KeyInv
<1>6. OneSlotPerKey' /\ HeldIsSeen' /\ InFlightUnsaid'
  BY <1>1 DEF OneSlotPerKey, HeldIsSeen, InFlightUnsaid
<1>7. WorkNotRun'
  <2>1. 1 .. Len(queue') = {}
    BY <1>1
  <2> QED BY <1>1, <2>1 DEF WorkNotRun
<1>8. AtMostOnce'
  BY <1>1 DEF KeyInv, AtMostOnce
<1> QED BY <1>5, <1>6, <1>7, <1>8 DEF KeyInv

-----------------------------------------------------------------------------
(* The theorems.                                                            *)

LEMMA InitKeys == Init => KeyInv
<1> SUFFICES ASSUME Init PROVE KeyInv
  OBVIOUS
<1>1. /\ \A s \in Slots : slotRequest[s] = Nothing /\ slotState[s] = "free" /\ slotResult[s] = Nothing
      /\ rxView = Nothing /\ shellView = Nothing /\ queue = << >> /\ shell = "idle"
      /\ \A l \in Links : rx[l].at = "idle"
      /\ \A k \in Keys : executed[k] = 0 /\ told[k] = {}
      /\ refused = {}
  BY Idleness DEF Init, AllSlots
<1>2. \A k \in Keys : Said(k) = {}
  BY <1>1, NothingAssumption, SaidMeans DEF Known
<1>3. OneSlotPerKey /\ HeldIsSeen /\ InFlightUnsaid
  BY <1>1 DEF OneSlotPerKey, HeldIsSeen, InFlightUnsaid
<1>4. Truth /\ AtMostOnce
  BY <1>1, <1>2 DEF Truth, AtMostOnce
<1>5. WorkNotRun
  <2>1. 1 .. Len(queue) = {}
    BY <1>1
  <2> QED BY <1>1, <2>1 DEF WorkNotRun
<1> QED BY <1>3, <1>4, <1>5 DEF KeyInv

\* Every step keeps what was run and said of the keys in order.
LEMMA KeysInductive == SlotInv /\ KeyInv /\ [Next]_vars => KeyInv'
<1> SUFFICES ASSUME SlotInv, KeyInv, [Next]_vars PROVE KeyInv'
  OBVIOUS
<1>1. ASSUME \/ \E l \in Links : Submit(l) \/ Reply(l)
             \/ ShellReceive \/ ShellRunLocal \/ ShellCompleteTooLong \/ ShellCheck \/ ShellSend
             \/ SubmitLocal \/ (\E l \in Direct : Connect(l) \/ Disconnect(l)) \/ UNCHANGED vars
      PROVE  KeyInv'
  <2>1. KeysOk'
    BY <1>1, QuietSteps, QuietKeepsKeys
  <2>2. WorkNotRun'
    BY <1>1, QuietWork
  <2> QED BY <2>1, <2>2 DEF KeysOk, KeyInv
<1>2. CASE \E l \in Links : ReceiveStep(l)
  BY <1>1, <1>2, AnswerKeepsKeys, AnsweredKeepsKeys, ReadyKeepsKeys, RejectKeepsKeys DEF ReceiveStep
<1>3. CASE ShellStep
  BY <1>1, <1>3, RunKeepsKeys, CompleteKeepsKeys DEF ShellStep
<1> QED BY <1>1, <1>2, <1>3, RebootKeepsKeys DEF Next

\* IInv holds in every reachable state of the command path, whatever arrives over its links, however
\* often, and however often the robot reboots.
THEOREM Inductive == Spec => []IInv
<1>1. Init => IInv
  BY InitTyped, InitSlots, InitKeys DEF IInv, SlotInv
<1>2. IInv /\ [Next]_vars => IInv'
  BY SlotsInductive, KeysInductive DEF IInv
<1> QED BY <1>1, <1>2, PTL DEF Spec

\* The variables keep their types: dedup slots, the queue of commands, the shell task, sessions.
THEOREM TypeCorrect == Spec => []TypeOK
<1>1. IInv => TypeOK
  BY DEF IInv, SlotInv, Typed, CacheTyped, ReceiveTyped, QueueTyped, ShellTyped, RestTyped, RxStates, TypeOK
<1> QED BY <1>1, Inductive, PTL

\* A command runs at most once, whatever is retried, duplicated, evicted, sent again over another
\* link or delivered after a reboot (intake, DedupCache, the target check, runShell).
THEOREM CommandsRunAtMostOnce == Spec => []AtMostOnce
<1>1. IInv => AtMostOnce
  BY DEF IInv, KeyInv
<1> QED BY <1>1, Inductive, PTL

\* What requesters are told is true of what was run, a command reject_busy() turned away never
\* runs, and no two answers to a request differ, save by the BUSY that a retry gets when the
\* cache no longer holds it (complete, reject_busy, the replay of recorded results, intake).
THEOREM AnswersAreTrue == Spec => []RepliesAreTrue
<1>1. IInv => RepliesAreTrue
  <2> SUFFICES ASSUME IInv, NEW k \in Keys
               PROVE  /\ told[k] \cap {"success", "failed"} # {} => executed[k] = 1
                      /\ k \in refused => executed[k] = 0 /\ told[k] \subseteq {"busy"}
                      /\ \A v, w \in told[k] \ {"busy"} : v = w
    BY DEF RepliesAreTrue
  <2>1. told[k] \ {"busy"} \subseteq Said(k)
    BY DEF Said
  <2> QED BY <2>1 DEF IInv, KeyInv, Truth
<1> QED BY <1>1, Inductive, PTL

\* From intake() until its result is recorded, a work item's slot stays in flight, holds the
\* request the item was made from, and has no second worker (intake, the queue, runShell).
THEOREM SlotsAreOwned == Spec => []WorkOwnsItsSlot
<1>1. IInv => WorkOwnsItsSlot
  <2> SUFFICES ASSUME IInv PROVE WorkOwnsItsSlot
    OBVIOUS
  <2>1. WorkTyped /\ Ownership
    BY WorkIsTyped DEF IInv, SlotInv
  <2>2. ASSUME NEW s \in Slots, NEW v \in Workers(s), NEW w \in Workers(s) PROVE v = w
    <3>1. \A x \in Workers(s) :
            \/ x \in Links /\ rx[x].at = "ready" /\ rx[x].slot = s
            \/ x \in 1 .. Len(queue) /\ queue[x].slot = s /\ queue[x] # NoJob
            \/ x = "shell" /\ shell \in {"run", "complete"} /\ job.slot = s /\ job # NoJob
      BY <2>1 DEF Workers, WorkTyped
    <3>2. \A l, m \in Links :
            rx[l].at = "ready" /\ rx[l].slot = s /\ rx[m].at = "ready" /\ rx[m].slot = s => l = m
      BY <2>1 DEF Ownership, ReadyAlone
    <3>3. \A l \in Links, i \in 1 .. Len(queue) :
            ~(rx[l].at = "ready" /\ rx[l].slot = s /\ queue[i].slot = s /\ queue[i] # NoJob)
      BY <2>1 DEF Ownership, ReadyAlone
    <3>4. \A i, j \in 1 .. Len(queue) :
            queue[i].slot = s /\ queue[i] # NoJob /\ queue[j].slot = s /\ queue[j] # NoJob => i = j
      BY <2>1 DEF Ownership, QueueAlone
    <3>5. shell \in {"run", "complete"} /\ job.slot = s /\ job # NoJob =>
            /\ \A l \in Links : ~(rx[l].at = "ready" /\ rx[l].slot = s)
            /\ \A i \in 1 .. Len(queue) : ~(queue[i].slot = s /\ queue[i] # NoJob)
      BY <2>1 DEF Ownership, ShellAlone
    <3> QED BY <3>1, <3>2, <3>3, <3>4, <3>5, Zenon
  <2>3. /\ \A l \in Links : rx[l].at = "ready" =>
             slotState[rx[l].slot] = "in flight" /\ KeyOf[slotRequest[rx[l].slot]] = rx[l].key
        /\ \A i \in 1 .. Len(queue) : queue[i] # NoJob =>
             slotState[queue[i].slot] = "in flight" /\ slotRequest[queue[i].slot] = queue[i].request
        /\ shell \in {"run", "complete"} /\ job # NoJob =>
             slotState[job.slot] = "in flight" /\ slotRequest[job.slot] = job.request
    BY <2>1 DEF Ownership, ReadyOwns, QueueOwns, ShellOwns
  <2> QED BY <2>2, <2>3 DEF WorkOwnsItsSlot
<1> QED BY <1>1, Inductive, PTL

\* A slot in flight has a worker that will still complete it, save the one whose result was too
\* long to be recorded (complete_work).
THEOREM SlotsDoNotLeak == Spec => []NoLeakedSlot
<1>1. IInv => NoLeakedSlot
  BY DEF IInv, SlotInv, NoneLeaks, HasWork, NoLeakedSlot, Workers
<1> QED BY <1>1, Inductive, PTL

=============================================================================
