---------------------------- MODULE JobScheduler ----------------------------
(***************************************************************************)
(* The table of scheduled shell commands (lib/JobScheduler) with its two   *)
(* tasks and its file on the SD card.  The shell task schedules, cancels   *)
(* and saves; the routine task restores the saved jobs at boot and then    *)
(* polls.  There is no lock, and routine() has the higher priority on the  *)
(* same core: scheduling the restored lines and polling are atomic, and    *)
(* they may fall between any two stores of a shell call, which the         *)
(* compiler may reorder.                                                   *)
(*                                                                         *)
(* A request stands for its command text, and a job carries its request.   *)
(* Of the statistics counters, which nothing reads back, only skipped_late *)
(* is kept, for each job, as history.                                      *)
(***************************************************************************)
EXTENDS Integers, Sequences

CONSTANTS
  NSlots,    \* kMaxJobs
  IdMax,     \* 0xFF
  Requests,  \* what operators ask for
  NoCommand, \* the empty command text
  States,    \* states of the machine
  MaxTime,   \* bound: milliseconds since boot
  MaxJobs    \* bound: ids used up in one boot

Kinds == {"Interval", "Once", "OnStateEnter"}
None  == "none"   \* kNoState, and no call in progress

ASSUME JobAssumption ==
  /\ NSlots \in Nat \ {0} /\ IdMax \in Nat \ {0}
  /\ MaxTime \in Nat /\ MaxJobs \in Nat
  /\ None \notin States /\ NoCommand \notin Requests
  /\ Requests \subseteq [kind : Kinds, interval : Nat, repeat : Nat,
                         state : States, runnable : BOOLEAN]

VARIABLES
  jobs,        \* the table
  next_id,
  last_state,
  now,         \* the clock at the latest poll
  routine,     \* where the routine task is, and the lines loadJobs() has still in hand
  call,        \* the shell task's call in progress
  saved,       \* lines of JOB_SAVE_FILE
  seen,        \* history of each slot's job: its limit, and since when it counts
  made         \* history: how many ids precede next_id in this boot

vars == <<jobs, next_id, last_state, now, routine, call, saved, seen, made>>

Slots == 1 .. NSlots
NoJob == [active |-> FALSE, kind |-> "Interval", id |-> 0, state |-> None,
          interval |-> 0, next |-> 0, remaining |-> 0, fired |-> 0, command |-> NoCommand]
Idle  == [op |-> None]
Booting == [at |-> "boot", lines |-> <<>>]

\* A call has taken an id and has still to count it.
IdInHand == call.op = "fill" /\ "next_id" \in call.todo

\* limit: how often it may fire (0: no limit); since: the first poll after its call
\* returned; missed: occurrences dropped; torn: its call was interrupted; nth: how
\* many ids precede its own; unsure: it got its id while a call had one in hand.
Unseen(limit) ==
  [limit |-> limit, since |-> 0, missed |-> 0, torn |-> FALSE, nth |-> made, unsure |-> IdInHand]

Free         == {s \in Slots : ~jobs[s].active}
FirstFree(s) == s \in Free /\ \A u \in Free : s <= u
Filling(s)   == call.op = "fill" /\ call.slot = s

\* What allocate() and the schedule_* calls let through.
Accepts(r) == r.runnable /\ (r.kind = "OnStateEnter" \/ r.interval > 0)

NextId_WrapsToZero(id) == IF id = IdMax THEN 0 ELSE id + 1
NextId_WrapsEarly(id)  == IF id >= IdMax - 1 THEN 1 ELSE id + 1
NextId(id) == IF id = IdMax THEN 1 ELSE id + 1

Limit(r) == CASE r.kind = "Interval" -> r.repeat
              [] r.kind = "Once"     -> 1
              [] OTHER               -> 0

Init ==
  /\ jobs = [s \in Slots |-> NoJob]
  /\ next_id = 1 /\ last_state = None /\ now = 0
  /\ routine = Booting /\ call = Idle /\ saved = <<>>
  /\ made = 0
  /\ seen = [s \in Slots |-> Unseen(0)]

-----------------------------------------------------------------------------
(* The shell task: one call at a time. *)

\* allocate(): the lowest free slot.
FindSlot(r) ==
  /\ call = Idle /\ Accepts(r) /\ made < MaxJobs
  /\ \E s \in Slots : FirstFree(s) /\ call' = [op |-> "found", slot |-> s, request |-> r]
  /\ UNCHANGED <<jobs, next_id, last_state, now, routine, saved, seen, made>>

\* The stores that follow, apart from those that repeat what Job{} has put there.
Stores(r) ==
  CASE r.kind = "Interval" -> {"next_id", "interval"} \cup {f \in {"remaining"} : r.repeat # 0}
    [] r.kind = "Once"     -> {"next_id", "kind", "interval", "remaining"}
    [] OTHER               -> {"next_id", "kind", "state"}

\* allocate(): job = Job{}; active; id; command.  The slot is visible from here on.
TakeSlot ==
  /\ call.op = "found"
  /\ jobs' = [jobs EXCEPT ![call.slot] =
       [NoJob EXCEPT !.active = TRUE, !.id = next_id, !.command = call.request]]
  /\ seen' = [seen EXCEPT ![call.slot] = Unseen(Limit(call.request))]
  /\ call' = [op |-> "fill", slot |-> call.slot, request |-> call.request,
              todo |-> Stores(call.request)]
  /\ UNCHANGED <<next_id, last_state, now, routine, saved, made>>

\* One of the stores that remain, in any order; the call returns after the last.  next_id is
\* counted up from the id the job got, or from what next_id is by now.
Filled(j, r, field) ==
  CASE field = "kind"      -> [j EXCEPT !.kind = r.kind]
    [] field = "state"     -> [j EXCEPT !.state = r.state]
    [] field = "interval"  -> [j EXCEPT !.interval = r.interval]
    [] field = "remaining" -> [j EXCEPT !.remaining = Limit(r)]
    [] OTHER               -> j

StoreField ==
  /\ call.op = "fill"
  /\ \E field \in call.todo :
       /\ jobs' = [jobs EXCEPT ![call.slot] = Filled(@, call.request, field)]
       /\ \/ field # "next_id" /\ UNCHANGED <<next_id, made>>
          \/ field = "next_id" /\ next_id' = NextId(next_id) /\ made' = made + 1
          \/ /\ field = "next_id" /\ next_id' = NextId(jobs[call.slot].id)
             /\ made' = seen[call.slot].nth + 1
       /\ call' = IF call.todo = {field} THEN Idle
                  ELSE [call EXCEPT !.todo = @ \ {field}]
  /\ UNCHANGED <<last_state, now, routine, saved, seen>>

\* cancel(): the first active slot that carries the id.
Carries(s, id) == jobs[s].active /\ jobs[s].id = id

Cancel(id) ==
  /\ call = Idle
  /\ \E s \in Slots :
       /\ Carries(s, id) /\ \A u \in 1 .. s - 1 : ~Carries(u, id)
       /\ jobs' = [jobs EXCEPT ![s].active = FALSE]
  /\ UNCHANGED <<next_id, last_state, now, routine, call, saved, seen, made>>

\* The slot a loop over the table has come to.
Cursor == IF call = Idle THEN 1 ELSE call.slot

\* cancel_all(), slot by slot; a poll may come in between.
CancelAll ==
  /\ call = Idle \/ call.op = "cancelAll"
  /\ jobs' = [jobs EXCEPT ![Cursor].active = FALSE]
  /\ call' = IF Cursor = NSlots THEN Idle ELSE [op |-> "cancelAll", slot |-> Cursor + 1]
  /\ UNCHANGED <<next_id, last_state, now, routine, saved, seen, made>>

\* saveJobs(): list() tests each slot's active flag and then copies the job.
AfterSlot(lines) ==
  IF Cursor = NSlots THEN [op |-> "open", lines |-> lines]
                     ELSE [op |-> "look", slot |-> Cursor + 1, lines |-> lines]

LookAtSlot ==
  LET lines == IF call = Idle THEN <<>> ELSE call.lines
  IN  /\ call = Idle \/ call.op = "look"
      /\ call' = IF jobs[Cursor].active THEN [op |-> "copy", slot |-> Cursor, lines |-> lines]
                                        ELSE AfterSlot(lines)
      /\ UNCHANGED <<jobs, next_id, last_state, now, routine, saved, seen, made>>

Line(j) == [kind |-> j.kind, interval |-> j.interval, remaining |-> j.remaining,
            state |-> j.state, command |-> j.command]

CopySlot ==
  /\ call.op = "copy"
  /\ LET j == jobs[call.slot]
     IN  call' = AfterSlot(IF j.kind = "Once" THEN call.lines
                                               ELSE Append(call.lines, Line(j)))
  /\ UNCHANGED <<jobs, next_id, last_state, now, routine, saved, seen, made>>

\* write_file(): opening truncates the file; the write may fail part-way.
OpenFile ==
  /\ call.op = "open"
  /\ saved' = <<>>
  /\ call' = [call EXCEPT !.op = "write"]
  /\ UNCHANGED <<jobs, next_id, last_state, now, routine, seen, made>>

WriteFile ==
  /\ call.op = "write"
  /\ \E n \in 0 .. Len(call.lines) : saved' = SubSeq(call.lines, 1, n)
  /\ call' = Idle
  /\ UNCHANGED <<jobs, next_id, last_state, now, routine, seen, made>>

-----------------------------------------------------------------------------
(* The routine task. *)

\* loadJobs(), once: read_file() takes in what the file holds, unless the card or the
\* file is missing or the read fails.  While it waits for the card the shell runs.
ReadFile ==
  /\ routine.at = "boot"
  /\ \E lines \in {saved, <<>>} : routine' = [at |-> "read", lines |-> lines]
  /\ UNCHANGED <<jobs, next_id, last_state, now, call, saved, seen, made>>

Restored(line) ==
  [NoJob EXCEPT !.active = TRUE, !.id = next_id, !.kind = line.kind, !.state = line.state,
                !.interval = line.interval, !.remaining = line.remaining,
                !.command = line.command]

\* Bound: the lines and the call in progress find ids left.
Fits == routine.at = "read" => made + Len(routine.lines) < MaxJobs

\* Every line is scheduled anew, unless no slot is free.  From the first line to the last
\* the shell does not run; it may have been interrupted while it fills a slot, or when it
\* had just chosen one.
LoadLine ==
  /\ routine.at \in {"read", "load"} /\ routine.lines # <<>> /\ Fits
  /\ routine' = [at |-> "load", lines |-> Tail(routine.lines)]
  /\ \/ Free = {} /\ UNCHANGED <<jobs, next_id, seen, made>>
     \/ \E s \in Slots :
          /\ FirstFree(s)
          /\ jobs' = [jobs EXCEPT ![s] = Restored(Head(routine.lines))]
          /\ next_id' = NextId(next_id) /\ made' = made + 1
          /\ seen' = [u \in Slots |->
               IF u = s THEN Unseen(Head(routine.lines).remaining)
                        ELSE [seen[u] EXCEPT !.torn = @ \/ Filling(u)]]
  /\ UNCHANGED <<last_state, now, call, saved>>

EndLoad ==
  /\ routine.at \in {"read", "load"} /\ routine.lines = <<>>
  /\ routine' = [at |-> "loop", lines |-> <<>>]
  /\ UNCHANGED <<jobs, next_id, last_state, now, call, saved, seen, made>>

\* poll(t, state): an OnStateEnter job is due on an edge; a timed job is anchored by the
\* first poll that sees it and due from next_ms on.
Entered_WhileResident(state) == last_state # None
Entered(state) == last_state # None /\ state # last_state

Due(j, t, state) ==
  /\ j.active
  /\ IF j.kind = "OnStateEnter" THEN Entered(state) /\ j.state = state
                                ELSE j.next # 0 /\ t >= j.next

Late(j, t) == t - j.next >= j.interval

\* Whole missed occurrences are dropped and the schedule restarts from now.
Missed_CountsThisOne(j, t) ==
  IF j.kind # "OnStateEnter" /\ Late(j, t) THEN 1 + (t - j.next) \div j.interval ELSE 0
Missed(j, t) ==
  IF j.kind # "OnStateEnter" /\ Late(j, t) THEN (t - j.next) \div j.interval ELSE 0

Resumed_KeepsGrid(j, t) == IF j.kind = "OnStateEnter" THEN j.next ELSE j.next + j.interval
Resumed(j, t) == CASE j.kind = "OnStateEnter" -> j.next
                   [] Late(j, t)              -> t + j.interval
                   [] OTHER                   -> j.next + j.interval

\* Whether or not the command queue takes the line, the occurrence is consumed.
Fired_LimitOffByOne(j, t) ==
  [j EXCEPT !.next = Resumed(j, t), !.fired = @ + 1,
            !.remaining = IF @ = 0 THEN 0 ELSE @ - 1]
Fired(j, t) ==
  [j EXCEPT !.next = Resumed(j, t), !.fired = @ + 1,
            !.remaining = IF @ = 0 THEN 0 ELSE @ - 1,
            !.active = @ /\ j.remaining # 1]

Polled(j, t, state) ==
  CASE Due(j, t, state) -> Fired(j, t)
    [] j.active /\ j.kind # "OnStateEnter" /\ j.next = 0 -> [j EXCEPT !.next = t + j.interval]
    [] OTHER -> j

\* lateness / interval_ms: a half-filled job can be due with no interval yet.
Divides0(j, t, state) == Due(j, t, state) /\ j.kind # "OnStateEnter" /\ j.interval = 0

Poll ==
  \E t \in now + 1 .. MaxTime, state \in States :
    /\ routine.at = "loop"
    /\ \A s \in Slots : ~Divides0(jobs[s], t, state)
    /\ now' = t /\ last_state' = state
    /\ jobs' = [s \in Slots |-> Polled(jobs[s], t, state)]
    /\ seen' = [s \in Slots |->
         [seen[s] EXCEPT
            !.torn   = @ \/ Filling(s),
            !.since  = IF jobs[s].active /\ ~Filling(s) /\ @ = 0 THEN t ELSE @,
            !.missed = IF Due(jobs[s], t, state) THEN @ + Missed(jobs[s], t) ELSE @]]
    /\ UNCHANGED <<next_id, routine, call, saved, made>>

-----------------------------------------------------------------------------
(* A reboot, wanted or not, leaves only the file. *)
Restarted ==
  /\ jobs' = [s \in Slots |-> NoJob]
  /\ next_id' = 1 /\ last_state' = None /\ now' = 0
  /\ routine' = Booting /\ call' = Idle
  /\ made' = 0
  /\ seen' = [s \in Slots |-> [Unseen(0) EXCEPT !.nth = 0, !.unsure = FALSE]]
  /\ UNCHANGED saved

Reboot == now > 0 /\ Restarted

\* The division by zero stops the chip, which restarts.
Panic ==
  /\ routine.at = "loop" /\ now < MaxTime
  /\ \E s \in Slots, state \in States : Divides0(jobs[s], now + 1, state)
  /\ Restarted

ShellStep ==
  /\ routine.at # "load"
  /\ \/ \E r \in Requests : FindSlot(r)
     \/ TakeSlot \/ StoreField
     \/ \E id \in 1 .. IdMax : Cancel(id)
     \/ CancelAll
     \/ LookAtSlot \/ CopySlot \/ OpenFile \/ WriteFile

RoutineStep == ReadFile \/ LoadLine \/ EndLoad \/ Poll

Next == ShellStep \/ RoutineStep \/ Reboot \/ Panic

Spec == Init /\ [][Next]_vars

-----------------------------------------------------------------------------
(* Properties. *)

Calls ==
  {Idle}
    \cup [op : {"found"}, slot : Slots, request : Requests]
    \cup [op : {"fill"}, slot : Slots, request : Requests,
          todo : SUBSET {"next_id", "kind", "state", "interval", "remaining"}]
    \cup [op : {"cancelAll"}, slot : Slots]

\* The table, the ids and the clock stay in their ranges; a saved line is an interval or
\* a state job, never a once job (JobScheduler.h, saveJobs()).
TypeOK ==
  /\ \A s \in Slots :
       /\ jobs[s].kind \in Kinds /\ jobs[s].active \in BOOLEAN
       /\ jobs[s].id \in 0 .. IdMax
       /\ jobs[s].active => jobs[s].id # 0 /\ jobs[s].command \in Requests
       /\ {jobs[s].interval, jobs[s].next, jobs[s].remaining, jobs[s].fired} \subseteq Nat
       /\ jobs[s].state \in States \cup {None}
  /\ next_id \in 1 .. IdMax
  /\ last_state \in States \cup {None}
  /\ now \in 0 .. MaxTime /\ made \in 0 .. MaxJobs
  /\ routine.at \in {"boot", "read", "load", "loop"}
  /\ call \in Calls \/ call.op \in {"look", "copy", "open", "write"}
  /\ \A k \in 1 .. Len(saved) : saved[k].kind # "Once" /\ saved[k].command.kind # "Once"

\* A job whose call ran without interruption, seen by a poll since; and one that got its id
\* while no call had one in hand.
Whole(s) == ~seen[s].torn /\ seen[s].since # 0
Sure(s)  == Whole(s) /\ ~seen[s].unsure
Timed(s) == jobs[s].kind # "OnStateEnter"

\* A job with a repeat count fires no more than that many times, and while it is active
\* it still has a firing left (poll(), the decrement at the end).
StopsAtItsLimit ==
  \A s \in Slots : Whole(s) /\ seen[s].limit # 0 =>
    /\ jobs[s].fired <= seen[s].limit
    /\ jobs[s].active => jobs[s].fired + jobs[s].remaining = seen[s].limit

\* Firings and counted misses together never run ahead of the whole intervals gone by
\* since the first poll: no burst makes up for a stall (poll() contract, rule 2).
NeverAheadOfTime ==
  \A s \in Slots : Whole(s) /\ Timed(s) =>
    (jobs[s].fired + seen[s].missed) * jobs[s].interval <= now - seen[s].since

\* After a poll every timed job is due again within one interval, and not before the
\* next poll: nothing is saved up, and no stall stretches the schedule.
NothingIsSavedUp ==
  \A s \in Slots : Whole(s) /\ Timed(s) /\ jobs[s].active =>
    jobs[s].next - now \in 1 .. jobs[s].interval

\* Two live jobs carry the same id only after the ids have wrapped ("job -cancel <n>"
\* must not hit a different job), unless loadJobs() gave out ids in the middle of a call.
IdsTellJobsApart ==
  \A s, t \in Slots :
    s # t /\ jobs[s].active /\ jobs[t].active /\ Sure(s) /\ Sure(t) /\ jobs[s].id = jobs[t].id
      => seen[s].nth - seen[t].nth >= IdMax \/ seen[t].nth - seen[s].nth >= IdMax

\* A state job fires in exactly the polls that see its state entered, however long the
\* machine stays there and whatever the first poll finds (poll(), state_entered).
FiresOnEveryEntry ==
  [][now' > now =>
       \A s \in Slots : Whole(s) /\ ~Timed(s) /\ jobs[s].active =>
         (jobs'[s].fired > jobs[s].fired
            <=> /\ last_state' = jobs[s].command.state
                /\ last_state \notin {None, last_state'})]_vars

\* "Ids are never reused within a boot" (JobScheduler.h:183), until they wrap.
\* The code does not keep this: a call that loadJobs() interrupted takes next_id back.
IdsAreNotReused ==
  \A s, t \in Slots :
    s # t /\ jobs[s].active /\ jobs[t].active /\ Whole(s) /\ Whole(t) /\ jobs[s].id = jobs[t].id
      => seen[s].nth - seen[t].nth >= IdMax \/ seen[t].nth - seen[s].nth >= IdMax

\* "The first firing therefore lands one full interval after the next poll()"
\* (JobScheduler.cpp:96-98), for interval and once jobs.
\* The code does not keep this.
FirstFiringAFullIntervalLater ==
  \A s \in Slots : jobs[s].active /\ jobs[s].fired > 0 =>
    \/ jobs[s].command.kind = "OnStateEnter"
    \/ seen[s].since # 0 /\ now - seen[s].since >= jobs[s].command.interval

\* "A torn read shows a job as it was a moment earlier" (JobScheduler.h:25-27): a job with
\* a repeat count is never saved as one without.
\* The code does not keep this.
SavedJobsKeepTheirLimit ==
  \A k \in DOMAIN saved : Limit(saved[k].command) # 0 => saved[k].remaining # 0

=============================================================================
