----------------------------- MODULE TxPromise -----------------------------
(***************************************************************************)
(* What the transmit scheduler promises its producers, without rings,      *)
(* locks or timers: a frame is refused at once or waits in the FIFO of its *)
(* class, and leaves it once, on the lane of its class, where at most one  *)
(* frame is under way.                                                     *)
(***************************************************************************)
EXTENDS Sequences

CONSTANTS Frames, Classes, ClassOf(_), LaneOf(_)

VARIABLES backlog, stage

vars == <<backlog, stage>>

Init ==
  /\ backlog = [c \in Classes |-> << >>]
  /\ stage = [f \in Frames |-> "new"]

Move(f, from, to) == stage[f] = from /\ stage' = [stage EXCEPT ![f] = to]

Refuse(f) == Move(f, "new", "refused") /\ UNCHANGED backlog

Accept(f) ==
  /\ Move(f, "new", "waiting")
  /\ backlog' = [backlog EXCEPT ![ClassOf(f)] = Append(@, f)]

Take(c) ==
  /\ backlog[c] # << >>
  /\ \A f \in Frames : LaneOf(ClassOf(f)) = LaneOf(c) => stage[f] # "under way"
  /\ Move(Head(backlog[c]), "waiting", "under way")
  /\ backlog' = [backlog EXCEPT ![c] = Tail(@)]

Settle(f) == Move(f, "under way", "settled") /\ UNCHANGED backlog

Next ==
  \/ \E f \in Frames : Refuse(f) \/ Accept(f) \/ Settle(f)
  \/ \E c \in Classes : Take(c)

Spec == Init /\ [][Next]_vars

=============================================================================
