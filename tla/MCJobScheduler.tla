-------------------------- MODULE MCJobScheduler --------------------------
(***************************************************************************)
(* JobScheduler on small instances.                                        *)
(***************************************************************************)
EXTENDS JobScheduler

CONSTANTS Run, Wait

Every(ms, times) ==
  [kind |-> "Interval", interval |-> ms, repeat |-> times, state |-> Wait, runnable |-> TRUE]
Once(ms) == [Every(ms, 0) EXCEPT !.kind = "Once"]
Entering(state) ==
  [kind |-> "OnStateEnter", interval |-> 0, repeat |-> 0, state |-> state, runnable |-> TRUE]

twice == Every(2, 2)
one   == {Entering(Run)}
pair  == {twice, Entering(Run), Every(0, 1)}
all   == pair \cup {Once(3), [Once(1) EXCEPT !.runnable = FALSE]}

\* Bound: a save is explored while the card is still empty, and of one job in the first 3 ms
\* or of two jobs in the first.
EarlySaves ==
  call.op \in {"look", "copy", "open", "write"} =>
    /\ saved = <<>>
    /\ \/ made <= 1 /\ now <= 3
       \/ made <= 2 /\ now <= 1
=============================================================================
