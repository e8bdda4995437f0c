--------------------------- MODULE MCTxScheduler ---------------------------
(***************************************************************************)
(* TxScheduler on small instances.  A frame is named for its kind.         *)
(***************************************************************************)
EXTENDS TxScheduler, TLC

CONSTANTS result1, debug1, debug2, sample1, sample2, sample3, broken, p1, p2

MCKindOf ==
  [f \in Frames |->
     CASE f = result1                        -> "commandResult"
       [] f \in {debug1, debug2}             -> "other"
       [] f \in {sample1, sample2, sample3}  -> "telemetry"
       [] OTHER                              -> "malformed"]

ProducerSymmetry == Permutations(Producers)
LaneSymmetry     == Permutations(Producers) \cup Permutations({debug1, debug2})

OneSlot  == [c \in Classes |-> 1]
TwoSlots == [c \in Classes |-> 2]

=============================================================================
