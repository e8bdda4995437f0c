--------------------------- MODULE MCCommandPath ---------------------------
(***************************************************************************)
(* CommandPath on small instances.  a1, a2 are successive requests of      *)
(* requester A, a1x is a1's identity with another payload; b1, bping and   *)
(* binvalid come from requester B.  a2 names the last boot of the robot,   *)
(* the others its first.                                                   *)
(***************************************************************************)
EXTENDS CommandPath, TLC

CONSTANTS a1, a2, a1x, b1, bping, binvalid, A, B, tcp, s1, s2

MCKeyOf ==
  [q \in Requests |->
     [source |-> IF q \in {a1, a2, a1x} THEN A ELSE B,
      seq    |-> IF q \in {a2, bping} THEN 2 ELSE IF q = binvalid THEN 3 ELSE 1]]

MCTarget == [q \in Requests |-> IF q = a2 THEN MaxBoot ELSE 1]

MCKind ==
  [q \in Requests |-> CASE q = bping -> "ping" [] q = binvalid -> "invalid" [] OTHER -> "shell"]

SlotSymmetry == Permutations(Slots)
=============================================================================
