--------------------------- MODULE MCRobotStates ---------------------------
(***************************************************************************)
(* RobotStates on small instances.                                         *)
(***************************************************************************)
EXTENDS RobotStates
=============================================================================
