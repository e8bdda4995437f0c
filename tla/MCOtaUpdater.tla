---------------------------- MODULE MCOtaUpdater ----------------------------
(***************************************************************************)
(* TLC instance of OtaUpdater: up to MaxNetworks stored networks, and every *)
(* task that can cancel a session.                                          *)
(***************************************************************************)
EXTENDS OtaUpdater
=============================================================================
