--------------------------- MODULE MCRobotSettings ---------------------------
(* A string that is empty by default, with a text that just fits and one too long; a *)
(* float with a digit "%.6f" does not print, or with two digits too many for its     *)
(* buffer; the communication mode.                                                   *)
EXTENDS RobotSettings

MCTable    == <<"name", "b_noise", "comm_mode">>
MCModuleOf == [name |-> "identity", b_noise |-> "ekf_noise", comm_mode |-> "comm"]
MCTypeOf   == [name |-> "STRING", b_noise |-> "FLOAT", comm_mode |-> "U8"]
MCDefault  == [name |-> 0, b_noise |-> 1000, comm_mode |-> 0]
MCTexts    == [name |-> {31, 32}, b_noise |-> {1033, 1234560}, comm_mode |-> {256, Garbage}]
=============================================================================
