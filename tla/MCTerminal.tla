----------------------------- MODULE MCTerminal -----------------------------
(* Two terminals over one slot or two, a direct link that comes and goes, and *)
(* a script of three lines, one of them a job command.                        *)
EXTENDS Terminal

MCOrigins == {"a", "b"}
MCLinks == {"tcp"}
=============================================================================
