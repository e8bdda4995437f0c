------------------------------ MODULE MCLogger ------------------------------
(* A ring of a few cells, the shell and the state machine's task as savers. *)
EXTENDS Logger

\* The same order of saves with the tasks' names left as they are: print_log and
\* delete_log tell the shell apart, so the savers are not symmetric.
MCSavers == {"shell", "states"}

\* What was put on the air guides no step.
WithoutAired == <<ring, cur, snd, busy, radio.pc, radio.packets, save, card,
                  records, released, stored>>
=============================================================================
