----------------------------- MODULE MCJunkebox -----------------------------
(* A song on the card with a repetition and a line to skip, the two compiled-in *)
(* sounds of updateSoundFeedback(), and a raw tone.                             *)
EXTENDS Junkebox

MCText ==
  [t \in {"song", "click", "error"} |->
     CASE t = "song"  -> <<"note", "other", "loop", "note">>
       [] t = "click" -> <<"note">>
       [] t = "error" -> <<"note", "rest", "note">>]
=============================================================================
