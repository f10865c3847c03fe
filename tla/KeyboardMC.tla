----------------------------- MODULE KeyboardMC -----------------------------
(* The keys of all the rows. *)
EXTENDS Keyboard

AllRows == DOMAIN Legend \ {57}
=============================================================================
