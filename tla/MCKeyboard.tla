----------------------------- MODULE MCKeyboard -----------------------------
(* An instance of Keyboard for model checking: c and z are chained, c and <
   share a row, z and < a column; BS is in a later row than any phantom. *)
EXTENDS Keyboard

MCKeys == {<<1, 4>>, <<1, 6>>, <<4, 6>>, <<5, 9>>}
=============================================================================
