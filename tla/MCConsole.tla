----------------------------- MODULE MCConsole -----------------------------
(* Instances of Console for model checking: lines of up to three characters,
   long enough to cut in two at a blank, to fill and to overflow. *)
EXTENDS Console

CONSTANTS a, blank, cr, rub, nul

MCChars == {a, blank}
=============================================================================
