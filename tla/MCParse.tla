------------------------------ MODULE MCParse ------------------------------
(* Instances of ParseCheck for model checking: digits at the edges of each range,
   the three prefix letters, and one character above and one between. *)
EXTENDS ParseCheck

\* 0 1 9 A F b h x G
MCAlphabet == {48, 49, 57, 65, 70, 98, 104, 120, 71}
=============================================================================
