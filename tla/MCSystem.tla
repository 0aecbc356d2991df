------------------------------ MODULE MCSystem ------------------------------
(* The devices there are: the analyser is for the handset. *)
EXTENDS System

MCSetups == {[board |-> "dongle", app |-> "shellapp"],
             [board |-> "handset", app |-> "shellapp"],
             [board |-> "handset", app |-> "speccan"]}
=============================================================================
