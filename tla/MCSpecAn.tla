------------------------------ MODULE MCSpecAn ------------------------------
(* The instance of SpecAn for model checking: the last column, which only
   some plans reach; levels below and above what the bar can show. *)
EXTENDS SpecAnScreen

MCCh == 131
MCLevels == {0, 32, 180}
=============================================================================
