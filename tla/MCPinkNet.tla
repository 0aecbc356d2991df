----------------------------- MODULE MCPinkNet -----------------------------
(* Three devices, two of them with somebody at the console. *)
EXTENDS PinkNet

MCNodes == {1, 2, 3}
MCConsole == {1, 2}

(* 1 sends a false acknowledgement; 1 or 2 a false request, to set a led or
   cut off before its type. *)
MCOverwritten ==
    {[len |-> 4, dst |-> 2, src |-> 1, req |-> FALSE, type |-> "ACK", arg |-> FALSE],
     [len |-> 5, dst |-> 2, src |-> 1, req |-> TRUE, type |-> "LED", arg |-> FALSE],
     [len |-> 3, dst |-> 1, src |-> 3, req |-> TRUE, type |-> "PUTS", arg |-> FALSE]}
=============================================================================
