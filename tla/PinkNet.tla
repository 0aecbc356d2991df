------------------------------ MODULE PinkNet ------------------------------
(***************************************************************************)
(* Several devices on the air: what the commands send, what                *)
(* packet_process does with it, and the acknowledgements that come back.   *)
(* Each device has one radio and one main loop, so it is deaf while it     *)
(* sends, while it works on a packet, and for 10 ms after a command.       *)
(* Frames are lost, to one listener or to all; nothing is sent twice.      *)
(* The driver below is Radio's: what it delivers is what was sent.  What   *)
(* is sent need not be what the command built: the receiver is on until    *)
(* radio_tx, and uses the same buffer.                                     *)
(***************************************************************************)
EXTENDS Integers, FiniteSets

CONSTANTS
    Nodes,          \* the addresses of the devices, without BROADCAST
    BROADCAST,      \* address 0
    Console,        \* the devices where somebody enters commands
    TxTypes,        \* the types given to tx
    Overwritten,    \* what a packet may be when bytes were stored over it
    MaxCommands     \* bound: packets commanded

ASSUME NodesAssumption == /\ IsFiniteSet(Nodes) /\ BROADCAST \notin Nodes
                          /\ Console \subseteq Nodes
ASSUME CommandsAssumption == MaxCommands \in Nat

Types == {"ACK", "PUTS", "LED", "GFXINIT", "GFXPLOTLINE"}
ASSUME TypesAssumption == TxTypes \subseteq Types

HEADER == 4         \* sizeof(packet_t) - 1

(* len is the length byte; 5 stands for every longer frame.  Of the payload
   only arg is kept: whether its first byte is not 0. *)
Frames == [len : 0..(HEADER + 1), dst : Nodes \cup {BROADCAST}, src : Nodes,
           req : BOOLEAN, type : Types, arg : BOOLEAN]

ASSUME OverwrittenAssumption == Overwritten \subseteq Frames

(* What a device is at: listening; a packet complete, before and after
   packet_handle; a command's packet built, and built but overwritten, until
   it is sent; an acknowledgement likewise; the delay of packet_send. *)
Phases == {"listen", "complete", "handled", "send", "spoilt", "answer", "delay"}
OnAir == {"send", "spoilt", "answer"}

VARIABLES
    phase,
    pktbuf,         \* the frame in the buffer
    led, graphics,  \* whether the led is on; whether the terminal is stopped
    entered,        \* packets commanded so far
    asked,          \* history: asked[a][b], requests of a to b alone
    answered,       \* history: those b has handled
    acked,          \* history: acknowledgements of b that came to a
    want,           \* history: what a last commanded b's led to, if it can tell
    garbled         \* history: packets that were sent overwritten

history == <<asked, answered, acked, want, garbled>>
vars == <<phase, pktbuf, led, graphics, entered, history>>

Counts == [Nodes -> [Nodes -> 0..(3 * MaxCommands + 1)]]
Wants == {"on", "off", "any"}

TypeOK ==
    /\ phase \in [Nodes -> Phases]
    /\ pktbuf \in [Nodes -> Frames]
    /\ led \in [Nodes -> BOOLEAN] /\ graphics \in [Nodes -> BOOLEAN]
    /\ entered \in 0..MaxCommands
    /\ {asked, answered, acked} \subseteq Counts
    /\ want \in [Nodes -> [Nodes -> Wants]]
    /\ garbled \in Nat

Zero == [a \in Nodes |-> [b \in Nodes |-> 0]]

Init ==
    /\ phase = [n \in Nodes |-> "listen"]
    /\ pktbuf = [n \in Nodes |-> [len |-> 0, dst |-> BROADCAST, src |-> n, req |-> FALSE,
                                  type |-> "ACK", arg |-> FALSE]]
    /\ led = [n \in Nodes |-> FALSE] /\ graphics = [n \in Nodes |-> FALSE]
    /\ entered = 0
    /\ asked = Zero /\ answered = Zero /\ acked = Zero
    /\ want = [a \in Nodes |-> [b \in Nodes |-> "any"]]
    /\ garbled = 0

Plus(count, a, b) ==
    [count EXCEPT ![a][b] = IF @ > 3 * MaxCommands THEN @ ELSE @ + 1]

---------------------------------------------------------------------------
(* Commands *)

(* packet_build, the payload if there is one, packet_send up to radio_tx.
   The characters of tx are not 0; a line's coordinates nobody looks at. *)
Built(n, dst, req, type, arg) ==
    [len |-> HEADER + 1, dst |-> dst, src |-> n, req |-> req, type |-> type, arg |-> arg]

BuiltEmpty(n, dst, req, type) ==
    [Built(n, dst, req, type, FALSE) EXCEPT !.len = HEADER]

(* tx, whose payload may be empty. *)
TxCommands(n, dst, type) ==
    UNION {{Built(n, dst, req, type, TRUE), BuiltEmpty(n, dst, req, type)} : req \in BOOLEAN}

(* teleled; gfxinit; a line of gfxplot or gfxtest; tx. *)
Commands(n, dst) ==
         {Built(n, dst, TRUE, "LED", on) : on \in BOOLEAN}
    \cup {BuiltEmpty(n, dst, TRUE, "GFXINIT"), Built(n, dst, FALSE, "GFXPLOTLINE", FALSE)}
    \cup UNION {TxCommands(n, dst, type) : type \in TxTypes}

(* What f's sender means one other's led to be; a packet that asks for no
   answer, or does not say, leaves it open. *)
Wanted(f) ==
    [want EXCEPT ![f.src] = [b \in Nodes |->
        IF f.type # "LED" \/ f.dst \notin {b, BROADCAST} THEN @[b]
        ELSE IF f.dst = BROADCAST \/ ~f.req \/ f.len = HEADER THEN "any"
        ELSE IF f.arg THEN "on" ELSE "off"]]

(* A command of n overwrites a packet that is complete and not handled. *)
Command(n) ==
    /\ entered < MaxCommands
    /\ phase[n] \in {"listen", "complete"}
    /\ \E dst \in Nodes \cup {BROADCAST} : \E f \in Commands(n, dst) :
        /\ pktbuf' = [pktbuf EXCEPT ![n] = f]
        /\ asked' = IF f.req /\ dst # BROADCAST THEN Plus(asked, n, dst) ELSE asked
        /\ want' = Wanted(f)
    /\ phase' = [phase EXCEPT ![n] = "send"]
    /\ entered' = entered + 1
    /\ UNCHANGED <<led, graphics, answered, acked, garbled>>

(* The receiver is on from packet_build to radio_tx: the status bytes of the
   last packet, or the bytes of a frame of these or other devices, are stored
   over the packet. *)
Overwrite(n) ==
    /\ phase[n] = "send"
    /\ phase' = [phase EXCEPT ![n] = "spoilt"]
    /\ \E f \in Overwritten : pktbuf' = [pktbuf EXCEPT ![n] = f]
    /\ UNCHANGED <<led, graphics, entered, history>>

---------------------------------------------------------------------------
(* The air *)

(* Without an address byte nothing is received. *)
Listeners(n) ==
    {m \in Nodes \ {n} : /\ phase[m] = "listen"
                         /\ pktbuf[n].len > 0 /\ pktbuf[n].dst \in {m, BROADCAST}}

(* The buffer of who receives f: behind the end of f is what earlier frames,
   whole or not, left there. *)
Known(is, value, Any) == IF is THEN {value} ELSE Any

Received(f) ==
    [len  : {f.len}, dst : {f.dst},
     src  : Known(f.len >= 2, f.src, Nodes), req  : Known(f.len >= 3, f.req, BOOLEAN),
     type : Known(f.len >= 4, f.type, Types), arg : Known(f.len >= 5, f.arg, BOOLEAN)]

(* n's frame is over: any of the listeners has it whole, with its CRC
   right.  After a command n waits 10 ms before the main loop gets to
   radio_tick and the receiver on; after an acknowledgement it does not. *)
Sent(n) ==
    /\ phase[n] \in OnAir
    /\ \E S \in SUBSET Listeners(n) : \E got \in [S -> Received(pktbuf[n])] :
        /\ pktbuf' = [m \in Nodes |-> IF m \in S THEN got[m] ELSE pktbuf[m]]
        /\ phase' = [m \in Nodes |->
               IF m \in S THEN "complete"
               ELSE IF m # n THEN phase[m]
               ELSE IF phase[n] = "answer" THEN "listen" ELSE "delay"]
    /\ garbled' = IF phase[n] = "spoilt" THEN garbled + 1 ELSE garbled
    /\ UNCHANGED <<led, graphics, entered, asked, answered, acked, want>>

Delay(n) ==
    /\ phase[n] = "delay"
    /\ phase' = [phase EXCEPT ![n] = "listen"]
    /\ UNCHANGED <<pktbuf, led, graphics, entered, history>>

---------------------------------------------------------------------------
(* packet_process *)

(* packet_dump, packet_handle, packet_rx_callback, whatever the length says.
   A led set by another sender's packet, or one that is not answered, is any. *)
Handle(n) ==
    LET f == pktbuf[n] IN
    /\ phase[n] = "complete"
    /\ phase' = [phase EXCEPT ![n] = "handled"]
    /\ led' = IF f.type = "LED" THEN [led EXCEPT ![n] = f.arg] ELSE led
    /\ graphics' = IF f.type = "GFXINIT" THEN [graphics EXCEPT ![n] = TRUE] ELSE graphics
    /\ answered' = IF f.req /\ f.dst = n THEN Plus(answered, f.src, n) ELSE answered
    /\ acked' = IF f.type = "ACK" THEN Plus(acked, n, f.src) ELSE acked
    /\ want' = IF f.type # "LED" THEN want
               ELSE [a \in Nodes |-> IF a = f.src /\ f.req /\ f.dst = n THEN want[a]
                                     ELSE [want[a] EXCEPT ![n] = "any"]]
    /\ UNCHANGED <<pktbuf, entered, asked, garbled>>

(* The acknowledgement, built over the packet it answers. *)
Ack(n) ==
    [pktbuf[n] EXCEPT !.dst = pktbuf[n].src, !.src = n, !.req = FALSE,
                      !.type = "ACK", !.len = HEADER]

(* Mutant of WantsAck: everybody answers a broadcast. *)
WantsAckAll(f) == f.req

WantsAck(f) == f.dst # BROADCAST /\ f.req

(* Mutant of Autoack: it comes before packet_handle. *)
AutoackFirst(n) ==
    /\ \/ phase[n] = "handled"
       \/ phase[n] = "complete" /\ WantsAck(pktbuf[n])
    /\ IF WantsAck(pktbuf[n])
       THEN /\ pktbuf' = [pktbuf EXCEPT ![n] = Ack(n)]
            /\ phase' = [phase EXCEPT ![n] = "answer"]
       ELSE /\ phase' = [phase EXCEPT ![n] = "listen"]
            /\ UNCHANGED pktbuf
    /\ UNCHANGED <<led, graphics, entered, history>>

(* Mutant of Autoack: radio_rx only comes after an acknowledgement. *)
AutoackDeaf(n) ==
    /\ phase[n] = "handled"
    /\ IF WantsAck(pktbuf[n])
       THEN /\ pktbuf' = [pktbuf EXCEPT ![n] = Ack(n)]
            /\ phase' = [phase EXCEPT ![n] = "answer"]
       ELSE UNCHANGED <<phase, pktbuf>>
    /\ UNCHANGED <<led, graphics, entered, history>>

(* packet_autoack, or radio_rx when there is nothing to answer. *)
Autoack(n) ==
    /\ phase[n] = "handled"
    /\ IF WantsAck(pktbuf[n])
       THEN /\ pktbuf' = [pktbuf EXCEPT ![n] = Ack(n)]
            /\ phase' = [phase EXCEPT ![n] = "answer"]
       ELSE /\ phase' = [phase EXCEPT ![n] = "listen"]
            /\ UNCHANGED pktbuf
    /\ UNCHANGED <<led, graphics, entered, history>>

Main(n) == Sent(n) \/ Delay(n) \/ Handle(n) \/ Autoack(n)

Idle ==
    /\ \A n \in Nodes : phase[n] = "listen"
    /\ entered = MaxCommands
    /\ UNCHANGED vars

Next == \/ \E n \in Nodes : Main(n) \/ Overwrite(n)
        \/ \E n \in Console : Command(n)
        \/ Idle

(* Every main loop gets on; nobody need enter a command, or overwrite one. *)
Spec == Init /\ [][Next]_vars /\ \A n \in Nodes : WF_vars(Main(n))

---------------------------------------------------------------------------
(* Properties *)

(* An acknowledgement was earned: b has handled as many requests of a as a *)
(* has heard acknowledgements of b, and a made as many.  Nobody answers a  *)
(* broadcast, an acknowledgement, or another's packet; packet_process      *)
(* answers last (packet.c:140).  A packet that was overwritten while it    *)
(* was built (packet.c:99 to radio.c:285) accounts for one false request   *)
(* and one false acknowledgement, and no more.                             *)
AckEarned ==
    \A a, b \in Nodes : /\ acked[a][b] <= answered[a][b] + garbled
                        /\ answered[a][b] <= asked[a][b] + garbled

(* When every request of a to b has come back, and no packet was sent      *)
(* overwritten, b's led is what a last commanded (if nobody else commanded *)
(* it, and the command said what), whatever was lost on the way.  The      *)
(* acknowledgements themselves cannot be told apart: teleled gives all its *)
(* packets the same sequence number.                                       *)
LedAgrees ==
    garbled = 0 => \A a, b \in Nodes :
        asked[a][b] = acked[a][b] /\ want[a][b] # "any" => led[b] = (want[a][b] = "on")

(* Once nobody enters commands the air falls silent: no acknowledgement is *)
(* acknowledged, and no device is left deaf.                               *)
GoesQuiet == <>[](\A n \in Nodes : phase[n] = "listen")
=============================================================================
