------------------------------- MODULE Uart0 -------------------------------
(***************************************************************************)
(* The transmitter of the dongle's console: uart0_putc of common/uart0.c,  *)
(* called by the main loop (packet_dump prints a line for each packet) and *)
(* by uart0_isr, which echoes what is typed meanwhile.  Both write U0DBUF  *)
(* and then wait for the one status bit TX_BYTE, and clear it.             *)
(*                                                                         *)
(* The UART sends one character and holds one more in U0DBUF.  A handler's *)
(* instructions take no time compared to a character; the main loop can be *)
(* held up anywhere.                                                       *)
(***************************************************************************)
EXTENDS Integers, Sequences, FiniteSets

CONSTANTS
    Text,       \* bound: characters the main loop writes
    Keys        \* bound: characters typed meanwhile

ASSUME BoundsAssumption == Text \in Nat /\ Keys \in Nat

Callers == {"main", "isr"}

(* A character is known by who wrote it and when. *)
None == <<"none", 0>>
Characters == Callers \X (1..(Text + 3 * Keys))

VARIABLES
    shift,      \* the character being sent
    dbuf,       \* U0DBUF
    tx_byte,    \* U0CSR.TX_BYTE
    sent,       \* characters on the line
    at,         \* where each caller is in uart0_putc
    left,       \* characters each caller still has to write
    count,      \* characters each caller has written
    keys,       \* keys typed
    taken       \* history: the handler cleared TX_BYTE while the main loop
                \* waits for it

uart == <<shift, dbuf, tx_byte, sent>>
vars == <<uart, at, left, count, keys, taken>>

TypeOK ==
    /\ {shift, dbuf} \subseteq Characters \cup {None}
    /\ tx_byte \in BOOLEAN
    /\ sent \in Seq(Characters)
    /\ at \in [Callers -> {"out", "wait", "clear"}]
    /\ left \in [Callers -> 0..(Text + 3)]
    /\ count \in [Callers -> 0..(Text + 3 * Keys)]
    /\ keys \in 0..Keys
    /\ taken \in BOOLEAN

Init ==
    /\ shift = None
    /\ dbuf = None
    /\ tx_byte = FALSE
    /\ sent = <<>>
    /\ at = [c \in Callers |-> "out"]
    /\ left = [main |-> Text, isr |-> 0]
    /\ count = [c \in Callers |-> 0]
    /\ keys = 0
    /\ taken = FALSE

---------------------------------------------------------------------------
Handling == left["isr"] > 0

(* The main loop stands still while the handler runs. *)
Running(c) == left[c] > 0 /\ (c = "main" => ~Handling)

(* The character of the call of uart0_putc that c is in. *)
Present(c) == <<c, count[c]>>

(* To the line if it is free, else to the one place behind. *)
Put(ch) ==
    IF shift = None
    THEN shift' = ch /\ UNCHANGED dbuf
    ELSE dbuf' = ch /\ UNCHANGED shift

(* Mutant of Write: the wait comes before the store. *)
WriteWhenSent(c) ==
    /\ Running(c)
    /\ at[c] = "out"
    /\ tx_byte
    /\ at' = [at EXCEPT ![c] = "wait"]
    /\ count' = [count EXCEPT ![c] = @ + 1]
    /\ Put(Present(c)')
    /\ taken' = (taken /\ c # "main")
    /\ UNCHANGED <<tx_byte, sent, left, keys>>

(* U0DBUF = ch *)
Write(c) ==
    /\ Running(c)
    /\ at[c] = "out"
    /\ at' = [at EXCEPT ![c] = "wait"]
    /\ count' = [count EXCEPT ![c] = @ + 1]
    /\ Put(Present(c)')
    /\ taken' = (taken /\ c # "main")
    /\ UNCHANGED <<tx_byte, sent, left, keys>>

Poll(c) ==
    /\ Running(c)
    /\ at[c] = "wait"
    /\ tx_byte
    /\ at' = [at EXCEPT ![c] = "clear"]
    /\ UNCHANGED <<uart, left, count, keys, taken>>

(* Mutant of Clear: the next caller finds TX_BYTE as it was. *)
ClearNothing(c) ==
    /\ Running(c)
    /\ at[c] = "clear"
    /\ at' = [at EXCEPT ![c] = "out"]
    /\ left' = [left EXCEPT ![c] = @ - 1]
    /\ UNCHANGED <<uart, count, keys, taken>>

(* Clear the status, go on to the next character. *)
Clear(c) ==
    /\ Running(c)
    /\ at[c] = "clear"
    /\ tx_byte' = FALSE
    /\ at' = [at EXCEPT ![c] = "out"]
    /\ left' = [left EXCEPT ![c] = @ - 1]
    /\ taken' = (taken \/ (c = "isr" /\ at["main"] = "wait"))
    /\ UNCHANGED <<shift, dbuf, sent, count, keys>>

Putc(c) == Write(c) \/ Poll(c) \/ Clear(c)

(* A key: the handler echoes one character (or a bell), two for the end of a
   line, three for a backspace. *)
Uart0Isr ==
    /\ ~Handling
    /\ keys < Keys
    /\ keys' = keys + 1
    /\ \E n \in 1..3 : left' = [left EXCEPT !["isr"] = n]
    /\ UNCHANGED <<uart, at, count, taken>>

(* The UART has sent a character.  "Last byte written to the data buffer has
   been transmitted", says the data sheet of TX_BYTE: with another character
   in U0DBUF it may or may not rise. *)
Transmit ==
    /\ shift # None
    /\ Handling => at["isr"] = "wait" /\ ~tx_byte
    /\ sent' = Append(sent, shift)
    /\ shift' = dbuf
    /\ dbuf' = None
    /\ tx_byte' \in IF dbuf = None THEN {TRUE} ELSE {tx_byte, TRUE}
    /\ UNCHANGED <<at, left, count, keys, taken>>

Next == (\E c \in Callers : Putc(c)) \/ Uart0Isr \/ Transmit

Spec == Init /\ [][Next]_vars

(* The UART sends, and both callers go on when they can. *)
FairSpec == /\ Spec
            /\ WF_vars(Transmit)
            /\ \A c \in Callers : WF_vars(Putc(c))

---------------------------------------------------------------------------
(* Properties *)

Written == UNION {{<<c, i>> : i \in 1..count[c]} : c \in Callers}

Out == {sent[i] : i \in DOMAIN sent}

(* Characters given to uart0_putc that are neither on the line nor about to
   be: one caller has written over them in U0DBUF. *)
Lost == Written \ (Out \cup {shift, dbuf})

(* What the missing lock around uart0_putc costs: nothing while one key is
   typed during the text, however it falls, and with each further key at most
   one character, of the text or of an echo.  Each key lets at most one call
   return before its byte is out. *)
LossBounded == Cardinality(Lost) <= (IF keys = 0 THEN 0 ELSE keys - 1)

(* The wait is for the byte to be transmitted (the comment at uart0.c:61).
   The handler's always ends, whatever status the main loop left it, and so
   does uart0_isr, for which the radio handlers wait; the main loop's ends
   unless a call of the handler has cleared the status meanwhile. *)
WaitEnds ==
    /\ Handling ~> ~Handling
    /\ at["main"] = "wait" ~> (at["main"] # "wait" \/ taken)
=============================================================================
