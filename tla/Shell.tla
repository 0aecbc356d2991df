------------------------------- MODULE Shell -------------------------------
(***************************************************************************)
(* pinkos/shell.c: shell_exec cuts the console's line into arguments, the  *)
(* commands act on them.                                                   *)
(*                                                                         *)
(* argv and linebuf are static: an entry of argv that the present line     *)
(* does not set still points to where an argument of an earlier line was,  *)
(* and what is found there now is left of that line, or is the middle of   *)
(* the present one.  The console throws away what is typed while a command *)
(* runs (Console), so the line does not change under it.                   *)
(*                                                                         *)
(* This is the dongle's shell; the handset's has no gfx commands.          *)
(***************************************************************************)
EXTENDS Parse

CONSTANTS
    Lines,          \* what the user types: sequences of words
    LINEBUF_MAX,    \* size of linebuf
    PKTBUF_MAX,     \* size of pktbuf
    Numbers         \* what parse_number may make of an unknown text

Unknown == "?"      \* a text that the model does not follow

(* A word has a text, a length, and the value parse_number gives it. *)
Word16 == 0..65535
Texts == UNION {{line[i].text : i \in DOMAIN line} : line \in Lines}
Words == [text : Texts, len : Nat, num : Word16]

ASSUME LinesAssumption == Lines \subseteq Seq(Words) \ {<<>>} /\ Unknown \notin Texts
ASSUME BufferAssumption == LINEBUF_MAX \in Nat \ {0} /\ PKTBUF_MAX \in Nat
ASSUME NumbersAssumption == Numbers # {} /\ Numbers \subseteq Word16

MAXARGS == 5
HEADER == 5         \* sizeof(packet_t)
REQ_ACK == 128      \* PACKET_SEQ_REQ_ACK
LED == 2            \* PACKET_TYPE_LED
GFXINIT == 3        \* PACKET_TYPE_GFXINIT
GFXPLOTLINE == 4    \* PACKET_TYPE_GFXPLOTLINE
Nowhere == -1       \* argv[i] before it is first set

VARIABLES
    linebuf,    \* the words whose first character is in place, by offset
    argv,       \* offsets into linebuf; argv[i] is the source's argv[i - 1]
    argc,
    pc,         \* "read", "run", "app"
    typed,      \* history: the line typed
    did         \* history: what its command did

vars == <<linebuf, argv, argc, pc, typed, did>>

Nothing == [kind |-> "nothing"]

TypeOK ==
    /\ DOMAIN linebuf \subseteq 0..LINEBUF_MAX
    /\ argv \in [1..MAXARGS -> 0..LINEBUF_MAX \cup {Nowhere}]
    /\ argc \in 0..MAXARGS
    /\ pc \in {"read", "run", "app"}
    /\ typed \in Lines \cup {<<>>}

Init ==
    /\ linebuf = <<>>
    /\ argv = [i \in 1..MAXARGS |-> Nowhere]
    /\ argc = 0
    /\ pc = "read"
    /\ typed = <<>>
    /\ did = Nothing

---------------------------------------------------------------------------
(* Lines *)

UnknownText(len) == [text |-> Unknown, len |-> len, num |-> 0]

(* Where each word of a line starts, and where the line ends. *)
Starts(line) ==
    LET s[i \in 1..Len(line)] == IF i = 1 THEN 0 ELSE s[i - 1] + line[i - 1].len + 1
    IN  s

End(line) == Starts(line)[Len(line)] + line[Len(line)].len

(* Mutant of Cut: the line may be of any length. *)
CutNothing(line) == line

(* linebuf keeps a place for the terminator, what does not fit is dropped. *)
Cut(line) ==
    LET room == LINEBUF_MAX - 1
        kept == {i \in DOMAIN line : Starts(line)[i] <= room}
    IN  [i \in kept |-> IF Starts(line)[i] + line[i].len <= room
                        THEN line[i]
                        ELSE UnknownText(room - Starts(line)[i])]

(* Mutant of Arguments: argv has no end. *)
ArgumentsAll(line) == line

(* The last argument there is room for takes the rest of the line. *)
Arguments(line) ==
    IF Len(line) <= MAXARGS THEN line
    ELSE Append(SubSeq(line, 1, MAXARGS - 1),
                UnknownText(End(line) - Starts(line)[MAXARGS]))

(* Writing a line spares what is beyond its terminator. *)
Over(line) ==
    LET written == {Starts(line)[i] : i \in DOMAIN line}
        spared == {o \in DOMAIN linebuf : o > End(line)}
    IN  [o \in written \cup spared |->
            IF o \in written THEN line[CHOOSE i \in DOMAIN line : Starts(line)[i] = o]
            ELSE linebuf[o]]

ShellExec(line) ==
    /\ pc = "read"
    /\ LET args == Arguments(Cut(line))
       IN  /\ linebuf' = Over(args)
           /\ argc' = Len(args)
           /\ argv' = [i \in DOMAIN argv \cup DOMAIN args |->
                          IF i \in DOMAIN args THEN Starts(args)[i] ELSE argv[i]]
    /\ pc' = "run"
    /\ typed' = line
    /\ did' = Nothing

---------------------------------------------------------------------------
(* What the source's argv[i] points to, and the numbers it may stand for. *)
Text(i) == IF argv[i + 1] \in DOMAIN linebuf THEN linebuf[argv[i + 1]] ELSE UnknownText(0)

Number(i) == IF Text(i).text = Unknown THEN Numbers ELSE {Text(i).num}

Called(name) == pc = "run" /\ Text(0).text = name

Return(result) ==
    /\ did' = result
    /\ pc' = "read"
    /\ UNCHANGED <<linebuf, typed>>

(* packet_build and packet_send; the addresses and types are bytes.  Bytes of
   the payload that the command does not write are what the buffer held. *)
Send(dst, seq, type, len, payload) ==
    Return([kind |-> "send", dst |-> dst % 256, seq |-> seq % 256, type |-> type % 256,
            len |-> (HEADER - 1 + len) % 256, payload |-> payload])

Poke(at, val) == Return([kind |-> "poke", at |-> at, val |-> val % 256])

CountDown == argc' = argc - 1 /\ UNCHANGED argv

(* Mutant of CmdTx: argc still counts the command. *)
CmdTxUncounted ==
    /\ Called("tx")
    /\ UNCHANGED <<argc, argv>>
    /\ IF argc > 3
       THEN \E dst \in Number(1), seq \in Number(2), type \in Number(3) :
                Send(dst, seq, type, Text(4).len, Text(4).text)
       ELSE Return(Nothing)

(* Copying the text moves argv[4] to its terminator. *)
CmdTx ==
    /\ Called("tx")
    /\ argc' = argc - 1
    /\ IF argc' > 3
       THEN /\ \E dst \in Number(1), seq \in Number(2), type \in Number(3) :
                   Send(dst, seq, type, Text(4).len, Text(4).text)
            /\ argv' = [argv EXCEPT ![5] = @ + Text(4).len]
       ELSE Return(Nothing) /\ UNCHANGED argv

CmdTeleled ==
    /\ Called("teleled")
    /\ CountDown
    /\ IF argc' = 2
       THEN \E dst \in Number(1), on \in Number(2) : Send(dst, REQ_ACK, LED, 1, <<on % 256>>)
       ELSE Return(Nothing)

CmdGfxinit ==
    /\ Called("gfxinit")
    /\ CountDown
    /\ IF argc' = 1
       THEN \E dst \in Number(1) : Send(dst, REQ_ACK, GFXINIT, 0, <<>>)
       ELSE Return(Nothing)

(* What parse_hexdata leaves in the eight bytes, all the digits or none. *)
Plotted == IF FitsOut(Text(4).len, 8) THEN Text(4).text ELSE "stale"

CmdGfxplot ==
    /\ Called("gfxplot")
    /\ CountDown
    /\ IF argc' = 4
       THEN \E dst \in Number(1), x \in Number(2), y \in Number(3) :
                Send(dst, 0, GFXPLOTLINE, 8 + 2, <<x % 256, y % 256, Plotted>>)
       ELSE Return(Nothing)

(* The last of its 128 packets. *)
CmdGfxtest ==
    /\ Called("gfxtest")
    /\ CountDown
    /\ IF argc' = 1
       THEN \E dst \in Number(1) : Send(dst, 0, GFXPLOTLINE, 8 + 2, <<120, 7, "F0F0F0F00F0F0F0F">>)
       ELSE Return(Nothing)

CmdLed ==
    /\ Called("led")
    /\ UNCHANGED <<argc, argv>>
    /\ IF argc > 1
       THEN \E n \in Number(1) :
                Return([kind |-> "led", to |-> CASE n = 0 -> "off" [] n = 1 -> "on" [] OTHER -> "toggle"])
       ELSE Return(Nothing)

(* One argument: the byte is printed, and case 1 drops through to case 2. *)
CmdXdata ==
    /\ Called("xdata")
    /\ CountDown
    /\ IF argc' \in {1, 2}
       THEN \E addr \in Number(1), val \in Number(2) : Poke(addr, val)
       ELSE Return(Nothing)

(* argc counts the command here: alone it peeks at argv[1], if that is not 0,
   and drops through; with one argument argv[2] is both address and value. *)
CmdPdata ==
    /\ Called("pdata")
    /\ UNCHANGED <<argc, argv>>
    /\ \E addr \in Number(1), val \in Number(2) :
           IF argc \in {1, 2} /\ (argc = 1 => addr # 0) /\ val # 0
           THEN Poke(val % 256, val)
           ELSE Return(Nothing)

(* The C start-up code and main run again. *)
CmdReset ==
    /\ Called("reset")
    /\ linebuf' = <<>>
    /\ argv' = [i \in 1..MAXARGS |-> Nowhere]
    /\ argc' = 0
    /\ pc' = "read"
    /\ typed' = <<>>
    /\ did' = Nothing

(* The application takes over. *)
CmdBoot ==
    /\ Called("boot")
    /\ pc' = "app"
    /\ UNCHANGED <<linebuf, argv, argc, typed, did>>

App == pc = "app" /\ UNCHANGED vars

Commands == {"reset", "boot", "led", "xdata", "pdata", "tx", "teleled",
             "gfxinit", "gfxplot", "gfxtest"}

(* help prints, any other word does nothing. *)
OtherWord ==
    /\ pc = "run"
    /\ Text(0).text \notin Commands
    /\ Return(Nothing)
    /\ UNCHANGED <<argc, argv>>

Next ==
    \/ \E line \in Lines : ShellExec(line)
    \/ CmdReset \/ CmdBoot \/ CmdLed \/ CmdXdata \/ CmdPdata
    \/ CmdTx \/ CmdTeleled \/ CmdGfxinit \/ CmdGfxplot \/ CmdGfxtest
    \/ OtherWord \/ App

Spec == Init /\ [][Next]_vars

---------------------------------------------------------------------------
(* Properties *)

Fits(line) == End(line) < LINEBUF_MAX

(* The command and its n arguments, as they are typed. *)
IsCall(name, n) == typed # <<>> /\ typed[1].text = name /\ Len(typed) = n + 1 /\ Fits(typed)

Arg(i) == typed[i + 1].num % 256

(* A packet is sent only for a line that has the arguments of its command, and
   to the address, with the number, the type and the text, of this line: never
   with what argv still points to from an earlier one (cmd_tx, cmd_teleled and
   the gfx commands count their arguments before they read them). *)
SentFromLine ==
    did.kind = "send" /\ Fits(typed) /\ Len(typed) <= MAXARGS =>
        /\ did.dst = Arg(1)
        /\ \/ /\ IsCall("tx", 4)
              /\ did.seq = Arg(2) /\ did.type = Arg(3) /\ did.payload = typed[5].text
           \/ IsCall("teleled", 2) /\ did.type = LED /\ did.payload = <<Arg(2)>>
           \/ IsCall("gfxinit", 1) /\ did.type = GFXINIT
           \/ IsCall("gfxtest", 1) /\ did.type = GFXPLOTLINE
           \/ /\ IsCall("gfxplot", 4)
              /\ did.type = GFXPLOTLINE /\ did.payload[1] = Arg(2) /\ did.payload[2] = Arg(3)

(* argv is full after five words (shell.c:282), and packet_build does not look
   at the length it is given: a packet fits the buffer, and its length its
   byte, because the line fits linebuf. *)
InBounds ==
    /\ Len(argv) <= MAXARGS
    /\ did.kind = "send" => did.len + 1 <= PKTBUF_MAX

=============================================================================
