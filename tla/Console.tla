------------------------------ MODULE Console ------------------------------
(***************************************************************************)
(* The dongle's console in line mode: common/console.c, fed by uart0_isr   *)
(* (common/uart0.c) and emptied by console_tick in the main loop of        *)
(* pinkos/pinkos.c.  The handset's is in LcdTerm.                          *)
(*                                                                         *)
(* The handler comes between any two steps of the main loop and shares     *)
(* linebuf, linebuf_tail and got_eol with it without a lock.               *)
(***************************************************************************)
EXTENDS Integers, Sequences

CONSTANTS
    Chars,          \* what can be typed besides CR and Rub
    Blank,          \* the character shell_exec cuts a line at, one of Chars
    CR, Rub,        \* end of line; backspace or delete
    Nul,            \* the end of a C string, and what memory holds at first
    LINEBUF_MAX     \* size of linebuf

ASSUME CharsAssumption == Blank \in Chars /\ {CR, Rub, Nul} \cap Chars = {}
ASSUME BufferAssumption == LINEBUF_MAX \in Nat \ {0}

Typed == Chars \cup {CR, Rub}

VARIABLES
    linemode,       \* line mode or key mode
    linebuf, linebuf_tail,
    got_eol,        \* received end of line
    got_key, last_key,
    dbuf,           \* U0DBUF, the last character received
    urx0if,         \* receive interrupt request
    pc,             \* next step of the main loop
    shown,          \* history: echo since the last prompt, net of erasures
    early,          \* history: a key came in while line mode was set up
    executed        \* history: the string last given to shell_exec

buffer == <<linebuf, linebuf_tail, got_eol>>
vars == <<linemode, buffer, got_key, last_key, dbuf, urx0if, pc, shown, early, executed>>

(* Steps of console_set_linemode that leave line mode half set up. *)
Starting == {"clear_tail", "clear_eol"}

TypeOK ==
    /\ {linemode, got_eol, got_key, urx0if, early} \subseteq BOOLEAN
    /\ linebuf \in [0..(LINEBUF_MAX - 1) -> Chars \cup {Nul}]
    /\ linebuf_tail \in 0..(LINEBUF_MAX - 1)
    /\ {last_key, dbuf} \subseteq Typed \cup {Nul}
    /\ pc \in Starting \cup {"boot", "banner", "console_tick", "terminate",
                             "shell_exec", "reset", "prompt", "ready"}
    /\ shown \in Seq(Chars)
    /\ executed \in Seq(Chars)

(* main has enabled interrupts and is about to call console_init.  uart0_init
   has raised URX0IF itself: the handler runs once for nothing. *)
Init ==
    /\ linemode = FALSE
    /\ linebuf = [i \in 0..(LINEBUF_MAX - 1) |-> Nul]
    /\ linebuf_tail = 0
    /\ got_eol = FALSE
    /\ got_key = FALSE
    /\ last_key = Nul
    /\ dbuf = Nul
    /\ urx0if = TRUE
    /\ pc = "boot"
    /\ shown = <<>>
    /\ early = FALSE
    /\ executed = <<>>

---------------------------------------------------------------------------
(* console_rx_callback, with handle_pending which it ends with. *)

EndLine ==
    /\ got_eol' = TRUE
    /\ UNCHANGED <<linebuf, linebuf_tail, shown>>

Erase ==
    /\ IF linebuf_tail > 0
       THEN /\ linebuf_tail' = linebuf_tail - 1
            /\ shown' = SubSeq(shown, 1, Len(shown) - 1)
       ELSE UNCHANGED <<linebuf_tail, shown>>
    /\ UNCHANGED <<linebuf, got_eol>>

HasRoom == linebuf_tail < LINEBUF_MAX - 1

(* Mutant of Store: what does not fit is echoed all the same. *)
StoreAndEcho(c) ==
    /\ IF HasRoom
       THEN /\ linebuf' = [linebuf EXCEPT ![linebuf_tail] = c]
            /\ linebuf_tail' = linebuf_tail + 1
       ELSE UNCHANGED <<linebuf, linebuf_tail>>
    /\ shown' = Append(shown, c)
    /\ UNCHANGED got_eol

(* A character is stored and echoed from the buffer, or a bell rings. *)
Store(c) ==
    /\ IF HasRoom
       THEN /\ linebuf' = [linebuf EXCEPT ![linebuf_tail] = c]
            /\ linebuf_tail' = linebuf_tail + 1
            /\ shown' = Append(shown, linebuf'[linebuf_tail' - 1])
       ELSE UNCHANGED <<linebuf, linebuf_tail, shown>>
    /\ UNCHANGED got_eol

LineCallback(c) ==
    \/ got_eol /\ UNCHANGED <<buffer, shown>>
    \/ ~got_eol /\ c = CR /\ EndLine
    \/ ~got_eol /\ c = Rub /\ Erase
    \/ ~got_eol /\ c \notin {CR, Rub} /\ Store(c)

RxCallback(c) ==
    IF linemode
    THEN /\ LineCallback(c)
         /\ UNCHANGED <<got_key, last_key>>
    ELSE /\ got_key' = TRUE
         /\ last_key' = c
         /\ UNCHANGED <<buffer, shown>>

(* console_rx_ready_callback *)
RxReady == linemode => ~got_eol

---------------------------------------------------------------------------
(* A character arrives, over one not yet fetched if the handler is late, and
   uart0_isr fetches it. *)

Arrive ==
    /\ \E c \in Typed : dbuf' = c
    /\ urx0if' = TRUE
    /\ UNCHANGED <<linemode, buffer, got_key, last_key, pc, shown, early, executed>>

Uart0Isr ==
    /\ urx0if
    /\ urx0if' = FALSE
    /\ IF RxReady
       THEN RxCallback(dbuf)
       ELSE UNCHANGED <<buffer, got_key, last_key, shown>>
    /\ early' = (early \/ pc \in Starting)
    /\ UNCHANGED <<linemode, dbuf, pc, executed>>

---------------------------------------------------------------------------
(* Main loop. *)

Goto(from, to) == pc = from /\ pc' = to

(* console_set_linemode(true), three stores with interrupts on: the handler
   edits a line before the tail is reset, or ends one before got_eol is. *)
SetLinemode ==
    /\ Goto("boot", "clear_tail")
    /\ linemode' = TRUE
    /\ UNCHANGED <<buffer, got_key, last_key, shown, early, executed>>

ClearTail ==
    /\ Goto("clear_tail", "clear_eol")
    /\ linebuf_tail' = 0
    /\ UNCHANGED <<linemode, linebuf, got_eol, got_key, last_key, shown, early, executed>>

ClearEol ==
    /\ Goto("clear_eol", "banner")
    /\ got_eol' = FALSE
    /\ UNCHANGED <<linemode, linebuf, linebuf_tail, got_key, last_key, shown, early, executed>>

Banner ==
    /\ Goto("banner", "console_tick")
    /\ UNCHANGED <<linemode, buffer, got_key, last_key, shown, early, executed>>

ConsoleTick ==
    /\ pc = "console_tick"
    /\ pc' = CASE ~(linemode /\ got_eol) -> "console_tick"
               [] linemode /\ got_eol /\ linebuf_tail > 0 -> "terminate"
               [] linemode /\ got_eol /\ linebuf_tail = 0 -> "reset"
    /\ UNCHANGED <<linemode, buffer, got_key, last_key, shown, early, executed>>

(* Mutant of Terminate: the next line may come in from here on. *)
TerminateAndAccept ==
    /\ Goto("terminate", "shell_exec")
    /\ linebuf' = [linebuf EXCEPT ![linebuf_tail] = Nul]
    /\ got_eol' = FALSE
    /\ UNCHANGED <<linemode, linebuf_tail, got_key, last_key, shown, early, executed>>

Terminate ==
    /\ Goto("terminate", "shell_exec")
    /\ linebuf' = [linebuf EXCEPT ![linebuf_tail] = Nul]
    /\ UNCHANGED <<linemode, linebuf_tail, got_eol, got_key, last_key, shown, early, executed>>

(* The C string that starts at linebuf[0]. *)
CString ==
    LET end == CHOOSE n \in DOMAIN linebuf :
                   /\ linebuf[n] = Nul
                   /\ \A i \in 0..(n - 1) : linebuf[i] # Nul
    IN  [i \in 1..end |-> linebuf[i - 1]]

(* shell_exec reads the line and cuts it at blanks in place. *)
ShellExec ==
    /\ Goto("shell_exec", "reset")
    /\ executed' = CString
    /\ \E cuts \in SUBSET {i \in DOMAIN linebuf : linebuf[i] = Blank} :
          linebuf' = [i \in DOMAIN linebuf |-> IF i \in cuts THEN Nul ELSE linebuf[i]]
    /\ UNCHANGED <<linemode, linebuf_tail, got_eol, got_key, last_key, shown, early>>

Reset ==
    /\ Goto("reset", "prompt")
    /\ linebuf_tail' = 0
    /\ UNCHANGED <<linemode, linebuf, got_eol, got_key, last_key, shown, early, executed>>

Prompt ==
    /\ Goto("prompt", "ready")
    /\ shown' = <<>>
    /\ early' = FALSE
    /\ UNCHANGED <<linemode, buffer, got_key, last_key, executed>>

Ready ==
    /\ Goto("ready", "console_tick")
    /\ got_eol' = FALSE
    /\ UNCHANGED <<linemode, linebuf, linebuf_tail, got_key, last_key, shown, early, executed>>

Main ==
    /\ ~urx0if
    /\ \/ SetLinemode \/ ClearTail \/ ClearEol \/ Banner \/ ConsoleTick
       \/ Terminate \/ ShellExec \/ Reset \/ Prompt \/ Ready
    /\ UNCHANGED <<dbuf, urx0if>>

Next == Arrive \/ Uart0Isr \/ Main

Spec == Init /\ [][Next]_vars

(* The handler runs when it is due, and the main loop gets on between
   characters: even at 115200 baud one takes 87 us. *)
FairSpec == Spec /\ WF_vars(Uart0Isr) /\ SF_vars(Main)

---------------------------------------------------------------------------
(* Properties *)

(* The characters of the line in the buffer. *)
Line == [i \in 1..linebuf_tail |-> linebuf[i - 1]]

(* The console implements the line discipline: characters that arrive while
   a line is executed change neither it nor the next one (the two tests of
   got_eol, and the order in which console_tick resets tail and got_eol);
   only what is typed while console_set_linemode is at it may be forgotten. *)
Discipline == INSTANCE LineDiscipline WITH
    MaxLine <- LINEBUF_MAX - 1,
    line <- IF pc \in {"reset", "prompt", "ready"} THEN <<>> ELSE Line,
    frozen <- got_eol,
    started <- pc \notin {"boot"} \cup Starting

ImplementsLineDiscipline == Discipline!Spec

(* What the user sees of the line is what the buffer holds, and what was on
   the screen at Enter is what shell_exec was given: echo, erasure and bell
   agree with what console_rx_callback stored.  The one exception is the
   first line, if a key came in while console_set_linemode was at it. *)
EchoMatches ==
    ~early =>
        /\ pc \notin {"reset", "prompt"} => shown = Line
        /\ pc = "reset" /\ linebuf_tail > 0 => executed = shown
=============================================================================
