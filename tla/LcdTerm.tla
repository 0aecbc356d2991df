------------------------------ MODULE LcdTerm ------------------------------
(***************************************************************************)
(* The terminal of the handset: common/lcdterm.c, with the line mode of    *)
(* common/console.c that it feeds and that echoes through it.  Nothing     *)
(* interrupts the main loop here: the keyboard is polled, then a line that *)
(* was ended is executed, then a packet printed.                           *)
(*                                                                         *)
(* A cell is a character wide (4 pixels) and a row high (a page of 8); x   *)
(* and addr are bytes in the source, and wrap.                             *)
(***************************************************************************)
EXTENDS Integers, Sequences

CONSTANTS
    Cols, Rows,     \* characters in a row, rows of the display
    LINEBUF_MAX,    \* size of linebuf
    Codes,          \* the bytes that commands and packets print
    Packets         \* packets arrive

(* The prompt and a full line are a row at most: 32 characters each. *)
ASSUME SizeAssumption == Cols \in Nat \ {0} /\ Rows \in Nat \ {0, 1}
ASSUME LineAssumption == LINEBUF_MAX \in 1..Cols
ASSUME CodesAssumption == Codes \subseteq 0..255 /\ Packets \in BOOLEAN

Bell == 7
BS == 8
Space == 32
Prompt == 62
Letter == 97        \* a letter, or what alter and caps lock make of it
Digit == 48         \* what alter makes of KSPK

Keys == {"none", "letter", "space", "cr", "rub", "KCAP", "KALT", "KSPK", "KPWR"}

Cells == (0..(Cols - 1)) \X (0..(Rows - 1))

Tiles == {"blank", ">", "a", "0", "text", "*", "-", "_"}
CursorTiles == {"*", "-", "_"}

VARIABLES
    term,       \* cursorx, cursory, atBottom, addr, and the display's memory
    active, capslock, alt, lastkey,
    linebuf, got_eol,
    pc,         \* where the main loop is
    printing,   \* it is in the middle of a line it prints
    plain       \* history: since the prompt nothing but the typed line was
                \* printed, and nothing rubbed out at the start of a row

modes == <<capslock, alt>>
linebuf_tail == Len(linebuf)
console == <<linebuf, got_eol>>
vars == <<term, active, modes, lastkey, console, pc, printing, plain>>

Terminals ==
    [x : 0..(2 * Cols - 1), y : 0..(Rows - 1), atBottom : BOOLEAN,
     addr : 0..(4 * Rows - 1), screen : [Cells -> Tiles]]

TypeOK ==
    /\ term \in Terminals
    /\ {active, capslock, alt, got_eol, printing, plain} \subseteq BOOLEAN
    /\ pc \in {"banner", "lcdterm_tick", "console_tick", "shell_exec", "radio_tick", "packet"}
    /\ lastkey \in Keys
    /\ linebuf \in Seq({Letter, Digit, Space}) /\ linebuf_tail < LINEBUF_MAX

---------------------------------------------------------------------------
(* Drawing: what each function of lcdterm.c makes of the terminal. *)

(* Nothing shows of a cell that is not on the display. *)
Plot(t, what) ==
    IF t.x < Cols THEN [t EXCEPT !.screen[<<t.x, t.y>>] = what] ELSE t

CursorTile(caps, alternate) == IF alternate THEN "*" ELSE IF caps THEN "-" ELSE "_"

Cursor(t) == Plot(t, CursorTile(capslock, alt))

Scrolled(t) ==
    IF t.atBottom
    THEN [t EXCEPT !.addr = (@ + 1) % (4 * Rows),
                   !.screen = [c \in Cells |-> IF c[2] = t.y THEN "blank" ELSE @[c]]]
    ELSE t

NextRow(t) ==
    LET y == t.y + 1
    IN  [t EXCEPT !.x = 0, !.y = IF y >= Rows THEN 0 ELSE y,
                  !.atBottom = @ \/ y >= Rows]

(* Mutants of Newline: the cursor left behind; no
   regard to graphics mode; scrolled from the second round on only. *)
NewlineNoBlank(t) == IF ~active THEN t ELSE Scrolled(NextRow(t))
NewlineAnyway(t) == Scrolled(NextRow(Plot(t, "blank")))
NewlineLate(t) ==
    IF ~active THEN t
    ELSE IF t.atBottom THEN Scrolled(NextRow(Plot(t, "blank")))
    ELSE NextRow(Plot(t, "blank"))

Newline(t) == IF ~active THEN t ELSE Scrolled(NextRow(Plot(t, "blank")))

Backspace(t) == Cursor([Plot(t, "blank") EXCEPT !.x = (@ + 2 * Cols - 1) % (2 * Cols)])

TileOf(ch) ==
    CASE ch = Space  -> "blank"
      [] ch = Prompt -> ">"
      [] ch = Letter -> "a"
      [] ch = Digit  -> "0"
      [] OTHER       -> "text"

Char(t, ch) ==
    LET moved == [Plot(t, TileOf(ch)) EXCEPT !.x = (@ + 1) % (2 * Cols)]
    IN  Cursor(IF moved.x >= Cols THEN Newline(moved) ELSE moved)

Putc(t, ch) ==
    IF ~active \/ ch = Bell THEN t
    ELSE IF ch = BS THEN Backspace(t)
    ELSE Char(t, ch)

(* A character rubbed out: what the console puts for it. *)
Rubout(t) == Putc(Putc(Putc(t, BS), Space), BS)

Init ==
    /\ term = [x |-> 0, y |-> 0, atBottom |-> FALSE, addr |-> 0,
               screen |-> [c \in Cells |-> IF c = <<0, 0>> THEN "_" ELSE "blank"]]
    /\ active = TRUE
    /\ capslock = FALSE
    /\ alt = FALSE
    /\ lastkey = "none"
    /\ linebuf = <<>>
    /\ got_eol = FALSE
    /\ pc = "banner"
    /\ printing = FALSE
    /\ plain = FALSE

---------------------------------------------------------------------------
(* console_rx_callback, with handle_pending *)

RxEndOfLine ==
    /\ got_eol' = TRUE
    /\ term' = Newline(term)
    /\ UNCHANGED <<linebuf, plain>>

Shorter == SubSeq(linebuf, 1, linebuf_tail - 1)

(* Mutant of RxRub: the cursor stays behind the erased character. *)
RxRubStays ==
    /\ IF linebuf_tail > 0
       THEN /\ linebuf' = Shorter
            /\ term' = Putc(Putc(term, BS), Space)
            /\ plain' = (plain /\ term.x > 0)
       ELSE UNCHANGED <<linebuf, term, plain>>
    /\ UNCHANGED got_eol

RxRub ==
    /\ IF linebuf_tail > 0
       THEN /\ linebuf' = Shorter
            /\ term' = Rubout(term)
            /\ plain' = (plain /\ term.x > 0)
       ELSE UNCHANGED <<linebuf, term, plain>>
    /\ UNCHANGED got_eol

(* A bell, that the terminal ignores, when the line is full. *)
RxChar(ch) ==
    /\ IF linebuf_tail < LINEBUF_MAX - 1
       THEN /\ linebuf' = Append(linebuf, ch)
            /\ term' = Putc(term, ch)
       ELSE UNCHANGED <<linebuf, term>>
    /\ UNCHANGED <<got_eol, plain>>

RxCallback(k) ==
    CASE k = "cr"     -> RxEndOfLine
      [] k = "rub"    -> RxRub
      [] k = "letter" -> RxChar(Letter)
      [] k = "space"  -> RxChar(Space)
      [] k = "KSPK"   -> RxChar(Digit)

---------------------------------------------------------------------------
(* lcdterm_tick *)

(* Special keys do nothing, and no key is none; alt makes a 0 of KSPK. *)
Ignored(k) == k \in {"none", "KPWR"} \cup (IF alt THEN {} ELSE {"KSPK"})

ModeKey(k) ==
    /\ capslock' = IF k = "KCAP" THEN ~capslock ELSE capslock
    /\ alt' = IF k = "KALT" THEN ~alt ELSE alt
    /\ term' = Plot(term, CursorTile(capslock', alt'))
    /\ UNCHANGED <<console, plain>>

FeedConsole(k) ==
    IF Ignored(k) \/ got_eol
    THEN UNCHANGED <<term, modes, console, plain>>
    ELSE RxCallback(k) /\ UNCHANGED modes

Goto(from, to) == pc = from /\ pc' = to

(* A key counts when it is not the one of the last poll. *)
NewKey ==
    \E k \in Keys \ {lastkey} :
        /\ active
        /\ lastkey' = k
        /\ IF k \in {"KCAP", "KALT"} THEN ModeKey(k) ELSE FeedConsole(k)

LcdtermTick ==
    /\ Goto("lcdterm_tick", "console_tick")
    /\ NewKey \/ UNCHANGED <<term, modes, lastkey, console, plain>>
    /\ UNCHANGED <<active, printing>>

---------------------------------------------------------------------------
(* What the rest of the main loop prints: whole lines. *)

(* Mutant of ConsoleTick: nothing is done for an empty line. *)
ConsoleTickNonEmpty ==
    /\ pc = "console_tick"
    /\ pc' = IF got_eol /\ linebuf_tail > 0 THEN "shell_exec" ELSE "radio_tick"
    /\ UNCHANGED <<term, active, modes, lastkey, console, printing, plain>>

ConsoleTick ==
    /\ pc = "console_tick"
    /\ pc' = IF got_eol THEN "shell_exec" ELSE "radio_tick"
    /\ UNCHANGED <<term, active, modes, lastkey, console, printing, plain>>

MayPrint == pc \in {"banner", "packet"} \/ (pc = "shell_exec" /\ linebuf_tail > 0)

ConsolePutc(ch) ==
    /\ MayPrint
    /\ term' = Putc(term, ch)
    /\ printing' = TRUE
    /\ UNCHANGED <<active, modes, lastkey, console, pc, plain>>

ConsoleNewline ==
    /\ printing
    /\ term' = Newline(term)
    /\ printing' = FALSE
    /\ pc' = IF pc = "packet" THEN "lcdterm_tick" ELSE pc
    /\ UNCHANGED <<active, modes, lastkey, console, plain>>

(* The end of console_tick, and of main before its loop. *)
ConsolePrompt ==
    /\ pc \in {"banner", "shell_exec"} /\ ~printing
    /\ term' = Putc(term, Prompt)
    /\ linebuf' = <<>>
    /\ got_eol' = FALSE
    /\ plain' = TRUE
    /\ pc' = IF pc = "banner" THEN "lcdterm_tick" ELSE "radio_tick"
    /\ UNCHANGED <<active, modes, lastkey, printing>>

(* PACKET_TYPE_GFXINIT: lcd_init clears the display. *)
LcdtermStop ==
    /\ active' = FALSE
    /\ term' = [term EXCEPT !.screen = [c \in Cells |-> "blank"]]

(* No packet, one that is printed, or graphics mode. *)
RadioTick ==
    /\ pc = "radio_tick"
    /\ \/ pc' = "lcdterm_tick" /\ UNCHANGED <<term, active, plain>>
       \/ Packets /\ pc' = "packet" /\ plain' = FALSE /\ UNCHANGED <<term, active>>
       \/ Packets /\ pc' = "lcdterm_tick" /\ LcdtermStop /\ UNCHANGED plain
    /\ UNCHANGED <<modes, lastkey, console, printing>>

Next ==
    \/ LcdtermTick \/ ConsoleTick \/ ConsolePrompt \/ RadioTick
    \/ \E ch \in Codes : ConsolePutc(ch)
    \/ ConsoleNewline

Spec == Init /\ [][Next]_vars

---------------------------------------------------------------------------
(* Properties *)

Cursors == {c \in Cells : term.screen[c] \in CursorTiles}

(* The cursor is nowhere left behind: there is at most one on the display,
   where the next character goes, and it "will change to signal the mode"
   (README.md:56), whatever is printed and typed between two mode keys.  Each
   of the functions blanks the old one and draws its own, and a line that has
   just ended has none until the prompt. *)
OneCursor ==
    active => \A c \in Cursors :
        c = <<term.x, term.y>> /\ term.screen[c] = CursorTile(capslock, alt)

(* From the first scroll on, the cursor's row is the lowest one shown: the
   first row shown (addr) and the row written (cursory) turn together, also
   when addr overflows. *)
BottomRow ==
    active => IF term.atBottom THEN term.y = (term.addr + Rows - 1) % Rows
                               ELSE term.addr = 0

RowAbove == IF term.y = 0 THEN Rows - 1 ELSE term.y - 1

(* The display shows the prompt and the line as linebuf holds it, and the
   cursor stands behind it (linebuf_tail and cursorx count on their own, the
   one in characters, the other in pixels): whatever was printed and scrolled
   before the prompt, blanks included, and when the line fills its row and the
   cursor goes to the next one; until a packet is printed into the line, or
   the last character of a full row is rubbed out. *)
LineShown ==
    active /\ plain /\ ~got_eol =>
        LET full == linebuf_tail + 1 = Cols
            row == IF full THEN RowAbove ELSE term.y
        IN  /\ term.x = IF full THEN 0 ELSE linebuf_tail + 1
            /\ term.screen[<<0, row>>] = TileOf(Prompt)
            /\ \A i \in 1..linebuf_tail : term.screen[<<i, row>>] = TileOf(linebuf[i])

(* No key is thrown away: console_tick has dealt with the line before the
   keyboard is polled again (the test at lcdterm.c:173 never fails). *)
EveryKeyTaken == pc = "lcdterm_tick" => ~got_eol

(* "suspends text console" (README.md:113): once in graphics mode nothing that
   the main loop prints touches the display. *)
TextSuspended == [][~active => UNCHANGED term]_vars
=============================================================================
