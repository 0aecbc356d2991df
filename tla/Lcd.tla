-------------------------------- MODULE Lcd --------------------------------
(***************************************************************************)
(* The display of the handset: the controller behind the SPI, as far as    *)
(* its commands are used, and the two drivers, lcd.c of PinkOS and         *)
(* display.c of speccan.  Operators only: a controller is a record, and    *)
(* each function of a driver takes one to the next.                        *)
(***************************************************************************)
EXTENDS Integers, Sequences

WIDTH == 132
PagesOfRam == 0..8          \* eight pixel rows each; the last has one only
Cells == PagesOfRam \X (0..(WIDTH - 1))

(* What the controller holds.  ram has the cells written; what a cell holds
   is up to the caller. *)
Controllers(Data) ==
    [page : 0..15, col : 0..255, start : 0..63, reverse : 0..1,
     on : BOOLEAN, points : BOOLEAN, value : BOOLEAN,
     ram : UNION {[C -> Data] : C \in SUBSET Cells}]

PowerUp == [page |-> 0, col |-> 0, start |-> 0, reverse |-> 0,
            on |-> FALSE, points |-> FALSE, value |-> FALSE,
            ram |-> [c \in {} |-> 0]]

(* A byte with A0 low.  on: the display shows its memory; points: all of it
   is lit instead; value: the byte is the operand of a 0x81 before it. *)
txCtl(l, ch) ==
    CASE l.value                          -> [l EXCEPT !.value = FALSE]
      [] ~l.value /\ ch \in 0..15         -> [l EXCEPT !.col = 16 * (@ \div 16) + ch]
      [] ~l.value /\ ch \in 16..31        -> [l EXCEPT !.col = 16 * (ch - 16) + (@ % 16)]
      [] ~l.value /\ ch \in 64..127       -> [l EXCEPT !.start = ch - 64]
      [] ~l.value /\ ch = 129             -> [l EXCEPT !.value = TRUE]
      [] ~l.value /\ ch \in {164, 165}    -> [l EXCEPT !.points = ch = 165]
      [] ~l.value /\ ch \in {166, 167}    -> [l EXCEPT !.reverse = ch - 166]
      [] ~l.value /\ ch \in {174, 175}    -> [l EXCEPT !.on = ch = 175]
      [] ~l.value /\ ch \in 176..191      -> [l EXCEPT !.page = ch - 176]
      [] ~l.value /\ ch = 226             -> [l EXCEPT !.page = 0, !.col = 0, !.start = 0]
      [] OTHER                            -> l

(* n bytes with A0 high, f[0] first: each goes to the next column, and what
   falls off the page is lost. *)
txData(l, n, f) ==
    LET here == {c \in {l.page} \X (l.col..(l.col + n - 1)) : c \in Cells}
    IN  [l EXCEPT !.ram = [c \in DOMAIN @ \cup here |->
                              IF c \in here THEN f[c[2] - l.col] ELSE @[c]],
                  !.col = IF @ + n < WIDTH THEN @ + n ELSE WIDTH]

(* Several of them, one after the other. *)
txCtls(l, chs) ==
    LET after[n \in 0..Len(chs)] == IF n = 0 THEN l ELSE txCtl(after[n - 1], chs[n])
    IN  after[Len(chs)]

---------------------------------------------------------------------------
(* display.c *)

setCursor(l, row, col) ==
    txCtl(txCtl(txCtl(l, (176 + row) % 256), col % 16), 16 + ((col \div 16) % 16))

setDisplayStart(l, start) == txCtl(l, 64 + (start % 64))

setNormalReverse(l, normal) == txCtl(l, 166 + (normal % 2))

LCDReset(l) == txCtls(l, <<226, 36, 129, 96, 230, 0, 47, 161, 175, 164>>)

LCDPowerSave(l) == txCtls(l, <<172, 174, 165>>)

(* All cells get blank; the loop writes a page more than there are. *)
clear(l, blank) ==
    LET n == setNormalReverse(setDisplayStart(l, 0), 0)
    IN  [n EXCEPT !.page = 9, !.col = WIDTH, !.ram = [c \in Cells |-> blank]]

---------------------------------------------------------------------------
(* lcd.c *)

lcd_setPos(l, x, y) ==
    txCtl(txCtl(txCtl(l, (176 + y) % 256), x % 16), 16 + ((x \div 16) % 16))

lcd_setAddr(l, start) == txCtl(l, 64 + (start % 64))

lcd_setNormalReverse(l, normal) == txCtl(l, 166 + (normal % 2))

lcd_cls(l, ch) ==
    [l EXCEPT !.page = 8, !.col = WIDTH, !.ram = [c \in Cells |-> ch]]

lcd_init(l, ff) == lcd_cls(lcd_setAddr(lcd_setNormalReverse(LCDReset(l), 0), 0), ff)

(* lcdterm.c: a tile of four columns. *)
lcdterm_plotchar(l, x, y, pix) ==
    txData(lcd_setPos(lcd_setNormalReverse(l, 1), x, y), 4, pix)
=============================================================================
