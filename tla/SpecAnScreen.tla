---------------------------- MODULE SpecAnScreen ----------------------------
(***************************************************************************)
(* What the spectrum analyser draws: the bar of a column with its dot, in  *)
(* six pages of eight pixels, and the ruler and the labels below it.  The  *)
(* drawing functions take the controller of Lcd to its next state.         *)
(***************************************************************************)
EXTENDS SpecAn, Lcd

Bits == 0..7            \* bit 7 is the lowest pixel of a page

(* MAX(x - vscroll, 0), or a quarter of it. *)
Scaled(x) == AtLeast(IF height = "TALL" THEN x - vscroll ELSE (x - vscroll) \div 4, 0)

(* 0xff << n and 0x01 << n in a byte, n a byte. *)
LeftOf(n) == {bit \in Bits : bit >= n}
BitAt(n) == {bit \in Bits : bit = n}

(* Mutant of Pixels: a full page is not told from one the bar left behind. *)
PixelsNoSection(s, m, row) ==
    LET end == 8 * (row + 1)
        section == (s - 8 * row) % 256
    IN  LeftOf((8 - section) % 256) \cup (IF m <= end THEN BitAt(end - m) ELSE {})

(* The byte plot() sends for a page: the bar up to s, the dot at m. *)
Pixels(s, m, row) ==
    LET end == 8 * (row + 1)
        section == IF s >= end THEN 8 ELSE (s - 8 * row) % 256
    IN  LeftOf((8 - section) % 256) \cup (IF m <= end THEN BitAt(end - m) ELSE {})

(* The first n rounds of plot(col), from the lowest page up. *)
Plotted(l, col) ==
    LET p[n \in 0..6] ==
            IF n = 0 THEN setDisplayStart(l, 0)
            ELSE txData(setCursor(p[n - 1], 5 - (n - 1), col), 1,
                        [i \in {0} |-> Pixels(Scaled(chan.ss), Scaled(chan.max), n - 1)])
    IN  p

plot(l, col) == Plotted(l, col)[6]

(* The pixel rows lit in column col, from the top of the display. *)
Lit(l, col) ==
    UNION {{(8 * c[1] + bit - l.start) % 64 : bit \in l.ram[c]} :
               c \in {d \in DOMAIN l.ram : d[2] = col}}

(* The tables of specan.h, by the rule they follow: 0xFE long, 0x3E longer,
   0x0E a mark, 0x02 none. *)
Mark(long, longer, short) ==
    IF long THEN "FE" ELSE IF longer THEN "3E" ELSE IF short THEN "0E" ELSE "02"

narrow_ruler[i \in 0..131] == Mark(i % 20 = 6, i % 20 = 16, i % 2 = 0)
wide_ruler[i \in 0..156] == Mark(i % 50 = 16, i % 50 = 41, i % 5 = 1)
ultrawide_ruler[i \in 0..131] == Mark(i % 15 = 6, FALSE, i % 3 = 0)

(* Mutant of Ruler: the wide ruler always starts at its beginning. *)
RulerNoOffset(col) ==
    CASE width = "NARROW"    -> narrow_ruler[col]
      [] width = "ULTRAWIDE" -> ultrawide_ruler[col]
      [] width = "WIDE"      -> wide_ruler[col]

Ruler(col) ==
    CASE width = "NARROW"    -> narrow_ruler[col]
      [] width = "ULTRAWIDE" -> ultrawide_ruler[col]
      [] width = "WIDE"      -> wide_ruler[col + (IF center_freq % 10 # 0 THEN 25 ELSE 0)]

draw_ruler(l) ==
    txData(setCursor(l, 6, 0), NUM_CHANNELS, [col \in 0..(NUM_CHANNELS - 1) |-> Ruler(col)])

(* putchar gives a character five columns and a blank one.  A column of a
   number is told apart by the number only. *)
Number(l, mhz) == txData(l, 18, [i \in 0..17 |-> IF i % 6 = 5 THEN 0 ELSE mhz])
Spaces(l) == txData(l, 12, [i \in 0..11 |-> 0])

LabelAt(l, col, mhz) == Number(setCursor(l, 7, col), mhz)

draw_freq(l) ==
    CASE width = "NARROW" ->
            LabelAt(LabelAt(LabelAt(l, 18, center_freq - 2), 58, center_freq),
                    98, center_freq + 2)
      [] width = "ULTRAWIDE" ->
            Number(Spaces(Number(Spaces(Number(Spaces(
                LabelAt(l, 13, center_freq - 30)), center_freq - 10)),
                center_freq + 10)), center_freq + 30)
      [] width = "WIDE" ->
            LabelAt(LabelAt(LabelAt(l, 8, center_freq - 10), 58, center_freq),
                    108, center_freq + 10)

---------------------------------------------------------------------------

(* A sweep draws what it should: the bar reaches to the scaled level and   *)
(* the dot sits at the scaled maximum, counted from the lower edge of the  *)
(* sixth page, and no other pixel is lit.  The byte arithmetic of plot(),  *)
(* with its wrapping difference and its shifts beyond eight, and the pages *)
(* it goes through do what a drawing of a bar means.                       *)
BarExact ==
    pc = "sweep" /\ InPlan =>
        LET s == Scaled(chan.ss)
            m == Scaled(chan.max)
        IN  {48 - y : y \in Lit(plot(PowerUp, Ch), Ch)} = (1..s \cup {m}) \cap 1..48

(* Channel c is the one nearest to f Hz. *)
Nearest(c, f) ==
    LET off == HzOf(width, center_freq, c) - f
    IN  2 * off \in (-Spacing[width])..Spacing[width]

(* No bar is left over in a column that the plan no longer sweeps. *)
NoStaleBar == drawn => InPlan

(* The long marks of the ruler stand exactly at the channels nearest to    *)
(* the round frequencies: multiples of 10 MHz, of 1 MHz in narrow mode.    *)
RulerTrue(l) ==
    LET unit == IF width = "NARROW" THEN 1000000 ELSE 10000000
        round(c) == ((HzOf(width, center_freq, c) + unit \div 2) \div unit) * unit
    IN  \A c \in 0..(NUM_CHANNELS - 1) : l.ram[<<6, c>>] = "FE" <=> Nearest(c, round(c))

(* The middle of a label is under a mark, at the channel nearest to what   *)
(* it says, and the centre has one unless the labels go round it.          *)
LabelsTrue(l) ==
    LET text == {c \in {7} \X (0..(WIDTH - 1)) : c \in DOMAIN l.ram}
        labels == {l.ram[c] : c \in text} \ {0}
        mid(mhz) ==
            LET cols == {c[2] : c \in {d \in text : l.ram[d] = mhz}}
                first == CHOOSE c \in cols : \A d \in cols : c <= d
                last == CHOOSE c \in cols : \A d \in cols : d <= c
            IN  (first + last) \div 2
    IN  /\ \A mhz \in labels : \E c \in {mid(mhz)} :
            l.ram[<<6, c>>] \in {"FE", "3E"} /\ Nearest(c, mhz * 1000000)
        /\ center_freq \in labels \/ {center_freq - 10, center_freq + 10} \subseteq labels

(* The picture is one of the plan in force, whatever was tuned to before:  *)
(* set_center_freq (specan.c:317-344) redraws the scale, and clears what   *)
(* the columns outside of the plan would show for ever.  After sleep the   *)
(* display is on again.                                                    *)
PictureTrue ==
    /\ NoStaleBar
    /\ pc = "sweep" /\ ~drawn =>
        LET scale == draw_freq(draw_ruler(clear(LCDReset(LCDPowerSave(PowerUp)), 0)))
        IN  /\ RulerTrue(scale) /\ LabelsTrue(scale)
            /\ scale.on /\ ~scale.points /\ scale.reverse = 0 /\ scale.start = 0
=============================================================================
