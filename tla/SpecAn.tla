------------------------------- MODULE SpecAn -------------------------------
(***************************************************************************)
(* The spectrum analyser: apps/speccan/specan.c and the part of display.c  *)
(* it draws with.  One channel per column of the display; the frequency    *)
(* plan says which channels exist, and all of it is recomputed whenever    *)
(* the centre or the bandwidth changes.                                    *)
(*                                                                         *)
(* The table of channels is followed at one channel, Ch, which may be any. *)
(* What getkey finds is in Keyboard, what happens while asleep in System.  *)
(***************************************************************************)
EXTENDS Integers

CONSTANTS
    Ch,             \* the channel followed
    Levels,         \* what RSSI can be measured
    MAX_VSCROLL     \* how far the bars can be scrolled

NUM_CHANNELS == 132
Mid == NUM_CHANNELS \div 2

ASSUME ChAssumption == Ch \in 0..(NUM_CHANNELS - 1)
ASSUME LevelsAssumption == Levels \subseteq 0..255 /\ Levels # {}
ASSUME ScrollAssumption == MAX_VSCROLL \in 0..255

Widths == {"WIDE", "NARROW", "ULTRAWIDE"}
DEFAULT_FREQ == 915
Step    == [WIDE |-> 5,      NARROW |-> 1,     ULTRAWIDE |-> 20]        \* MHz
Margin  == [WIDE |-> 13,     NARROW |-> 3,     ULTRAWIDE |-> 42]        \* MHz
Spacing == [WIDE |-> 199952, NARROW |-> 49988, ULTRAWIDE |-> 666504]    \* Hz

(* A band is named by its number in BAND_300, BAND_400, BAND_900. *)
Bands == {300, 400, 900}
Lowest(b)  == CASE b = 300 -> 281 [] b = 400 -> 378 [] b = 900 -> 749   \* MHz
Highest(b) == CASE b = 300 -> 361 [] b = 400 -> 481 [] b = 900 -> 962   \* MHz
Above(b)   == CASE b = 300 -> 400 [] b = 400 -> 900 [] b = 900 -> 300
Below(b)   == CASE b = 300 -> 900 [] b = 400 -> 300 [] b = 900 -> 400

VARIABLES
    width, band,
    filter,         \* bandwidth of the receiver's filter, Hz
    center_freq, user_freq,     \* MHz: shown, and asked for
    min_chan, max_chan,         \* the channels of the plan: [min_chan, max_chan)
    chan,                       \* chan_table[Ch]
    max_hold, height, vscroll,
    drawn,                      \* column Ch of the display holds a bar
    pc,                         \* where the main loop is
    home, peak                  \* history: the band the last key was pressed
                                \* in, or 0 if that key may change it; what
                                \* Ch's dot should stand for

plan == <<band, center_freq, min_chan, max_chan>>
setting == <<width, filter>>
view == <<height, vscroll>>
vars == <<setting, plan, user_freq, chan, max_hold, view, drawn, pc, home, peak>>

Bytes == 0..255
Filters == {0, 67708, 270833, 812500}
MAX_HZ == 1000000000
MAX_MHZ == 65535

TypeOK ==
    /\ width \in Widths
    /\ band \in Bands
    /\ filter \in Filters
    /\ center_freq \in 0..MAX_MHZ /\ user_freq \in 0..MAX_MHZ
    /\ min_chan \in 0..Mid
    /\ max_chan \in 0..NUM_CHANNELS /\ (pc # "reset" => max_chan >= Mid)
    /\ chan \in [hz : 0..MAX_HZ, lowVCO : BOOLEAN, ss : Bytes, max : Bytes]
    /\ max_hold \in BOOLEAN /\ drawn \in BOOLEAN
    /\ height \in {"SHORT", "TALL"}
    /\ vscroll \in 0..MAX_VSCROLL
    /\ pc \in {"reset", "sweep", "poll", "sleep", "check"}
    /\ home \in Bands \cup {0}
    /\ peak \in Bytes

---------------------------------------------------------------------------
(* The frequency plan *)

UPPER(a, b, c) == ((a - b + (c \div 2)) \div c) * c
LOWER(a, b, c) == ((a + b) \div c) * c

(* The centres that w allows in band b. *)
Top(w, b) == UPPER(Highest(b), Margin[w], Step[w])
Bottom(w, b) == LOWER(Lowest(b), Margin[w], Step[w])

(* To the nearest step, counted from 0. *)
Rounded(w, freq) == ((freq + (Step[w] \div 2)) \div Step[w]) * Step[w]

BandOf(freq) == IF freq > 615 THEN 900 ELSE IF freq > 369 THEN 400 ELSE 300

At(b, freq) == [band |-> b, freq |-> freq]

(* Mutant of Tuned: the analyser stops at the end of a band. *)
TunedNoWrap(w, freq, current) ==
    LET f == Rounded(w, freq)
        b == BandOf(f)
    IN  At(b, IF f > Top(w, b) THEN Top(w, b) ELSE IF f < Bottom(w, b) THEN Bottom(w, b) ELSE f)

(* Where set_center_freq goes when asked for freq in band current.  Out of
   limits it stops at the limit when that is a change of band already, and
   goes on to the next band when not. *)
Tuned(w, freq, current) ==
    LET f == Rounded(w, freq)
        b == BandOf(f)
    IN  CASE f > Top(w, b) /\ b = current    -> At(Above(b), Bottom(w, Above(b)))
          [] f > Top(w, b) /\ b # current    -> At(b, Top(w, b))
          [] f < Bottom(w, b) /\ b = current -> At(Below(b), Top(w, Below(b)))
          [] f < Bottom(w, b) /\ b # current -> At(b, Bottom(w, b))
          [] f \in Bottom(w, b)..Top(w, b)   -> At(b, f)

(* The frequency of channel c in Hz. *)
HzOf(w, freq, c) == freq * 1000000 + (c - Mid) * Spacing[w]

AtMost(a, b) == IF a < b THEN a ELSE b

(* How often the two loops of set_center_freq go round: from hz by steps of
   spacing to the limit of the band, or to the edge of the display. *)
Rounds(from, to, spacing) ==
    IF from <= to THEN AtMost((to - from) \div spacing + 1, Mid) ELSE 0

UpperRounds(w, t) ==
    Rounds(HzOf(w, t.freq, Mid), Highest(t.band) * 1000000, Spacing[w])
LowerRounds(w, t) ==
    Rounds(Lowest(t.band) * 1000000, HzOf(w, t.freq, Mid - 1), Spacing[w])

(* set_radio_freq: the VCO to use depends on the band and the frequency. *)
LowVCO(b, hz) ==
    hz < (CASE b = 300 -> 318000000 [] b = 400 -> 424000000 [] b = 900 -> 848000000)

(* Mutant of Calibrate: the table keeps the VCO setting of another band. *)
CalibrateBefore(w, t, x) ==
    LET hz == HzOf(w, t.freq, Ch)
    IN  [hz |-> hz, lowVCO |-> LowVCO(band, hz), ss |-> x, max |-> 0]

(* calibrate_freq of channel Ch in plan t, where RSSI is x. *)
Calibrate(w, t, x) ==
    LET hz == HzOf(w, t.freq, Ch)
    IN  [hz |-> hz, lowVCO |-> LowVCO(t.band, hz), ss |-> x, max |-> 0]

---------------------------------------------------------------------------
(* set_center_freq, set_width *)

InPlan == Ch \in min_chan..(max_chan - 1)

(* Where set_center_freq(freq) leads from band b, at width w. *)
Replan(w, freq, b) ==
    LET t == Tuned(w, freq, b)
    IN  /\ band' = t.band
        /\ center_freq' = t.freq
        /\ max_chan' = Mid + UpperRounds(w, t)
        /\ min_chan' = Mid - LowerRounds(w, t)
        /\ IF InPlan' THEN \E x \in Levels : chan' = Calibrate(w, t, x)
                      ELSE UNCHANGED chan
        /\ max_hold' = FALSE
        /\ peak' = 0

(* The display is cleared, and the ruler and the labels are drawn. *)
SetCenterFreq(w, freq, b) == Replan(w, freq, b) /\ drawn' = FALSE

(* Mutant of SetFilter: the label of one case is forgotten. *)
SetFilterDefault(w) == IF w = "NARROW" THEN 67708 ELSE 270833

SetFilter(w) ==
    CASE w = "NARROW" -> 67708 [] w = "ULTRAWIDE" -> 812500 [] w = "WIDE" -> 270833

(* Mutant of SetWidth: the analyser stays where the change of width took
   it, as after a change of frequency. *)
SetWidthStay(w) ==
    /\ width' = w
    /\ filter' = SetFilter(w)
    /\ SetCenterFreq(w, center_freq, band)
    /\ user_freq' = center_freq'
    /\ UNCHANGED view

SetWidth(w) ==
    /\ width' = w
    /\ filter' = SetFilter(w)
    /\ SetCenterFreq(w, center_freq, band)
    /\ UNCHANGED <<user_freq, view>>

---------------------------------------------------------------------------
(* main *)

Init ==
    /\ width = "WIDE" /\ band = 300         \* zeroed memory
    /\ filter = 0
    /\ center_freq = 0 /\ user_freq = 0
    /\ min_chan = 0 /\ max_chan = 0
    /\ chan = [hz |-> 0, lowVCO |-> FALSE, ss |-> 0, max |-> 0]
    /\ max_hold = FALSE /\ drawn = FALSE
    /\ height = "SHORT" /\ vscroll = 0
    /\ pc = "reset"
    /\ home = 900 /\ peak = 0

(* From the label reset to the main loop: set_width(WIDE) at 915 MHz, as if
   in the band of 900.  The table of channels keeps what it had. *)
Reset ==
    /\ pc = "reset"
    /\ pc' = "sweep"
    /\ width' = "WIDE" /\ filter' = SetFilter("WIDE")
    /\ SetCenterFreq("WIDE", DEFAULT_FREQ, 900)
    /\ user_freq' = DEFAULT_FREQ
    /\ height' = "SHORT" /\ vscroll' = 0
    /\ home' = 900

AtLeast(a, b) == IF a > b THEN a ELSE b

(* Mutant of Measure: the maximum is not given up when max hold is off. *)
MeasureKeepMax ==
    \E x \in Levels :
        /\ chan' = [chan EXCEPT !.ss = x, !.max = IF max_hold THEN AtLeast(x, @) ELSE @]
        /\ peak' = IF max_hold THEN AtLeast(x, peak) ELSE 0

(* Tune to Ch, plot the last measurement, take the next. *)
Measure ==
    \E x \in Levels :
        /\ chan' = [chan EXCEPT !.ss = x, !.max = IF max_hold THEN AtLeast(x, @) ELSE 0]
        /\ peak' = IF max_hold THEN AtLeast(x, peak) ELSE 0

(* One round over the channels of the plan. *)
Sweep ==
    /\ pc = "sweep"
    /\ pc' = "poll"
    /\ IF InPlan THEN Measure /\ drawn' = TRUE
                 ELSE UNCHANGED <<chan, peak, drawn>>
    /\ UNCHANGED <<setting, plan, user_freq, max_hold, view, home>>

(* poll_keyboard, by what the key is for. *)
KeyWidth ==             \* W, N, U; KMNU: the next one
    /\ \E w \in Widths : SetWidth(w)
    /\ home' = band

VStep == IF height = "TALL" THEN 4 ELSE 16

KeyView ==
    /\ \/ height' \in {"SHORT", "TALL"} /\ UNCHANGED vscroll       \* T, S, KBYE
       \/ vscroll' = AtMost(vscroll + VStep, MAX_VSCROLL) /\ UNCHANGED height  \* ^, Q
       \/ vscroll' = AtLeast(vscroll - VStep, 0) /\ UNCHANGED height   \* KDWN, A
    /\ home' = band
    /\ UNCHANGED <<setting, plan, user_freq, chan, max_hold, drawn, peak>>

(* > and < *)
KeyFreq ==
    /\ user_freq' \in {(user_freq + Step[width]) % (MAX_MHZ + 1), (user_freq - Step[width]) % (MAX_MHZ + 1)}
    /\ home' = 0
    /\ UNCHANGED <<setting, plan, chan, max_hold, view, drawn, peak>>

KeyHold ==          \* M
    /\ max_hold' = ~max_hold
    /\ home' = band
    /\ UNCHANGED <<setting, plan, user_freq, chan, view, drawn, peak>>

NoKey ==
    /\ home' = band
    /\ UNCHANGED <<setting, plan, user_freq, chan, max_hold, view, drawn, peak>>

PollKeyboard ==
    /\ pc = "poll"
    /\ pc' = "check"
    /\ KeyWidth \/ KeyView \/ KeyFreq \/ KeyHold \/ NoKey

(* KPWR: clear the display, sleep(), and start again. *)
KeyPower ==
    /\ pc = "poll"
    /\ pc' = "sleep"
    /\ drawn' = FALSE
    /\ UNCHANGED <<setting, plan, user_freq, chan, max_hold, view, home, peak>>

Wake ==
    /\ pc = "sleep"
    /\ pc' = "reset"
    /\ UNCHANGED <<setting, plan, user_freq, chan, max_hold, view, drawn, home, peak>>

(* The end of the main loop: what was asked for becomes what is shown. *)
Check ==
    /\ pc = "check"
    /\ pc' = "sweep"
    /\ IF user_freq # center_freq
       THEN SetCenterFreq(width, user_freq, band)
       ELSE UNCHANGED <<plan, chan, max_hold, drawn, peak>>
    /\ user_freq' = center_freq'
    /\ UNCHANGED <<setting, view, home>>

Next == Reset \/ Sweep \/ PollKeyboard \/ KeyPower \/ Wake \/ Check

Spec == Init /\ [][Next]_vars

---------------------------------------------------------------------------
(* Properties *)

(* Only > and < change the band.  A change of width may take               *)
(* set_center_freq out of its band, when the wider plan does not fit where *)
(* the narrow one did; the correction at the end of the loop comes back.   *)
BandKept == pc = "sweep" /\ home # 0 => band = home

(* From every centre, < undoes >, over the limits of the bands too: the    *)
(* limits and neighbours of the three bands (specan.c:266-305) agree.      *)
StepBackUndoes ==
    pc = "sweep" =>
        LET up   == Tuned(width, center_freq + Step[width], band)
            back == Tuned(width, up.freq - Step[width], up.band)
        IN  back = At(band, center_freq)

(* Column Ch shows its own frequency: as long as Ch is in the plan its     *)
(* entry of chan_table was calibrated for this centre, width and band, and *)
(* lies in the band.  Nothing of an earlier plan is tuned to.  The filter  *)
(* leaves no gap between two columns; the spacing fits within 80% of it,   *)
(* as specan.c:166 asks, but for ULTRAWIDE, where it is 82%.               *)
OnAir ==
    pc # "reset" /\ InPlan =>
        /\ chan.hz = HzOf(width, center_freq, Ch)
        /\ chan.hz \in (Lowest(band) * 1000000)..(Highest(band) * 1000000)
        /\ chan.lowVCO = LowVCO(band, chan.hz)
        /\ Spacing[width] <= filter
        /\ width # "ULTRAWIDE" => 5 * Spacing[width] <= 4 * filter

(* "The maximum power level received" since max hold was last switched on: *)
(* no maximum of an earlier plan or an earlier activation shows through.   *)
HoldIsFresh == pc # "reset" /\ InPlan /\ max_hold => chan.max = peak
=============================================================================
