---------------------------- MODULE SpecAnProofs ----------------------------
(***************************************************************************)
(* Theorems about the analyser: its plan and its channels (SpecAn), its    *)
(* picture (SpecAnScreen) and its keyboard, which it shares with PinkOS    *)
(* (Keyboard); for every channel, set of levels, range of scrolling and    *)
(* set of keys.                                                            *)
(***************************************************************************)
EXTENDS SpecAnScreen, Keyboard, TLAPS

---------------------------------------------------------------------------
(* The frequency plan *)

(* The tables of specan.h. *)
LEMMA Tables ==
    /\ Step["WIDE"] = 5 /\ Step["NARROW"] = 1 /\ Step["ULTRAWIDE"] = 20
    /\ Margin["WIDE"] = 13 /\ Margin["NARROW"] = 3 /\ Margin["ULTRAWIDE"] = 42
    /\ Spacing["WIDE"] = 199952 /\ Spacing["NARROW"] = 49988 /\ Spacing["ULTRAWIDE"] = 666504
BY DEF Step, Margin, Spacing

LEMMA BandTables ==
    /\ Lowest(300) = 281 /\ Lowest(400) = 378 /\ Lowest(900) = 749
    /\ Highest(300) = 361 /\ Highest(400) = 481 /\ Highest(900) = 962
    /\ Above(300) = 400 /\ Above(400) = 900 /\ Above(900) = 300
    /\ Below(300) = 900 /\ Below(400) = 300 /\ Below(900) = 400
BY DEF Lowest, Highest, Above, Below

(* The centres that fit, by width and band. *)
LEMMA Limits ==
    /\ Bottom("WIDE", 300) = 290 /\ Top("WIDE", 300) = 350
    /\ Bottom("WIDE", 400) = 390 /\ Top("WIDE", 400) = 470
    /\ Bottom("WIDE", 900) = 760 /\ Top("WIDE", 900) = 950
    /\ Bottom("NARROW", 300) = 284 /\ Top("NARROW", 300) = 358
    /\ Bottom("NARROW", 400) = 381 /\ Top("NARROW", 400) = 478
    /\ Bottom("NARROW", 900) = 752 /\ Top("NARROW", 900) = 959
    /\ Bottom("ULTRAWIDE", 300) = 320 /\ Top("ULTRAWIDE", 300) = 320
    /\ Bottom("ULTRAWIDE", 400) = 420 /\ Top("ULTRAWIDE", 400) = 440
    /\ Bottom("ULTRAWIDE", 900) = 780 /\ Top("ULTRAWIDE", 900) = 920
BY Tables, BandTables DEF Bottom, Top, UPPER, LOWER

(* freq may be shown at width w in band b. *)
Centre(w, b, freq) == freq \in Bottom(w, b)..Top(w, b) /\ freq % Step[w] = 0

LEMMA RoundedType ==
    ASSUME NEW w \in Widths, NEW freq \in Int
    PROVE  Rounded(w, freq) \in Int /\ Rounded(w, freq) % Step[w] = 0
<1>1. CASE w = "WIDE"
  BY <1>1, Tables DEF Rounded
<1>2. CASE w = "NARROW"
  BY <1>2, Tables DEF Rounded
<1>3. CASE w = "ULTRAWIDE"
  BY <1>3, Tables DEF Rounded
<1> QED BY <1>1, <1>2, <1>3 DEF Widths

(* Wherever it is asked for, set_center_freq finds a centre that fits. *)
LEMMA TunedFits ==
    ASSUME NEW w \in Widths, NEW b \in Bands, NEW freq \in Int
    PROVE  /\ Tuned(w, freq, b).band \in Bands
           /\ Centre(w, Tuned(w, freq, b).band, Tuned(w, freq, b).freq)
<1> DEFINE f == Rounded(w, freq)
<1>1. f \in Int /\ f % Step[w] = 0
  BY RoundedType
<1>2. CASE w = "WIDE"
  <2> HIDE DEF f
  <2> QED BY <1>1, <1>2, Tables, BandTables, Limits DEF Tuned, At, BandOf, Bands, Centre, f
<1>3. CASE w = "NARROW"
  <2> HIDE DEF f
  <2> QED BY <1>1, <1>3, Tables, BandTables, Limits DEF Tuned, At, BandOf, Bands, Centre, f
<1>4. CASE w = "ULTRAWIDE"
  <2> HIDE DEF f
  <2> QED BY <1>1, <1>4, Tables, BandTables, Limits DEF Tuned, At, BandOf, Bands, Centre, f
<1> QED BY <1>2, <1>3, <1>4 DEF Widths

(* A centre that fits and is asked for stays. *)
LEMMA TunedStays ==
    ASSUME NEW w \in Widths, NEW b \in Bands, NEW freq \in Int, Centre(w, b, freq)
    PROVE  Tuned(w, freq, b) = At(b, freq)
<1>1. CASE w = "WIDE"
  <2>1. Rounded(w, freq) = freq
    BY <1>1, Tables DEF Rounded, Centre
  <2> QED BY <1>1, <2>1, Tables, BandTables, Limits DEF Tuned, At, BandOf, Bands, Centre
<1>2. CASE w = "NARROW"
  <2>1. Rounded(w, freq) = freq
    BY <1>2, Tables DEF Rounded, Centre
  <2> QED BY <1>2, <2>1, Tables, BandTables, Limits DEF Tuned, At, BandOf, Bands, Centre
<1>3. CASE w = "ULTRAWIDE"
  <2>1. Rounded(w, freq) = freq
    BY <1>3, Tables DEF Rounded, Centre
  <2> QED BY <1>3, <2>1, Tables, BandTables, Limits DEF Tuned, At, BandOf, Bands, Centre
<1> QED BY <1>1, <1>2, <1>3 DEF Widths

(* A centre that fits some width, asked for at another: either it is tuned to
   in its own band, or asking again from where it led comes back there. *)
LEMMA BandComesBack ==
    ASSUME NEW v \in Widths, NEW w \in Widths, NEW b \in Bands, NEW freq \in Int,
           Centre(v, b, freq)
    PROVE  LET t == Tuned(w, freq, b)
           IN  IF t.freq = freq THEN t.band = b ELSE Tuned(w, freq, t.band).band = b
<1> DEFINE f == Rounded(w, freq)
<1>1. freq \in Bottom("NARROW", b)..Top("NARROW", b)
  BY Limits DEF Centre, Widths, Bands
<1>2. CASE w = "WIDE"
  <2>1. f \in Int /\ f - 2 <= freq /\ freq <= f + 2
    BY <1>2, Tables DEF Rounded
  <2> HIDE DEF f
  <2> QED BY <1>1, <1>2, <2>1, Tables, BandTables, Limits DEF Tuned, At, BandOf, Bands, f
<1>3. CASE w = "NARROW"
  BY <1>1, <1>3, Tables, BandTables, Limits DEF Tuned, At, BandOf, Bands, Rounded
<1>4. CASE w = "ULTRAWIDE"
  <2>1. f \in Int /\ f - 10 <= freq /\ freq < f + 10
    BY <1>4, Tables DEF Rounded
  <2> HIDE DEF f
  <2> QED BY <1>1, <1>4, <2>1, Tables, BandTables, Limits DEF Tuned, At, BandOf, Bands, f
<1> QED BY <1>2, <1>3, <1>4 DEF Widths

(* The loops of set_center_freq stop at the limit and at the display's edge. *)
LEMMA RoundsFit ==
    ASSUME NEW from \in Int, NEW to \in Int, NEW s \in Nat \ {0}
    PROVE  /\ Rounds(from, to, s) \in 0..Mid
           /\ \A k \in Int : k < Rounds(from, to, s) /\ k >= 0 => from + k * s <= to
<1> DEFINE q == (to - from) \div s
<1>1. Mid = 66
  BY DEF Mid, NUM_CHANNELS
<1>2. q \in Int /\ q * s <= to - from /\ (from <= to => q >= 0)
  BY SMT
<1>3. Rounds(from, to, s) = IF from <= to THEN (IF q + 1 < Mid THEN q + 1 ELSE Mid) ELSE 0
  BY DEF Rounds, AtMost
<1> HIDE DEF q
<1>4. Rounds(from, to, s) \in 0..Mid
  BY <1>1, <1>2, <1>3
<1>5. ASSUME NEW k \in Int, k < Rounds(from, to, s), k >= 0
      PROVE  from + k * s <= to
  <2>1. k <= q
    BY <1>1, <1>2, <1>3, <1>5
  <2>2. k * s <= q * s
    BY <1>2, <2>1, SMT
  <2> QED BY <1>2, <2>2, SMT
<1> QED BY <1>4, <1>5

LEMMA SpacingType ==
    ASSUME NEW w \in Widths
    PROVE  Spacing[w] \in Nat \ {0}
BY Tables, SMT DEF Widths

LEMMA HzOfType ==
    ASSUME NEW w \in Widths, NEW freq \in Int, NEW c \in Int
    PROVE  /\ HzOf(w, freq, c) \in Int
           /\ HzOf(w, freq, c) = HzOf(w, freq, Mid) + (c - Mid) * Spacing[w]
           /\ HzOf(w, freq, Mid) = freq * 1000000
<1>1. Mid \in Int
  BY DEF Mid, NUM_CHANNELS
<1> QED BY <1>1, SpacingType, SMT DEF HzOf

LEMMA CentreFitsWord ==
    ASSUME NEW w \in Widths, NEW b \in Bands, NEW freq \in Int, Centre(w, b, freq)
    PROVE  freq \in 0..MAX_MHZ
<1>1. 281 <= freq /\ freq <= 962
  BY Limits, SMT DEF Centre, Widths, Bands
<1>2. MAX_MHZ = 65535
  BY SMT DEF MAX_MHZ
<1> QED BY <1>1, <1>2, SMT

(* A centre that fits lies in its band. *)
LEMMA CentreInBand ==
    ASSUME NEW w \in Widths, NEW b \in Bands, NEW freq \in Int, Centre(w, b, freq)
    PROVE  /\ Lowest(b) \in Int /\ Highest(b) \in Int
           /\ Lowest(b) * 1000000 \in Int /\ Highest(b) * 1000000 \in Int
           /\ Lowest(b) * 1000000 <= HzOf(w, freq, Mid)
           /\ HzOf(w, freq, Mid) <= Highest(b) * 1000000
<1>1. /\ Lowest(b) \in Int /\ Highest(b) \in Int
      /\ Lowest(b) <= freq /\ freq <= Highest(b)
  BY BandTables, Limits, SMT DEF Centre, Widths, Bands
<1>2. Mid \in Int
  BY DEF Mid, NUM_CHANNELS
<1> QED BY <1>1, <1>2, HzOfType, SMT

(* What an entry of chan_table can be. *)
Entries == [hz : 0..MAX_HZ, lowVCO : BOOLEAN, ss : Bytes, max : Bytes]

(* The frequencies of a band. *)
Spectrum(b) == (Lowest(b) * 1000000)..(Highest(b) * 1000000)

LEMMA SpectrumInHz ==
    ASSUME NEW b \in Bands
    PROVE  Spectrum(b) \subseteq 0..MAX_HZ
<1>1. 281 <= Lowest(b) /\ Highest(b) <= 962 /\ Lowest(b) \in Int /\ Highest(b) \in Int
  BY BandTables DEF Bands
<1>2. MAX_HZ \in Int /\ 962 * 1000000 <= MAX_HZ
  BY SMT DEF MAX_HZ
<1>3. ASSUME NEW hz \in Spectrum(b)
      PROVE  hz \in Int /\ 0 <= hz /\ hz <= MAX_HZ
  BY <1>1, <1>2, SMT DEF Spectrum
<1> QED BY <1>2, <1>3, SMT

(* No channel of the plan lies outside the band or off the display. *)
LEMMA PlanInBand ==
    ASSUME NEW w \in Widths, NEW b \in Bands, NEW freq \in Int, Centre(w, b, freq)
    PROVE  /\ UpperRounds(w, At(b, freq)) \in 0..Mid
           /\ LowerRounds(w, At(b, freq)) \in 0..Mid
           /\ \A c \in (Mid - LowerRounds(w, At(b, freq)))..(Mid + UpperRounds(w, At(b, freq)) - 1) :
                  HzOf(w, freq, c) \in Spectrum(b)
<1> DEFINE lo == Lowest(b) * 1000000
           hi == Highest(b) * 1000000
           mid == HzOf(w, freq, Mid)
           s == Spacing[w]
           up == Rounds(mid, hi, s)
           below == Rounds(lo, mid - s, s)
<1>1. /\ Mid = 66 /\ s \in Nat \ {0}
      /\ lo \in Int /\ hi \in Int /\ mid \in Int /\ lo <= mid /\ mid <= hi
  BY CentreInBand, SpacingType, HzOfType DEF Mid, NUM_CHANNELS
<1>2. HzOf(w, freq, Mid - 1) = mid - s
  BY <1>1, HzOfType, SMT
<1>3. UpperRounds(w, At(b, freq)) = up /\ LowerRounds(w, At(b, freq)) = below
  BY <1>2 DEF UpperRounds, LowerRounds, At
<1>4. \A c \in Int : HzOf(w, freq, c) = mid + (c - Mid) * s
  BY HzOfType
<1> HIDE DEF lo, hi, mid, s
<1>5. /\ up \in 0..Mid
      /\ \A k \in Int : k < up /\ k >= 0 => mid + k * s <= hi
  BY <1>1, RoundsFit
<1>6. /\ below \in 0..Mid
      /\ \A k \in Int : k < below /\ k >= 0 => lo + k * s <= mid - s
  <2>1. mid - s \in Int
    BY <1>1
  <2> QED BY <1>1, <2>1, RoundsFit
<1> HIDE DEF up, below
<1>7. ASSUME NEW c \in (Mid - below)..(Mid + up - 1)
      PROVE  mid + (c - Mid) * s \in lo..hi
  <2>1. CASE c >= Mid
    <3>1. mid + (c - Mid) * s <= hi
      BY <1>1, <1>5, <1>6, <2>1
    <3>2. (c - Mid) * s >= 0 /\ (c - Mid) * s \in Int
      BY <1>1, <2>1, <1>5, <1>6, SMT
    <3> QED BY <1>1, <3>1, <3>2
  <2>2. CASE c < Mid
    <3> DEFINE k == Mid - c - 1
    <3>1. k \in Int /\ k < below /\ k >= 0
      BY <1>1, <1>5, <1>6, <2>2
    <3>2. lo + k * s <= mid - s
      BY <1>6, <3>1
    <3>3. (c - Mid) * s = 0 - k * s - s /\ (c - Mid) * s <= 0 /\ (c - Mid) * s \in Int /\ k * s \in Int
      BY <1>1, <1>5, <1>6, <2>2, SMT
    <3> HIDE DEF k
    <3> QED BY <1>1, <3>2, <3>3
  <2> QED BY <1>1, <1>5, <1>6, <2>1, <2>2
<1>8. \A c \in (Mid - below)..(Mid + up - 1) : HzOf(w, freq, c) \in lo..hi
  BY <1>1, <1>4, <1>5, <1>6, <1>7
<1> QED BY <1>3, <1>5, <1>6, <1>8 DEF lo, hi, Spectrum

---------------------------------------------------------------------------
(* The invariant *)

(* The plan is the one of the centre shown, and that centre fits. *)
Planned ==
    pc # "reset" =>
        /\ Centre(width, band, center_freq)
        /\ max_chan = Mid + UpperRounds(width, At(band, center_freq))
        /\ min_chan = Mid - LowerRounds(width, At(band, center_freq))
        /\ filter = SetFilter(width)

(* So is the entry of Ch, if it is in the plan. *)
Calibrated ==
    pc # "reset" /\ InPlan =>
        /\ chan.hz = HzOf(width, center_freq, Ch)
        /\ chan.lowVCO = LowVCO(band, chan.hz)
        /\ chan.max = peak

(* Between the key and the correction at the end of the loop, what is shown
   is where set_center_freq led from home when asked for user_freq, and
   user_freq is a centre of home at the width before. *)
Asked ==
    /\ pc \in {"sweep", "poll"} => user_freq = center_freq
    /\ pc = "sweep" /\ home # 0 => band = home
    /\ pc = "check" /\ home # 0 =>
        /\ \E v \in Widths : Centre(v, home, user_freq)
        /\ At(band, center_freq) = Tuned(width, user_freq, home)

AnInv == TypeOK /\ Planned /\ Calibrated /\ Asked

LEMMA TunedForm ==
    ASSUME NEW w \in Widths, NEW freq \in Int, NEW b \in Bands
    PROVE  Tuned(w, freq, b) = At(Tuned(w, freq, b).band, Tuned(w, freq, b).freq)
<1> DEFINE f == Rounded(w, freq)
           c == BandOf(f)
<1>1. f \in Int
  BY RoundedType
<1>2. c \in Bands
  BY DEF BandOf, Bands
<1>3. Top(w, c) \in Int /\ Bottom(w, c) \in Int
  BY <1>2, Limits DEF Widths, Bands
<1> HIDE DEF f
<1>4. \E d \in Bands, x \in Int : Tuned(w, freq, b) = At(d, x)
  <2>1. /\ Above(c) \in Bands /\ Below(c) \in Bands
        /\ Bottom(w, Above(c)) \in Int /\ Top(w, Below(c)) \in Int
    BY <1>2, BandTables, Limits DEF Widths, Bands
  <2>2. CASE f > Top(w, c)
    BY <1>1, <1>2, <1>3, <2>1, <2>2, SMT DEF Tuned, f
  <2>3. CASE f < Bottom(w, c) /\ ~(f > Top(w, c))
    BY <1>1, <1>2, <1>3, <2>1, <2>3, SMT DEF Tuned, f
  <2>4. CASE f \in Bottom(w, c)..Top(w, c)
    BY <1>1, <1>2, <1>3, <2>1, <2>4, SMT DEF Tuned, f
  <2> QED BY <1>1, <1>3, <2>2, <2>3, <2>4
<1> QED BY <1>4 DEF At

(* What the two halves of a change of plan have in common. *)
LEMMA ReplanPlans ==
    ASSUME TypeOK, NEW w \in Widths, NEW freq \in Int, NEW b \in Bands, Replan(w, freq, b)
    PROVE  /\ band' \in Bands
           /\ At(band', center_freq') = Tuned(w, freq, b)
           /\ Centre(w, band', center_freq')
           /\ center_freq' \in 0..MAX_MHZ
           /\ max_chan' = Mid + UpperRounds(w, At(band', center_freq'))
           /\ min_chan' = Mid - LowerRounds(w, At(band', center_freq'))
           /\ max_chan' \in Mid..NUM_CHANNELS /\ min_chan' \in 0..Mid
           /\ max_hold' = FALSE /\ peak' = 0
           /\ \A c \in min_chan'..(max_chan' - 1) :
                  HzOf(w, center_freq', c) \in Spectrum(band')
<1> DEFINE t == Tuned(w, freq, b)
<1>1. t.band \in Bands /\ Centre(w, t.band, t.freq)
  BY TunedFits
<1>2. t = At(t.band, t.freq) /\ t.freq \in Int
  BY <1>1, TunedForm DEF Centre
<1>3. /\ band' = t.band /\ center_freq' = t.freq
      /\ max_chan' = Mid + UpperRounds(w, t)
      /\ min_chan' = Mid - LowerRounds(w, t)
      /\ max_hold' = FALSE /\ peak' = 0
  BY DEF Replan
<1> HIDE DEF t
<1>4. At(band', center_freq') = t /\ Centre(w, band', center_freq') /\ center_freq' \in Int
  BY <1>1, <1>2, <1>3
<1>5. /\ max_chan' = Mid + UpperRounds(w, At(band', center_freq'))
      /\ min_chan' = Mid - LowerRounds(w, At(band', center_freq'))
  BY <1>3, <1>4
<1>b. band' \in Bands
  BY <1>1, <1>3
<1>6. /\ UpperRounds(w, At(band', center_freq')) \in 0..Mid
      /\ LowerRounds(w, At(band', center_freq')) \in 0..Mid
      /\ \A c \in min_chan'..(max_chan' - 1) :
             HzOf(w, center_freq', c) \in Spectrum(band')
  <2> DEFINE d == band'
             x == center_freq'
  <2>1. d \in Bands /\ x \in Int /\ Centre(w, d, x)
    BY <1>4, <1>b
  <2>2. /\ UpperRounds(w, At(d, x)) \in 0..Mid
        /\ LowerRounds(w, At(d, x)) \in 0..Mid
        /\ \A c \in (Mid - LowerRounds(w, At(d, x)))..(Mid + UpperRounds(w, At(d, x)) - 1) :
               HzOf(w, x, c) \in Spectrum(d)
    <3> HIDE DEF d, x
    <3> QED BY <2>1, PlanInBand, Zenon
  <2>3. ASSUME NEW c \in min_chan'..(max_chan' - 1)
        PROVE  HzOf(w, x, c) \in Spectrum(d)
    <3> DEFINE up == UpperRounds(w, At(d, x))
               below == LowerRounds(w, At(d, x))
    <3>1. max_chan' = Mid + up /\ min_chan' = Mid - below
      BY <1>5
    <3>2. \A e \in (Mid - below)..(Mid + up - 1) : HzOf(w, x, e) \in Spectrum(d)
      BY <2>2
    <3>3. up \in Int /\ below \in Int /\ Mid = 66
      BY <2>2 DEF Mid, NUM_CHANNELS
    <3> HIDE DEF up, below, d, x
    <3>4. c \in (Mid - below)..(Mid + up - 1)
      BY <3>1, <3>3
    <3> QED BY <3>2, <3>4, Zenon
  <2> QED BY <2>2, <2>3
<1>t. At(band', center_freq') = Tuned(w, freq, b)
  BY <1>4 DEF t
<1>7. max_chan' \in Mid..NUM_CHANNELS /\ min_chan' \in 0..Mid
  BY <1>5, <1>6 DEF Mid, NUM_CHANNELS
<1>8. center_freq' \in 0..MAX_MHZ
  BY <1>4, <1>b, CentreFitsWord, Zenon
<1>9. max_hold' = FALSE /\ peak' = 0
  BY <1>3
<1>10. Centre(w, band', center_freq')
  BY <1>4
<1>11. /\ band' \in Bands
       /\ At(band', center_freq') = Tuned(w, freq, b)
       /\ Centre(w, band', center_freq')
       /\ center_freq' \in 0..MAX_MHZ
  BY <1>8, <1>10, <1>b, <1>t
<1>12. /\ max_chan' = Mid + UpperRounds(w, At(band', center_freq'))
       /\ min_chan' = Mid - LowerRounds(w, At(band', center_freq'))
       /\ max_chan' \in Mid..NUM_CHANNELS /\ min_chan' \in 0..Mid
       /\ max_hold' = FALSE /\ peak' = 0
  BY <1>5, <1>7, <1>9
<1>13. \A c \in min_chan'..(max_chan' - 1) : HzOf(w, center_freq', c) \in Spectrum(band')
  BY <1>6
<1> HIDE DEF t
<1> QED BY <1>11, <1>12, <1>13

(* The entry of Ch is calibrated anew, or Ch is not in the new plan. *)
LEMMA ReplanCalibrates ==
    ASSUME TypeOK, NEW w \in Widths, NEW freq \in Int, NEW b \in Bands, Replan(w, freq, b)
    PROVE  /\ chan' \in Entries
           /\ InPlan' => /\ chan'.hz = HzOf(w, center_freq', Ch)
                         /\ chan'.lowVCO = LowVCO(band', chan'.hz)
                         /\ chan'.max = 0
<1> DEFINE t == Tuned(w, freq, b)
<1>1. t.band \in Bands /\ Centre(w, t.band, t.freq)
  BY TunedFits
<1>3. band' = t.band /\ center_freq' = t.freq
  BY DEF Replan
<1>6. \A c \in min_chan'..(max_chan' - 1) :
          HzOf(w, center_freq', c) \in Spectrum(band')
  BY ReplanPlans
<1> HIDE DEF t
<1>9. ASSUME InPlan'
      PROVE  /\ chan' \in Entries
             /\ InPlan' => /\ chan'.hz = HzOf(w, center_freq', Ch)
                           /\ chan'.lowVCO = LowVCO(band', chan'.hz)
                           /\ chan'.max = 0
  <2>1. PICK x \in Levels : chan' = Calibrate(w, t, x)
    BY <1>9 DEF Replan, t
  <2>2. HzOf(w, center_freq', Ch) \in 0..MAX_HZ
    <3>1. HzOf(w, center_freq', Ch) \in Spectrum(band')
      BY <1>6, <1>9 DEF InPlan
    <3> QED BY <1>1, <1>3, <3>1, SpectrumInHz
  <2>3. /\ chan'.hz = HzOf(w, center_freq', Ch)
        /\ chan'.lowVCO = LowVCO(band', chan'.hz)
        /\ chan'.ss = x /\ chan'.max = 0
        /\ chan' = [hz |-> chan'.hz, lowVCO |-> chan'.lowVCO, ss |-> chan'.ss, max |-> chan'.max]
    BY <1>3, <2>1 DEF Calibrate
  <2>4. LowVCO(band', chan'.hz) \in BOOLEAN
    BY <2>3, SMT DEF LowVCO
  <2>5. x \in Bytes
    BY LevelsAssumption DEF Bytes
  <2>6. chan' \in Entries
    BY <2>2, <2>3, <2>4, <2>5 DEF Entries, Bytes
  <2> QED BY <2>3, <2>6
<1>10. ASSUME ~InPlan'
       PROVE  chan' \in Entries
  <2>1. chan' = chan
    BY <1>10 DEF Replan
  <2>2. chan \in Entries
    BY DEF TypeOK, Entries
  <2> QED BY <2>1, <2>2, Zenon
<1> QED BY <1>9, <1>10

(* After a change of plan the plan is that of the new centre. *)
LEMMA ReplanKeeps ==
    ASSUME TypeOK, NEW w \in Widths, NEW freq \in Int, NEW b \in Bands, Replan(w, freq, b),
           width' = w, filter' = SetFilter(w)
    PROVE  Planned' /\ Calibrated'
<1>1. Planned'
  <2>1. /\ Centre(width', band', center_freq')
        /\ max_chan' = Mid + UpperRounds(width', At(band', center_freq'))
        /\ min_chan' = Mid - LowerRounds(width', At(band', center_freq'))
    BY ReplanPlans, Zenon
  <2> QED BY <2>1, Zenon DEF Planned
<1>2. Calibrated'
  <2>1. InPlan' => /\ chan'.hz = HzOf(width', center_freq', Ch)
                   /\ chan'.lowVCO = LowVCO(band', chan'.hz)
                   /\ chan'.max = 0
    BY ReplanCalibrates, Zenon
  <2>2. peak' = 0
    BY ReplanPlans, Zenon
  <2> QED BY <2>1, <2>2, Zenon DEF Calibrated
<1> QED BY <1>1, <1>2

(* And of the right type. *)
LEMMA ReplanTyped ==
    ASSUME TypeOK, NEW w \in Widths, NEW freq \in Int, NEW b \in Bands, Replan(w, freq, b),
           width' = w, filter' = SetFilter(w), user_freq' \in 0..MAX_MHZ,
           drawn' \in BOOLEAN, height' \in {"SHORT", "TALL"}, vscroll' \in 0..MAX_VSCROLL,
           pc' \in {"sweep", "check"}, home' \in Bands \cup {0}
    PROVE  TypeOK'
<1>1. /\ band' \in Bands /\ center_freq' \in 0..MAX_MHZ
      /\ max_chan' \in Mid..NUM_CHANNELS /\ min_chan' \in 0..Mid
      /\ max_hold' = FALSE /\ peak' = 0
  BY ReplanPlans, Zenon
<1>2. chan' \in [hz : 0..MAX_HZ, lowVCO : BOOLEAN, ss : Bytes, max : Bytes]
  BY ReplanCalibrates, Zenon DEF Entries
<1>3. filter' \in Filters
  BY DEF SetFilter, Widths, Filters
<1>4. max_chan' \in 0..NUM_CHANNELS /\ max_chan' >= Mid /\ peak' \in Bytes
  BY <1>1 DEF Mid, NUM_CHANNELS, Bytes
<1>5. pc' \in {"reset", "sweep", "poll", "sleep", "check"}
  OBVIOUS
<1>6. max_hold' \in BOOLEAN /\ width' \in Widths /\ min_chan' \in 0..Mid
  BY <1>1
<1> QED BY <1>1, <1>2, <1>3, <1>4, <1>5, <1>6 DEF TypeOK

LEMMA StartsAn == Init => AnInv
<1> SUFFICES ASSUME Init PROVE AnInv
  OBVIOUS
<1>1. TypeOK
  <2>1. chan \in [hz : 0..MAX_HZ, lowVCO : BOOLEAN, ss : Bytes, max : Bytes]
    <3>1. MAX_HZ \in Int /\ 0 <= MAX_HZ
      BY SMT DEF MAX_HZ
    <3>2. chan = [hz |-> 0, lowVCO |-> FALSE, ss |-> 0, max |-> 0] /\ 0 \in Bytes
      BY DEF Init, Bytes
    <3> HIDE DEF Init
    <3> QED BY <3>1, <3>2
  <2>2. 0 \in 0..MAX_MHZ
    BY SMT DEF MAX_MHZ
  <2>3. 0 \in 0..MAX_VSCROLL
    BY ScrollAssumption
  <2>4. min_chan \in 0..Mid /\ max_chan \in 0..NUM_CHANNELS /\ peak \in Bytes
    BY DEF Init, Mid, NUM_CHANNELS, Bytes
  <2>5. /\ width \in Widths /\ band \in Bands /\ home \in Bands \cup {0}
        /\ filter \in Filters
    BY DEF Init, Widths, Bands, Filters
  <2>7. /\ center_freq = 0 /\ user_freq = 0 /\ vscroll = 0 /\ height = "SHORT"
        /\ max_hold = FALSE /\ drawn = FALSE /\ pc = "reset"
    BY DEF Init
  <2>8. /\ center_freq \in 0..MAX_MHZ /\ user_freq \in 0..MAX_MHZ
        /\ max_hold \in BOOLEAN /\ drawn \in BOOLEAN
        /\ height \in {"SHORT", "TALL"} /\ vscroll \in 0..MAX_VSCROLL
    <3> HIDE DEF Init
    <3> QED BY <2>2, <2>3, <2>7, Zenon
  <2>6. /\ pc \in {"reset", "sweep", "poll", "sleep", "check"}
        /\ pc # "reset" => max_chan >= Mid
    BY <2>7
  <2> QED BY <2>1, <2>4, <2>5, <2>6, <2>8 DEF TypeOK
<1>2. Planned /\ Calibrated /\ Asked
  BY DEF Init, Planned, Calibrated, Asked
<1> QED BY <1>1, <1>2 DEF AnInv

(* A step that leaves the plan, the width, and the entry of Ch alone. *)
LEMMA Kept ==
    ASSUME Planned, Calibrated, UNCHANGED <<width, filter, plan, chan, peak>>,
           pc' # "reset" => pc # "reset"
    PROVE  Planned' /\ Calibrated'
<1>1. Planned'
  BY DEF Planned, plan
<1>2. Calibrated'
  BY DEF Calibrated, InPlan, plan
<1> QED BY <1>1, <1>2

LEMMA ResetKeeps == AnInv /\ Reset => AnInv'
<1> SUFFICES ASSUME AnInv, Reset PROVE AnInv'
  OBVIOUS
<1> DEFINE f == DEFAULT_FREQ
           b == 900
<1>1. /\ TypeOK /\ Replan("WIDE", f, b) /\ "WIDE" \in Widths /\ b \in Bands
      /\ width' = "WIDE" /\ filter' = SetFilter("WIDE") /\ user_freq' = f
      /\ drawn' = FALSE /\ height' = "SHORT" /\ vscroll' = 0 /\ pc' = "sweep" /\ home' = b
  BY DEF AnInv, Reset, SetCenterFreq, Widths, Bands
<1>2. f \in 0..MAX_MHZ /\ 0 \in 0..MAX_VSCROLL
  <2>1. MAX_MHZ = 65535 /\ f = 915
    BY SMT DEF MAX_MHZ, DEFAULT_FREQ
  <2> HIDE DEF f
  <2> QED BY <2>1, ScrollAssumption
<1>3. Centre("WIDE", b, f) /\ f \in Int
  BY Limits, Tables DEF Centre, DEFAULT_FREQ
<1> HIDE DEF f, b
<1>4. TypeOK'
  <2>1. user_freq' \in 0..MAX_MHZ /\ drawn' \in BOOLEAN /\ home' \in Bands \cup {0}
    BY <1>1, <1>2, Zenon
  <2>2. height' \in {"SHORT", "TALL"} /\ vscroll' \in 0..MAX_VSCROLL /\ pc' \in {"sweep", "check"}
    BY <1>1, <1>2, Zenon
  <2> QED BY <1>1, <1>3, <2>1, <2>2, ReplanTyped, Zenon
<1>5. Planned' /\ Calibrated'
  BY <1>1, <1>3, ReplanKeeps, Zenon
<1>6. At(band', center_freq') = At(b, f)
  <2>1. Tuned("WIDE", f, b) = At(b, f)
    BY <1>1, <1>3, TunedStays, Zenon
  <2>2. At(band', center_freq') = Tuned("WIDE", f, b)
    BY <1>1, <1>3, ReplanPlans, Zenon
  <2> QED BY <2>1, <2>2
<1>7. Asked'
  BY <1>1, <1>6 DEF Asked, At
<1> QED BY <1>4, <1>5, <1>7 DEF AnInv

(* A key that moves neither the plan nor the entry of Ch, at the poll. *)
LEMMA PolledKeeps ==
    ASSUME AnInv, pc = "poll", pc' = "check",
           UNCHANGED <<width, filter, plan, chan, drawn, peak>>,
           max_hold' \in BOOLEAN, user_freq' \in 0..MAX_MHZ,
           height' \in {"SHORT", "TALL"}, vscroll' \in 0..MAX_VSCROLL,
           home' = 0 \/ (home' = band /\ user_freq' = user_freq)
    PROVE  AnInv'
<1>1. TypeOK'
  BY DEF AnInv, TypeOK, plan
<1>2. Planned' /\ Calibrated'
  BY Kept DEF AnInv
<1>3. Asked'
  <2>1. CASE home' = 0
    BY <2>1 DEF Asked
  <2>2. CASE home' = band /\ user_freq' = user_freq
    <3>1. /\ width \in Widths /\ band \in Bands /\ user_freq = center_freq
          /\ Centre(width, band, center_freq) /\ center_freq \in Int
      BY DEF AnInv, TypeOK, Planned, Asked, Centre
    <3>2. At(band, center_freq) = Tuned(width, center_freq, band)
      BY <3>1, TunedStays, Zenon
    <3>3. /\ width' = width /\ band' = band /\ center_freq' = center_freq
          /\ user_freq' = center_freq /\ home' = band
      BY <2>2, <3>1 DEF plan
    <3>4. /\ Centre(width, home', user_freq')
          /\ At(band', center_freq') = Tuned(width', user_freq', home')
      BY <3>1, <3>2, <3>3, Zenon
    <3> QED BY <3>1, <3>4, Zenon DEF Asked
  <2> QED BY <2>1, <2>2
<1> QED BY <1>1, <1>2, <1>3 DEF AnInv

LEMMA SweepKeeps == AnInv /\ Sweep => AnInv'
<1> SUFFICES ASSUME AnInv, Sweep PROVE AnInv'
  OBVIOUS
<1>0. /\ pc = "sweep" /\ pc' = "poll" /\ UNCHANGED <<width, filter, plan, user_freq, max_hold, height, vscroll, home>>
      /\ user_freq = center_freq /\ TypeOK /\ Planned /\ Calibrated
  BY DEF Sweep, AnInv, Asked, setting, view
<1>3. Asked'
  BY <1>0 DEF Asked, plan
<1>4. CASE ~InPlan
  <2>1. UNCHANGED <<chan, peak, drawn>>
    BY <1>4 DEF Sweep
  <2>2. Planned' /\ Calibrated'
    BY <1>0, <2>1, Kept
  <2>3. TypeOK'
    BY <1>0, <2>1 DEF TypeOK, plan
  <2> QED BY <1>3, <2>2, <2>3 DEF AnInv
<1>5. CASE InPlan
  <2>1. PICK x \in Levels :
          /\ chan' = [chan EXCEPT !.ss = x, !.max = IF max_hold THEN AtLeast(x, @) ELSE 0]
          /\ peak' = IF max_hold THEN AtLeast(x, peak) ELSE 0
    BY <1>5 DEF Sweep, Measure
  <2>2. chan \in Entries /\ peak \in Bytes /\ max_hold \in BOOLEAN
    BY <1>0 DEF TypeOK, Entries
  <2>3. x \in Bytes
    BY LevelsAssumption DEF Bytes
  <2>4. chan' = [hz |-> chan.hz, lowVCO |-> chan.lowVCO, ss |-> x,
                 max |-> IF max_hold THEN AtLeast(x, chan.max) ELSE 0]
    BY <2>1, <2>2 DEF Entries
  <2>5. chan.hz \in 0..MAX_HZ /\ chan.lowVCO \in BOOLEAN /\ chan.max \in Bytes
    BY <2>2 DEF Entries
  <2>6. AtLeast(x, chan.max) \in Bytes /\ AtLeast(x, peak) \in Bytes /\ 0 \in Bytes
    BY <2>2, <2>3, <2>5 DEF AtLeast, Bytes
  <2>7. chan' \in Entries /\ peak' \in Bytes /\ drawn' = TRUE
    BY <1>5, <2>1, <2>2, <2>3, <2>4, <2>5, <2>6 DEF Entries, Sweep
  <2>8. chan'.hz = chan.hz /\ chan'.lowVCO = chan.lowVCO /\ chan'.max = peak'
    <3>1. chan.max = peak
      BY <1>0, <1>5 DEF Calibrated
    <3> QED BY <2>1, <2>4, <3>1
  <2>9. TypeOK'
    BY <1>0, <2>7 DEF TypeOK, Entries, plan
  <2>10. Planned'
    BY <1>0 DEF Planned, plan
  <2>11. Calibrated'
    BY <1>0, <1>5, <2>8 DEF Calibrated, plan
  <2> QED BY <1>3, <2>9, <2>10, <2>11 DEF AnInv
<1> QED BY <1>4, <1>5

(* W, N, U: the plan is made anew for the new width, from the old centre. *)
LEMMA WidthKeeps ==
    ASSUME AnInv, pc = "poll", pc' = "check", NEW w \in Widths, SetWidth(w), home' = band
    PROVE  AnInv'
<1>1. /\ TypeOK /\ width \in Widths /\ band \in Bands /\ user_freq = center_freq
      /\ Centre(width, band, center_freq) /\ center_freq \in Int
      /\ user_freq \in 0..MAX_MHZ
      /\ height \in {"SHORT", "TALL"} /\ vscroll \in 0..MAX_VSCROLL
  BY DEF AnInv, TypeOK, Planned, Asked, Centre
<1>2. /\ Replan(w, center_freq, band) /\ width' = w /\ filter' = SetFilter(w)
      /\ user_freq' = user_freq /\ height' = height /\ vscroll' = vscroll /\ drawn' = FALSE
  BY DEF SetWidth, SetCenterFreq, view
<1>3. TypeOK'
  <2>1. /\ user_freq' \in 0..MAX_MHZ /\ drawn' \in BOOLEAN /\ height' \in {"SHORT", "TALL"}
        /\ vscroll' \in 0..MAX_VSCROLL /\ pc' \in {"sweep", "check"} /\ home' \in Bands \cup {0}
    BY <1>1, <1>2, Zenon
  <2> QED BY <1>1, <1>2, <2>1, ReplanTyped, Zenon
<1>4. Planned' /\ Calibrated'
  BY <1>1, <1>2, ReplanKeeps, Zenon
<1>5. At(band', center_freq') = Tuned(w, center_freq, band)
  BY <1>1, <1>2, ReplanPlans, Zenon
<1>6. /\ Centre(width, home', user_freq')
      /\ At(band', center_freq') = Tuned(width', user_freq', home')
  BY <1>1, <1>2, <1>5, Zenon
<1>7. Asked'
  BY <1>1, <1>6, Zenon DEF Asked
<1> QED BY <1>3, <1>4, <1>7 DEF AnInv

LEMMA PollKeeps == AnInv /\ PollKeyboard => AnInv'
<1> SUFFICES ASSUME AnInv, PollKeyboard PROVE AnInv'
  OBVIOUS
<1>1. pc = "poll" /\ pc' = "check"
  BY DEF PollKeyboard
<1>2. /\ max_hold \in BOOLEAN /\ user_freq \in 0..MAX_MHZ
      /\ height \in {"SHORT", "TALL"} /\ vscroll \in 0..MAX_VSCROLL /\ width \in Widths
  BY DEF AnInv, TypeOK
<1>3. CASE KeyWidth
  BY <1>1, <1>3, WidthKeeps DEF KeyWidth
<1>4. CASE KeyView
  <2>1. vscroll' \in 0..MAX_VSCROLL /\ height' \in {"SHORT", "TALL"}
    BY <1>2, <1>4, ScrollAssumption DEF KeyView, VStep, AtMost, AtLeast
  <2> QED BY <1>1, <1>2, <1>4, <2>1, PolledKeeps DEF KeyView, setting
<1>5. CASE KeyFreq
  <2>1. user_freq' \in 0..MAX_MHZ
    <3>1. MAX_MHZ \in Nat
      BY SMT DEF MAX_MHZ
    <3>2. Step[width] \in Int
      BY <1>2, Tables DEF Widths
    <3> QED BY <1>2, <1>5, <3>1, <3>2 DEF KeyFreq
  <2> QED BY <1>1, <1>2, <1>5, <2>1, PolledKeeps DEF KeyFreq, setting, view
<1>6. CASE KeyHold
  <2>1. max_hold' \in BOOLEAN
    BY <1>2, <1>6 DEF KeyHold
  <2> QED BY <1>1, <1>2, <1>6, <2>1, PolledKeeps DEF KeyHold, setting, view
<1>7. CASE NoKey
  BY <1>1, <1>2, <1>7, PolledKeeps DEF NoKey, setting, view
<1> QED BY <1>3, <1>4, <1>5, <1>6, <1>7 DEF PollKeyboard

LEMMA PowerKeeps == AnInv /\ (KeyPower \/ Wake) => AnInv'
<1> SUFFICES ASSUME AnInv, KeyPower \/ Wake PROVE AnInv'
  OBVIOUS
<1>1. /\ UNCHANGED <<width, filter, plan, user_freq, chan, max_hold, height, vscroll, home, peak>>
      /\ drawn' \in BOOLEAN
      /\ \/ pc = "poll" /\ pc' = "sleep"
         \/ pc = "sleep" /\ pc' = "reset"
  BY DEF KeyPower, Wake, setting, view, AnInv, TypeOK
<1>2. TypeOK'
  BY <1>1 DEF AnInv, TypeOK, plan
<1>3. Planned' /\ Calibrated'
  BY <1>1, Kept DEF AnInv
<1>4. Asked'
  BY <1>1 DEF Asked
<1> QED BY <1>2, <1>3, <1>4 DEF AnInv

LEMMA CheckKeeps == AnInv /\ Check => AnInv'
<1> SUFFICES ASSUME AnInv, Check PROVE AnInv'
  OBVIOUS
<1>0. /\ pc = "check" /\ pc' = "sweep" /\ user_freq' = center_freq'
      /\ UNCHANGED <<width, filter, height, vscroll, home>>
      /\ TypeOK /\ Planned /\ Calibrated
  BY DEF Check, AnInv, setting, view
<1>1. /\ width \in Widths /\ band \in Bands /\ user_freq \in 0..MAX_MHZ /\ user_freq \in Int
      /\ center_freq \in 0..MAX_MHZ /\ center_freq \in Int
      /\ height \in {"SHORT", "TALL"} /\ vscroll \in 0..MAX_VSCROLL
      /\ home \in Bands \cup {0} /\ filter = SetFilter(width)
  BY <1>0 DEF TypeOK, Planned
<1>2. ASSUME home # 0
      PROVE  IF user_freq = center_freq THEN band = home ELSE Tuned(width, user_freq, band).band = home
  <2>1. PICK v \in Widths : Centre(v, home, user_freq)
    BY <1>0, <1>2 DEF AnInv, Asked
  <2>2. At(band, center_freq) = Tuned(width, user_freq, home)
    BY <1>0, <1>2 DEF AnInv, Asked
  <2>3. home \in Bands
    BY <1>1, <1>2
  <2>4. Tuned(width, user_freq, home).band = band /\ Tuned(width, user_freq, home).freq = center_freq
    BY <2>2 DEF At
  <2> QED BY <1>1, <2>1, <2>3, <2>4, BandComesBack
<1>3. CASE user_freq = center_freq
  <2>1. UNCHANGED <<plan, chan, max_hold, drawn, peak>>
    BY <1>3 DEF Check
  <2>2. TypeOK'
    BY <1>0, <1>1, <1>3, <2>1 DEF TypeOK, plan
  <2>3. Planned' /\ Calibrated'
    BY <1>0, <2>1, Kept
  <2>4. Asked'
    BY <1>0, <1>2, <1>3, <2>1 DEF Asked, plan
  <2> QED BY <2>2, <2>3, <2>4 DEF AnInv
<1>4. CASE user_freq # center_freq
  <2>1. Replan(width, user_freq, band) /\ drawn' = FALSE
    BY <1>4 DEF Check, SetCenterFreq
  <2>2. center_freq' \in 0..MAX_MHZ /\ At(band', center_freq') = Tuned(width, user_freq, band)
    BY <1>0, <1>1, <2>1, ReplanPlans, Zenon
  <2>3. TypeOK'
    <3>1. /\ user_freq' \in 0..MAX_MHZ /\ drawn' \in BOOLEAN /\ height' \in {"SHORT", "TALL"}
          /\ vscroll' \in 0..MAX_VSCROLL /\ pc' \in {"sweep", "check"} /\ home' \in Bands \cup {0}
          /\ width' = width /\ filter' = SetFilter(width)
      BY <1>0, <1>1, <2>1, <2>2, Zenon
    <3> QED BY <1>0, <1>1, <2>1, <3>1, ReplanTyped, Zenon
  <2>4. Planned' /\ Calibrated'
    <3>1. width' = width /\ filter' = SetFilter(width)
      BY <1>0, <1>1, Zenon
    <3> QED BY <1>0, <1>1, <2>1, <3>1, ReplanKeeps, Zenon
  <2>5. Asked'
    <3>1. home # 0 => band' = home
      <4>1. Tuned(width, user_freq, band).band = band'
        BY <2>2 DEF At
      <4> QED BY <1>2, <1>4, <4>1, Zenon
    <3> QED BY <1>0, <3>1 DEF Asked
  <2> QED BY <2>3, <2>4, <2>5 DEF AnInv
<1> QED BY <1>3, <1>4

LEMMA AnStep == AnInv /\ [Next]_vars => AnInv'
<1> SUFFICES ASSUME AnInv, [Next]_vars PROVE AnInv'
  OBVIOUS
<1>1. CASE UNCHANGED vars
  <2>1. UNCHANGED <<width, band, filter, center_freq, user_freq, min_chan, max_chan, chan,
                    max_hold, height, vscroll, drawn, pc, home, peak>>
    BY <1>1 DEF vars, setting, plan, view
  <2>2. TypeOK'
    BY <2>1 DEF AnInv, TypeOK
  <2>3. Planned' /\ Calibrated'
    BY <2>1, Kept DEF AnInv, plan
  <2>4. Asked'
    BY <2>1 DEF AnInv, Asked
  <2> QED BY <2>2, <2>3, <2>4 DEF AnInv
<1>2. CASE Next
  BY <1>2, ResetKeeps, SweepKeeps, PollKeeps, PowerKeeps, CheckKeeps DEF Next
<1> QED BY <1>1, <1>2

THEOREM AnInvariant == Spec => []AnInv
<1> QED BY StartsAn, AnStep, PTL DEF Spec

---------------------------------------------------------------------------
(* What follows *)

(* The state of the analyser keeps its types: the plan never leaves the    *)
(* display, so that the loops over [min_chan, max_chan) stay in chan_table *)
(* (specan.c:468-486), whatever the band, the width and the centre.        *)
THEOREM AnTyped == Spec => []TypeOK
<1>1. AnInv => TypeOK
  BY DEF AnInv
<1> QED BY AnInvariant, <1>1, PTL

(* A change of width ends in the band it began in, though the first        *)
(* set_center_freq may leave it (specan.c:266-305).                        *)
THEOREM WidthKeepsBand == Spec => []BandKept
<1>1. AnInv => BandKept
  BY DEF AnInv, Asked, BandKept
<1> QED BY AnInvariant, <1>1, PTL

(* The limits of the bands agree: one step up and one down lead back. *)
LEMMA UpAndDown ==
    ASSUME NEW w \in Widths, NEW b \in Bands, NEW freq \in Int, Centre(w, b, freq)
    PROVE  LET up == Tuned(w, freq + Step[w], b)
           IN  Tuned(w, up.freq - Step[w], up.band) = At(b, freq)
<1> DEFINE up == Tuned(w, freq + Step[w], b)
<1>1. CASE freq + Step[w] <= Top(w, b)
  <2>1. Centre(w, b, freq + Step[w])
    BY <1>1, Tables, Limits, SMT DEF Centre, Widths, Bands
  <2>2. up = At(b, freq + Step[w])
    BY <2>1, Tables, TunedStays DEF Widths
  <2>3. up.freq - Step[w] = freq /\ up.band = b
    BY <2>2, Tables DEF At, Widths
  <2> QED BY <2>3, TunedStays
<1>2. CASE freq + Step[w] > Top(w, b)
  <2>1. freq = Top(w, b)
    BY <1>2, Tables, Limits, SMT DEF Centre, Widths, Bands
  <2>2. Rounded(w, freq + Step[w]) = freq + Step[w]
    <3>1. CASE w = "WIDE"
      BY <3>1, Tables, SMT DEF Rounded, Centre
    <3>2. CASE w = "NARROW"
      BY <3>2, Tables, SMT DEF Rounded, Centre
    <3>3. CASE w = "ULTRAWIDE"
      BY <3>3, Tables, SMT DEF Rounded, Centre
    <3> QED BY <3>1, <3>2, <3>3 DEF Widths
  <2>3. BandOf(freq + Step[w]) = b
    BY <2>1, Tables, Limits, SMT DEF BandOf, Widths, Bands
  <2>4. up = At(Above(b), Bottom(w, Above(b)))
    <3> DEFINE f == freq + Step[w]
    <3>1. f \in Int /\ Top(w, b) \in Int /\ Bottom(w, b) \in Int /\ f > Top(w, b)
      BY <1>2, Tables, Limits, SMT DEF Widths, Bands
    <3>2. Rounded(w, f) = f /\ BandOf(f) = b
      BY <2>2, <2>3
    <3> HIDE DEF f
    <3>3. Tuned(w, f, b) = At(Above(b), Bottom(w, Above(b)))
      <4>1. Bottom(w, b) <= Top(w, b)
        BY Tables, Limits, SMT DEF Widths, Bands
      <4> QED BY <3>1, <3>2, <4>1 DEF Tuned
    <3> QED BY <3>3 DEF f
  <2> DEFINE c == Above(b)
             d == Bottom(w, c) - Step[w]
  <2>5. /\ c \in Bands /\ Below(c) = b /\ d \in Int /\ d < Bottom(w, c) /\ d <= Top(w, c)
        /\ Rounded(w, d) = d /\ BandOf(d) = c
    <3>1. CASE w = "WIDE"
      BY <3>1, Tables, BandTables, Limits, SMT DEF Rounded, BandOf, Bands
    <3>2. CASE w = "NARROW"
      BY <3>2, Tables, BandTables, Limits, SMT DEF Rounded, BandOf, Bands
    <3>3. CASE w = "ULTRAWIDE"
      BY <3>3, Tables, BandTables, Limits, SMT DEF Rounded, BandOf, Bands
    <3> QED BY <3>1, <3>2, <3>3 DEF Widths
  <2>6. up.freq - Step[w] = d /\ up.band = c
    BY <2>4 DEF At
  <2>7. Tuned(w, d, c) = At(Below(c), Top(w, Below(c)))
    <3>1. Top(w, c) \in Int /\ Bottom(w, c) \in Int
      BY <2>5, Limits DEF Widths, Bands
    <3> HIDE DEF c, d, up
    <3> QED BY <2>5, <3>1 DEF Tuned
  <2> QED BY <2>1, <2>5, <2>6, <2>7
<1> QED BY <1>1, <1>2, Tables, Limits, SMT DEF Centre, Widths, Bands

(* From every centre, < undoes >, over the limits of the bands too. *)
THEOREM UpThenDown == Spec => []StepBackUndoes
<1>1. AnInv => StepBackUndoes
  <2> SUFFICES ASSUME AnInv, pc = "sweep"
               PROVE  LET up == Tuned(width, center_freq + Step[width], band)
                      IN  Tuned(width, up.freq - Step[width], up.band) = At(band, center_freq)
    BY DEF StepBackUndoes
  <2>1. width \in Widths /\ band \in Bands /\ center_freq \in Int /\ Centre(width, band, center_freq)
    BY DEF AnInv, TypeOK, Planned, Centre
  <2> QED BY <2>1, UpAndDown
<1> QED BY AnInvariant, <1>1, PTL

(* A channel of the plan is tuned to its own frequency, inside the band,   *)
(* with the VCO of the band, and no signal falls between its filter and    *)
(* the next channel's: set_center_freq leaves nothing of an earlier plan   *)
(* in chan_table (specan.c:325-341).  The 80% of specan.c:166 hold for the *)
(* widths WIDE and NARROW.                                                 *)
THEOREM ChannelsOnAir == Spec => []OnAir
<1>1. AnInv => OnAir
  <2> SUFFICES ASSUME AnInv, pc # "reset", InPlan
               PROVE  /\ chan.hz = HzOf(width, center_freq, Ch)
                      /\ chan.hz \in (Lowest(band) * 1000000)..(Highest(band) * 1000000)
                      /\ chan.lowVCO = LowVCO(band, chan.hz)
                      /\ Spacing[width] <= filter
                      /\ width # "ULTRAWIDE" => 5 * Spacing[width] <= 4 * filter
    BY DEF OnAir
  <2>1. /\ width \in Widths /\ band \in Bands /\ center_freq \in Int
        /\ Centre(width, band, center_freq) /\ filter = SetFilter(width)
        /\ max_chan = Mid + UpperRounds(width, At(band, center_freq))
        /\ min_chan = Mid - LowerRounds(width, At(band, center_freq))
        /\ chan.hz = HzOf(width, center_freq, Ch) /\ chan.lowVCO = LowVCO(band, chan.hz)
    BY DEF AnInv, TypeOK, Planned, Calibrated, Centre
  <2>2. HzOf(width, center_freq, Ch) \in Spectrum(band)
    <3> DEFINE up == UpperRounds(width, At(band, center_freq))
               below == LowerRounds(width, At(band, center_freq))
    <3>1. /\ up \in Int /\ below \in Int /\ Mid = 66
          /\ \A c \in (Mid - below)..(Mid + up - 1) : HzOf(width, center_freq, c) \in Spectrum(band)
      BY <2>1, PlanInBand DEF Mid, NUM_CHANNELS
    <3>2. max_chan = Mid + up /\ min_chan = Mid - below
      BY <2>1
    <3> HIDE DEF up, below
    <3>3. Ch \in (Mid - below)..(Mid + up - 1)
      BY <3>1, <3>2 DEF InPlan
    <3> QED BY <3>1, <3>3, Zenon
  <2>3. /\ Spacing[width] <= filter
        /\ width # "ULTRAWIDE" => 5 * Spacing[width] <= 4 * filter
    BY <2>1, Tables, SMT DEF SetFilter, Widths
  <2>4. chan.hz \in Spectrum(band)
    BY <2>1, <2>2, Zenon
  <2> HIDE DEF LowVCO
  <2>5. chan.hz \in (Lowest(band) * 1000000)..(Highest(band) * 1000000)
    BY <2>4, SMT DEF Spectrum
  <2> QED BY <2>1, <2>3, <2>5, SMT
<1> QED BY AnInvariant, <1>1, PTL

(* No maximum of an earlier plan or of an earlier max hold shows through   *)
(* (specan.c:480-483).                                                     *)
THEOREM MaximaAreFresh == Spec => []HoldIsFresh
<1>1. AnInv => HoldIsFresh
  BY DEF AnInv, Calibrated, HoldIsFresh
<1> QED BY AnInvariant, <1>1, PTL
---------------------------------------------------------------------------
(* The picture *)

(* The controller with its usual settings, but for the place of the next   *)
(* byte and what was written.  SMT is better at records without a Boolean  *)
(* constant.                                                               *)
Off == FALSE
On == TRUE

Panel(on, page, col, ram) ==
    [page |-> page, col |-> col, start |-> 0, reverse |-> 0,
     on |-> on, points |-> Off, value |-> Off, ram |-> ram]

(* Column c with its lower half replaced. *)
LowerHalf(c, ch) == 16 * (c \div 16) + ch

(* Three of the commands of the controller: the column in two halves, and *)
(* the page.                                                               *)
LEMMA LowColumn ==
    ASSUME NEW on, NEW p \in Int, NEW c \in Int, NEW ram, NEW ch \in 0..15
    PROVE  txCtl(Panel(on, p, c, ram), ch) = Panel(on, p, LowerHalf(c, ch), ram)
<1> DEFINE l == Panel(on, p, c, ram)
           v == LowerHalf(c, ch)
<1>1. l.value = FALSE /\ l.col = c
  BY DEF Panel, Off
<1>2. v \in Int
  BY SMT DEF LowerHalf
<1>3. [l EXCEPT !.col = v] = Panel(on, p, v, ram)
  <2> HIDE DEF v
  <2> QED BY <1>2 DEF Panel
<1> HIDE DEF l
<1>4. txCtl(l, ch) = [l EXCEPT !.col = 16 * (@ \div 16) + ch]
  BY <1>1 DEF txCtl
<1> QED BY <1>1, <1>3, <1>4 DEF l, LowerHalf

(* The second of the two commands that set the column. *)
LEMMA HighColumn ==
    ASSUME NEW on, NEW p \in Int, NEW c \in Int, NEW ram, NEW ch \in 16..31
    PROVE  txCtl(Panel(on, p, c, ram), ch) = Panel(on, p, 16 * (ch - 16) + (c % 16), ram)
<1> DEFINE l == Panel(on, p, c, ram)
           v == 16 * (ch - 16) + (c % 16)
<1>1. l.value = FALSE /\ l.col = c
  BY DEF Panel, Off
<1>2. v \in Int
  BY SMT
<1>3. [l EXCEPT !.col = v] = Panel(on, p, v, ram)
  <2> HIDE DEF v
  <2> QED BY <1>2 DEF Panel
<1> HIDE DEF l
<1>4. txCtl(l, ch) = [l EXCEPT !.col = 16 * (ch - 16) + (@ % 16)]
  BY <1>1 DEF txCtl
<1> QED BY <1>1, <1>3, <1>4 DEF l

(* The command that sets the page. *)
LEMMA PageCommand ==
    ASSUME NEW on, NEW p \in Int, NEW c \in Int, NEW ram, NEW ch \in 176..191
    PROVE  txCtl(Panel(on, p, c, ram), ch) = Panel(on, ch - 176, c, ram)
<1> DEFINE l == Panel(on, p, c, ram)
           v == ch - 176
<1>1. l.value = FALSE /\ l.col = c
  BY DEF Panel, Off
<1>2. v \in Int
  BY SMT
<1>3. [l EXCEPT !.page = v] = Panel(on, v, c, ram)
  <2> HIDE DEF v
  <2> QED BY <1>2 DEF Panel
<1> HIDE DEF l
<1>4. txCtl(l, ch) = [l EXCEPT !.page = ch - 176]
  BY <1>1 DEF txCtl
<1> QED BY <1>1, <1>3, <1>4 DEF l

(* The cursor goes where it is sent, wherever it was. *)
LEMMA CursorIsSet ==
    ASSUME NEW on, NEW p \in 0..15, NEW c \in 0..255,
           NEW ram, NEW page \in 0..7, NEW col \in 0..(WIDTH - 1)
    PROVE  setCursor(Panel(on, p, c, ram), page, col) = Panel(on, page, col, ram)
<1> DEFINE low == col % 16
           high == (col \div 16) % 16
           half == LowerHalf(c, low)
           atRow == Panel(on, page, c, ram)
           atLow == Panel(on, page, half, ram)
<1>1. /\ (176 + page) % 256 = 176 + page /\ 176 + page \in 176..191
      /\ low \in 0..15 /\ high \in 0..8 /\ 16 + high \in 16..31 /\ 16 * high + low = col
  BY SMT DEF WIDTH
<1>2. txCtl(Panel(on, p, c, ram), 176 + page) = atRow
  <2> DEFINE ch == 176 + page
  <2>1. p \in Int /\ c \in Int /\ ch \in 176..191 /\ ch - 176 = page
    OBVIOUS
  <2> HIDE DEF ch
  <2>2. txCtl(Panel(on, p, c, ram), ch) = Panel(on, ch - 176, c, ram)
    BY <2>1, PageCommand
  <2> QED BY <2>1, <2>2 DEF ch
<1>0. half \in Int /\ half % 16 = low
  BY <1>1, SMT DEF LowerHalf
<1>3. txCtl(atRow, low) = atLow
  <2>1. page \in Int /\ c \in Int /\ low \in 0..15
    BY <1>1
  <2> HIDE DEF low
  <2> QED BY <2>1, LowColumn
<1>4. txCtl(atLow, 16 + high) = Panel(on, page, col, ram)
  <2> DEFINE d == half
  <2>1. d \in Int /\ d % 16 = low
    BY <1>0
  <2>2. 16 * ((16 + high) - 16) + low = col
    BY <1>1, SMT
  <2>3. page \in Int /\ 16 + high \in 16..31
    BY <1>1
  <2> HIDE DEF d, low, high
  <2>4. txCtl(Panel(on, page, d, ram), 16 + high) = Panel(on, page, 16 * ((16 + high) - 16) + (d % 16), ram)
    <3> DEFINE ch == 16 + high
    <3>1. ch \in 16..31
      BY <2>3
    <3> HIDE DEF ch
    <3>2. txCtl(Panel(on, page, d, ram), ch) = Panel(on, page, 16 * (ch - 16) + (d % 16), ram)
      BY <2>1, <2>3, <3>1, HighColumn
    <3> QED BY <3>2 DEF ch
  <2> QED BY <2>1, <2>2, <2>4 DEF d
<1> HIDE DEF low, high, half, atRow, atLow
<1>5. setCursor(Panel(on, p, c, ram), page, col)
      = txCtl(txCtl(txCtl(Panel(on, p, c, ram), 176 + page), low), 16 + high)
  BY <1>1 DEF setCursor, low, high
<1> QED BY <1>2, <1>3, <1>4, <1>5

(* plot() after n rounds: the n lowest of its six pages have their byte. *)
Stage(col, s, m, n) ==
    Panel(Off, IF n = 0 THEN 0 ELSE 6 - n, IF n = 0 THEN 0 ELSE col + 1,
          [c \in ((6 - n)..5) \X {col} |-> Pixels(s, m, 5 - c[1])])

(* A round of plot(). *)
Round(l, col, s, m, n) ==
    txData(setCursor(l, 5 - (n - 1), col), 1, [i \in {0} |-> Pixels(s, m, n - 1)])

(* One round of the loop of plot leads from each stage to the next. *)
LEMMA RoundIs ==
    ASSUME NEW col \in 0..(WIDTH - 1), NEW s \in Nat, NEW m \in Nat, NEW n \in 1..6
    PROVE  Round(Stage(col, s, m, n - 1), col, s, m, n) = Stage(col, s, m, n)
<1> DEFINE before == [c \in ((6 - (n - 1))..5) \X {col} |-> Pixels(s, m, 5 - c[1])]
           after == [c \in ((6 - n)..5) \X {col} |-> Pixels(s, m, 5 - c[1])]
           byte == [i \in {0} |-> Pixels(s, m, n - 1)]
           at == Panel(Off, 6 - n, col, before)
           here == {<<6 - n, col>>}
<1>1. setCursor(Stage(col, s, m, n - 1), 5 - (n - 1), col) = at
  <2> DEFINE p == IF n - 1 = 0 THEN 0 ELSE 6 - (n - 1)
             c == IF n - 1 = 0 THEN 0 ELSE col + 1
  <2>1. p \in 0..15 /\ c \in 0..255 /\ 5 - (n - 1) \in 0..7 /\ 5 - (n - 1) = 6 - n
    BY DEF WIDTH
  <2>2. Stage(col, s, m, n - 1) = Panel(Off, p, c, before)
    BY DEF Stage
  <2> HIDE DEF p, c, before
  <2>3. setCursor(Panel(Off, p, c, before), 6 - n, col) = Panel(Off, 6 - n, col, before)
    <3> DEFINE page == 6 - n
    <3>1. page \in 0..7
      OBVIOUS
    <3>2. p \in 0..15 /\ c \in 0..255
      BY <2>1
    <3> HIDE DEF page
    <3>3. setCursor(Panel(Off, p, c, before), page, col) = Panel(Off, page, col, before)
      BY <3>1, <3>2, CursorIsSet
    <3> QED BY <3>3 DEF page
  <2> QED BY <2>1, <2>2, <2>3
<1>2. txData(at, 1, byte) = Panel(Off, 6 - n, col + 1, after)
  <2>1. {c \in {6 - n} \X (col..(col + 1 - 1)) : c \in Cells} = here
    <3>1. col..(col + 1 - 1) = {col}
      BY DEF WIDTH
    <3>2. <<6 - n, col>> \in Cells
      BY DEF Cells, PagesOfRam
    <3>3. {6 - n} \X {col} = here
      OBVIOUS
    <3> QED BY <3>1, <3>2, <3>3
  <2>2. [c \in DOMAIN before \cup here |-> IF c \in here THEN byte[c[2] - col] ELSE before[c]] = after
    <3>1. DOMAIN before \cup here = DOMAIN after
      <4>1. (6 - n)..5 = ((6 - (n - 1))..5) \cup {6 - n}
        OBVIOUS
      <4> QED BY <4>1
    <3>2. byte[col - col] = Pixels(s, m, n - 1)
      BY DEF WIDTH
    <3>3. ASSUME NEW c \in DOMAIN after
          PROVE  (IF c \in here THEN byte[c[2] - col] ELSE before[c]) = after[c]
      <4>1. CASE c \in here
        <5>1. c[1] = 6 - n /\ c[2] = col /\ 5 - c[1] = n - 1
          BY <4>1
        <5> QED BY <3>2, <4>1, <5>1
      <4>2. CASE c \notin here
        <5>1. c \in DOMAIN before
          BY <3>1, <4>2
        <5> QED BY <4>2, <5>1
      <4> QED BY <4>1, <4>2
    <3> HIDE DEF here, before, byte
    <3> QED BY <3>1, <3>3
  <2>3. (IF col + 1 < WIDTH THEN col + 1 ELSE WIDTH) = col + 1
    BY DEF WIDTH
  <2> HIDE DEF before, after, here, byte
  <2>4. /\ at.ram = before /\ at.page = 6 - n /\ at.col = col
    BY DEF Panel
  <2>5. txData(at, 1, byte) = [at EXCEPT !.ram = after, !.col = col + 1]
    <3> HIDE DEF at
    <3> QED BY <2>1, <2>2, <2>3, <2>4 DEF txData
  <2> QED BY <2>5 DEF Panel
<1>3. Stage(col, s, m, n) = Panel(Off, 6 - n, col + 1, after)
  BY DEF Stage
<1> HIDE DEF before, after, byte, at
<1>4. Round(Stage(col, s, m, n - 1), col, s, m, n)
      = txData(setCursor(Stage(col, s, m, n - 1), 5 - (n - 1), col), 1, byte)
  BY DEF Round, byte
<1> QED BY <1>1, <1>2, <1>3, <1>4

(* Before the first round the controller is as PowerUp left it. *)
LEMMA StageBegins ==
    ASSUME NEW col \in 0..(WIDTH - 1), NEW s \in Nat, NEW m \in Nat
    PROVE  setDisplayStart(PowerUp, 0) = Stage(col, s, m, 0)
<1>1. PowerUp = Panel(Off, 0, 0, [c \in {} |-> 0])
  BY DEF PowerUp, Panel, Off
<1>2. txCtl(Panel(Off, 0, 0, [c \in {} |-> 0]), 64) = Panel(Off, 0, 0, [c \in {} |-> 0])
  <2> DEFINE l == Panel(Off, 0, 0, [c \in {} |-> 0])
  <2>1. l.value = FALSE
    BY DEF Panel, Off
  <2>2. [l EXCEPT !.start = 0] = l
    BY DEF Panel
  <2> HIDE DEF l
  <2>3. txCtl(l, 64) = [l EXCEPT !.start = 64 - 64]
    BY <2>1 DEF txCtl
  <2> QED BY <2>2, <2>3 DEF l
<1>3. 64 + (0 % 64) = 64
  BY SMT
<1>4. [c \in {} |-> 0] = [c \in ((6 - 0)..5) \X {col} |-> Pixels(s, m, 5 - c[1])]
  <2>1. ((6 - 0)..5) \X {col} = {}
    OBVIOUS
  <2> QED BY <2>1
<1> QED BY <1>1, <1>2, <1>3, <1>4 DEF setDisplayStart, Stage

(* What plot() leaves in the controller. *)
LEMMA PlotIs ==
    ASSUME NEW col \in 0..(WIDTH - 1), NEW s \in Nat, NEW m \in Nat,
           s = Scaled(chan.ss), m = Scaled(chan.max)
    PROVE  plot(PowerUp, col) = Stage(col, s, m, 6)
<1> DEFINE first == setDisplayStart(PowerUp, 0)
           F(p) == [n \in 0..6 |-> IF n = 0 THEN first ELSE Round(p[n - 1], col, s, m, n)]
           q == CHOOSE p : p = F(p)
           stages == [n \in 0..6 |-> Stage(col, s, m, n)]
<1>1. Plotted(PowerUp, col) = q
  BY DEF Plotted, Round
<1>2. stages = F(stages)
  <2>1. ASSUME NEW n \in 0..6
        PROVE  Stage(col, s, m, n)
               = IF n = 0 THEN first ELSE Round(stages[n - 1], col, s, m, n)
    <3>1. CASE n = 0
      BY <3>1, StageBegins
    <3>2. CASE n # 0
      <4>1. n \in 1..6 /\ n - 1 \in 0..6
        BY <3>2
      <4>2. stages[n - 1] = Stage(col, s, m, n - 1)
        BY <4>1
      <4> HIDE DEF stages
      <4> QED BY <3>2, <4>1, <4>2, RoundIs
    <3> QED BY <3>1, <3>2
  <2> QED BY <2>1
<1> HIDE DEF F, stages
<1>3. q = F(q)
  BY <1>2
<1> HIDE DEF q, first
<1>4. q[0] = Stage(col, s, m, 0)
  BY <1>3, StageBegins DEF F, first
<1>5. \A n \in 1..6 : q[n] = Round(q[n - 1], col, s, m, n)
  BY <1>3 DEF F
<1>6. \A n \in 1..6 : q[n - 1] = Stage(col, s, m, n - 1) => q[n] = Stage(col, s, m, n)
  BY <1>5, RoundIs
<1>7. q[6] = Stage(col, s, m, 6)
  BY <1>4, <1>6
<1> QED BY <1>1, <1>7 DEF plot

(* A byte of plot(): its wrapping difference and its shifts draw the part  *)
(* of the bar that lies in the page, and the dot if it lies there.  The    *)
(* lowest pixel of the display is the first.                               *)
LEMMA ByteIs ==
    ASSUME NEW s \in 0..255, NEW m \in 0..255, NEW k \in 0..5, NEW bit \in Bits
    PROVE  bit \in Pixels(s, m, k) <=> 8 * (k + 1) - bit \in (1..s) \cup {m}
<1> DEFINE end == 8 * (k + 1)
           section == IF s >= end THEN 8 ELSE (s - 8 * k) % 256
           y == end - bit
<1>1. bit \in 0..7 /\ y \in Int /\ y \in (8 * k + 1)..end /\ end \in 8..48
  BY DEF Bits
<1>2. bit >= (8 - section) % 256 <=> y <= s
  <2>1. CASE s >= end
    BY <1>1, <2>1, SMT
  <2>2. CASE s < end /\ s >= 8 * k
    <3>1. section = s - 8 * k
      BY <1>1, <2>2, SMT
    <3>2. (8 - section) % 256 = 8 - section
      BY <1>1, <2>2, <3>1, SMT
    <3> QED BY <1>1, <2>2, <3>1, <3>2
  <2>3. CASE s < 8 * k
    <3>1. section = s - 8 * k + 256
      BY <1>1, <2>3, SMT
    <3>2. (8 - section) % 256 = 8 - s + 8 * k
      BY <1>1, <2>3, <3>1, SMT
    <3> QED BY <1>1, <2>3, <3>2
  <2> QED BY <1>1, <2>1, <2>2, <2>3
<1>3. bit \in (IF m <= end THEN BitAt(end - m) ELSE {}) <=> y = m
  BY <1>1 DEF BitAt
<1>4. bit \in LeftOf((8 - section) % 256) <=> bit >= (8 - section) % 256
  BY DEF LeftOf
<1>5. Pixels(s, m, k) = LeftOf((8 - section) % 256) \cup (IF m <= end THEN BitAt(end - m) ELSE {})
  BY DEF Pixels
<1> HIDE DEF section
<1> QED BY <1>1, <1>2, <1>3, <1>4, <1>5

(* The rows lit in the column, from the top. *)
LEMMA LitIs ==
    ASSUME NEW col \in 0..(WIDTH - 1), NEW s \in Nat, NEW m \in Nat, NEW y
    PROVE  y \in Lit(Stage(col, s, m, 6), col)
           <=> \E k \in 0..5 : \E bit \in Pixels(s, m, k) : y = 8 * (5 - k) + bit
<1> DEFINE ram == [c \in ((6 - 6)..5) \X {col} |-> Pixels(s, m, 5 - c[1])]
           l == Stage(col, s, m, 6)
           column == {d \in DOMAIN ram : d[2] = col}
           RowsOf(c) == {(8 * c[1] + bit - 0) % 64 : bit \in ram[c]}
<1>1. l.ram = ram /\ l.start = 0
  BY DEF Stage, Panel
<1>2. Lit(l, col) = UNION {RowsOf(c) : c \in column}
  <2> HIDE DEF ram, l
  <2> QED BY <1>1 DEF Lit
<1>3. ASSUME NEW k \in 0..5
      PROVE  <<5 - k, col>> \in column /\ ram[<<5 - k, col>>] = Pixels(s, m, k)
  <2>1. 5 - k \in (6 - 6)..5 /\ 5 - (5 - k) = k
    OBVIOUS
  <2> QED BY <2>1
<1>4. ASSUME NEW c \in column PROVE \E k \in 0..5 : c = <<5 - k, col>>
  <2>1. PICK r \in (6 - 6)..5 : c = <<r, col>>
    OBVIOUS
  <2>2. 5 - r \in 0..5 /\ 5 - (5 - r) = r
    OBVIOUS
  <2> QED BY <2>1, <2>2
<1>5. ASSUME NEW k \in 0..5, NEW bit \in Pixels(s, m, k)
      PROVE  (8 * (5 - k) + bit - 0) % 64 = 8 * (5 - k) + bit
  <2>1. bit \in 0..7
    BY DEF Pixels, LeftOf, BitAt, Bits
  <2> QED BY <2>1, SMT
<1> HIDE DEF ram, l, column
<1>6. \A k \in 0..5 : \A z :
          z \in RowsOf(<<5 - k, col>>) <=> \E bit \in Pixels(s, m, k) : z = 8 * (5 - k) + bit
  BY <1>3, <1>5
<1> HIDE DEF RowsOf
<1>7. y \in Lit(l, col) <=> \E k \in 0..5 : y \in RowsOf(<<5 - k, col>>)
  BY <1>2, <1>3, <1>4
<1> QED BY <1>6, <1>7 DEF l

(* The bar that plot() draws (display.c:93-119) reaches to the scaled      *)
(* level, its dot sits at the scaled maximum, and no other pixel of the    *)
(* column is lit: in every column, for every level, maximum and scrolling. *)
THEOREM BarIsExact == Spec => []BarExact
<1>1. AnInv => BarExact
  <2> SUFFICES ASSUME AnInv
               PROVE  LET s == Scaled(chan.ss)
                          m == Scaled(chan.max)
                      IN  {48 - y : y \in Lit(plot(PowerUp, Ch), Ch)} = (1..s \cup {m}) \cap 1..48
    BY DEF BarExact
  <2> DEFINE s == Scaled(chan.ss)
             m == Scaled(chan.max)
             lit == Lit(plot(PowerUp, Ch), Ch)
  <2>1. Ch \in 0..(WIDTH - 1)
    BY ChAssumption DEF NUM_CHANNELS, WIDTH
  <2>2. s \in 0..255 /\ m \in 0..255
    <3>1. chan.ss \in 0..255 /\ chan.max \in 0..255 /\ vscroll \in 0..255
      BY ScrollAssumption DEF AnInv, TypeOK, Bytes
    <3>2. ASSUME NEW x \in 0..255 PROVE Scaled(x) \in 0..255
      <4>1. x - vscroll \in (-255)..255 /\ (x - vscroll) \div 4 \in (-255)..255
        BY <3>1, SMT
      <4> DEFINE a == x - vscroll
                 b == (x - vscroll) \div 4
      <4>2. Scaled(x) \in {a, b, 0} /\ Scaled(x) >= 0
        <5>1. a \in Int /\ b \in Int
          BY <4>1
        <5>2. Scaled(x) = AtLeast(IF height = "TALL" THEN a ELSE b, 0)
          BY DEF Scaled
        <5> HIDE DEF a, b
        <5> QED BY <5>1, <5>2 DEF AtLeast
      <4> QED BY <4>1, <4>2
    <3> QED BY <3>1, <3>2
  <2>3. plot(PowerUp, Ch) = Stage(Ch, s, m, 6)
    <3>1. s \in Nat /\ m \in Nat
      BY <2>2
    <3> QED BY <2>1, <3>1, PlotIs, Zenon
  <2> HIDE DEF s, m
  <2>4. \A y : y \in lit <=> \E k \in 0..5 : \E bit \in Pixels(s, m, k) : y = 8 * (5 - k) + bit
    BY <2>1, <2>2, <2>3, LitIs
  <2> HIDE DEF lit
  <2>5. \A k \in 0..5 : Pixels(s, m, k) \subseteq Bits
    BY DEF Pixels, LeftOf, BitAt
  <2>6. ASSUME NEW y \in lit PROVE 48 - y \in (1..s \cup {m}) \cap 1..48
    <3>1. PICK k \in 0..5 : \E bit \in Pixels(s, m, k) : y = 8 * (5 - k) + bit
      BY <2>4
    <3>2. PICK bit \in Pixels(s, m, k) : y = 8 * (5 - k) + bit
      BY <3>1
    <3>3. bit \in Bits
      BY <2>5
    <3>4. 8 * (k + 1) - bit \in (1..s) \cup {m}
      BY <2>2, <3>2, <3>3, ByteIs
    <3>5. 48 - y = 8 * (k + 1) - bit /\ 48 - y \in 1..48
      BY <3>2, <3>3 DEF Bits
    <3> QED BY <3>4, <3>5
  <2>7. ASSUME NEW z \in (1..s \cup {m}) \cap 1..48 PROVE \E y \in lit : z = 48 - y
    <3> DEFINE k == (z - 1) \div 8
               bit == 8 * (k + 1) - z
    <3>1. z \in 1..48
      OBVIOUS
    <3>2. k \in 0..5 /\ bit \in 0..7
      BY <3>1, SMT
    <3> HIDE DEF k
    <3>3. 8 * (k + 1) - bit = z /\ 48 - (8 * (5 - k) + bit) = z
      BY <3>1, <3>2
    <3>4. bit \in Pixels(s, m, k)
      <4> HIDE DEF bit
      <4>1. k \in 0..5 /\ bit \in Bits /\ 8 * (k + 1) - bit \in (1..s) \cup {m}
        BY <3>2, <3>3 DEF Bits
      <4> QED BY <2>2, <4>1, ByteIs, Zenon
    <3>5. 8 * (5 - k) + bit \in lit
      <4> HIDE DEF bit
      <4> QED BY <2>4, <3>2, <3>4
    <3> QED BY <3>3, <3>5
  <2> QED BY <2>6, <2>7 DEF s, m, lit
<1> QED BY AnInvariant, <1>1, PTL

(* A column holds a bar only as long as the plan sweeps it: whoever moves  *)
(* the plan clears the display (specan.c:343).                             *)
THEOREM NoBarIsLeft == Spec => []NoStaleBar
<1>1. Init => NoStaleBar
  BY DEF Init, NoStaleBar
<1>2. NoStaleBar /\ [Next]_vars => NoStaleBar'
  <2> SUFFICES ASSUME NoStaleBar, [Next]_vars PROVE NoStaleBar'
    OBVIOUS
  <2>1. CASE Reset
    BY <2>1 DEF Reset, SetCenterFreq, NoStaleBar
  <2>2. CASE Sweep
    BY <2>2 DEF Sweep, NoStaleBar, InPlan, plan
  <2>3. CASE PollKeyboard
    BY <2>3 DEF PollKeyboard, KeyWidth, SetWidth, SetCenterFreq, KeyView, KeyFreq, KeyHold, NoKey,
                NoStaleBar, InPlan, plan
  <2>4. CASE KeyPower
    BY <2>4 DEF KeyPower, NoStaleBar
  <2>5. CASE Wake
    BY <2>5 DEF Wake, NoStaleBar, InPlan, plan
  <2>6. CASE Check
    BY <2>6 DEF Check, SetCenterFreq, NoStaleBar, InPlan, plan
  <2>7. CASE UNCHANGED vars
    BY <2>7 DEF vars, NoStaleBar, InPlan, plan
  <2> QED BY <2>1, <2>2, <2>3, <2>4, <2>5, <2>6, <2>7 DEF Next
<1> QED BY <1>1, <1>2, PTL DEF Spec
---------------------------------------------------------------------------
(* The scale *)

Blank == [c \in {} |-> 0]

(* The controller while it is being reset: only what the commands change.  *)
Waking(on, points, value) ==
    [page |-> 0, col |-> 0, start |-> 0, reverse |-> 0,
     on |-> on, points |-> points, value |-> value, ram |-> Blank]

(* Commands that change none of it. *)
LEMMA IdleCommand ==
    ASSUME NEW on, NEW points, NEW ch \in {0, 36, 47, 161, 172, 226, 230}
    PROVE  txCtl(Waking(on, points, Off), ch) = Waking(on, points, Off)
<1> DEFINE l == Waking(on, points, Off)
<1>1. l.value = FALSE /\ l.col = 0
  <2>1. l.value = Off
    BY DEF Waking
  <2>2. l.col = 0
    BY DEF Waking
  <2> QED BY <2>1, <2>2 DEF Off
<1>2. [l EXCEPT !.col = 0] = l
  BY DEF Waking
<1>3. [l EXCEPT !.page = 0, !.col = 0, !.start = 0] = l
  <2>1. [l EXCEPT !.page = 0] = l
    BY DEF Waking
  <2>2. [l EXCEPT !.start = 0] = l
    BY DEF Waking
  <2> HIDE DEF l
  <2> QED BY <1>2, <2>1, <2>2
<1> HIDE DEF l
<1>4. CASE ch = 0
  <2>1. txCtl(l, 0) = [l EXCEPT !.col = 16 * (@ \div 16) + 0]
    BY <1>1 DEF txCtl
  <2>2. 16 * (0 \div 16) + 0 = 0
    BY SMT
  <2> QED BY <1>1, <1>2, <1>4, <2>1, <2>2 DEF l
<1>5. CASE ch = 226
  <2>1. txCtl(l, 226) = [l EXCEPT !.page = 0, !.col = 0, !.start = 0]
    BY <1>1 DEF txCtl
  <2> QED BY <1>3, <1>5, <2>1 DEF l
<1>6. CASE ch \in {36, 47, 161, 172, 230}
  <2>1. txCtl(l, ch) = l
    BY <1>1, <1>6 DEF txCtl
  <2> QED BY <2>1 DEF l
<1> QED BY <1>4, <1>5, <1>6

(* The commands that switch: one takes an operand, whatever that is. *)
LEMMA SwitchCommand ==
    ASSUME NEW on, NEW points, NEW ch
    PROVE  /\ txCtl(Waking(on, points, On), ch) = Waking(on, points, Off)
           /\ ch = 129 => txCtl(Waking(on, points, Off), ch) = Waking(on, points, On)
           /\ ch = 164 => txCtl(Waking(on, points, Off), ch) = Waking(on, Off, Off)
           /\ ch = 165 => txCtl(Waking(on, points, Off), ch) = Waking(on, On, Off)
           /\ ch = 174 => txCtl(Waking(on, points, Off), ch) = Waking(Off, points, Off)
           /\ ch = 175 => txCtl(Waking(on, points, Off), ch) = Waking(On, points, Off)
<1> DEFINE l == Waking(on, points, Off)
           m == Waking(on, points, On)
<1>1. l.value = FALSE /\ m.value = TRUE
  <2>1. l.value = Off
    BY DEF Waking
  <2>2. m.value = On
    BY DEF Waking
  <2> QED BY <2>1, <2>2 DEF Off, On
<1>2. /\ [m EXCEPT !.value = Off] = l /\ [l EXCEPT !.value = On] = m
      /\ [l EXCEPT !.points = Off] = Waking(on, Off, Off)
      /\ [l EXCEPT !.points = On] = Waking(on, On, Off)
      /\ [l EXCEPT !.on = Off] = Waking(Off, points, Off)
      /\ [l EXCEPT !.on = On] = Waking(On, points, Off)
  <2>1. [m EXCEPT !.value = Off] = l
    BY DEF Waking
  <2>2. [l EXCEPT !.value = On] = m
    BY DEF Waking
  <2>3. [l EXCEPT !.points = Off] = Waking(on, Off, Off)
    BY DEF Waking
  <2>4. [l EXCEPT !.points = On] = Waking(on, On, Off)
    BY DEF Waking
  <2>5. [l EXCEPT !.on = Off] = Waking(Off, points, Off)
    BY DEF Waking
  <2>6. [l EXCEPT !.on = On] = Waking(On, points, Off)
    BY DEF Waking
  <2> QED BY <2>1, <2>2, <2>3, <2>4, <2>5, <2>6
<1> HIDE DEF l, m
<1>3. txCtl(m, ch) = [m EXCEPT !.value = Off]
  BY <1>1 DEF txCtl, Off
<1>4. ch = 129 => txCtl(l, ch) = [l EXCEPT !.value = On]
  BY <1>1 DEF txCtl, On
<1>5. ASSUME ch \in {164, 165}
      PROVE  /\ ch = 164 => txCtl(l, ch) = [l EXCEPT !.points = Off]
             /\ ch = 165 => txCtl(l, ch) = [l EXCEPT !.points = On]
  <2>1. txCtl(l, ch) = [l EXCEPT !.points = ch = 165]
    BY <1>1, <1>5 DEF txCtl
  <2>2. (ch = 164 => (ch = 165) = Off) /\ (ch = 165 => (ch = 165) = On)
    BY DEF On, Off
  <2> QED BY <2>1, <2>2, Zenon
<1>6. ASSUME ch \in {174, 175}
      PROVE  /\ ch = 174 => txCtl(l, ch) = [l EXCEPT !.on = Off]
             /\ ch = 175 => txCtl(l, ch) = [l EXCEPT !.on = On]
  <2>1. txCtl(l, ch) = [l EXCEPT !.on = ch = 175]
    BY <1>1, <1>6 DEF txCtl
  <2>2. (ch = 174 => (ch = 175) = Off) /\ (ch = 175 => (ch = 175) = On)
    BY DEF On, Off
  <2> QED BY <2>1, <2>2, Zenon
<1> QED BY <1>2, <1>3, <1>4, <1>5, <1>6, Zenon DEF l, m

(* A list of commands goes through its stages one after the other. *)
LEMMA CommandsLead ==
    ASSUME NEW l, NEW chs, Len(chs) \in Nat, NEW stages,
           stages = [n \in 0..Len(chs) |-> IF n = 0 THEN l ELSE txCtl(stages[n - 1], chs[n])]
    PROVE  \E after : /\ txCtls(l, chs) = after[Len(chs)]
                      /\ after[0] = l
                      /\ \A n \in 1..Len(chs) : after[n] = txCtl(after[n - 1], chs[n])
<1> DEFINE F(p) == [n \in 0..Len(chs) |-> IF n = 0 THEN l ELSE txCtl(p[n - 1], chs[n])]
           after == CHOOSE p : p = F(p)
<1>1. txCtls(l, chs) = after[Len(chs)]
  BY DEF txCtls
<1>2. stages = F(stages)
  OBVIOUS
<1> HIDE DEF F
<1>3. after = F(after)
  BY <1>2
<1> HIDE DEF after
<1>4. after[0] = l /\ \A n \in 1..Len(chs) : after[n] = txCtl(after[n - 1], chs[n])
  BY <1>3 DEF F
<1> QED BY <1>1, <1>4

(* LCDPowerSave and LCDReset, from the power-up state. *)
LEMMA ResetIs == LCDReset(LCDPowerSave(PowerUp)) = Waking(On, Off, Off)
<1> DEFINE chs == <<172, 174, 165>>
           first == Waking(Off, Off, Off)
           last == Waking(Off, On, Off)
           stages == [n \in 0..3 |-> IF n = 3 THEN last ELSE first]
           F(p) == [n \in 0..Len(chs) |-> IF n = 0 THEN first ELSE txCtl(p[n - 1], chs[n])]
<1>1. PowerUp = first
  BY DEF PowerUp, Waking, Off, Blank
<1>2. txCtl(first, 172) = first /\ txCtl(first, 174) = first /\ txCtl(first, 165) = last
  BY IdleCommand, SwitchCommand
<1> HIDE DEF first, last
<1>3. Len(chs) = 3 /\ chs[1] = 172 /\ chs[2] = 174 /\ chs[3] = 165
  OBVIOUS
<1> HIDE DEF chs
<1>4. stages = F(stages)
  <2> SUFFICES ASSUME NEW n \in 0..3 PROVE stages[n] = IF n = 0 THEN first ELSE txCtl(stages[n - 1], chs[n])
    BY <1>3
  <2>1. n \in {0, 1, 2, 3}
    OBVIOUS
  <2>2. stages[0] = first /\ stages[1] = first /\ stages[2] = first /\ stages[3] = last
    OBVIOUS
  <2> HIDE DEF stages
  <2> QED BY <1>2, <1>3, <2>1, <2>2
<1> HIDE DEF stages, F
<1>5. PICK after : /\ txCtls(first, chs) = after[Len(chs)]
                   /\ after[0] = first
                   /\ \A n \in 1..Len(chs) : after[n] = txCtl(after[n - 1], chs[n])
  <2>1. Len(chs) \in Nat
    BY <1>3
  <2>2. stages = [n \in 0..Len(chs) |-> IF n = 0 THEN first ELSE txCtl(stages[n - 1], chs[n])]
    BY <1>4 DEF F
  <2> QED BY <2>1, <2>2, CommandsLead
<1>6. txCtls(first, chs) = last
  <2>1. after[1] = first
    BY <1>2, <1>3, <1>5
  <2>2. after[2] = first
    BY <1>2, <1>3, <1>5, <2>1
  <2>3. after[3] = last
    BY <1>2, <1>3, <1>5, <2>2
  <2> QED BY <1>3, <1>5, <2>3
<1>7. LCDPowerSave(PowerUp) = last
  BY <1>1, <1>6 DEF LCDPowerSave, chs
<1> DEFINE cmds == <<226, 36, 129, 96, 230, 0, 47, 161, 175, 164>>
           operand == Waking(Off, On, On)
           lit == Waking(On, On, Off)
           awake == Waking(On, Off, Off)
           walk == [n \in 0..10 |-> IF n = 3 THEN operand ELSE IF n < 9 THEN last
                                    ELSE IF n = 9 THEN lit ELSE awake]
           G(p) == [n \in 0..Len(cmds) |-> IF n = 0 THEN last ELSE txCtl(p[n - 1], cmds[n])]
<1>8. /\ \A ch \in {226, 36, 230, 0, 47, 161} : txCtl(last, ch) = last
      /\ txCtl(last, 129) = operand /\ txCtl(operand, 96) = last
      /\ txCtl(last, 175) = lit /\ txCtl(lit, 164) = awake
  BY IdleCommand, SwitchCommand DEF last
<1> HIDE DEF operand, lit, awake
<1>9. /\ Len(cmds) = 10 /\ cmds[1] = 226 /\ cmds[2] = 36 /\ cmds[3] = 129 /\ cmds[4] = 96
      /\ cmds[5] = 230 /\ cmds[6] = 0 /\ cmds[7] = 47 /\ cmds[8] = 161
      /\ cmds[9] = 175 /\ cmds[10] = 164
  OBVIOUS
<1> HIDE DEF cmds
<1>10. walk = G(walk)
  <2> SUFFICES ASSUME NEW n \in 0..10 PROVE walk[n] = IF n = 0 THEN last ELSE txCtl(walk[n - 1], cmds[n])
    BY <1>9
  <2>1. n \in {0, 1, 2, 3, 4, 5, 6, 7, 8, 9, 10}
    OBVIOUS
  <2>2. /\ walk[0] = last /\ walk[1] = last /\ walk[2] = last /\ walk[3] = operand
        /\ walk[4] = last /\ walk[5] = last /\ walk[6] = last /\ walk[7] = last
        /\ walk[8] = last /\ walk[9] = lit /\ walk[10] = awake
    OBVIOUS
  <2> HIDE DEF walk
  <2> QED BY <1>8, <1>9, <2>1, <2>2
<1> HIDE DEF walk, G
<1>11. PICK led : /\ txCtls(last, cmds) = led[Len(cmds)]
                  /\ led[0] = last
                  /\ \A n \in 1..Len(cmds) : led[n] = txCtl(led[n - 1], cmds[n])
  <2>1. Len(cmds) \in Nat
    BY <1>9
  <2>2. walk = [n \in 0..Len(cmds) |-> IF n = 0 THEN last ELSE txCtl(walk[n - 1], cmds[n])]
    BY <1>10 DEF G
  <2> QED BY <2>1, <2>2, CommandsLead
<1>12. txCtls(last, cmds) = awake
  <2>1. led[1] = last
    BY <1>8, <1>9, <1>11
  <2>2. led[2] = last
    BY <1>8, <1>9, <1>11, <2>1
  <2>3. led[3] = operand
    BY <1>8, <1>9, <1>11, <2>2
  <2>4. led[4] = last
    BY <1>8, <1>9, <1>11, <2>3
  <2>5. led[5] = last
    BY <1>8, <1>9, <1>11, <2>4
  <2>6. led[6] = last
    BY <1>8, <1>9, <1>11, <2>5
  <2>7. led[7] = last
    BY <1>8, <1>9, <1>11, <2>6
  <2>8. led[8] = last
    BY <1>8, <1>9, <1>11, <2>7
  <2>9. led[9] = lit
    BY <1>8, <1>9, <1>11, <2>8
  <2>10. led[10] = awake
    BY <1>8, <1>9, <1>11, <2>9
  <2> QED BY <1>9, <1>11, <2>10
<1> QED BY <1>7, <1>12 DEF LCDReset, cmds, awake

(* The cleared display, on and as it should be. *)
LEMMA ClearIs ==
    clear(LCDReset(LCDPowerSave(PowerUp)), 0) = Panel(On, 9, 132, [c \in Cells |-> 0])
<1> DEFINE l == Waking(On, Off, Off)
<1>1. txCtl(l, 64) = l /\ txCtl(l, 166) = l
  <2>1. l.value = FALSE
    BY DEF Waking, Off
  <2>2. [l EXCEPT !.start = 0] = l /\ [l EXCEPT !.reverse = 0] = l
    BY DEF Waking
  <2> HIDE DEF l
  <2>3. txCtl(l, 64) = [l EXCEPT !.start = 64 - 64]
    BY <2>1 DEF txCtl
  <2>4. txCtl(l, 166) = [l EXCEPT !.reverse = 166 - 166]
    BY <2>1 DEF txCtl
  <2> QED BY <2>2, <2>3, <2>4
<1>2. 64 + (0 % 64) = 64 /\ 166 + (0 % 2) = 166
  BY SMT
<1> HIDE DEF l
<1>3. setNormalReverse(setDisplayStart(l, 0), 0) = l
  BY <1>1, <1>2 DEF setNormalReverse, setDisplayStart
<1>4. clear(l, 0) = [l EXCEPT !.page = 9, !.col = WIDTH, !.ram = [c \in Cells |-> 0]]
  BY <1>3 DEF clear
<1>5. [l EXCEPT !.page = 9, !.col = WIDTH, !.ram = [c \in Cells |-> 0]]
      = Panel(On, 9, 132, [c \in Cells |-> 0])
  <2> DEFINE ram == [c \in Cells |-> 0]
             a == Panel(On, 9, 0, Blank)
             b == Panel(On, 9, 132, Blank)
  <2>1. [l EXCEPT !.page = 9] = a
    BY DEF l, Waking, Panel
  <2>2. [a EXCEPT !.col = WIDTH] = b
    BY DEF Panel, WIDTH
  <2> HIDE DEF ram
  <2>3. [b EXCEPT !.ram = ram] = Panel(On, 9, 132, ram)
    BY DEF Panel
  <2> HIDE DEF a, b
  <2> QED BY <2>1, <2>2, <2>3 DEF ram
<1> QED BY <1>4, <1>5, ResetIs DEF l

(* What the memory holds after n bytes f at column c of page p. *)
Written(ram, p, c, n, f) ==
    [d \in Cells |-> IF d[1] = p /\ d[2] \in c..(c + n - 1) THEN f[d[2] - c] ELSE ram[d]]

(* All of the memory has been written. *)
Full(ram) == DOMAIN ram = Cells

(* n bytes from column c of page p stay on it, and end before column e. *)
Fits(p, c, n, e) == p \in 0..8 /\ c \in Nat /\ n \in Nat /\ e \in 0..WIDTH /\ e = c + n

(* They go where the cursor is, and move it. *)
LEMMA DataIs ==
    ASSUME NEW on, NEW p, NEW c, NEW n, NEW e, Fits(p, c, n, e), NEW ram, Full(ram), NEW f
    PROVE  txData(Panel(on, p, c, ram), n, f) = Panel(on, p, e, Written(ram, p, c, n, f))
<1> DEFINE l == Panel(on, p, c, ram)
           here == {d \in {p} \X (c..(c + n - 1)) : d \in Cells}
           new == Written(ram, p, c, n, f)
<1>0. p \in 0..8 /\ c \in Nat /\ n \in Nat /\ e \in 0..WIDTH /\ e = c + n
  BY DEF Fits
<1>1. l.page = p /\ l.col = c /\ l.ram = ram
  BY DEF Panel
<1>2. [l EXCEPT !.ram = new, !.col = e] = Panel(on, p, e, new)
  <2> DEFINE m == Panel(on, p, c, new)
  <2> HIDE DEF new
  <2>1. [l EXCEPT !.ram = new] = m
    BY DEF Panel
  <2>2. [m EXCEPT !.col = e] = Panel(on, p, e, new)
    BY DEF Panel
  <2> HIDE DEF l, m
  <2> QED BY <2>1, <2>2
<1>3. \A d \in Cells : d \in here <=> d[1] = p /\ d[2] \in c..(c + n - 1)
  <2> SUFFICES ASSUME NEW d \in Cells PROVE d \in here <=> d[1] = p /\ d[2] \in c..(c + n - 1)
    OBVIOUS
  <2>1. d = <<d[1], d[2]>>
    BY DEF Cells
  <2>2. d \in {p} \X (c..(c + n - 1)) <=> d[1] = p /\ d[2] \in c..(c + n - 1)
    BY <2>1
  <2> QED BY <2>2
<1>4. [d \in DOMAIN ram \cup here |-> IF d \in here THEN f[d[2] - c] ELSE ram[d]] = new
  <2>1. DOMAIN ram \cup here = Cells
    BY DEF Full
  <2> HIDE DEF here
  <2> QED BY <1>3, <2>1 DEF Written
<1>5. (IF c + n < WIDTH THEN c + n ELSE WIDTH) = e
  BY <1>0 DEF WIDTH
<1> HIDE DEF l, new
<1>6. txData(l, n, f) = [l EXCEPT !.ram = new, !.col = e]
  <2>1. {d \in {l.page} \X (l.col..(l.col + n - 1)) : d \in Cells} = here
    BY <1>1
  <2> HIDE DEF here
  <2>2. txData(l, n, f) = [l EXCEPT !.ram = [d \in DOMAIN l.ram \cup here |->
                                                IF d \in here THEN f[d[2] - l.col] ELSE l.ram[d]],
                                    !.col = IF l.col + n < WIDTH THEN l.col + n ELSE WIDTH]
    BY <2>1 DEF txData
  <2> QED BY <1>1, <1>4, <1>5, <2>2
<1> QED BY <1>2, <1>6 DEF l, new

(* Which of the marks are long. *)
LEMMA MarkIs ==
    ASSUME NEW long \in BOOLEAN, NEW longer \in BOOLEAN, NEW short \in BOOLEAN
    PROVE  /\ Mark(long, longer, short) = "FE" <=> long
           /\ longer => Mark(long, longer, short) \in {"FE", "3E"}
BY DEF Mark

(* Where the long marks of the three rulers stand. *)
LEMMA LongMarks ==
    ASSUME NEW i \in 0..156
    PROVE  /\ i \in 0..131 => (narrow_ruler[i] = "FE" <=> i % 20 = 6)
           /\ wide_ruler[i] = "FE" <=> i % 50 = 16
           /\ i % 50 = 41 => wide_ruler[i] \in {"FE", "3E"}
           /\ i \in 0..131 => (ultrawide_ruler[i] = "FE" <=> i % 15 = 6)
<1>1. ASSUME i \in 0..131 PROVE narrow_ruler[i] = "FE" <=> i % 20 = 6
  <2> DEFINE long == i % 20 = 6
             longer == i % 20 = 16
             short == i % 2 = 0
  <2>1. narrow_ruler[i] = Mark(long, longer, short)
    BY <1>1 DEF narrow_ruler
  <2>2. long \in BOOLEAN /\ longer \in BOOLEAN /\ short \in BOOLEAN
    OBVIOUS
  <2> HIDE DEF long, longer, short
  <2>3. narrow_ruler[i] = "FE" <=> long
    BY <2>1, <2>2, MarkIs
  <2> QED BY <2>3 DEF long
<1>2. (wide_ruler[i] = "FE" <=> i % 50 = 16) /\ (i % 50 = 41 => wide_ruler[i] \in {"FE", "3E"})
  <2> DEFINE long == i % 50 = 16
             longer == i % 50 = 41
             short == i % 5 = 1
  <2>1. wide_ruler[i] = Mark(long, longer, short)
    BY DEF wide_ruler
  <2>2. long \in BOOLEAN /\ longer \in BOOLEAN /\ short \in BOOLEAN
    OBVIOUS
  <2> HIDE DEF long, longer, short
  <2>3. (wide_ruler[i] = "FE" <=> long) /\ (longer => wide_ruler[i] \in {"FE", "3E"})
    BY <2>1, <2>2, MarkIs
  <2> QED BY <2>3 DEF long, longer
<1>3. ASSUME i \in 0..131 PROVE ultrawide_ruler[i] = "FE" <=> i % 15 = 6
  <2> DEFINE long == i % 15 = 6
             short == i % 3 = 0
  <2>1. ultrawide_ruler[i] = Mark(long, FALSE, short)
    BY <1>3 DEF ultrawide_ruler
  <2>2. long \in BOOLEAN /\ short \in BOOLEAN
    OBVIOUS
  <2> HIDE DEF long, short
  <2>3. ultrawide_ruler[i] = "FE" <=> long
    BY <2>1, <2>2, MarkIs
  <2> QED BY <2>3 DEF long
<1> QED BY <1>1, <1>2, <1>3

(* The round frequency next to f, in units of a mark: the n-th. *)
RoundTo(f, unit) == ((f + (unit \div 2)) \div unit) * unit

RoundsTo(f, unit, n) ==
    RoundTo(f, unit) = unit * n /\ -unit <= 2 * (f - unit * n) /\ 2 * (f - unit * n) < unit

(* Every frequency has a nearest round one, and RoundTo is that one. *)
LEMMA RoundFinds ==
    ASSUME NEW f \in Int
    PROVE  (\E n \in Int : RoundsTo(f, 1000000, n)) /\ (\E n \in Int : RoundsTo(f, 10000000, n))
<1> DEFINE m == (f + 500000) \div 1000000
           n == (f + 5000000) \div 10000000
<1>1. /\ m \in Int /\ -500000 <= f - 1000000 * m /\ f - 1000000 * m < 500000
      /\ n \in Int /\ -5000000 <= f - 10000000 * n /\ f - 10000000 * n < 5000000
  BY SMT
<1>2. RoundTo(f, 1000000) = m * 1000000 /\ RoundTo(f, 10000000) = n * 10000000
  <2>1. 1000000 \div 2 = 500000 /\ 10000000 \div 2 = 5000000
    BY SMT
  <2> QED BY <2>1, SMT DEF RoundTo
<1> HIDE DEF m, n
<1>3. RoundTo(f, 1000000) = 1000000 * m /\ RoundTo(f, 10000000) = 10000000 * n
  BY <1>1, <1>2, SMT
<1> HIDE DEF RoundTo
<1>4. RoundsTo(f, 1000000, m) /\ RoundsTo(f, 10000000, n)
  BY <1>1, <1>3, SMT DEF RoundsTo
<1> QED BY <1>1, <1>4

(* Off by no more than half the spacing of the channels. *)
Close(off, spacing) == -spacing <= 2 * off /\ 2 * off <= spacing

(* What the ruler shows at channel c is a long mark or not, as c is near a *)
(* round frequency or not.                                                 *)
Unit(w) == IF w = "NARROW" THEN 1000000 ELSE 10000000

MarksRound(mark, w, freq, c) ==
    LET hz == HzOf(w, freq, c)
    IN  mark = "FE" <=> Close(hz - RoundTo(hz, Unit(w)), Spacing[w])

(* The channels in groups as far apart as the long marks are: q is the     *)
(* group of a channel, s its place in it.                                  *)
LEMMA NarrowChannel ==
    ASSUME NEW freq \in Int, NEW c \in 0..131
    PROVE  MarksRound(narrow_ruler[c], "NARROW", freq, c)
<1> DEFINE q == (c - 6) \div 20
           s == (c - 6) % 20
           k == freq + q - 3
           hz == HzOf("NARROW", freq, c)
<1>1. /\ q \in Int /\ -1 <= q /\ q <= 6 /\ s \in Int /\ 0 <= s /\ s <= 19
      /\ c = 20 * q + s + 6 /\ (c % 20 = 6 <=> s = 0)
  BY SMT
<1>2. hz = 1000000 * freq + (c - 66) * 49988
  BY Tables, SMT DEF HzOf, Mid, NUM_CHANNELS
<1>3. narrow_ruler[c] = "FE" <=> c % 20 = 6
  BY LongMarks
<1> HIDE DEF q, s
<1>4. k \in Int /\ hz - 1000000 * k = 49988 * s - 240 * (q - 3) /\ hz \in Int
  BY <1>1, <1>2, SMT
<1> HIDE DEF k, hz
<1>5. PICK n \in Int : RoundsTo(hz, 1000000, n)
  BY <1>4, RoundFinds
<1>6. s = 0 <=> Close(hz - 1000000 * n, 49988)
  BY <1>1, <1>4, <1>5, SMT DEF Close, RoundsTo
<1>7. RoundTo(hz, 1000000) = 1000000 * n
  BY <1>5 DEF RoundsTo
<1>8. Unit("NARROW") = 1000000
  BY SMT DEF Unit
<1> QED BY <1>1, <1>3, <1>6, <1>7, <1>8, Tables, SMT DEF hz, MarksRound

(* The wide ruler is shifted by half its period for centres not divisible by
   ten; its long marks then stand at the channels nearest to multiples of 10 MHz. *)
LEMMA WideChannel ==
    ASSUME NEW freq \in Int, freq % 5 = 0, NEW c \in 0..131
    PROVE  MarksRound(wide_ruler[c + (IF freq % 10 # 0 THEN 25 ELSE 0)], "WIDE", freq, c)
<1> DEFINE offset == IF freq % 10 # 0 THEN 25 ELSE 0
           q == (c + offset - 16) \div 50
           s == (c + offset - 16) % 50
           half == freq \div 10
           hz == HzOf("WIDE", freq, c)
<1>1. /\ q \in Int /\ -1 <= q /\ q <= 2 /\ s \in Int /\ 0 <= s /\ s <= 49
      /\ c + offset = 50 * q + s + 16 /\ ((c + offset) % 50 = 16 <=> s = 0)
  BY SMT
<1>2. hz = 1000000 * freq + (c - 66) * 199952
  BY Tables, SMT DEF HzOf, Mid, NUM_CHANNELS
<1>3. wide_ruler[c + offset] = "FE" <=> (c + offset) % 50 = 16
  <2>1. c + offset \in 0..156
    OBVIOUS
  <2> HIDE DEF offset
  <2> QED BY <2>1, LongMarks
<1>4. half \in Int /\ \/ offset = 0 /\ freq = 10 * half
                      \/ offset = 25 /\ freq = 10 * half + 5
  BY SMT
<1> HIDE DEF q, s, half
<1> DEFINE k == half + q - 1
           r == (IF offset = 0 THEN 2400 ELSE 3600) - 2400 * q
<1>5. /\ k \in Int /\ r \in Int /\ hz \in Int
      /\ hz = 10000000 * k + r + 199952 * s /\ -6000 <= r /\ r <= 6000
  <2>1. CASE offset = 0 /\ freq = 10 * half
    BY <1>1, <1>2, <1>4, <2>1, SMT
  <2>2. CASE offset = 25 /\ freq = 10 * half + 5
    BY <1>1, <1>2, <1>4, <2>2, SMT
  <2> QED BY <1>4, <2>1, <2>2
<1> HIDE DEF hz, offset, k, r
<1>6. PICK n \in Int : RoundsTo(hz, 10000000, n)
  BY <1>5, RoundFinds
<1>7. s = 0 <=> Close(hz - 10000000 * n, 199952)
  BY <1>1, <1>5, <1>6, SMT DEF Close, RoundsTo
<1>8. RoundTo(hz, 10000000) = 10000000 * n
  BY <1>6 DEF RoundsTo
<1>9. Unit("WIDE") = 10000000
  BY SMT DEF Unit
<1> QED BY <1>1, <1>3, <1>7, <1>8, <1>9, Tables, SMT DEF hz, offset, MarksRound

(* The same for the ultrawide ruler. *)
LEMMA UltrawideChannel ==
    ASSUME NEW freq \in Int, freq % 20 = 0, NEW c \in 0..131
    PROVE  MarksRound(ultrawide_ruler[c], "ULTRAWIDE", freq, c)
<1> DEFINE q == (c - 6) \div 15
           s == (c - 6) % 15
           half == freq \div 20
           k == 2 * half + q - 4
           hz == HzOf("ULTRAWIDE", freq, c)
<1>1. /\ q \in Int /\ -1 <= q /\ q <= 8 /\ s \in Int /\ 0 <= s /\ s <= 14
      /\ c = 15 * q + s + 6 /\ (c % 15 = 6 <=> s = 0)
  BY SMT
<1>2. hz = 1000000 * freq + (c - 66) * 666504
  BY Tables, SMT DEF HzOf, Mid, NUM_CHANNELS
<1>3. ultrawide_ruler[c] = "FE" <=> c % 15 = 6
  BY LongMarks
<1>4. half \in Int /\ freq = 20 * half
  BY SMT
<1> HIDE DEF q, s, half
<1>5. k \in Int /\ hz - 10000000 * k = 666504 * s - 2440 * (q - 4) /\ hz \in Int
  BY <1>1, <1>2, <1>4, SMT
<1> HIDE DEF k, hz
<1>6. PICK n \in Int : RoundsTo(hz, 10000000, n)
  BY <1>5, RoundFinds
<1>7. s = 0 <=> Close(hz - 10000000 * n, 666504)
  BY <1>1, <1>5, <1>6, SMT DEF Close, RoundsTo
<1>8. RoundTo(hz, 10000000) = 10000000 * n
  BY <1>6 DEF RoundsTo
<1>9. Unit("ULTRAWIDE") = 10000000
  BY SMT DEF Unit
<1> QED BY <1>1, <1>3, <1>7, <1>8, <1>9, Tables, SMT DEF hz, MarksRound

(* What a number of three digits and three spaces write. *)
Digits(mhz) == [i \in 0..17 |-> IF i % 6 = 5 THEN 0 ELSE mhz]
Text(ram, c, mhz) == Written(ram, 7, c, 18, Digits(mhz))
Gap(ram, c) == Written(ram, 7, c, 12, [i \in 0..11 |-> 0])

(* The cursor is somewhere. *)
Placed(p, c) == p \in 0..15 /\ c \in 0..255

(* A number, put down where the cursor is; *)
LEMMA NumberIs ==
    ASSUME NEW ram, Full(ram), NEW c, NEW e, Fits(7, c, 18, e), NEW mhz
    PROVE  Number(Panel(On, 7, c, ram), mhz) = Panel(On, 7, e, Text(ram, c, mhz))
<1> DEFINE f == Digits(mhz)
<1> HIDE DEF f
<1>1. txData(Panel(On, 7, c, ram), 18, f) = Panel(On, 7, e, Written(ram, 7, c, 18, f))
  BY DataIs
<1> QED BY <1>1 DEF Number, Text, Digits, f

(* put down at a column; *)
LEMMA LabelIs ==
    ASSUME NEW ram, Full(ram), NEW c, NEW e, Fits(7, c, 18, e), NEW mhz,
           NEW p, NEW d, Placed(p, d)
    PROVE  LabelAt(Panel(On, p, d, ram), c, mhz) = Panel(On, 7, e, Text(ram, c, mhz))
<1>1. setCursor(Panel(On, p, d, ram), 7, c) = Panel(On, 7, c, ram)
  <2>1. c \in 0..(WIDTH - 1) /\ 7 \in 0..7 /\ p \in 0..15 /\ d \in 0..255
    BY DEF WIDTH, Fits, Placed
  <2> QED BY <2>1, CursorIsSet
<1> QED BY <1>1, NumberIs DEF LabelAt

(* two spaces. *)
LEMMA SpacesAre ==
    ASSUME NEW ram, Full(ram), NEW c, NEW e, Fits(7, c, 12, e)
    PROVE  Spaces(Panel(On, 7, c, ram)) = Panel(On, 7, e, Gap(ram, c))
<1> DEFINE none == [i \in 0..11 |-> 0]
<1> HIDE DEF none
<1>1. txData(Panel(On, 7, c, ram), 12, none) = Panel(On, 7, e, Written(ram, 7, c, 12, none))
  BY DataIs
<1> QED BY <1>1 DEF Spaces, Gap, none

(* new is ram with the number at column c; the ruler is as it was. *)
Adds(ram, new, c, mhz) ==
    \A x \in 0..131 :
        /\ new[<<6, x>>] = ram[<<6, x>>]
        /\ new[<<7, x>>] = IF x \in c..(c + 17) THEN IF (x - c) % 6 = 5 THEN 0 ELSE mhz
                          ELSE ram[<<7, x>>]

(* What the controller's memory then shows: the number, *)
LEMMA TextReads ==
    ASSUME NEW ram, NEW c, NEW e, Fits(7, c, 18, e), NEW mhz
    PROVE  Full(Text(ram, c, mhz)) /\ Adds(ram, Text(ram, c, mhz), c, mhz)
<1>1. Full(Text(ram, c, mhz))
  BY DEF Text, Written, Full
<1>2. ASSUME NEW x \in 0..131
      PROVE  /\ Text(ram, c, mhz)[<<6, x>>] = ram[<<6, x>>]
             /\ Text(ram, c, mhz)[<<7, x>>] = IF x \in c..(c + 17)
                                              THEN IF (x - c) % 6 = 5 THEN 0 ELSE mhz
                                              ELSE ram[<<7, x>>]
  <2>1. <<6, x>> \in Cells /\ <<7, x>> \in Cells
    BY DEF Cells, PagesOfRam, WIDTH
  <2>2. c \in Nat /\ c + 18 - 1 = c + 17
    BY DEF Fits
  <2>3. Text(ram, c, mhz)[<<6, x>>] = ram[<<6, x>>]
    BY <2>1 DEF Text, Written
  <2>4. Text(ram, c, mhz)[<<7, x>>] = IF x \in c..(c + 17) THEN Digits(mhz)[x - c] ELSE ram[<<7, x>>]
    BY <2>1, <2>2 DEF Text, Written
  <2>5. x \in c..(c + 17) => Digits(mhz)[x - c] = IF (x - c) % 6 = 5 THEN 0 ELSE mhz
    <3>1. x \in c..(c + 17) => x - c \in 0..17
      BY <2>2
    <3> QED BY <3>1 DEF Digits
  <2> QED BY <2>3, <2>4, <2>5
<1> QED BY <1>1, <1>2 DEF Adds

(* new is ram with spaces at column c. *)
Clears(ram, new, c) ==
    \A x \in 0..131 :
        /\ new[<<6, x>>] = ram[<<6, x>>]
        /\ new[<<7, x>>] = IF x \in c..(c + 11) THEN 0 ELSE ram[<<7, x>>]

(* or nothing. *)
LEMMA GapReads ==
    ASSUME NEW ram, NEW c, NEW e, Fits(7, c, 12, e)
    PROVE  Full(Gap(ram, c)) /\ Clears(ram, Gap(ram, c), c)
<1> DEFINE none == [i \in 0..11 |-> 0]
<1>1. Full(Gap(ram, c))
  BY DEF Gap, Written, Full
<1>2. ASSUME NEW x \in 0..131
      PROVE  /\ Gap(ram, c)[<<6, x>>] = ram[<<6, x>>]
             /\ Gap(ram, c)[<<7, x>>] = IF x \in c..(c + 11) THEN 0 ELSE ram[<<7, x>>]
  <2>1. <<6, x>> \in Cells /\ <<7, x>> \in Cells /\ c \in Nat /\ c + 12 - 1 = c + 11
    BY DEF Cells, PagesOfRam, WIDTH, Fits
  <2>2. Gap(ram, c)[<<6, x>>] = ram[<<6, x>>]
    BY <2>1 DEF Gap, Written
  <2>3. Gap(ram, c)[<<7, x>>] = IF x \in c..(c + 11) THEN none[x - c] ELSE ram[<<7, x>>]
    BY <2>1 DEF Gap, Written
  <2>4. x \in c..(c + 11) => none[x - c] = 0
    <3>1. x \in c..(c + 11) => x - c \in 0..11
      BY <2>1
    <3> QED BY <3>1
  <2> QED BY <2>2, <2>3, <2>4
<1> QED BY <1>1, <1>2 DEF Clears

(* The display with its ruler. *)
Ruled == Written([c \in Cells |-> 0], 6, 0, 132, [col \in 0..(NUM_CHANNELS - 1) |-> Ruler(col)])

(* What draw_ruler leaves on a clear display. *)
LEMMA RulerIs ==
    /\ draw_ruler(Panel(On, 9, 132, [c \in Cells |-> 0])) = Panel(On, 6, 132, Ruled)
    /\ Full(Ruled)
    /\ \A x \in 0..131 : Ruled[<<6, x>>] = Ruler(x) /\ Ruled[<<7, x>>] = 0
<1> DEFINE clean == [c \in Cells |-> 0]
           marks == [col \in 0..(NUM_CHANNELS - 1) |-> Ruler(col)]
<1>1. /\ Full(clean) /\ \A d \in Cells : clean[d] = 0
      /\ NUM_CHANNELS = 132 /\ \A x \in 0..131 : marks[x] = Ruler(x)
  BY DEF NUM_CHANNELS, Full
<1>2. Ruled = Written(clean, 6, 0, 132, marks)
  BY DEF Ruled
<1> HIDE DEF clean, marks
<1>3. setCursor(Panel(On, 9, 132, clean), 6, 0) = Panel(On, 6, 0, clean)
  <2>1. 9 \in 0..15 /\ 132 \in 0..255 /\ 6 \in 0..7 /\ 0 \in 0..(WIDTH - 1)
    BY DEF WIDTH
  <2> QED BY <2>1, CursorIsSet
<1>4. txData(Panel(On, 6, 0, clean), 132, marks) = Panel(On, 6, 132, Ruled)
  <2>1. Fits(6, 0, 132, 132)
    BY DEF Fits, WIDTH
  <2>2. txData(Panel(On, 6, 0, clean), 132, marks)
        = Panel(On, 6, 132, Written(clean, 6, 0, 132, marks))
    BY <1>1, <2>1, DataIs
  <2> QED BY <1>2, <2>1, <2>2
<1>5. draw_ruler(Panel(On, 9, 132, clean)) = Panel(On, 6, 132, Ruled)
  BY <1>1, <1>3, <1>4 DEF draw_ruler, marks
<1>6. Full(Ruled)
  BY <1>2 DEF Written, Full
<1>7. ASSUME NEW x \in 0..131 PROVE Ruled[<<6, x>>] = Ruler(x) /\ Ruled[<<7, x>>] = 0
  <2>1. /\ <<6, x>> \in Cells /\ <<7, x>> \in Cells
        /\ x \in 0..(0 + 132 - 1) /\ x - 0 = x
    BY DEF Cells, PagesOfRam, WIDTH
  <2>2. Ruled[<<6, x>>] = marks[x - 0]
    BY <1>2, <2>1 DEF Written
  <2>3. Ruled[<<7, x>>] = clean[<<7, x>>]
    BY <1>2, <2>1 DEF Written
  <2> QED BY <1>1, <2>1, <2>2, <2>3
<1> QED BY <1>5, <1>6, <1>7 DEF clean

(* A number stands in the page of the labels from column a on, and nowhere *)
(* else.                                                                   *)
Labelled(ram, mhz, a) ==
    \A x \in 0..131 : ram[<<7, x>>] = mhz <=> x \in a..(a + 17) /\ (x - a) % 6 # 5

(* What stands in that page. *)
Labels(ram) ==
    {ram[c] : c \in {d \in {7} \X (0..(WIDTH - 1)) : d \in DOMAIN ram}} \ {0}

(* The middle of a number, between its first column and its last. *)
Middle(ram, mhz) ==
    LET cols == {c[2] : c \in {d \in {e \in {7} \X (0..(WIDTH - 1)) : e \in DOMAIN ram} : ram[d] = mhz}}
        first == CHOOSE c \in cols : \A d \in cols : c <= d
        last == CHOOSE c \in cols : \A d \in cols : d <= c
    IN  (first + last) \div 2

(* The middle of a number that stands from column a on. *)
LEMMA MiddleIs ==
    ASSUME NEW ram, Full(ram), NEW mhz, NEW a \in 0..114, Labelled(ram, mhz, a)
    PROVE  Middle(ram, mhz) = a + 8
<1> DEFINE page == {e \in {7} \X (0..(WIDTH - 1)) : e \in DOMAIN ram}
           cols == {c[2] : c \in {d \in page : ram[d] = mhz}}
           first == CHOOSE c \in cols : \A d \in cols : c <= d
           last == CHOOSE c \in cols : \A d \in cols : d <= c
<1>1. page = {7} \X (0..131)
  BY DEF Full, Cells, PagesOfRam, WIDTH
<1>2. \A x : x \in cols <=> x \in a..(a + 17) /\ (x - a) % 6 # 5
  <2>1. ASSUME NEW x \in cols PROVE x \in a..(a + 17) /\ (x - a) % 6 # 5
    <3> HIDE DEF page
    <3>1. PICK c \in page : ram[c] = mhz /\ x = c[2]
      OBVIOUS
    <3>2. c = <<7, x>> /\ x \in 0..131
      BY <1>1, <3>1
    <3> QED BY <3>1, <3>2 DEF Labelled
  <2>2. ASSUME NEW x, x \in a..(a + 17), (x - a) % 6 # 5 PROVE x \in cols
    <3>1. x \in 0..131 /\ <<7, x>> \in page
      BY <1>1, <2>2
    <3>2. ram[<<7, x>>] = mhz
      BY <2>2, <3>1 DEF Labelled
    <3>3. <<7, x>>[2] = x
      OBVIOUS
    <3> HIDE DEF page
    <3> QED BY <3>1, <3>2, <3>3
  <2> HIDE DEF cols
  <2> QED BY <2>1, <2>2
<1> HIDE DEF cols, page
<1>3. a \in cols /\ \A d \in cols : a <= d
  BY <1>2
<1>4. a + 16 \in cols /\ \A d \in cols : d <= a + 16
  <2>1. a + 16 \in cols
    BY <1>2
  <2>2. ASSUME NEW d \in cols PROVE d <= a + 16
    <3>1. d \in a..(a + 17) /\ (d - a) % 6 # 5
      BY <1>2
    <3>2. d # a + 17
      BY <3>1, SMT
    <3> QED BY <3>1, <3>2
  <2> QED BY <2>1, <2>2
<1>5. cols \subseteq Int
  BY <1>2
<1>6. first = a
  <2>1. first \in cols /\ \A d \in cols : first <= d
    BY <1>3, Zenon
  <2> HIDE DEF first
  <2> QED BY <1>3, <1>5, <2>1
<1>7. last = a + 16
  <2>1. last \in cols /\ \A d \in cols : d <= last
    <3> DEFINE b == a + 16
    <3>1. b \in cols /\ \A d \in cols : d <= b
      BY <1>4
    <3> HIDE DEF b
    <3> QED BY <3>1, Zenon
  <2> HIDE DEF last
  <2> QED BY <1>4, <1>5, <2>1
<1> HIDE DEF first, last
<1>8. (a + (a + 16)) \div 2 = a + 8
  BY SMT
<1> QED BY <1>6, <1>7, <1>8 DEF Middle, first, last, cols, page

(* A label that stands where it should, and no other. *)
Stands(ram, mhz, a) ==
    /\ Labelled(ram, mhz, a)
    /\ ram[<<6, a + 8>>] \in {"FE", "3E"} /\ Nearest(a + 8, mhz * 1000000)

(* A display with these numbers on it, each under its mark, has true labels. *)
LEMMA LabelsAre ==
    ASSUME NEW l, NEW ram, l.ram = ram, Full(ram), NEW M, 0 \notin M,
           \A x \in 0..131 : ram[<<7, x>>] \in M \cup {0},
           \A mhz \in M : \E a \in 0..114 : Stands(ram, mhz, a),
           center_freq \in M \/ {center_freq - 10, center_freq + 10} \subseteq M
    PROVE  LabelsTrue(l)
<1>1. Labels(ram) = M
  <2> DEFINE page == {d \in {7} \X (0..(WIDTH - 1)) : d \in DOMAIN ram}
  <2>1. page = {7} \X (0..131)
    BY DEF Full, Cells, PagesOfRam, WIDTH
  <2> HIDE DEF page
  <2>2. ASSUME NEW c \in page PROVE ram[c] \in M \cup {0}
    <3>1. PICK x \in 0..131 : c = <<7, x>>
      BY <2>1
    <3> QED BY <3>1
  <2>3. ASSUME NEW mhz \in M PROVE \E c \in page : ram[c] = mhz
    <3>1. PICK a \in 0..114 : Stands(ram, mhz, a)
      OBVIOUS
    <3>2. a \in 0..131 /\ a \in a..(a + 17) /\ (a - a) % 6 # 5
      OBVIOUS
    <3>3. ram[<<7, a>>] = mhz
      <4>1. Labelled(ram, mhz, a)
        BY <3>1, SMT DEF Stands
      <4> QED BY <3>2, <4>1 DEF Labelled
    <3> QED BY <2>1, <3>2, <3>3
  <2>4. \A y : y \in Labels(ram) <=> y # 0 /\ \E c \in page : ram[c] = y
    BY DEF Labels, page
  <2>5. ASSUME NEW y PROVE y \in Labels(ram) <=> y \in M
    <3>1. CASE y \in M
      <4>1. y # 0 /\ \E c \in page : ram[c] = y
        BY <2>3, <3>1
      <4> QED BY <2>4, <3>1, <4>1
    <3>2. CASE y \notin M
      <4>1. \A c \in page : ram[c] = y => y = 0
        BY <2>2, <3>2
      <4> QED BY <2>4, <3>2, <4>1
    <3> QED BY <3>1, <3>2
  <2> QED BY <2>5
<1>2. ASSUME NEW mhz \in M
      PROVE  \E c \in {Middle(ram, mhz)} : ram[<<6, c>>] \in {"FE", "3E"} /\ Nearest(c, mhz * 1000000)
  <2>1. PICK a \in 0..114 : Stands(ram, mhz, a)
    OBVIOUS
  <2>2. Middle(ram, mhz) = a + 8
    BY <2>1, MiddleIs, SMT DEF Stands
  <2> QED BY <2>1, <2>2, SMT DEF Stands
<1>3. LabelsTrue(l) <=>
          /\ \A mhz \in Labels(ram) : \E c \in {Middle(ram, mhz)} :
                 ram[<<6, c>>] \in {"FE", "3E"} /\ Nearest(c, mhz * 1000000)
          /\ center_freq \in Labels(ram) \/ {center_freq - 10, center_freq + 10} \subseteq Labels(ram)
  BY SMT DEF LabelsTrue, Labels, Middle
<1> QED BY <1>1, <1>2, <1>3, SMT

(* A channel is nearest to f when it is no more than half a spacing away. *)
LEMMA NearestIs ==
    ASSUME width \in Widths, center_freq \in Int, NEW c \in 0..131, NEW f \in Int
    PROVE  Nearest(c, f) <=> Close(HzOf(width, center_freq, c) - f, Spacing[width])
<1> DEFINE hz == HzOf(width, center_freq, c)
           sp == Spacing[width]
<1>1. hz \in Int /\ sp \in Int
  <2>1. Mid \in Int
    BY DEF Mid, NUM_CHANNELS
  <2>2. sp \in Int
    BY Tables, SMT DEF Widths
  <2> HIDE DEF sp
  <2>3. hz = center_freq * 1000000 + (c - Mid) * sp
    BY SMT DEF HzOf, sp
  <2> HIDE DEF hz
  <2> QED BY <2>1, <2>2, <2>3, SMT
<1>2. Nearest(c, f) <=> 2 * (hz - f) \in (-sp)..sp
  BY SMT DEF Nearest
<1> HIDE DEF hz, sp
<1> QED BY <1>1, <1>2, SMT DEF Close, hz, sp

(* Every ruler is true. *)
LEMMA RulersAreTrue ==
    ASSUME width \in Widths, center_freq \in Int, center_freq % Step[width] = 0,
           NEW l, \A x \in 0..131 : l.ram[<<6, x>>] = Ruler(x)
    PROVE  RulerTrue(l)
<1> DEFINE unit == Unit(width)
           Hz(c) == HzOf(width, center_freq, c)
<1>1. ASSUME NEW c \in 0..131
      PROVE  Ruler(c) = "FE" <=> Nearest(c, RoundTo(Hz(c), unit))
  <2>1. Hz(c) \in Int
    <3>1. Mid \in Int /\ Spacing[width] \in Int
      BY Tables, SMT DEF Mid, NUM_CHANNELS, Widths
    <3> QED BY <3>1, SMT DEF HzOf
  <2>2. RoundTo(Hz(c), unit) \in Int
    <3>0. unit \in {1000000, 10000000}
      BY SMT DEF Unit
    <3> DEFINE f == Hz(c)
    <3> HIDE DEF f
    <3>1. PICK m \in Int : RoundsTo(f, 1000000, m)
      BY <2>1, RoundFinds DEF f
    <3>2. PICK n \in Int : RoundsTo(f, 10000000, n)
      BY <2>1, RoundFinds DEF f
    <3> HIDE DEF RoundTo
    <3> QED BY <3>0, <3>1, <3>2, SMT DEF RoundsTo, f
  <2>3. Nearest(c, RoundTo(Hz(c), unit)) <=> Close(Hz(c) - RoundTo(Hz(c), unit), Spacing[width])
    <3> DEFINE f == RoundTo(Hz(c), unit)
    <3> HIDE DEF f
    <3> QED BY <2>2, NearestIs, SMT DEF f
  <2>4. MarksRound(Ruler(c), width, center_freq, c)
    <3>1. CASE width = "NARROW"
      <4>1. Ruler(c) = narrow_ruler[c]
        BY <3>1 DEF Ruler
      <4> QED BY <3>1, <4>1, NarrowChannel
    <3>2. CASE width = "WIDE"
      <4>1. Ruler(c) = wide_ruler[c + (IF center_freq % 10 # 0 THEN 25 ELSE 0)]
        BY <3>2 DEF Ruler
      <4>2. center_freq % 5 = 0
        BY <3>2, Tables
      <4> QED BY <3>2, <4>1, <4>2, WideChannel
    <3>3. CASE width = "ULTRAWIDE"
      <4>1. Ruler(c) = ultrawide_ruler[c]
        BY <3>3 DEF Ruler
      <4>2. center_freq % 20 = 0
        BY <3>3, Tables
      <4> QED BY <3>3, <4>1, <4>2, UltrawideChannel
    <3> QED BY <3>1, <3>2, <3>3 DEF Widths
  <2> QED BY <2>3, <2>4 DEF MarksRound
<1>2. RulerTrue(l) <=> \A c \in 0..131 : l.ram[<<6, c>>] = "FE" <=> Nearest(c, RoundTo(Hz(c), unit))
  BY SMT DEF RulerTrue, RoundTo, Unit, NUM_CHANNELS
<1> HIDE DEF unit, Hz
<1> QED BY <1>1, <1>2

(* The picture so far: the ruler, the numbers M below it, and nothing from *)
(* column e on.                                                            *)
Picture(ram, M, e) ==
    /\ Full(ram) /\ 0 \notin M
    /\ \A x \in 0..131 : /\ ram[<<6, x>>] = Ruler(x)
                         /\ ram[<<7, x>>] \in M \cup {0}
                         /\ x >= e => ram[<<7, x>>] = 0

(* One more number, to the right of the others, which stay. *)
LEMMA LabelStep ==
    ASSUME NEW ram, NEW M, NEW d \in Int, Picture(ram, M, d),
           NEW c, NEW e, Fits(7, c, 18, e), d <= c, NEW mhz, mhz \notin M, mhz # 0
    PROVE  /\ Picture(Text(ram, c, mhz), M \cup {mhz}, e)
           /\ Labelled(Text(ram, c, mhz), mhz, c)
           /\ \A m \in M : \A a \in Int : Labelled(ram, m, a) => Labelled(Text(ram, c, mhz), m, a)
<1> DEFINE new == Text(ram, c, mhz)
<1>1. Full(new) /\ Adds(ram, new, c, mhz)
  BY TextReads
<1>2. c \in Nat /\ e = c + 18
  BY DEF Fits
<1> HIDE DEF new
<1>3. Picture(new, M \cup {mhz}, e)
  <2>1. 0 \notin M \cup {mhz}
    BY DEF Picture
  <2>2. ASSUME NEW x \in 0..131
        PROVE  /\ new[<<6, x>>] = Ruler(x) /\ new[<<7, x>>] \in M \cup {mhz} \cup {0}
               /\ x >= e => new[<<7, x>>] = 0
    <3>1. /\ ram[<<6, x>>] = Ruler(x) /\ ram[<<7, x>>] \in M \cup {0}
          /\ x >= d => ram[<<7, x>>] = 0
      BY DEF Picture
    <3>2. /\ new[<<6, x>>] = ram[<<6, x>>]
          /\ x \in c..(c + 17) => new[<<7, x>>] \in {0, mhz}
          /\ x \notin c..(c + 17) => new[<<7, x>>] = ram[<<7, x>>]
      BY <1>1 DEF Adds
    <3>3. x >= e => x \notin c..(c + 17) /\ x >= d
      BY <1>2
    <3> QED BY <3>1, <3>2, <3>3
  <2> QED BY <1>1, <2>1, <2>2 DEF Picture
<1>4. Labelled(new, mhz, c)
  <2> SUFFICES ASSUME NEW x \in 0..131
               PROVE  new[<<7, x>>] = mhz <=> x \in c..(c + 17) /\ (x - c) % 6 # 5
    BY DEF Labelled
  <2>1. ram[<<7, x>>] # mhz
    BY DEF Picture
  <2>2. new[<<7, x>>] = IF x \in c..(c + 17) THEN IF (x - c) % 6 = 5 THEN 0 ELSE mhz
                        ELSE ram[<<7, x>>]
    BY <1>1 DEF Adds
  <2> QED BY <2>1, <2>2
<1>5. ASSUME NEW m \in M, NEW a \in Int, Labelled(ram, m, a) PROVE Labelled(new, m, a)
  <2> SUFFICES ASSUME NEW x \in 0..131 PROVE new[<<7, x>>] = m <=> ram[<<7, x>>] = m
    BY <1>5 DEF Labelled
  <2>1. m # mhz /\ m # 0
    BY DEF Picture
  <2>2. x \in c..(c + 17) => ram[<<7, x>>] = 0 /\ new[<<7, x>>] \in {0, mhz}
    <3>1. x \in c..(c + 17) => x >= d
      BY <1>2
    <3> QED BY <1>1, <3>1 DEF Picture, Adds
  <2>3. x \notin c..(c + 17) => new[<<7, x>>] = ram[<<7, x>>]
    BY <1>1 DEF Adds
  <2> QED BY <2>1, <2>2, <2>3
<1> QED BY <1>3, <1>4, <1>5 DEF new

(* Spaces to the right of the numbers change nothing. *)
LEMMA GapStep ==
    ASSUME NEW ram, NEW M, NEW c, NEW e, Picture(ram, M, c), Fits(7, c, 12, e)
    PROVE  /\ Picture(Gap(ram, c), M, e)
           /\ \A m \in M : \A a \in Int : Labelled(ram, m, a) => Labelled(Gap(ram, c), m, a)
<1> DEFINE new == Gap(ram, c)
<1>1. Full(new) /\ Clears(ram, new, c)
  BY GapReads
<1>2. c \in Nat /\ e = c + 12
  BY DEF Fits
<1> HIDE DEF new
<1>3. \A x \in 0..131 : new[<<6, x>>] = ram[<<6, x>>] /\ new[<<7, x>>] = ram[<<7, x>>]
  <2> SUFFICES ASSUME NEW x \in 0..131
               PROVE  new[<<6, x>>] = ram[<<6, x>>] /\ new[<<7, x>>] = ram[<<7, x>>]
    OBVIOUS
  <2>1. x \in c..(c + 11) => ram[<<7, x>>] = 0
    <3>1. x \in c..(c + 11) => x >= c
      BY <1>2
    <3> QED BY <3>1 DEF Picture
  <2> QED BY <1>1, <2>1 DEF Clears
<1>4. Picture(new, M, e)
  <2>1. ASSUME NEW x \in 0..131
        PROVE  /\ new[<<6, x>>] = Ruler(x) /\ new[<<7, x>>] \in M \cup {0}
               /\ x >= e => new[<<7, x>>] = 0
    <3>1. x >= e => x >= c
      BY <1>2
    <3> QED BY <1>3, <3>1 DEF Picture
  <2> QED BY <1>1, <2>1 DEF Picture
<1>5. \A m \in M : \A a \in Int : Labelled(ram, m, a) => Labelled(new, m, a)
  BY <1>3 DEF Labelled
<1> QED BY <1>4, <1>5 DEF new

(* Before the first label there is the ruler alone. *)
LEMMA PictureBegins == Picture(Ruled, {}, 0)
BY RulerIs DEF Picture

(* mhz may stand from column a on: its middle is under a mark, near it. *)
Place(mhz, a) ==
    a \in 0..114 /\ Ruler(a + 8) \in {"FE", "3E"} /\ Nearest(a + 8, mhz * 1000000)

(* What draw_freq leaves: the ruler, and the labels where they should be. *)
Scale(l) ==
    \E ram, e : /\ l = Panel(On, 7, e, ram)
                /\ \A x \in 0..131 : ram[<<6, x>>] = Ruler(x)
                /\ LabelsTrue(l)

(* Numbers that stand in their places are the scale. *)
LEMMA ScaleIs ==
    ASSUME NEW ram, NEW M, NEW d, NEW e, Picture(ram, M, d),
           \A mhz \in M : \E a \in 0..114 : Labelled(ram, mhz, a) /\ Place(mhz, a),
           center_freq \in M \/ {center_freq - 10, center_freq + 10} \subseteq M
    PROVE  Scale(Panel(On, 7, e, ram))
<1> DEFINE l == Panel(On, 7, e, ram)
<1>1. l.ram = ram
  BY DEF Panel
<1> HIDE DEF l
<1>2. Full(ram) /\ 0 \notin M /\ \A x \in 0..131 : ram[<<7, x>>] \in M \cup {0}
  BY DEF Picture
<1>3. \A x \in 0..131 : ram[<<6, x>>] = Ruler(x)
  BY DEF Picture
<1>4. \A mhz \in M : \E a \in 0..114 : Stands(ram, mhz, a)
  <2> SUFFICES ASSUME NEW mhz \in M PROVE \E a \in 0..114 : Stands(ram, mhz, a)
    OBVIOUS
  <2>1. PICK a \in 0..114 : Labelled(ram, mhz, a) /\ Place(mhz, a)
    OBVIOUS
  <2>2. a + 8 \in 0..131
    OBVIOUS
  <2>3. ram[<<6, a + 8>>] = Ruler(a + 8)
    BY <1>3, <2>2
  <2>4. Stands(ram, mhz, a)
    BY <2>1, <2>3, SMT DEF Stands, Place
  <2> QED BY <2>4
<1>5. LabelsTrue(l)
  BY <1>1, <1>2, <1>4, LabelsAre
<1> QED BY <1>3, <1>5 DEF Scale, l

(* Three labels, the middle one that of the centre. *)
LEMMA ThreeLabels ==
    ASSUME NEW a \in Int, NEW b \in Int, NEW c \in Int, 0 < a, a < b, b < c, center_freq = b,
           NEW i \in Int, NEW j \in Int, NEW k \in Int,
           NEW p \in Int, NEW q \in Int, NEW r \in Int,
           Fits(7, i, 18, p), Fits(7, j, 18, q), Fits(7, k, 18, r), 0 <= i, p <= j, q <= k,
           Placed(7, p), Placed(7, q), Place(a, i), Place(b, j), Place(c, k)
    PROVE  Scale(LabelAt(LabelAt(LabelAt(Panel(On, 6, 132, Ruled), i, a), j, b), k, c))
<1> DEFINE r1 == Text(Ruled, i, a)
           r2 == Text(r1, j, b)
           r3 == Text(r2, k, c)
<1> HIDE DEF r1, r2, r3
<1>1. Picture(r1, {a}, p) /\ Labelled(r1, a, i)
  <2>1. a \notin {} /\ a # 0 /\ {} \cup {a} = {a}
    OBVIOUS
  <2> QED BY <2>1, PictureBegins, LabelStep DEF r1
<1>2. Picture(r2, {a, b}, q) /\ Labelled(r2, a, i) /\ Labelled(r2, b, j)
  <2> DEFINE M == {a}
  <2>1. b \notin M /\ b # 0 /\ M \cup {b} = {a, b} /\ a \in M
    OBVIOUS
  <2>2. Picture(r1, M, p)
    BY <1>1
  <2> HIDE DEF M
  <2>3. /\ Picture(r2, M \cup {b}, q) /\ Labelled(r2, b, j)
        /\ \A m \in M : \A n \in Int : Labelled(r1, m, n) => Labelled(r2, m, n)
    BY <2>1, <2>2, LabelStep DEF r2
  <2> QED BY <1>1, <2>1, <2>3
<1>3. Picture(r3, {a, b, c}, r) /\ Labelled(r3, a, i) /\ Labelled(r3, b, j) /\ Labelled(r3, c, k)
  <2> DEFINE M == {a, b}
  <2>1. c \notin M /\ c # 0 /\ M \cup {c} = {a, b, c} /\ a \in M /\ b \in M
    OBVIOUS
  <2>2. Picture(r2, M, q)
    BY <1>2
  <2> HIDE DEF M
  <2>3. /\ Picture(r3, M \cup {c}, r) /\ Labelled(r3, c, k)
        /\ \A m \in M : \A n \in Int : Labelled(r2, m, n) => Labelled(r3, m, n)
    BY <2>1, <2>2, LabelStep DEF r3
  <2> QED BY <1>2, <2>1, <2>3
<1>4. LabelAt(Panel(On, 6, 132, Ruled), i, a) = Panel(On, 7, p, r1)
  <2>1. Placed(6, 132)
    BY DEF Placed
  <2> QED BY <2>1, PictureBegins, LabelIs DEF Picture, r1
<1>5. LabelAt(Panel(On, 7, p, r1), j, b) = Panel(On, 7, q, r2)
  BY <1>1, LabelIs DEF Picture, r2
<1>6. LabelAt(Panel(On, 7, q, r2), k, c) = Panel(On, 7, r, r3)
  BY <1>2, LabelIs DEF Picture, r3
<1>7. Scale(Panel(On, 7, r, r3))
  <2> DEFINE M == {a, b, c}
  <2>1. \A mhz \in M : \E d \in 0..114 : Labelled(r3, mhz, d) /\ Place(mhz, d)
    <3>1. i \in 0..114 /\ j \in 0..114 /\ k \in 0..114
      BY SMT DEF Place
    <3> QED BY <1>3, <3>1
  <2>2. center_freq \in M /\ Picture(r3, M, r)
    BY <1>3
  <2> HIDE DEF M
  <2> QED BY <2>1, <2>2, ScaleIs
<1> QED BY <1>4, <1>5, <1>6, <1>7

(* The labels of the narrow plan, *)
LEMMA NarrowScale ==
    ASSUME width = "NARROW", center_freq \in Nat, center_freq > 100
    PROVE  Scale(draw_freq(Panel(On, 6, 132, Ruled)))
<1> DEFINE a == center_freq - 2
           b == center_freq
           c == center_freq + 2
<1>1. /\ Fits(7, 18, 18, 36) /\ Fits(7, 58, 18, 76) /\ Fits(7, 98, 18, 116)
      /\ Placed(7, 36) /\ Placed(7, 76)
  BY DEF Fits, Placed, WIDTH
<1>2. /\ a \in Int /\ b \in Int /\ c \in Int /\ 0 < a /\ a < b /\ b < c
  OBVIOUS
<1>3. draw_freq(Panel(On, 6, 132, Ruled))
      = LabelAt(LabelAt(LabelAt(Panel(On, 6, 132, Ruled), 18, a), 58, b), 98, c)
  BY DEF draw_freq
<1>4. Place(a, 18) /\ Place(b, 58) /\ Place(c, 98)
  <2>1. /\ HzOf(width, center_freq, 26) - a * 1000000 = 480
        /\ HzOf(width, center_freq, 66) - b * 1000000 = 0
        /\ HzOf(width, center_freq, 106) - c * 1000000 = -480
    BY Tables, SMT DEF HzOf, Mid, NUM_CHANNELS
  <2>2. Close(480, Spacing[width]) /\ Close(0, Spacing[width]) /\ Close(-480, Spacing[width])
    BY Tables, SMT DEF Close
  <2>3. a * 1000000 \in Int /\ b * 1000000 \in Int /\ c * 1000000 \in Int /\ width \in Widths
    BY <1>2, SMT DEF Widths
  <2>4. Nearest(26, a * 1000000) /\ Nearest(66, b * 1000000) /\ Nearest(106, c * 1000000)
    BY <2>1, <2>2, <2>3, NearestIs, SMT
  <2>5. Ruler(26) = "FE" /\ Ruler(66) = "FE" /\ Ruler(106) = "FE"
    BY LongMarks, SMT DEF Ruler
  <2> QED BY <2>4, <2>5, SMT DEF Place
<1>5. center_freq = b
  OBVIOUS
<1> HIDE DEF a, b, c
<1> QED BY <1>1, <1>2, <1>3, <1>4, <1>5, ThreeLabels

(* of the wide one, *)
LEMMA WideScale ==
    ASSUME width = "WIDE", center_freq \in Nat, center_freq > 100, center_freq % 5 = 0
    PROVE  Scale(draw_freq(Panel(On, 6, 132, Ruled)))
<1> DEFINE a == center_freq - 10
           b == center_freq
           c == center_freq + 10
<1>1. /\ Fits(7, 8, 18, 26) /\ Fits(7, 58, 18, 76) /\ Fits(7, 108, 18, 126)
      /\ Placed(7, 26) /\ Placed(7, 76)
  BY DEF Fits, Placed, WIDTH
<1>2. /\ a \in Int /\ b \in Int /\ c \in Int /\ 0 < a /\ a < b /\ b < c
  OBVIOUS
<1>3. draw_freq(Panel(On, 6, 132, Ruled))
      = LabelAt(LabelAt(LabelAt(Panel(On, 6, 132, Ruled), 8, a), 58, b), 108, c)
  BY DEF draw_freq
<1>4. Place(a, 8) /\ Place(b, 58) /\ Place(c, 108)
  <2>1. /\ HzOf(width, center_freq, 16) - a * 1000000 = 2400
        /\ HzOf(width, center_freq, 66) - b * 1000000 = 0
        /\ HzOf(width, center_freq, 116) - c * 1000000 = -2400
    BY Tables, SMT DEF HzOf, Mid, NUM_CHANNELS
  <2>2. Close(2400, Spacing[width]) /\ Close(0, Spacing[width]) /\ Close(-2400, Spacing[width])
    BY Tables, SMT DEF Close
  <2>3. a * 1000000 \in Int /\ b * 1000000 \in Int /\ c * 1000000 \in Int /\ width \in Widths
    BY <1>2, SMT DEF Widths
  <2>4. Nearest(16, a * 1000000) /\ Nearest(66, b * 1000000) /\ Nearest(116, c * 1000000)
    BY <2>1, <2>2, <2>3, NearestIs, SMT
  <2>5. ASSUME NEW x \in {16, 66, 116} PROVE Ruler(x) \in {"FE", "3E"}
    <3>1. CASE center_freq % 10 # 0
      <4>1. x + 25 \in 0..156 /\ (x + 25) % 50 = 41
        BY SMT
      <4>2. wide_ruler[x + 25] \in {"FE", "3E"}
        BY <4>1, LongMarks
      <4> QED BY <3>1, <4>2 DEF Ruler
    <3>2. CASE center_freq % 10 = 0
      <4>1. x \in 0..156 /\ x % 50 = 16 /\ x + 0 = x
        BY SMT
      <4>2. wide_ruler[x] = "FE"
        BY <4>1, LongMarks
      <4> QED BY <3>2, <4>1, <4>2 DEF Ruler
    <3> QED BY <3>1, <3>2
  <2> QED BY <2>4, <2>5, SMT DEF Place
<1>5. center_freq = b
  OBVIOUS
<1> HIDE DEF a, b, c
<1> QED BY <1>1, <1>2, <1>3, <1>4, <1>5, ThreeLabels

(* Spaces and a number, to the right of the others. *)
Spaced(ram, c, d, mhz) == Text(Gap(ram, c), d, mhz)

(* After two spaces one more number: the others stay, *)
LEMMA SpacedStep ==
    ASSUME NEW ram, NEW M, NEW c, NEW d, NEW e, Picture(ram, M, c),
           Fits(7, c, 12, d), Fits(7, d, 18, e), NEW mhz, mhz \notin M, mhz # 0
    PROVE  /\ Picture(Spaced(ram, c, d, mhz), M \cup {mhz}, e)
           /\ Labelled(Spaced(ram, c, d, mhz), mhz, d)
           /\ \A m \in M : \A a \in Int : Labelled(ram, m, a) => Labelled(Spaced(ram, c, d, mhz), m, a)
<1> DEFINE gap == Gap(ram, c)
<1>1. /\ Picture(gap, M, d)
      /\ \A m \in M : \A a \in Int : Labelled(ram, m, a) => Labelled(gap, m, a)
  BY GapStep
<1> HIDE DEF gap
<1>2. /\ Picture(Text(gap, d, mhz), M \cup {mhz}, e)
      /\ Labelled(Text(gap, d, mhz), mhz, d)
      /\ \A m \in M : \A a \in Int : Labelled(gap, m, a) => Labelled(Text(gap, d, mhz), m, a)
  <2>1. d \in Int /\ d <= d
    BY DEF Fits
  <2> QED BY <1>1, <2>1, LabelStep
<1> QED BY <1>1, <1>2 DEF Spaced, gap

(* and this is what the two calls leave. *)
LEMMA SpacedIs ==
    ASSUME NEW ram, NEW M, NEW c, NEW d, NEW e, Picture(ram, M, c),
           Fits(7, c, 12, d), Fits(7, d, 18, e), NEW mhz
    PROVE  Number(Spaces(Panel(On, 7, c, ram)), mhz) = Panel(On, 7, e, Spaced(ram, c, d, mhz))
<1>1. Full(ram)
  BY DEF Picture
<1>2. Spaces(Panel(On, 7, c, ram)) = Panel(On, 7, d, Gap(ram, c))
  BY <1>1, SpacesAre
<1>3. Full(Gap(ram, c))
  BY GapReads
<1>4. Number(Panel(On, 7, d, Gap(ram, c)), mhz) = Panel(On, 7, e, Text(Gap(ram, c), d, mhz))
  BY <1>3, NumberIs
<1> QED BY <1>2, <1>4 DEF Spaced

(* The labels of the ultrawide plan, one behind the other. *)
LEMMA UltrawideScale ==
    ASSUME width = "ULTRAWIDE", center_freq \in Nat, center_freq > 100
    PROVE  Scale(draw_freq(Panel(On, 6, 132, Ruled)))
<1> DEFINE a == center_freq - 30
           b == center_freq - 10
           c == center_freq + 10
           d == center_freq + 30
           r1 == Text(Ruled, 13, a)
           r2 == Spaced(r1, 31, 43, b)
           r3 == Spaced(r2, 61, 73, c)
           r4 == Spaced(r3, 91, 103, d)
<1>1. /\ Fits(7, 13, 18, 31) /\ Fits(7, 31, 12, 43) /\ Fits(7, 43, 18, 61) /\ Fits(7, 61, 12, 73)
      /\ Fits(7, 73, 18, 91) /\ Fits(7, 91, 12, 103) /\ Fits(7, 103, 18, 121) /\ Placed(6, 132)
  BY DEF Fits, Placed, WIDTH
<1>2. /\ a \in Int /\ b \in Int /\ c \in Int /\ d \in Int /\ 0 < a /\ a < b /\ b < c /\ c < d
      /\ {center_freq - 10, center_freq + 10} = {b, c}
  OBVIOUS
<1>3. draw_freq(Panel(On, 6, 132, Ruled))
      = Number(Spaces(Number(Spaces(Number(Spaces(
            LabelAt(Panel(On, 6, 132, Ruled), 13, a)), b)), c)), d)
  BY DEF draw_freq
<1>4. Place(a, 13) /\ Place(b, 43) /\ Place(c, 73) /\ Place(d, 103)
  <2>1. /\ HzOf(width, center_freq, 21) - a * 1000000 = 7320
        /\ HzOf(width, center_freq, 51) - b * 1000000 = 2440
        /\ HzOf(width, center_freq, 81) - c * 1000000 = -2440
        /\ HzOf(width, center_freq, 111) - d * 1000000 = -7320
    BY Tables, SMT DEF HzOf, Mid, NUM_CHANNELS
  <2>2. /\ Close(7320, Spacing[width]) /\ Close(2440, Spacing[width])
        /\ Close(-7320, Spacing[width]) /\ Close(-2440, Spacing[width])
    BY Tables, SMT DEF Close
  <2>3. /\ a * 1000000 \in Int /\ b * 1000000 \in Int /\ c * 1000000 \in Int /\ d * 1000000 \in Int
        /\ width \in Widths
    BY <1>2, SMT DEF Widths
  <2>4. /\ Nearest(21, a * 1000000) /\ Nearest(51, b * 1000000)
        /\ Nearest(81, c * 1000000) /\ Nearest(111, d * 1000000)
    BY <2>1, <2>2, <2>3, NearestIs, SMT
  <2>5. ASSUME NEW x \in {21, 51, 81, 111} PROVE Ruler(x) \in {"FE", "3E"}
    <3>1. x \in 0..131 /\ x \in 0..156 /\ x % 15 = 6
      BY SMT
    <3>2. ultrawide_ruler[x] = "FE"
      BY <3>1, LongMarks
    <3> QED BY <3>2 DEF Ruler
  <2> QED BY <2>4, <2>5, SMT DEF Place
<1> HIDE DEF a, b, c, d, r1, r2, r3, r4
<1>5. Picture(r1, {a}, 31) /\ Labelled(r1, a, 13)
  <2>1. a \notin {} /\ a # 0 /\ {} \cup {a} = {a}
    BY <1>2
  <2> QED BY <1>1, <2>1, PictureBegins, LabelStep DEF r1
<1>6. Picture(r2, {a, b}, 61) /\ Labelled(r2, a, 13) /\ Labelled(r2, b, 43)
  <2> DEFINE M == {a}
  <2>1. b \notin M /\ b # 0 /\ M \cup {b} = {a, b} /\ a \in M
    BY <1>2
  <2>2. Picture(r1, M, 31) /\ Fits(7, 31, 12, 43) /\ Fits(7, 43, 18, 61)
    BY <1>1, <1>5
  <2> HIDE DEF M
  <2>3. /\ Picture(r2, M \cup {b}, 61) /\ Labelled(r2, b, 43)
        /\ \A m \in M : \A n \in Int : Labelled(r1, m, n) => Labelled(r2, m, n)
    BY <2>1, <2>2, SpacedStep DEF r2
  <2> QED BY <1>5, <2>1, <2>3
<1>7. /\ Picture(r3, {a, b, c}, 91)
      /\ Labelled(r3, a, 13) /\ Labelled(r3, b, 43) /\ Labelled(r3, c, 73)
  <2> DEFINE M == {a, b}
  <2>1. c \notin M /\ c # 0 /\ M \cup {c} = {a, b, c} /\ a \in M /\ b \in M
    BY <1>2
  <2>2. Picture(r2, M, 61) /\ Fits(7, 61, 12, 73) /\ Fits(7, 73, 18, 91)
    BY <1>1, <1>6
  <2> HIDE DEF M
  <2>3. /\ Picture(r3, M \cup {c}, 91) /\ Labelled(r3, c, 73)
        /\ \A m \in M : \A n \in Int : Labelled(r2, m, n) => Labelled(r3, m, n)
    BY <2>1, <2>2, SpacedStep DEF r3
  <2> QED BY <1>6, <2>1, <2>3
<1>8. /\ Picture(r4, {a, b, c, d}, 121)
      /\ Labelled(r4, a, 13) /\ Labelled(r4, b, 43) /\ Labelled(r4, c, 73) /\ Labelled(r4, d, 103)
  <2> DEFINE M == {a, b, c}
  <2>1. d \notin M /\ d # 0 /\ M \cup {d} = {a, b, c, d} /\ a \in M /\ b \in M /\ c \in M
    BY <1>2
  <2>2. Picture(r3, M, 91) /\ Fits(7, 91, 12, 103) /\ Fits(7, 103, 18, 121)
    BY <1>1, <1>7
  <2> HIDE DEF M
  <2>3. /\ Picture(r4, M \cup {d}, 121) /\ Labelled(r4, d, 103)
        /\ \A m \in M : \A n \in Int : Labelled(r3, m, n) => Labelled(r4, m, n)
    BY <2>1, <2>2, SpacedStep DEF r4
  <2> QED BY <1>7, <2>1, <2>3
<1>9. LabelAt(Panel(On, 6, 132, Ruled), 13, a) = Panel(On, 7, 31, r1)
  BY <1>1, PictureBegins, LabelIs DEF Picture, r1
<1>10. Number(Spaces(Panel(On, 7, 31, r1)), b) = Panel(On, 7, 61, r2)
  BY <1>1, <1>5, SpacedIs DEF r2
<1>11. Number(Spaces(Panel(On, 7, 61, r2)), c) = Panel(On, 7, 91, r3)
  BY <1>1, <1>6, SpacedIs DEF r3
<1>12. Number(Spaces(Panel(On, 7, 91, r3)), d) = Panel(On, 7, 121, r4)
  BY <1>1, <1>7, SpacedIs DEF r4
<1>13. Scale(Panel(On, 7, 121, r4))
  <2> DEFINE M == {a, b, c, d}
  <2>1. \A mhz \in M : \E n \in 0..114 : Labelled(r4, mhz, n) /\ Place(mhz, n)
    BY <1>4, <1>8
  <2>2. {center_freq - 10, center_freq + 10} \subseteq M /\ Picture(r4, M, 121)
    BY <1>2, <1>8
  <2> HIDE DEF M
  <2> QED BY <2>1, <2>2, ScaleIs
<1> QED BY <1>3, <1>9, <1>10, <1>11, <1>12, <1>13

(* The picture is one of the plan in force, whatever was tuned to before:  *)
(* set_center_freq (specan.c:317-344) clears the display and draws the     *)
(* ruler, whose long marks stand at the round frequencies, and the labels, *)
(* each under a mark at the channel nearest to it, and LCDReset leaves a   *)
(* display that sleep turned off on again: for every width and centre.     *)
THEOREM PictureIsTrue == Spec => []PictureTrue
<1> DEFINE scale == draw_freq(draw_ruler(clear(LCDReset(LCDPowerSave(PowerUp)), 0)))
           ScaleTrue == /\ RulerTrue(scale) /\ LabelsTrue(scale)
                        /\ scale.on /\ ~scale.points /\ scale.reverse = 0 /\ scale.start = 0
<1>1. ASSUME AnInv, pc = "sweep" PROVE ScaleTrue
  <2>1. /\ width \in Widths /\ band \in Bands /\ center_freq \in Int
        /\ Centre(width, band, center_freq)
    BY <1>1 DEF AnInv, TypeOK, Planned, Centre
  <2>2. center_freq \in Nat /\ center_freq > 100 /\ center_freq % Step[width] = 0
    BY <2>1, Limits, SMT DEF Centre, Widths, Bands
  <2>3. scale = draw_freq(Panel(On, 6, 132, Ruled))
    BY ClearIs, RulerIs
  <2>4. Scale(scale)
    <3>1. CASE width = "NARROW"
      BY <2>2, <2>3, <3>1, NarrowScale
    <3>2. CASE width = "WIDE"
      BY <2>2, <2>3, <3>2, WideScale, Tables
    <3>3. CASE width = "ULTRAWIDE"
      BY <2>2, <2>3, <3>3, UltrawideScale
    <3> QED BY <2>1, <3>1, <3>2, <3>3 DEF Widths
  <2> HIDE DEF scale
  <2>5. PICK ram, e : /\ scale = Panel(On, 7, e, ram)
                      /\ \A x \in 0..131 : ram[<<6, x>>] = Ruler(x)
                      /\ LabelsTrue(scale)
    BY <2>4 DEF Scale
  <2>6. scale.ram = ram /\ scale.reverse = 0 /\ scale.start = 0
    BY <2>5 DEF Panel
  <2>7. scale.on = On
    BY <2>5 DEF Panel
  <2>8. scale.points = Off
    BY <2>5 DEF Panel
  <2>9. RulerTrue(scale)
    BY <2>1, <2>2, <2>5, <2>6, RulersAreTrue
  <2> QED BY <2>5, <2>6, <2>7, <2>8, <2>9 DEF On, Off
<1>2. AnInv /\ NoStaleBar => PictureTrue
  <2> HIDE DEF scale
  <2> QED BY <1>1 DEF PictureTrue, scale
<1> QED BY AnInvariant, NoBarIsLeft, <1>2, PTL
---------------------------------------------------------------------------
(* The keyboard *)

(* What realkeyscan finds in row r, r itself if nothing. *)
ColAt(r) == CHOOSE col \in Low(0..r) : \A l \in Low(0..r) : l <= col

(* A whole scan of the contacts as they are gives k. *)
Scanned(k) ==
    \/ \E r \in Rows : /\ ColAt(r) # r
                       /\ \A q \in Rows : q < r => ColAt(q) = q
                       /\ k = KEY(r, ColAt(r))
    \/ (\A r \in Rows : ColAt(r) = r) /\ k = None

(* A scan has at most eight rows: between its first and its last only one  *)
(* contact changes.  A closed one whose row was read without finding it    *)
(* has closed since.                                                       *)
Fresh == \A k \in down : k[1] < row => still + k[1] < row

(* The last scan found the column of k in row r, further down than k is.   *)
(* The contact stays closed until the scan under way has read its row.     *)
Phantom(k, r) ==
    /\ key = KEY(r, k[2]) /\ k[1] < r /\ r < k[2]
    /\ row <= k[1] /\ still <= r - k[1] + row

(* What the last scan found was pressed, or the scan under way does not    *)
(* find it.                                                                *)
Pending ==
    phase = "test" =>
        Chained(seen) \/ key = None \/ key \in Names(seen)
        \/ \E k \in down : \E r \in Rows : Phantom(k, r)

(* From the first return of getkey on, the contacts being still, every     *)
(* scan gives the same.                                                    *)
Steady ==
    calls >= 1 =>
        /\ \A r \in Rows : r < row => ColAt(r) = r
        /\ phase # "first" => phase = "test" /\ Scanned(key)
        /\ calls = 2 => Scanned(active)

KbTyped ==
    /\ down \subseteq Places /\ down \subseteq seen
    /\ still \in 0..Hold
    /\ row \in Rows
    /\ phase \in {"first", "test", "again"}
    /\ calls \in 0..2

KbInv == KbTyped /\ Fresh /\ Pending /\ Steady

(* The keys of each row. *)
LEMMA RowKeys ==
    ASSUME NEW r \in Rows, NEW c \in Lines, r < c
    PROVE  /\ r = 0 => KEY(r, c) \in {None, "o", "k", "n", "m", "KPWR", "p"}
           /\ r = 1 => KEY(r, c) \in {"y", "g", "c", "space", "<", "comma", "KMNU", ">"}
           /\ r = 2 => KEY(r, c) \in {"q", "w", "e", "r", "t", "u", "i"}
           /\ r = 3 => KEY(r, c) \in {"a", "s", "d", "f", "h", "j"}
           /\ r = 4 => KEY(r, c) \in {"KCAP", "z", "x", "v", "b"}
           /\ r = 5 => KEY(r, c) \in {"KSPK", "KALT", "KONL", "BS"}
           /\ r = 6 => KEY(r, c) \in {"KBYE", "^", "KDWN"}
           /\ r = 7 => KEY(r, c) \in {"CR", "l"}
<1>1. /\ keychars[0] = <<None, "o", "k", "n", "m", "KPWR", "p", None, None>>
      /\ keychars[1] = <<"y", "g", "c", "space", "<", "comma", "KMNU", ">">>
      /\ keychars[2] = <<"q", "w", "e", "r", "t", "u", "i">>
      /\ keychars[3] = <<"a", "s", "d", "f", "h", "j">>
      /\ keychars[4] = <<"KCAP", "z", "x", "v", "b">>
      /\ keychars[5] = <<"KSPK", "KALT", "KONL", "BS">>
      /\ keychars[6] = <<"KBYE", "^", "KDWN">>
      /\ keychars[7] = <<"CR", "l">>
  BY DEF keychars, Rows
<1>2. c - r \in 1..(9 - r)
  BY DEF Rows, Lines
<1> DEFINE i == c - r
<1>3. KEY(r, c) = keychars[r][i]
  BY DEF KEY
<1> HIDE DEF i
<1>4. CASE r = 0
  <2>1. i \in 1..9
    BY <1>2, <1>4 DEF i
  <2>2. keychars[0][i] \in {None, "o", "k", "n", "m", "KPWR", "p"}
    BY <1>1, <2>1
  <2> QED BY <1>3, <1>4, <2>2
<1>5. CASE r = 1
  <2>1. i \in 1..8
    BY <1>2, <1>5 DEF i
  <2>2. keychars[1][i] \in {"y", "g", "c", "space", "<", "comma", "KMNU", ">"}
    BY <1>1, <2>1
  <2> QED BY <1>3, <1>5, <2>2
<1>6. CASE r = 2
  <2>1. i \in 1..7
    BY <1>2, <1>6 DEF i
  <2>2. keychars[2][i] \in {"q", "w", "e", "r", "t", "u", "i"}
    BY <1>1, <2>1
  <2> QED BY <1>3, <1>6, <2>2
<1>7. CASE r = 3
  <2>1. i \in 1..6
    BY <1>2, <1>7 DEF i
  <2>2. keychars[3][i] \in {"a", "s", "d", "f", "h", "j"}
    BY <1>1, <2>1
  <2> QED BY <1>3, <1>7, <2>2
<1>8. CASE r = 4
  <2>1. i \in 1..5
    BY <1>2, <1>8 DEF i
  <2>2. keychars[4][i] \in {"KCAP", "z", "x", "v", "b"}
    BY <1>1, <2>1
  <2> QED BY <1>3, <1>8, <2>2
<1>9. CASE r = 5
  <2>1. i \in 1..4
    BY <1>2, <1>9 DEF i
  <2>2. keychars[5][i] \in {"KSPK", "KALT", "KONL", "BS"}
    BY <1>1, <2>1
  <2> QED BY <1>3, <1>9, <2>2
<1>10. CASE r = 6
  <2>1. i \in 1..3
    BY <1>2, <1>10 DEF i
  <2>2. keychars[6][i] \in {"KBYE", "^", "KDWN"}
    BY <1>1, <2>1
  <2> QED BY <1>3, <1>10, <2>2
<1>11. CASE r = 7
  <2>1. i \in 1..2
    BY <1>2, <1>11 DEF i
  <2>2. keychars[7][i] \in {"CR", "l"}
    BY <1>1, <2>1
  <2> QED BY <1>3, <1>11, <2>2
<1> QED BY <1>4, <1>5, <1>6, <1>7, <1>8, <1>9, <1>10, <1>11 DEF Rows

(* A key tells its row, and below the first row is one everywhere. *)
LEMMA RowsDiffer ==
    ASSUME NEW r \in Rows, NEW c \in Lines, r < c, NEW q \in Rows, NEW d \in Lines, q < d, r < q
    PROVE  KEY(r, c) # KEY(q, d) /\ KEY(q, d) # None
<1> DEFINE a == KEY(r, c)
           b == KEY(q, d)
<1>1. /\ r = 0 => a \in {None, "o", "k", "n", "m", "KPWR", "p"}
      /\ r = 1 => a \in {"y", "g", "c", "space", "<", "comma", "KMNU", ">"}
      /\ r = 2 => a \in {"q", "w", "e", "r", "t", "u", "i"}
      /\ r = 3 => a \in {"a", "s", "d", "f", "h", "j"}
      /\ r = 4 => a \in {"KCAP", "z", "x", "v", "b"}
      /\ r = 5 => a \in {"KSPK", "KALT", "KONL", "BS"}
      /\ r = 6 => a \in {"KBYE", "^", "KDWN"}
  BY RowKeys
<1>2. /\ q = 1 => b \in {"y", "g", "c", "space", "<", "comma", "KMNU", ">"}
      /\ q = 2 => b \in {"q", "w", "e", "r", "t", "u", "i"}
      /\ q = 3 => b \in {"a", "s", "d", "f", "h", "j"}
      /\ q = 4 => b \in {"KCAP", "z", "x", "v", "b"}
      /\ q = 5 => b \in {"KSPK", "KALT", "KONL", "BS"}
      /\ q = 6 => b \in {"KBYE", "^", "KDWN"}
      /\ q = 7 => b \in {"CR", "l"}
  BY RowKeys
<1> HIDE DEF a, b
<1>3. r \in 0..6 /\ q \in 1..7
  BY DEF Rows
<1>4. a # b
  <2>1. CASE r = 0
    BY <1>1, <1>2, <1>3, <2>1 DEF None
  <2>2. CASE r = 1
    BY <1>1, <1>2, <1>3, <2>2
  <2>3. CASE r = 2
    BY <1>1, <1>2, <1>3, <2>3
  <2>4. CASE r = 3
    BY <1>1, <1>2, <1>3, <2>4
  <2>5. CASE r = 4
    BY <1>1, <1>2, <1>3, <2>5
  <2>6. CASE r = 5
    BY <1>1, <1>2, <1>3, <2>6
  <2>7. CASE r = 6
    BY <1>1, <1>2, <1>3, <2>7
  <2> QED BY <1>3, <2>1, <2>2, <2>3, <2>4, <2>5, <2>6, <2>7
<1>5. b # None
  BY <1>2, <1>3 DEF None
<1> QED BY <1>4, <1>5 DEF a, b

(* A set of lines has a last one. *)
LEMMA LastLine ==
    ASSUME NEW S, S \subseteq Lines, S # {}
    PROVE  \E c \in S : \A l \in S : l <= c
<1>1. \A l \in S : l \in 0..9
  BY DEF Lines
<1>2. CASE 9 \in S
  BY <1>1, <1>2
<1>3. CASE 8 \in S /\ 9 \notin S
  BY <1>1, <1>3
<1>4. CASE 7 \in S /\ \A n \in 8..9 : n \notin S
  BY <1>1, <1>4
<1>5. CASE 6 \in S /\ \A n \in 7..9 : n \notin S
  BY <1>1, <1>5
<1>6. CASE 5 \in S /\ \A n \in 6..9 : n \notin S
  BY <1>1, <1>6
<1>7. CASE \A n \in 5..9 : n \notin S
  <2>1. CASE 4 \in S
    BY <1>1, <1>7, <2>1
  <2>2. CASE 3 \in S /\ 4 \notin S
    BY <1>1, <1>7, <2>2
  <2>3. CASE 2 \in S /\ \A n \in 3..4 : n \notin S
    BY <1>1, <1>7, <2>3
  <2>4. CASE 1 \in S /\ \A n \in 2..4 : n \notin S
    BY <1>1, <1>7, <2>4
  <2>5. CASE \A n \in 1..4 : n \notin S
    BY <1>1, <1>7, <2>5
  <2> QED BY <2>1, <2>2, <2>3, <2>4, <2>5
<1> QED BY <1>2, <1>3, <1>4, <1>5, <1>6, <1>7

(* What reads low in row r. *)
LEMMA LowLines ==
    ASSUME down \subseteq Places, NEW r \in Rows
    PROVE  /\ Low(0..r) \subseteq Lines
           /\ 0..r \subseteq Low(0..r)
           /\ \A k \in down : k[1] <= r => k[2] \in Low(0..r)
<1>1. \A k \in down : k[1] \in Lines /\ k[2] \in Lines /\ k[1] \in Int /\ k[1] >= 0
  BY DEF Places, Rows, Lines
<1>2. \A S : S \subseteq Lines => Join(S) \subseteq Lines /\ S \subseteq Join(S)
  BY <1>1 DEF Join
<1>3. 0..r \subseteq Lines
  BY DEF Rows, Lines
<1>4. Join(0..r) \subseteq Low(0..r) /\ Low(0..r) \subseteq Lines /\ 0..r \subseteq Join(0..r)
  BY <1>2, <1>3 DEF Low
<1>5. ASSUME NEW k \in down, k[1] <= r PROVE k[2] \in Join(0..r)
  <2>1. k[1] \in 0..r
    BY <1>1, <1>5 DEF Rows
  <2> QED BY <2>1 DEF Join
<1> QED BY <1>4, <1>5

(* The column a row of the scan reads is the highest line that is low. *)
LEMMA ColIs ==
    ASSUME down \subseteq Places, NEW r \in Rows
    PROVE  /\ ColAt(r) \in Low(0..r) /\ \A l \in Low(0..r) : l <= ColAt(r)
           /\ ColAt(r) \in Lines /\ r <= ColAt(r)
           /\ \A k \in down : k[1] <= r => k[2] <= ColAt(r)
<1>1. /\ Low(0..r) \subseteq Lines /\ 0..r \subseteq Low(0..r)
      /\ \A k \in down : k[1] <= r => k[2] \in Low(0..r)
  BY LowLines
<1>2. r \in Low(0..r)
  BY <1>1 DEF Rows
<1>3. \E c \in Low(0..r) : \A l \in Low(0..r) : l <= c
  BY <1>1, <1>2, LastLine
<1>4. ColAt(r) \in Low(0..r) /\ \A l \in Low(0..r) : l <= ColAt(r)
  BY <1>3 DEF ColAt
<1> QED BY <1>1, <1>2, <1>4

(* A column that is found is that of a contact in this row, or in one that *)
(* is still driven, unless one contact leads to another.                   *)
LEMMA FoundIs ==
    ASSUME down \subseteq Places, NEW r \in Rows, ColAt(r) # r, ~Chained(down)
    PROVE  r < ColAt(r) /\ \E k \in down : k[1] <= r /\ k[2] = ColAt(r)
<1> DEFINE c == ColAt(r)
           direct == Join(0..r)
<1>1. /\ c \in Low(0..r) /\ (\A l \in Low(0..r) : l <= c) /\ c \in Lines /\ r <= c
      /\ c \in Int /\ r \in Int /\ r >= 0
  <2>1. /\ c \in Low(0..r) /\ (\A l \in Low(0..r) : l <= c) /\ c \in Lines /\ r <= c
    BY ColIs
  <2> HIDE DEF c
  <2>2. c \in Int /\ r \in Int /\ r >= 0
    BY <2>1 DEF Lines, Rows
  <2> QED BY <2>1, <2>2
<1>2. \A k \in down : k[1] \in Int /\ k[2] \in Int /\ k[1] >= 0 /\ k[2] >= 0 /\ k[1] < k[2]
  BY DEF Places, Rows, Lines
<1>3. r < c
  BY <1>1
<1> HIDE DEF c
<1>4. ASSUME NEW m \in direct
      PROVE  m \in 0..r \/ \E k \in down : k[1] <= r /\ k[2] = m
  <2>1. CASE \E k \in down : k[1] \in 0..r /\ k[2] = m
    BY <2>1
  <2>2. CASE \E k \in down : k[2] \in 0..r /\ k[1] = m
    BY <1>1, <1>2, <2>2
  <2> QED BY <2>1, <2>2 DEF Join
<1> HIDE DEF direct
<1>5. CASE c \in direct
  BY <1>1, <1>3, <1>4, <1>5 DEF c
<1>6. CASE \E l \in down : l[1] \in direct /\ l[2] = c
  <2>1. PICK l \in down : l[1] \in direct /\ l[2] = c
    BY <1>6
  <2>2. ~ \E k \in down : k[2] = l[1]
    BY DEF Chained
  <2>3. l[1] \in 0..r
    BY <1>4, <2>1, <2>2
  <2> QED BY <1>1, <1>3, <2>1, <2>3 DEF c
<1>7. CASE \E l \in down : l[2] \in direct /\ l[1] = c
  <2>1. PICK l \in down : l[2] \in direct /\ l[1] = c
    BY <1>7
  <2>2. l[2] \in Low(0..r)
    BY <2>1 DEF Low, Join, direct
  <2> QED BY <1>1, <1>2, <2>1, <2>2
<1>8. c \in direct \/ (\E l \in down : l[1] \in direct /\ l[2] = c)
      \/ (\E l \in down : l[2] \in direct /\ l[1] = c)
  BY <1>1 DEF Low, Join, direct
<1> QED BY <1>5, <1>6, <1>7, <1>8

(* A scan gives one key. *)
LEMMA OneResult ==
    ASSUME down \subseteq Places, NEW a, NEW b, Scanned(a), Scanned(b)
    PROVE  a = b
<1>1. Rows \subseteq Int
  BY DEF Rows
<1>2. CASE (\A r \in Rows : ColAt(r) = r) /\ a = None
  BY <1>2 DEF Scanned
<1>3. CASE \E r \in Rows : /\ ColAt(r) # r
                           /\ \A q \in Rows : q < r => ColAt(q) = q
                           /\ a = KEY(r, ColAt(r))
  <2>1. PICK r \in Rows : /\ ColAt(r) # r
                          /\ \A q \in Rows : q < r => ColAt(q) = q
                          /\ a = KEY(r, ColAt(r))
    BY <1>3
  <2>2. PICK s \in Rows : /\ ColAt(s) # s
                          /\ \A q \in Rows : q < s => ColAt(q) = q
                          /\ b = KEY(s, ColAt(s))
    BY <2>1 DEF Scanned
  <2>3. ~(r < s) /\ ~(s < r)
    BY <2>1, <2>2
  <2>4. r = s
    BY <1>1, <2>3
  <2> QED BY <2>1, <2>2, <2>4
<1> QED BY <1>2, <1>3 DEF Scanned

LEMMA StartsKb == ASSUME Hold >= 8 PROVE KbInit => KbInv
<1> SUFFICES ASSUME KbInit PROVE KbInv
  OBVIOUS
<1>1. KbTyped
  BY HoldAssumption DEF KbInit, KbTyped, Rows
<1>2. Fresh /\ Pending /\ Steady
  BY DEF KbInit, Fresh, Pending, Steady
<1> QED BY <1>1, <1>2 DEF KbInv

(* A contact changes: not between the rows that Fresh and Phantom are about. *)
LEMMA FingerKeeps ==
    ASSUME Hold >= 8, KbInv, Finger
    PROVE  KbInv' /\ Pressed /\ Once
<1>1. KbTyped /\ Fresh /\ Pending
  BY DEF KbInv
<1>2. PICK j \in Keys : down' \in {down \cup {j}, down \ {j}}
  BY DEF Finger
<1>3. /\ still = Hold /\ still' = 0 /\ seen' = seen \cup down' /\ calls' = 0
      /\ row' = row /\ key' = key /\ phase' = phase /\ active' = active /\ out' = out
  BY DEF Finger
<1>4. \A k \in down \cup {j} : k \in Places /\ k[1] \in Int /\ k[2] \in Int
  BY <1>1, KeysAssumption DEF KbTyped, Places, Rows, Lines
<1>5. row \in 0..7 /\ Hold \in Int /\ \A k \in down : k[1] >= 0 /\ k[1] >= row
  BY <1>1, <1>3, <1>4, HoldAssumption DEF KbTyped, Fresh, Rows, Places
<1>6. KbTyped'
  BY <1>1, <1>2, <1>3, <1>4, HoldAssumption DEF KbTyped
<1>7. Fresh'
  BY <1>2, <1>3, <1>4, <1>5 DEF Fresh
<1>8. Pending'
  <2> SUFFICES ASSUME phase = "test"
               PROVE  Chained(seen') \/ key = None \/ key \in Names(seen')
    BY <1>3 DEF Pending
  <2>1. ASSUME NEW k \in down, NEW r \in Rows, Phantom(k, r) PROVE FALSE
    BY <1>3, <1>4, <1>5, <2>1 DEF Phantom, Rows
  <2>2. Chained(seen) \/ key = None \/ key \in Names(seen)
    BY <1>1, <2>1 DEF Pending
  <2>3. seen \subseteq seen'
    BY <1>3
  <2>4. Chained(seen) => Chained(seen')
    BY <2>3 DEF Chained
  <2>5. key \in Names(seen) => key \in Names(seen')
    BY <2>3 DEF Names
  <2> QED BY <2>2, <2>4, <2>5
<1>9. Steady'
  BY <1>3 DEF Steady
<1>10. Pressed /\ Once
  BY <1>3 DEF Pressed, Once
<1> QED BY <1>6, <1>7, <1>8, <1>9, <1>10 DEF KbInv

(* While the contacts are as they are a row is what it is. *)
LEMMA SameColumns ==
    ASSUME down' = down
    PROVE  /\ \A r : ColAt(r)' = ColAt(r)
           /\ \A k : Scanned(k)' <=> Scanned(k)
<1>1. \A S : Join(S)' = Join(S)
  BY DEF Join
<1>2. \A S : Low(S)' = Low(S)
  BY DEF Low, Join
<1>3. \A r : ColAt(r)' = ColAt(r)
  BY DEF ColAt, Low, Join
<1>4. \A k : Scanned(k)' <=> Scanned(k)
  BY DEF Scanned, ColAt, Low, Join
<1> QED BY <1>3, <1>4

(* A row in which nothing is found. *)
LEMMA RowPassed ==
    ASSUME Hold >= 8, KbInv, down' = down, still' = (IF still < Hold THEN still + 1 ELSE Hold),
           ColAt(row) = row, row < LastRow, row' = row + 1, UNCHANGED <<key, phase>>, Scanning
    PROVE  KbInv'
<1>1. KbTyped /\ Fresh /\ Pending /\ Steady
  BY DEF KbInv
<1>2. /\ row \in 0..6 /\ still \in Int /\ still >= 0 /\ Hold \in Int /\ row' \in Rows
      /\ down \subseteq Places
  BY <1>1, HoldAssumption DEF KbTyped, Rows, LastRow
<1>3. \A k \in down : k[1] \in Int /\ k[2] \in Int /\ k[1] >= 0 /\ k[1] < k[2]
  BY <1>2 DEF Places, Rows, Lines
<1>4. \A k \in down : k[1] # row
  BY <1>2, <1>3, ColIs DEF Rows
<1>5. active' = active /\ out' = out /\ seen' = seen /\ calls' = calls
  BY DEF Scanning
<1>6. KbTyped'
  BY <1>1, <1>2, <1>5 DEF KbTyped
<1>7. Fresh'
  BY <1>1, <1>2, <1>3, <1>4 DEF Fresh
<1>8. Pending'
  <2>1. ASSUME NEW k \in down, NEW r \in Rows, Phantom(k, r)
        PROVE  Phantom(k, r)'
    <3>1. row + 1 <= k[1]
      BY <1>2, <1>3, <1>4, <2>1 DEF Phantom
    <3> QED BY <1>2, <1>3, <2>1, <3>1 DEF Phantom, Rows
  <2> QED BY <1>1, <1>5, <2>1 DEF Pending
<1>9. Steady'
  <2> SUFFICES ASSUME calls >= 1
               PROVE  /\ \A r \in Rows : r < row + 1 => ColAt(r) = r
                      /\ phase # "first" => phase = "test" /\ Scanned(key)
                      /\ calls = 2 => Scanned(active)
    BY <1>5, SameColumns DEF Steady
  <2>1. \A r \in Rows : r < row + 1 => r < row \/ r = row
    BY <1>2 DEF Rows
  <2> QED BY <1>1, <2>1 DEF Steady
<1> QED BY <1>6, <1>7, <1>8, <1>9 DEF KbInv

(* What a scan finds: a key that is down, or one of a row above that has   *)
(* closed since its row was read.                                          *)
LEMMA ScanFinds ==
    ASSUME Hold >= 8, KbTyped, Fresh, ColAt(row) # row, ~Chained(down)
    PROVE  \/ KEY(row, ColAt(row)) \in Names(down)
           \/ \E k \in down : /\ k[2] = ColAt(row) /\ k[1] < row /\ row < k[2]
                              /\ still + k[1] < row
<1>1. row \in Rows /\ down \subseteq Places
  BY DEF KbTyped
<1>2. PICK k \in down : k[1] <= row /\ k[2] = ColAt(row) /\ row < ColAt(row)
  BY <1>1, FoundIs
<1>3. CASE k[1] = row
  BY <1>2, <1>3 DEF Names
<1>4. CASE k[1] # row
  <2>1. k[1] < row
    BY <1>1, <1>2, <1>4 DEF Places, Rows
  <2> QED BY <1>2, <2>1 DEF Fresh
<1> QED BY <1>3, <1>4

(* The end of a scan that gives c: key_get goes on or returns it. *)
LEMMA ScanEnds ==
    ASSUME Hold >= 8, KbInv, NEW c, down' = down,
           still' = (IF still < Hold THEN still + 1 ELSE Hold), row' = 0, KeyGet(c),
           \/ ColAt(row) # row /\ c = KEY(row, ColAt(row))
           \/ ColAt(row) = row /\ row = LastRow /\ c = None
    PROVE  KbInv' /\ Pressed /\ Once
<1>1. KbTyped /\ Fresh /\ Pending /\ Steady
  BY DEF KbInv
<1>2. /\ row \in Rows /\ still \in Int /\ still >= 0 /\ Hold \in Int /\ calls \in 0..2
      /\ down \subseteq Places /\ down \subseteq seen /\ still \in 0..Hold
  BY <1>1, HoldAssumption DEF KbTyped
<1>3. still' \in 0..Hold /\ row' \in Rows /\ Fresh'
  <2>1. \A k \in down : k[1] >= 0
    BY <1>2 DEF Places, Rows
  <2> QED BY <1>2, <2>1 DEF Rows, Fresh, Places
<1>4. calls >= 1 => Scanned(c)
  <2> SUFFICES ASSUME calls >= 1 PROVE Scanned(c)
    OBVIOUS
  <2>1. \A r \in Rows : r < row => ColAt(r) = r
    BY <1>1 DEF Steady
  <2>2. CASE ColAt(row) # row /\ c = KEY(row, ColAt(row))
    BY <1>2, <2>1, <2>2 DEF Scanned
  <2>3. CASE ColAt(row) = row /\ row = LastRow /\ c = None
    <3>1. \A r \in Rows : r < row \/ r = row
      BY <2>3 DEF Rows, LastRow
    <3> QED BY <2>1, <2>3, <3>1 DEF Scanned
  <2> QED BY <2>2, <2>3
<1>5. CASE phase # "test" /\ phase' = "test" /\ key' = c /\ Scanning
  <2>1. active' = active /\ out' = out /\ seen' = seen /\ calls' = calls
    BY <1>5 DEF Scanning
  <2>2. KbTyped'
    BY <1>2, <1>3, <1>5, <2>1 DEF KbTyped
  <2>3. Pending'
    <3> SUFFICES ASSUME ~Chained(seen), c # None, c \notin Names(seen)
                 PROVE  \E k \in down : \E r \in Rows : Phantom(k, r)'
      BY <1>5, <2>1 DEF Pending
    <3>1. ~Chained(down)
      BY <1>2 DEF Chained
    <3>2. KEY(row, ColAt(row)) = c /\ ColAt(row) # row
      OBVIOUS
    <3>3. c \notin Names(down)
      BY <1>2 DEF Names
    <3>4. PICK k \in down : /\ k[2] = ColAt(row) /\ k[1] < row /\ row < k[2]
                            /\ still + k[1] < row
      BY <1>1, <3>1, <3>2, <3>3, ScanFinds
    <3>5. k[1] \in Int /\ k[1] >= 0 /\ k[2] \in Int
      BY <1>2 DEF Places, Rows, Lines
    <3>6. PICK r \in Rows : r = row
      BY <1>2
    <3>7. Phantom(k, r)'
      <4>1. still < Hold /\ still + 1 <= row - k[1]
        BY <1>2, <3>4, <3>5 DEF Rows
      <4>2. still' = still + 1
        BY <4>1
      <4>3. still' <= r - k[1] + 0 /\ 0 <= k[1]
        BY <1>2, <3>5, <3>6, <4>1, <4>2 DEF Rows
      <4>4. key' = KEY(r, k[2])
        BY <1>5, <3>2, <3>4, <3>6
      <4> QED BY <3>4, <3>6, <4>3, <4>4 DEF Phantom
    <3> QED BY <3>7
  <2>4. Steady'
    <3> SUFFICES ASSUME calls >= 1
                 PROVE  Scanned(c) /\ (calls = 2 => Scanned(active))
      BY <1>2, <1>5, <2>1, SameColumns DEF Steady, Rows
    <3> QED BY <1>1, <1>4 DEF Steady
  <2>5. Pressed /\ Once
    BY <1>5, <2>1 DEF Pressed, Once
  <2> QED BY <1>3, <2>2, <2>3, <2>4, <2>5 DEF KbInv
<1>6. CASE phase = "test" /\ key = c /\ Return(c)
  <2>1. /\ phase' = "first" /\ key' = c /\ seen' = down /\ active' = c
        /\ out' = (IF c # active THEN c ELSE None)
        /\ calls' = IF calls < 2 THEN calls + 1 ELSE 2
    BY <1>6 DEF Return, Getkey
  <2>2. KbTyped'
    BY <1>2, <1>3, <2>1 DEF KbTyped
  <2>3. Pending'
    BY <2>1 DEF Pending
  <2>4. Steady'
    <3> SUFFICES ASSUME calls' = 2 PROVE Scanned(c)
      BY <1>2, <2>1, SameColumns DEF Steady, Rows
    <3> QED BY <1>2, <1>4, <2>1
  <2>5. Pressed
    <3>1. ASSUME NEW k \in down, NEW r \in Rows, Phantom(k, r) PROVE FALSE
      <4>1. /\ c = KEY(r, k[2]) /\ k[1] < r /\ r < k[2] /\ row <= k[1]
            /\ k[1] \in Int /\ k[2] \in Lines /\ r \in 0..7 /\ row \in 0..7
        BY <1>2, <1>6, <3>1 DEF Phantom, Places, Rows
      <4>2. row < r /\ row # LastRow
        BY <4>1 DEF LastRow
      <4>3. c = KEY(row, ColAt(row)) /\ ColAt(row) # row
        BY <4>2
      <4>4. ColAt(row) \in Lines /\ row < ColAt(row)
        <5>1. ColAt(row) \in Lines /\ row <= ColAt(row)
          BY <1>2, ColIs
        <5> QED BY <1>2, <4>3, <5>1 DEF Lines, Rows
      <4>5. KEY(row, ColAt(row)) # KEY(r, k[2])
        BY <1>2, <4>1, <4>2, <4>4, RowsDiffer
      <4> QED BY <4>1, <4>3, <4>5
    <3>2. Chained(seen) \/ c = None \/ c \in Names(seen)
      BY <1>1, <1>6, <3>1 DEF Pending
    <3> QED BY <2>1, <3>2 DEF Pressed
  <2>6. Once
    <3> SUFFICES ASSUME ~(calls < 2) PROVE out' = None
      BY DEF Once
    <3>1. Scanned(c) /\ Scanned(active)
      BY <1>1, <1>2, <1>4 DEF Steady
    <3>2. c = active
      BY <1>2, <3>1, OneResult
    <3> QED BY <2>1, <3>2
  <2> QED BY <1>3, <2>2, <2>3, <2>4, <2>5, <2>6 DEF KbInv
<1>7. CASE phase = "test" /\ key # c /\ phase' = "again" /\ key' = key /\ Scanning
  <2>1. active' = active /\ out' = out /\ seen' = seen /\ calls' = calls
    BY <1>7 DEF Scanning
  <2>2. KbTyped'
    BY <1>2, <1>3, <1>7, <2>1 DEF KbTyped
  <2>3. Pending'
    BY <1>7 DEF Pending
  <2>4. Steady'
    <3>1. ~(calls >= 1)
      BY <1>1, <1>2, <1>4, <1>7, OneResult DEF Steady
    <3> QED BY <2>1, <3>1 DEF Steady
  <2>5. Pressed /\ Once
    BY <1>7, <2>1 DEF Pressed, Once
  <2> QED BY <1>3, <2>2, <2>3, <2>4, <2>5 DEF KbInv
<1> QED BY <1>5, <1>6, <1>7 DEF KeyGet

LEMMA ReadRowKeeps ==
    ASSUME Hold >= 8, KbInv, ReadRow
    PROVE  KbInv' /\ Pressed /\ Once
<1>1. Col = ColAt(row)
  BY DEF Col, ColAt
<1>2. /\ down' = down /\ still' = (IF still < Hold THEN still + 1 ELSE Hold)
  BY DEF ReadRow
<1>3. CASE Found /\ row' = 0 /\ KeyGet(KEY(row, Col))
  BY <1>1, <1>2, <1>3, ScanEnds DEF Found
<1>4. CASE ~Found /\ row = LastRow /\ row' = 0 /\ KeyGet(None)
  BY <1>1, <1>2, <1>4, ScanEnds DEF Found
<1>5. CASE ~Found /\ row < LastRow /\ row' = row + 1 /\ UNCHANGED <<key, phase>> /\ Scanning
  <2>1. KbInv'
    BY <1>1, <1>2, <1>5, RowPassed DEF Found
  <2>2. Pressed /\ Once
    BY <1>5 DEF Pressed, Once, Scanning
  <2> QED BY <2>1, <2>2
<1> QED BY <1>3, <1>4, <1>5 DEF ReadRow

LEMMA KbStep ==
    ASSUME Hold >= 8, KbInv, [KbNext]_kbvars
    PROVE  KbInv' /\ [Pressed /\ Once]_kbvars
<1>1. CASE Finger
  BY <1>1, FingerKeeps
<1>2. CASE ReadRow
  BY <1>2, ReadRowKeeps
<1>3. CASE UNCHANGED kbvars
  <2>1. /\ down' = down /\ still' = still /\ row' = row /\ key' = key /\ phase' = phase
        /\ active' = active /\ out' = out /\ seen' = seen /\ calls' = calls
    BY <1>3 DEF kbvars
  <2>2. KbTyped' /\ Fresh' /\ Pending'
    BY <2>1 DEF KbInv, KbTyped, Fresh, Pending, Phantom
  <2>3. Steady'
    BY <2>1, SameColumns DEF KbInv, Steady
  <2> QED BY <1>3, <2>2, <2>3 DEF KbInv
<1> QED BY <1>1, <1>2, <1>3 DEF KbNext

(* A key comes out of getkey only if it was down while key_get scanned,    *)
(* and once per press (key.c:153-168, keys.c:128-139), whatever keys there *)
(* are and whenever their contacts change, if a contact stays as it is for *)
(* a scan of the matrix.                                                   *)
THEOREM KeysAreGenuine == ASSUME Hold >= 8 PROVE KbSpec => KeysGenuine
<1>1. KbInit => KbInv
  BY StartsKb
<1>2. KbInv /\ [KbNext]_kbvars => KbInv' /\ [Pressed /\ Once]_kbvars
  BY KbStep
<1> QED BY <1>1, <1>2, PTL DEF KbSpec, KeysGenuine
=============================================================================
