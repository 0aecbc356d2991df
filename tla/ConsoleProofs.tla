---------------------------- MODULE ConsoleProofs ----------------------------
(***************************************************************************)
(* Theorems about Console, for every size of linebuf and every alphabet:   *)
(* the echo agrees with the buffer, and every step of the console is one   *)
(* of the line discipline or none.                                         *)
(***************************************************************************)
EXTENDS Console, SequenceTheorems, TLAPS

---------------------------------------------------------------------------
(* The first n characters of a buffer as a sequence. *)

Prefix(buf, n) == [i \in 1..n |-> buf[i - 1]]

LEMMA PrefixType ==
    ASSUME NEW S, NEW n \in Nat, NEW buf, \A i \in 0..(n - 1) : buf[i] \in S
    PROVE  /\ Prefix(buf, n) \in Seq(S)
           /\ Len(Prefix(buf, n)) = n
           /\ \A i \in 1..n : Prefix(buf, n)[i] = buf[i - 1]
<1>1. Prefix(buf, n) \in [1..n -> S]
  BY DEF Prefix
<1>2. Prefix(buf, n) \in Seq(S)
  BY <1>1, SeqDef
<1>3. DOMAIN Prefix(buf, n) = 1..n
  BY DEF Prefix
<1> QED BY <1>2, <1>3, LenProperties DEF Prefix

LEMMA PrefixEmpty == \A buf : Prefix(buf, 0) = <<>>
<1> TAKE buf
<1>1. Prefix(buf, 0) \in Seq({}) /\ Len(Prefix(buf, 0)) = 0
  BY PrefixType
<1> QED BY <1>1, EmptySeq

LEMMA PrefixSame ==
    ASSUME NEW n \in Nat, NEW buf, NEW buf2, \A i \in 0..(n - 1) : buf2[i] = buf[i]
    PROVE  Prefix(buf2, n) = Prefix(buf, n)
BY DEF Prefix

LEMMA PrefixAppend ==
    ASSUME NEW S, NEW n \in Nat, NEW buf, \A i \in 0..(n - 1) : buf[i] \in S,
           NEW c \in S, NEW buf2, buf2[n] = c, \A i \in 0..(n - 1) : buf2[i] = buf[i]
    PROVE  Prefix(buf2, n + 1) = Append(Prefix(buf, n), c)
<1> DEFINE p == Prefix(buf, n)
           q == Prefix(buf2, n + 1)
<1>1. /\ p \in Seq(S) /\ Len(p) = n
      /\ \A i \in 1..n : p[i] = buf[i - 1]
  BY PrefixType
<1>2. /\ q \in Seq(S) /\ Len(q) = n + 1
      /\ \A i \in 1..(n + 1) : q[i] = buf2[i - 1]
  <2>1. \A i \in 0..(n + 1 - 1) : buf2[i] \in S
    OBVIOUS
  <2>2. n + 1 \in Nat
    OBVIOUS
  <2> QED BY <2>1, <2>2, PrefixType
<1> HIDE DEF p, q
<1>3. /\ Append(p, c) \in Seq(S) /\ Len(Append(p, c)) = n + 1
      /\ \A i \in 1..n : Append(p, c)[i] = p[i]
      /\ Append(p, c)[n + 1] = c
  BY <1>1, AppendProperties
<1>4. \A i \in 1..(n + 1) : q[i] = Append(p, c)[i]
  <2> TAKE i \in 1..(n + 1)
  <2>1. CASE i = n + 1
    BY <1>2, <1>3, <2>1
  <2>2. ASSUME i # n + 1
        PROVE  q[i] = Append(p, c)[i]
    <3>1. i \in 1..n /\ i - 1 \in 0..(n - 1)
      BY <2>2
    <3>2. q[i] = buf[i - 1]
      BY <1>2, <3>1
    <3> QED BY <1>1, <1>3, <3>1, <3>2
  <2> QED BY <2>1, <2>2
<1>5. q = Append(p, c)
  BY <1>2, <1>3, <1>4, SeqEqual
<1> QED BY <1>5 DEF p, q

LEMMA PrefixShorter ==
    ASSUME NEW S, NEW m \in Nat, NEW buf, \A i \in 0..m : buf[i] \in S
    PROVE  Prefix(buf, m) = SubSeq(Prefix(buf, m + 1), 1, m)
<1> DEFINE p == Prefix(buf, m + 1)
           q == Prefix(buf, m)
<1>1. /\ p \in Seq(S) /\ Len(p) = m + 1
      /\ \A i \in 1..(m + 1) : p[i] = buf[i - 1]
  <2>1. m + 1 \in Nat /\ \A i \in 0..(m + 1 - 1) : buf[i] \in S
    OBVIOUS
  <2> QED BY <2>1, PrefixType
<1>2. /\ q \in Seq(S) /\ Len(q) = m
      /\ \A i \in 1..m : q[i] = buf[i - 1]
  <2>1. \A i \in 0..(m - 1) : buf[i] \in S
    OBVIOUS
  <2> QED BY <2>1, PrefixType
<1> HIDE DEF p, q
<1>3. /\ SubSeq(p, 1, m) \in Seq(S) /\ Len(SubSeq(p, 1, m)) = m
      /\ \A i \in 1..m : SubSeq(p, 1, m)[i] = p[i]
  <2>1. \A i \in 1..m : p[i] \in S
    BY <1>1, ElementOfSeq
  <2>2. /\ SubSeq(p, 1, m) \in Seq(S)
        /\ Len(SubSeq(p, 1, m)) = IF 1 <= m THEN m - 1 + 1 ELSE 0
        /\ \A i \in 1..(m - 1 + 1) : SubSeq(p, 1, m)[i] = p[1 + i - 1]
    BY <2>1, SubSeqProperties
  <2>3. m - 1 + 1 = m /\ \A i \in 1..m : 1 + i - 1 = i
    OBVIOUS
  <2>4. \A i \in 1..m : SubSeq(p, 1, m)[i] = p[i]
    BY <2>2, <2>3
  <2>5. Len(SubSeq(p, 1, m)) = m
    BY <2>2, <2>3
  <2> QED BY <2>2, <2>4, <2>5
<1>4. \A i \in 1..m : q[i] = SubSeq(p, 1, m)[i]
  <2> TAKE i \in 1..m
  <2>1. i \in 1..(m + 1)
    OBVIOUS
  <2> QED BY <1>1, <1>2, <1>3, <2>1
<1>5. q = SubSeq(p, 1, m)
  BY <1>2, <1>3, <1>4, SeqEqual
<1> QED BY <1>5 DEF p, q

---------------------------------------------------------------------------
(* The invariant *)

Room == LINEBUF_MAX - 1

LEMMA RoomType == Room \in Nat /\ Room = LINEBUF_MAX - 1
BY BufferAssumption DEF Room

(* Interrupts find line mode as soon as the console is initialised; what
   U0DBUF held before is never taken for a character. *)
Modes ==
    /\ linemode = (pc # "boot")
    /\ linemode /\ urx0if => dbuf \in Typed

(* Until the handler gets between the stores of console_set_linemode they
   change nothing. *)
Fresh ==
    /\ pc = "boot" => ~early
    /\ pc \in Starting \cup {"boot"} /\ ~early =>
           linebuf_tail = 0 /\ ~got_eol /\ shown = <<>>

(* The line is frozen as long as console_tick is at it, and nothing is left
   of it when the next may come in. *)
Frozen ==
    /\ pc \in {"terminate", "shell_exec", "reset", "prompt", "ready"} => got_eol
    /\ pc \in {"terminate", "shell_exec"} => linebuf_tail > 0
    /\ pc \in {"prompt", "ready"} => linebuf_tail = 0

(* What has been typed, until shell_exec cuts it, and its end. *)
Kept ==
    /\ pc # "reset" => \A i \in 0..(linebuf_tail - 1) : linebuf[i] \in Chars
    /\ pc = "shell_exec" => linebuf[linebuf_tail] = Nul

ConsoleInv == TypeOK /\ Modes /\ Fresh /\ Frozen /\ Kept /\ EchoMatches

LEMMA Starts == Init => ConsoleInv
<1> SUFFICES ASSUME Init PROVE ConsoleInv
  OBVIOUS
<1>0. linebuf_tail = 0
  BY DEF Init
<1>1. TypeOK
  <2>1. linebuf \in [0..(LINEBUF_MAX - 1) -> Chars \cup {Nul}]
    BY DEF Init
  <2>2. shown \in Seq(Chars) /\ executed \in Seq(Chars)
    BY EmptySeq DEF Init
  <2>3. linebuf_tail \in 0..(LINEBUF_MAX - 1)
    BY BufferAssumption DEF Init
  <2> QED BY <2>1, <2>2, <2>3 DEF Init, TypeOK
<1>2. Modes /\ Fresh /\ Frozen
  BY DEF Init, Modes, Fresh, Frozen
<1>4. Kept
  <2>1. pc # "shell_exec" /\ \A i \in 0..(linebuf_tail - 1) : FALSE
    BY <1>0 DEF Init
  <2> QED BY <2>1 DEF Kept
<1>3. EchoMatches
  <2>1. Line = <<>>
    BY <1>0, PrefixEmpty DEF Line, Prefix
  <2> QED BY <2>1 DEF Init, EchoMatches
<1> QED BY <1>1, <1>2, <1>3, <1>4 DEF ConsoleInv

(* The line while it may be edited or waits. *)
LEMMA LineType ==
    ASSUME ConsoleInv, pc # "reset"
    PROVE  /\ Line \in Seq(Chars)
           /\ Len(Line) = linebuf_tail
           /\ Line = Prefix(linebuf, linebuf_tail)
           /\ \A i \in 1..linebuf_tail : Line[i] = linebuf[i - 1]
<1>1. linebuf_tail \in Nat
  BY RoomType DEF ConsoleInv, TypeOK
<1>2. \A i \in 0..(linebuf_tail - 1) : linebuf[i] \in Chars
  BY DEF ConsoleInv, Kept
<1>3. Line = Prefix(linebuf, linebuf_tail)
  BY DEF Line, Prefix
<1> QED BY <1>1, <1>2, <1>3, PrefixType

(* The callback in line mode, the line not yet ended: what it makes of the
   buffer is what it makes of the line. *)
LEMMA StoreAppends ==
    ASSUME ConsoleInv, pc # "reset", NEW c \in Chars, HasRoom, Store(c)
    PROVE  /\ Line' = Append(Line, c)
           /\ shown' = Append(shown, c)
           /\ linebuf' \in [0..(LINEBUF_MAX - 1) -> Chars \cup {Nul}]
           /\ linebuf_tail' \in 0..(LINEBUF_MAX - 1)
           /\ linebuf_tail' = linebuf_tail + 1
           /\ \A i \in 0..(linebuf_tail' - 1) : linebuf'[i] \in Chars
<1>1. /\ linebuf_tail \in Nat /\ linebuf_tail < Room /\ linebuf_tail \in 0..(LINEBUF_MAX - 1)
      /\ linebuf \in [0..(LINEBUF_MAX - 1) -> Chars \cup {Nul}]
      /\ \A i \in 0..(linebuf_tail - 1) : linebuf[i] \in Chars
  BY RoomType DEF ConsoleInv, TypeOK, Kept, HasRoom
<1>2. /\ linebuf' = [linebuf EXCEPT ![linebuf_tail] = c]
      /\ linebuf_tail' = linebuf_tail + 1
      /\ shown' = Append(shown, linebuf'[linebuf_tail' - 1])
  BY DEF Store
<1>3. /\ linebuf'[linebuf_tail] = c
      /\ \A i \in 0..(linebuf_tail - 1) : linebuf'[i] = linebuf[i]
      /\ linebuf' \in [0..(LINEBUF_MAX - 1) -> Chars \cup {Nul}]
  BY <1>1, <1>2
<1>4. Prefix(linebuf', linebuf_tail + 1) = Append(Prefix(linebuf, linebuf_tail), c)
  <2> DEFINE after == linebuf'
             n == linebuf_tail
  <2>1. /\ n \in Nat /\ after[n] \in Chars /\ after[n] = c
        /\ \A i \in 0..(n - 1) : linebuf[i] \in Chars
        /\ \A i \in 0..(n - 1) : after[i] = linebuf[i]
    BY <1>1, <1>3
  <2>2. Prefix(after, n + 1) = Append(Prefix(linebuf, n), c)
    <3> HIDE DEF after, n
    <3>1. \A buf2 : buf2[n] = c /\ (\A i \in 0..(n - 1) : buf2[i] = linebuf[i])
                     => Prefix(buf2, n + 1) = Append(Prefix(linebuf, n), c)
      <4>1. n \in Nat /\ \A i \in 0..(n - 1) : linebuf[i] \in Chars
        BY <2>1
      <4> QED BY <4>1, PrefixAppend
    <3> QED BY <2>1, <3>1
  <2> QED BY <2>2, Zenon
<1>5. Line' = Prefix(linebuf', linebuf_tail + 1) /\ Line = Prefix(linebuf, linebuf_tail)
  BY <1>2 DEF Line, Prefix
<1>6. linebuf_tail' - 1 = linebuf_tail /\ linebuf_tail' \in 0..(LINEBUF_MAX - 1)
  BY <1>1, <1>2, RoomType
<1>7. \A i \in 0..(linebuf_tail' - 1) : linebuf'[i] \in Chars
  <2> TAKE i \in 0..(linebuf_tail' - 1)
  <2>1. i \in 0..linebuf_tail
    BY <1>6
  <2>2. i = linebuf_tail \/ i \in 0..(linebuf_tail - 1)
    BY <1>1, <2>1
  <2> QED BY <1>1, <1>3, <2>2
<1>8. shown' = Append(shown, c)
  BY <1>2, <1>3, <1>6
<1> QED BY <1>2, <1>3, <1>4, <1>5, <1>6, <1>7, <1>8

LEMMA EraseShortens ==
    ASSUME ConsoleInv, pc # "reset", linebuf_tail > 0, Erase
    PROVE  /\ Line' = SubSeq(Line, 1, Len(Line) - 1)
           /\ shown' = SubSeq(shown, 1, Len(shown) - 1)
           /\ UNCHANGED linebuf
           /\ linebuf_tail' \in 0..(LINEBUF_MAX - 1)
           /\ \A i \in 0..(linebuf_tail' - 1) : linebuf'[i] \in Chars
<1>1. /\ linebuf_tail \in 0..(LINEBUF_MAX - 1)
      /\ \A i \in 0..(linebuf_tail - 1) : linebuf[i] \in Chars
  BY DEF ConsoleInv, TypeOK, Kept
<1>2. /\ linebuf' = linebuf /\ linebuf_tail' = linebuf_tail - 1
      /\ shown' = SubSeq(shown, 1, Len(shown) - 1)
  BY DEF Erase
<1>3. /\ linebuf_tail' \in Nat /\ linebuf_tail' + 1 = linebuf_tail
      /\ \A i \in 0..linebuf_tail' : linebuf[i] \in Chars
      /\ linebuf_tail' \in 0..(LINEBUF_MAX - 1)
  BY <1>1, <1>2, RoomType
<1>4. Prefix(linebuf, linebuf_tail') = SubSeq(Prefix(linebuf, linebuf_tail' + 1), 1, linebuf_tail')
  BY <1>3, PrefixShorter
<1>5. Line' = Prefix(linebuf, linebuf_tail') /\ Line = Prefix(linebuf, linebuf_tail)
  BY <1>2 DEF Line, Prefix
<1>6. Len(Line) - 1 = linebuf_tail'
  BY <1>1, <1>2, LineType
<1> QED BY <1>2, <1>3, <1>4, <1>5, <1>6

---------------------------------------------------------------------------
(* The steps.  Each keeps the invariant and is a step of the line discipline
   or changes nothing of it. *)

Mapped == IF pc \in {"reset", "prompt", "ready"} THEN <<>> ELSE Line

Begun == pc \notin {"boot"} \cup Starting

StepOK == ConsoleInv' /\ [Discipline!Next]_(Discipline!lineVars)

LEMMA Stutters ==
    ASSUME UNCHANGED <<Mapped, got_eol, executed, Begun>>
    PROVE  [Discipline!Next]_(Discipline!lineVars)
BY DEF Mapped, Begun, Discipline!lineVars

(* Nothing of the line is touched. *)
LEMMA Untouched ==
    ASSUME ConsoleInv, TypeOK', Modes', early' \in {early, early \/ pc \in Starting},
           UNCHANGED <<linebuf, linebuf_tail, got_eol, shown, executed, pc>>
    PROVE  StepOK
<1>1. Line' = Line
  BY DEF Line
<1>4. /\ early \in BOOLEAN /\ (early => early')
      /\ pc = "boot" => early' = early
  BY DEF ConsoleInv, TypeOK, Starting
<1>2. Fresh' /\ Frozen' /\ Kept' /\ EchoMatches'
  BY <1>1, <1>4 DEF ConsoleInv, Fresh, Frozen, Kept, EchoMatches
<1>3. Mapped' = Mapped /\ Begun' = Begun
  BY <1>1 DEF Mapped, Begun
<1> QED BY <1>2, <1>3, Stutters DEF ConsoleInv, StepOK

LEMMA ArriveOK == ConsoleInv /\ Arrive => StepOK
<1> SUFFICES ASSUME ConsoleInv, Arrive PROVE StepOK
  OBVIOUS
<1>1. TypeOK'
  BY DEF ConsoleInv, TypeOK, Arrive, buffer
<1>2. Modes'
  BY DEF ConsoleInv, Modes, Arrive, buffer
<1> QED BY <1>1, <1>2, Untouched DEF Arrive, buffer

LEMMA Shortened ==
    ASSUME NEW S, NEW s \in Seq(S)
    PROVE  SubSeq(s, 1, Len(s) - 1) \in Seq(S)
<1>1. Len(s) \in Nat /\ \A i \in 1..Len(s) : s[i] \in S
  BY LenProperties, ElementOfSeq
<1>2. \A i \in 1..(Len(s) - 1) : s[i] \in S
  BY <1>1
<1>3. 1 \in Int /\ Len(s) - 1 \in Int
  BY <1>1
<1> QED BY <1>2, <1>3, SubSeqProperties

LEMMA IsrOK == ConsoleInv /\ Uart0Isr => StepOK
<1> SUFFICES ASSUME ConsoleInv, Uart0Isr PROVE StepOK
  OBVIOUS
<1>0. /\ urx0if /\ urx0if' = FALSE /\ UNCHANGED <<linemode, dbuf, pc, executed>>
      /\ TypeOK /\ Modes /\ Fresh /\ Frozen /\ Kept /\ EchoMatches
      /\ early' = (early \/ pc \in Starting) /\ early \in BOOLEAN
  BY DEF Uart0Isr, ConsoleInv, TypeOK
<1>1. CASE ~RxReady
  <2>1. UNCHANGED <<linebuf, linebuf_tail, got_eol, got_key, last_key, shown>>
    BY <1>1 DEF Uart0Isr, buffer
  <2>2. TypeOK' /\ Modes'
    BY <1>0, <2>1 DEF TypeOK, Modes, Starting
  <2> QED BY <1>0, <2>1, <2>2, Untouched
<1>2. CASE RxReady /\ ~linemode
  <2>1. UNCHANGED <<linebuf, linebuf_tail, got_eol, shown>> /\ got_key' = TRUE /\ last_key' = dbuf
    BY <1>2 DEF Uart0Isr, RxCallback, buffer
  <2>2. TypeOK' /\ Modes'
    BY <1>0, <2>1 DEF TypeOK, Modes, Starting
  <2> QED BY <1>0, <2>1, <2>2, Untouched
<1>3. CASE RxReady /\ linemode
  <2>1. /\ ~got_eol /\ dbuf \in Typed /\ LineCallback(dbuf)
        /\ UNCHANGED <<got_key, last_key>>
        /\ pc # "boot" /\ pc \notin {"terminate", "shell_exec", "reset", "prompt", "ready"}
        /\ early' \/ shown = Line
        /\ shown \in Seq(Chars)
    BY <1>0, <1>3 DEF Uart0Isr, RxReady, RxCallback, Modes, Frozen, EchoMatches, TypeOK
  <2>2. Mapped = Line /\ Mapped' = Line'
    BY <1>0, <2>1 DEF Mapped
  <2>3. Modes' /\ Fresh'
    BY <1>0, <2>1 DEF Modes, Fresh
  <2>4. Frozen'
    BY <1>0, <2>1 DEF Frozen
  <2>5. CASE dbuf = CR /\ EndLine
    <3>1. got_eol' = TRUE /\ UNCHANGED <<shown, linebuf, linebuf_tail>>
      BY <2>5 DEF EndLine
    <3>2. Line' = Line
      BY <3>1 DEF Line
    <3>3. TypeOK'
      BY <1>0, <2>1, <3>1 DEF TypeOK, Starting
    <3>4. Kept' /\ EchoMatches'
      BY <1>0, <2>1, <3>1, <3>2 DEF Kept, EchoMatches
    <3>5. Discipline!Enter
      BY <1>0, <2>1, <2>2, <3>1, <3>2 DEF Discipline!Enter, Mapped, Begun
    <3> QED BY <2>3, <2>4, <3>3, <3>4, <3>5 DEF ConsoleInv, StepOK, Discipline!Next
  <2>6. CASE Erase /\ linebuf_tail > 0
    <3>1. /\ Line' = SubSeq(Line, 1, Len(Line) - 1)
          /\ shown' = SubSeq(shown, 1, Len(shown) - 1)
          /\ linebuf' = linebuf /\ got_eol' = got_eol
          /\ linebuf_tail' \in 0..(LINEBUF_MAX - 1)
          /\ \A i \in 0..(linebuf_tail' - 1) : linebuf'[i] \in Chars
      BY <2>1, <2>6, EraseShortens DEF Erase
    <3>2. early' \/ shown' = Line'
      BY <2>1, <3>1, Zenon
    <3>4. shown' \in Seq(Chars)
      BY <2>1, <3>1, Shortened
    <3>5. TypeOK'
      BY <1>0, <2>1, <3>1, <3>2, <3>4 DEF TypeOK, Starting
    <3>6. Kept' /\ EchoMatches'
      BY <1>0, <2>1, <3>1, <3>2 DEF Kept, EchoMatches
    <3>7. Line # <<>>
      <4>1. Len(Line) = linebuf_tail
        BY <2>1, LineType
      <4> QED BY <2>6, <4>1, EmptySeq
    <3>8. Discipline!RubOut
      BY <1>0, <2>1, <2>2, <3>1, <3>7 DEF Discipline!RubOut, Mapped, Begun
    <3> QED BY <2>3, <2>4, <3>5, <3>6, <3>8 DEF ConsoleInv, StepOK, Discipline!Next
  <2>7. CASE Store(dbuf) /\ HasRoom /\ dbuf \in Chars
    <3>1. /\ Line' = Append(Line, dbuf)
          /\ shown' = Append(shown, dbuf)
          /\ linebuf' \in [0..(LINEBUF_MAX - 1) -> Chars \cup {Nul}]
          /\ linebuf_tail' \in 0..(LINEBUF_MAX - 1)
          /\ \A i \in 0..(linebuf_tail' - 1) : linebuf'[i] \in Chars
      BY <2>1, <2>7, StoreAppends
    <3>2. got_eol' = got_eol
      BY <2>7 DEF Store
    <3>3. early' \/ shown' = Line'
      BY <2>1, <3>1, Zenon
    <3>4. shown' \in Seq(Chars)
      BY <2>1, <2>7, <3>1, AppendProperties
    <3>5. TypeOK'
      BY <1>0, <2>1, <3>1, <3>2, <3>4 DEF TypeOK, Starting
    <3>6. Kept' /\ EchoMatches'
      BY <1>0, <2>1, <3>1, <3>2, <3>3 DEF Kept, EchoMatches
    <3>7. Len(Line) < LINEBUF_MAX - 1
      BY <2>1, <2>7, LineType DEF HasRoom
    <3>8. Discipline!Type(dbuf)
      BY <1>0, <2>1, <2>2, <3>1, <3>2, <3>7 DEF Discipline!Type, Mapped, Begun
    <3> QED BY <2>3, <2>4, <2>7, <3>5, <3>6, <3>8 DEF ConsoleInv, StepOK, Discipline!Next
  <2>8. CASE UNCHANGED <<linebuf, linebuf_tail, got_eol, shown>>
    <3>1. TypeOK'
      BY <1>0, <2>1, <2>8 DEF TypeOK, Starting
    <3> QED BY <1>0, <2>3, <2>8, <3>1, Untouched
  <2> QED BY <2>1, <2>5, <2>6, <2>7, <2>8 DEF LineCallback, Erase, Store, Typed
<1> QED BY <1>1, <1>2, <1>3

LEMMA SetLinemodeOK == ConsoleInv /\ Main /\ SetLinemode => StepOK
<1> SUFFICES ASSUME ConsoleInv, Main, SetLinemode PROVE StepOK
  OBVIOUS
<1>0. /\ TypeOK /\ Modes /\ Fresh /\ Frozen /\ Kept /\ EchoMatches
      /\ pc = "boot" /\ pc' = "clear_tail" /\ linemode' = TRUE
      /\ ~urx0if
      /\ UNCHANGED <<linebuf, linebuf_tail, got_eol, got_key, last_key, shown, early, executed, dbuf, urx0if>>
  BY DEF ConsoleInv, Main, SetLinemode, Goto, buffer
<1>1. Line' = Line
  BY <1>0 DEF Line
<1>2. TypeOK' /\ Modes' /\ Fresh' /\ Frozen'
  BY <1>0 DEF TypeOK, Modes, Fresh, Frozen, Starting
<1>3. Kept' /\ EchoMatches'
  BY <1>0, <1>1 DEF Kept, EchoMatches
<1>4. Mapped' = Mapped /\ Begun' = Begun
  BY <1>0, <1>1 DEF Mapped, Begun, Starting
<1> QED BY <1>0, <1>2, <1>3, <1>4, Stutters DEF ConsoleInv, StepOK

(* The tail is reset: what was typed since line mode is on is forgotten. *)
LEMMA ClearTailOK == ConsoleInv /\ Main /\ ClearTail => StepOK
<1> SUFFICES ASSUME ConsoleInv, Main, ClearTail PROVE StepOK
  OBVIOUS
<1>0. /\ TypeOK /\ Modes /\ Fresh /\ Frozen /\ Kept /\ EchoMatches
      /\ pc = "clear_tail" /\ pc' = "clear_eol" /\ linebuf_tail' = 0
      /\ ~urx0if
      /\ UNCHANGED <<linemode, linebuf, got_eol, got_key, last_key, shown, early, executed, dbuf, urx0if>>
  BY DEF ConsoleInv, Main, ClearTail, Goto
<1>1. Line' = <<>>
  BY <1>0, PrefixEmpty DEF Line, Prefix
<1>2. TypeOK'
  BY <1>0, RoomType DEF TypeOK, Starting
<1>3. Modes' /\ Fresh' /\ Frozen'
  BY <1>0 DEF Modes, Fresh, Frozen, Starting
<1>4. Kept'
  <2>1. \A i \in 0..(linebuf_tail' - 1) : FALSE
    BY <1>0
  <2> QED BY <1>0, <2>1 DEF Kept
<1>5. EchoMatches'
  BY <1>0, <1>1 DEF EchoMatches, Fresh, Starting
<1>6. Discipline!Forget
  BY <1>0, <1>1 DEF Discipline!Forget, Starting
<1> QED BY <1>2, <1>3, <1>4, <1>5, <1>6 DEF ConsoleInv, StepOK, Discipline!Next

(* got_eol is reset: an Enter since line mode is on is forgotten. *)
LEMMA ClearEolOK == ConsoleInv /\ Main /\ ClearEol => StepOK
<1> SUFFICES ASSUME ConsoleInv, Main, ClearEol PROVE StepOK
  OBVIOUS
<1>0. /\ TypeOK /\ Modes /\ Fresh /\ Frozen /\ Kept /\ EchoMatches
      /\ pc = "clear_eol" /\ pc' = "banner" /\ got_eol' = FALSE
      /\ ~urx0if
      /\ UNCHANGED <<linemode, linebuf, linebuf_tail, got_key, last_key, shown, early, executed, dbuf, urx0if>>
  BY DEF ConsoleInv, Main, ClearEol, Goto
<1>1. Line' = Line
  BY <1>0 DEF Line
<1>2. TypeOK' /\ Modes' /\ Fresh' /\ Frozen'
  BY <1>0 DEF TypeOK, Modes, Fresh, Frozen, Starting
<1>3. Kept' /\ EchoMatches'
  BY <1>0, <1>1 DEF Kept, EchoMatches
<1>4. Discipline!Start
  BY <1>0, <1>1 DEF Discipline!Start, Starting
<1> QED BY <1>2, <1>3, <1>4 DEF ConsoleInv, StepOK, Discipline!Next

(* The steps between two of console_tick that only move on. *)
LEMMA MoveOK == ConsoleInv /\ Main /\ (Banner \/ ConsoleTick) => StepOK
<1> SUFFICES ASSUME ConsoleInv, Main, Banner \/ ConsoleTick PROVE StepOK
  OBVIOUS
<1>0. /\ TypeOK /\ Modes /\ Fresh /\ Frozen /\ Kept /\ EchoMatches
      /\ UNCHANGED <<linemode, linebuf, linebuf_tail, got_eol, got_key, last_key, shown, early, executed>>
      /\ ~urx0if /\ UNCHANGED <<dbuf, urx0if>>
      /\ \/ pc = "banner" /\ pc' = "console_tick"
         \/ pc = "console_tick" /\ pc' = "console_tick"
         \/ pc = "console_tick" /\ pc' = "terminate" /\ got_eol /\ linebuf_tail > 0
         \/ pc = "console_tick" /\ pc' = "reset" /\ got_eol /\ linebuf_tail = 0
  <2>1. linebuf_tail \in Nat /\ linemode \in BOOLEAN /\ got_eol \in BOOLEAN
    BY RoomType DEF ConsoleInv, TypeOK
  <2> QED BY <2>1 DEF ConsoleInv, Main, Banner, ConsoleTick, Goto, buffer
<1>2. TypeOK'
  BY <1>0 DEF TypeOK, Starting
<1>3. Modes' /\ Fresh'
  BY <1>0 DEF Modes, Fresh, Starting
<1>4. Frozen'
  BY <1>0 DEF Frozen
<1>5. Line' = Line
  BY <1>0 DEF Line
<1>6. Kept' /\ EchoMatches'
  BY <1>0, <1>5 DEF Kept, EchoMatches
<1>7. Mapped' = Mapped /\ Begun' = Begun
  <2>1. linebuf_tail = 0 => Line = <<>>
    BY PrefixEmpty DEF Line, Prefix
  <2> QED BY <1>0, <1>5, <2>1 DEF Mapped, Begun, Starting
<1> QED BY <1>0, <1>2, <1>3, <1>4, <1>6, <1>7, Stutters DEF ConsoleInv, StepOK

LEMMA TerminateOK == ConsoleInv /\ Main /\ Terminate => StepOK
<1> SUFFICES ASSUME ConsoleInv, Main, Terminate PROVE StepOK
  OBVIOUS
<1>0. /\ TypeOK /\ Modes /\ Fresh /\ Frozen /\ Kept /\ EchoMatches
      /\ pc = "terminate" /\ pc' = "shell_exec"
      /\ linebuf' = [linebuf EXCEPT ![linebuf_tail] = Nul]
      /\ UNCHANGED <<linemode, linebuf_tail, got_eol, got_key, last_key, shown, early, executed, dbuf, urx0if>>
      /\ ~urx0if
  BY DEF ConsoleInv, Main, Terminate, Goto
<1>1. /\ linebuf \in [0..(LINEBUF_MAX - 1) -> Chars \cup {Nul}]
      /\ linebuf_tail \in 0..(LINEBUF_MAX - 1) /\ linebuf_tail \in Nat
  BY <1>0, RoomType DEF TypeOK, Starting
<1>2. /\ linebuf' \in [0..(LINEBUF_MAX - 1) -> Chars \cup {Nul}]
      /\ linebuf'[linebuf_tail] = Nul
      /\ \A i \in 0..(linebuf_tail - 1) : linebuf'[i] = linebuf[i]
  BY <1>0, <1>1
<1>3. TypeOK'
  BY <1>0, <1>2 DEF TypeOK, Starting
<1>4. Modes' /\ Fresh' /\ Frozen'
  BY <1>0 DEF Modes, Fresh, Frozen, Starting
<1>5. Line' = Line
  <2>1. Prefix(linebuf', linebuf_tail) = Prefix(linebuf, linebuf_tail)
    BY <1>1, <1>2, PrefixSame
  <2> QED BY <1>0, <2>1 DEF Line, Prefix
<1>6. Kept'
  BY <1>0, <1>2 DEF Kept
<1>7. EchoMatches'
  BY <1>0, <1>5 DEF EchoMatches
<1>8. Mapped' = Mapped /\ Begun' = Begun
  BY <1>0, <1>5 DEF Mapped, Begun, Starting
<1> QED BY <1>0, <1>3, <1>4, <1>6, <1>7, <1>8, Stutters DEF ConsoleInv, StepOK

(* shell_exec finds the line as it was typed. *)
LEMMA StringIsLine ==
    ASSUME ConsoleInv, pc = "shell_exec"
    PROVE  CString = Line
<1>1. /\ linebuf \in [0..(LINEBUF_MAX - 1) -> Chars \cup {Nul}]
      /\ linebuf_tail \in 0..(LINEBUF_MAX - 1) /\ linebuf_tail \in Nat
      /\ linebuf[linebuf_tail] = Nul
      /\ \A i \in 0..(linebuf_tail - 1) : linebuf[i] \in Chars
      /\ DOMAIN linebuf = 0..(LINEBUF_MAX - 1)
  BY RoomType DEF ConsoleInv, TypeOK, Kept
<1>2. \A i \in 0..(linebuf_tail - 1) : linebuf[i] # Nul
  BY <1>1, CharsAssumption
<1> DEFINE Ends(n) == /\ linebuf[n] = Nul
                      /\ \A i \in 0..(n - 1) : linebuf[i] # Nul
           end == CHOOSE n \in DOMAIN linebuf : Ends(n)
<1>3. linebuf_tail \in DOMAIN linebuf /\ Ends(linebuf_tail)
  BY <1>1, <1>2
<1>4. end \in DOMAIN linebuf /\ Ends(end)
  <2> HIDE DEF Ends
  <2> QED BY <1>3, Zenon
<1> HIDE DEF end
<1>5. end = linebuf_tail
  <2>1. end \in Int
    BY <1>1, <1>4, RoomType
  <2>2. ~(end < linebuf_tail)
    BY <1>1, <1>2, <1>4, <2>1, RoomType
  <2>3. ~(linebuf_tail < end)
    BY <1>1, <1>4, <2>1, RoomType
  <2> QED BY <1>1, <2>1, <2>2, <2>3
<1>6. CString = [i \in 1..end |-> linebuf[i - 1]]
  BY Zenon DEF CString, end
<1> QED BY <1>5, <1>6 DEF Line

LEMMA ExecOK == ConsoleInv /\ Main /\ ShellExec => StepOK
<1> SUFFICES ASSUME ConsoleInv, Main, ShellExec PROVE StepOK
  OBVIOUS
<1>0. /\ TypeOK /\ Modes /\ Fresh /\ Frozen /\ Kept /\ EchoMatches
      /\ pc = "shell_exec" /\ pc' = "reset" /\ executed' = CString
      /\ UNCHANGED <<linemode, linebuf_tail, got_eol, got_key, last_key, shown, early, dbuf, urx0if>>
      /\ ~urx0if
  BY DEF ConsoleInv, Main, ShellExec, Goto
<1>1. /\ linebuf \in [0..(LINEBUF_MAX - 1) -> Chars \cup {Nul}]
      /\ linebuf_tail > 0 /\ got_eol
  BY <1>0 DEF TypeOK, Frozen
<1>2. linebuf' \in [0..(LINEBUF_MAX - 1) -> Chars \cup {Nul}]
  <2>1. PICK cuts : linebuf' = [i \in DOMAIN linebuf |-> IF i \in cuts THEN Nul ELSE linebuf[i]]
    BY DEF ShellExec
  <2> QED BY <1>1, <2>1
<1>3. executed' = Line /\ Line \in Seq(Chars) /\ Len(Line) = linebuf_tail
  BY <1>0, StringIsLine, LineType
<1>4. TypeOK'
  BY <1>0, <1>2, <1>3 DEF TypeOK, Starting
<1>5. Modes' /\ Fresh' /\ Frozen' /\ Kept'
  BY <1>0 DEF Modes, Fresh, Frozen, Kept, Starting
<1>6. EchoMatches'
  <2>1. ~early => executed' = shown
    BY <1>0, <1>3 DEF EchoMatches
  <2> QED BY <1>0, <2>1 DEF EchoMatches
<1>7. Discipline!Execute
  <2>1. Line # <<>>
    BY <1>1, <1>3, EmptySeq
  <2>2. Mapped = Line /\ Mapped' = <<>>
    BY <1>0 DEF Mapped, Begun, Starting
  <2> QED BY <1>0, <1>1, <1>3, <2>1, <2>2 DEF Discipline!Execute, Mapped, Begun, Starting
<1> QED BY <1>4, <1>5, <1>6, <1>7 DEF ConsoleInv, StepOK, Discipline!Next

LEMMA ResetOK == ConsoleInv /\ Main /\ Reset => StepOK
<1> SUFFICES ASSUME ConsoleInv, Main, Reset PROVE StepOK
  OBVIOUS
<1>0. /\ TypeOK /\ Modes /\ Fresh /\ Frozen /\ Kept /\ EchoMatches
      /\ pc = "reset" /\ pc' = "prompt" /\ linebuf_tail' = 0
      /\ UNCHANGED <<linemode, linebuf, got_eol, got_key, last_key, shown, early, executed, dbuf, urx0if>>
      /\ ~urx0if
  BY DEF ConsoleInv, Main, Reset, Goto
<1>1. TypeOK'
  <2>1. 0 \in 0..(LINEBUF_MAX - 1)
    BY RoomType
  <2> QED BY <1>0, <2>1 DEF TypeOK, Starting
<1>2. Modes' /\ Fresh' /\ Frozen'
  BY <1>0 DEF Modes, Fresh, Frozen, Starting
<1>3. Kept'
  <2>1. \A i \in 0..(linebuf_tail' - 1) : FALSE
    BY <1>0
  <2> QED BY <1>0, <2>1 DEF Kept
<1>4. EchoMatches' /\ Mapped' = Mapped /\ Begun' = Begun
  BY <1>0 DEF EchoMatches, Frozen, Mapped, Begun, Starting
<1> QED BY <1>0, <1>1, <1>2, <1>3, <1>4, Stutters DEF ConsoleInv, StepOK

LEMMA PromptOK == ConsoleInv /\ Main /\ Prompt => StepOK
<1> SUFFICES ASSUME ConsoleInv, Main, Prompt PROVE StepOK
  OBVIOUS
<1>0. /\ TypeOK /\ Modes /\ Fresh /\ Frozen /\ Kept /\ EchoMatches
      /\ pc = "prompt" /\ pc' = "ready" /\ shown' = <<>> /\ early' = FALSE
      /\ UNCHANGED <<linemode, linebuf, linebuf_tail, got_eol, got_key, last_key, executed, dbuf, urx0if>>
      /\ ~urx0if
  BY DEF ConsoleInv, Main, Prompt, Goto, buffer
<1>1. TypeOK'
  BY <1>0, EmptySeq DEF TypeOK, Starting
<1>2. Modes' /\ Fresh' /\ Frozen'
  BY <1>0 DEF Modes, Fresh, Frozen, Starting
<1>3. Line' = <<>>
  BY <1>0, PrefixEmpty DEF Frozen, Line, Prefix
<1>4. Kept' /\ EchoMatches'
  BY <1>0, <1>3 DEF Kept, EchoMatches
<1>5. Mapped' = Mapped /\ Begun' = Begun
  BY <1>0 DEF Mapped, Begun, Starting
<1> QED BY <1>0, <1>1, <1>2, <1>4, <1>5, Stutters DEF ConsoleInv, StepOK

LEMMA ReadyOK == ConsoleInv /\ Main /\ Ready => StepOK
<1> SUFFICES ASSUME ConsoleInv, Main, Ready PROVE StepOK
  OBVIOUS
<1>0. /\ TypeOK /\ Modes /\ Fresh /\ Frozen /\ Kept /\ EchoMatches
      /\ pc = "ready" /\ pc' = "console_tick" /\ got_eol' = FALSE
      /\ UNCHANGED <<linemode, linebuf, linebuf_tail, got_key, last_key, shown, early, executed, dbuf, urx0if>>
      /\ ~urx0if
  BY DEF ConsoleInv, Main, Ready, Goto
<1>1. TypeOK'
  BY <1>0 DEF TypeOK, Starting
<1>2. Modes' /\ Fresh' /\ Frozen'
  BY <1>0 DEF Modes, Fresh, Frozen, Starting
<1>3. got_eol /\ linebuf_tail = 0
  BY <1>0 DEF Frozen
<1>4. Line' = <<>>
  BY <1>0, <1>3, PrefixEmpty DEF Line, Prefix
<1>5. Kept' /\ EchoMatches'
  <2>1. Line = <<>>
    BY <1>3, PrefixEmpty DEF Line, Prefix
  <2> QED BY <1>0, <1>3, <1>4, <2>1 DEF Kept, EchoMatches
<1>6. Discipline!NextLine
  <2>1. Mapped = <<>> /\ Mapped' = <<>>
    BY <1>0, <1>4 DEF Mapped, Begun, Starting
  <2> QED BY <1>0, <1>3, <2>1 DEF Discipline!NextLine, Mapped, Begun, Starting
<1> QED BY <1>1, <1>2, <1>5, <1>6 DEF ConsoleInv, StepOK, Discipline!Next

LEMMA ConsoleStep == ConsoleInv /\ [Next]_vars => StepOK
<1> SUFFICES ASSUME ConsoleInv, [Next]_vars PROVE StepOK
  OBVIOUS
<1>1. CASE UNCHANGED vars
  <2>1. TypeOK' /\ Modes'
    BY <1>1 DEF ConsoleInv, TypeOK, Modes, vars, buffer
  <2> QED BY <1>1, <2>1, Untouched DEF vars, buffer
<1>2. CASE Main
  BY <1>2, SetLinemodeOK, ClearTailOK, ClearEolOK, MoveOK, TerminateOK, ExecOK, ResetOK,
     PromptOK, ReadyOK DEF Main
<1> QED BY <1>1, <1>2, ArriveOK, IsrOK DEF Next

THEOREM ConsoleInvariant == Spec => []ConsoleInv
<1>1. ConsoleInv /\ [Next]_vars => ConsoleInv'
  BY ConsoleStep DEF StepOK
<1> QED BY Starts, <1>1, PTL DEF Spec

---------------------------------------------------------------------------
(* What follows *)

(* The console's state keeps its types: neither the handler nor            *)
(* console_tick writes past linebuf (console.c:191, 214).                  *)
THEOREM ConsoleTyped == Spec => []TypeOK
<1>1. ConsoleInv => TypeOK
  BY DEF ConsoleInv
<1> QED BY ConsoleInvariant, <1>1, PTL

(* What the user sees of the line is what the buffer holds.                *)
THEOREM EchoIsLine == Spec => []EchoMatches
<1>1. ConsoleInv => EchoMatches
  BY DEF ConsoleInv
<1> QED BY ConsoleInvariant, <1>1, PTL

(* Every behaviour of the console, whatever arrives between whatever steps *)
(* of console_tick, is one of the line discipline (its fairness aside):    *)
(* a line reaches the shell as it was typed, once, and nothing typed       *)
(* meanwhile gets into it or into the next.                                *)
THEOREM ConsoleIsDisciplined ==
    Spec => Discipline!Init /\ [][Discipline!Next]_(Discipline!lineVars)
<1>1. Init => Discipline!Init
  <2> SUFFICES ASSUME Init PROVE Discipline!Init
    OBVIOUS
  <2>1. Line = <<>>
    BY PrefixEmpty DEF Init, Line, Prefix
  <2> QED BY <2>1 DEF Init, Discipline!Init
<1>2. ConsoleInv /\ [Next]_vars => [Discipline!Next]_(Discipline!lineVars)
  BY ConsoleStep DEF StepOK
<1> QED BY ConsoleInvariant, <1>1, <1>2, PTL DEF Spec
=============================================================================
