---------------------------- MODULE ShellProofs ----------------------------
(***************************************************************************)
(* Proofs about Shell, for lines of any length, and about what parse.c     *)
(* computes (ParseCheck), for texts of any length.                         *)
(*                                                                         *)
(* shell.c: the words of a line start one after the other (StartsIncrease),*)
(* so what linebuf keeps of a line is its first words (CutIs), what argv   *)
(* takes of those lies in the buffer (ArgumentsIs) and is found there      *)
(* (OverIs).  While a command runs, the entries of argv that argc counts   *)
(* point to this line's arguments (ArgvInv); the commands look at no other *)
(* entry before they send.                                                 *)
(*                                                                         *)
(* parse.c: once the prefix is read (PrefixIs), each character is a digit  *)
(* of the numeral and no prefix again (DigitStep), and the sums modulo     *)
(* 2^16 are those of the value (DigitAdded).                               *)
(*                                                                         *)
(* Starts, ParseNumber and Value are recursive functions.  That they exist *)
(* and what they are is shown by the least argument where it would fail    *)
(* (Least).                                                                *)
(***************************************************************************)
EXTENDS Shell, ParseCheck, WellFoundedInduction, TLAPS

(* A set of numbers has a least one. *)
LEMMA Least ==
    ASSUME NEW T, T \subseteq Nat, T # {}
    PROVE  \E n \in T : \A m \in T : n <= m
<1> DEFINE R == OpToRel(<, Nat)
<1>1. IsWellFoundedOn(R, Nat)
  BY NatLessThanWellFounded
<1>2. \E x \in T : \A y \in T : ~(<<y, x>> \in R)
  <2> HIDE DEF R
  <2> QED BY <1>1, WFMin
<1>3. \A x, y \in Nat : <<y, x>> \in R <=> y < x
  BY DEF OpToRel
<1>4. PICK x \in T : \A y \in T : ~(<<y, x>> \in R)
  BY <1>2
<1>5. \A y \in T : ~(y < x)
  <2> HIDE DEF R
  <2> QED BY <1>3, <1>4
<1> QED BY <1>5

(***************************************************************************)
(* shell.c                                                                 *)
(***************************************************************************)

(* A word of the line, or the end of it of which only the length is known. *)
Pieces == [text : Texts \cup {Unknown}, len : Nat, num : Word16]

LEMMA PieceIs ==
    ASSUME NEW line \in Seq(Pieces), NEW i \in 1..Len(line)
    PROVE  line[i] \in Pieces /\ line[i].len \in Nat
<1>1. \A p \in Pieces : p.len \in Nat
  BY DEF Pieces
<1>2. line[i] \in Pieces
  OBVIOUS
<1> QED BY <1>1, <1>2

(* s holds the starts of the first n words of line. *)
Counts(line, n, s) ==
    \A i \in 1..n : s[i] = IF i = 1 THEN 0 ELSE s[i - 1] + line[i - 1].len + 1

StartsOf(line, n, s) == s \in [1..n -> Nat] /\ Counts(line, n, s)

(* The recursive function of the words' offsets exists. *)
LEMMA StartsExist ==
    ASSUME NEW line \in Seq(Pieces), NEW n \in 0..Len(line)
    PROVE  \E s : StartsOf(line, n, s)
<1> DEFINE T == {m \in 0..Len(line) : ~ \E s : StartsOf(line, m, s)}
<1> SUFFICES ASSUME T # {} PROVE FALSE
  OBVIOUS
<1>1. PICK m \in T : \A k \in T : m <= k
  <2>1. T \subseteq Nat
    BY DEF Seq
  <2> HIDE DEF T
  <2> QED BY <2>1, Least
<1>2. m \in 0..Len(line) /\ Len(line) \in Nat /\ ~ \E s : StartsOf(line, m, s)
  BY <1>1
<1>3. m # 0
  <2>1. StartsOf(line, 0, [i \in 1..0 |-> 0])
    BY DEF StartsOf, Counts
  <2> QED BY <1>2, <2>1
<1>4. PICK s : StartsOf(line, m - 1, s)
  <2>1. m - 1 \in 0..Len(line) /\ m - 1 \notin T
    BY <1>1, <1>2, <1>3
  <2> QED BY <2>1
<1> DEFINE longer == [i \in 1..m |-> IF i = 1 THEN 0 ELSE s[i - 1] + line[i - 1].len + 1]
<1>5. \A i \in 1..m : i # 1 => s[i - 1] \in Nat /\ line[i - 1].len \in Nat /\ line[i - 1] \in Pieces
  <2> SUFFICES ASSUME NEW i \in 1..m, i # 1
               PROVE  s[i - 1] \in Nat /\ line[i - 1].len \in Nat /\ line[i - 1] \in Pieces
    OBVIOUS
  <2>1. i - 1 \in 1..(m - 1) /\ i - 1 \in 1..Len(line)
    BY <1>2
  <2>2. line[i - 1] \in Pieces /\ line[i - 1].len \in Nat
    BY <2>1, PieceIs
  <2>3. s[i - 1] \in Nat
    BY <2>1, <1>4 DEF StartsOf, Counts
  <2> QED BY <2>2, <2>3
<1>6. longer \in [1..m -> Nat]
  BY <1>2, <1>5
<1>7. \A i \in 1..(m - 1) : longer[i] = s[i]
  BY <1>2, <1>4 DEF StartsOf, Counts
<1>8. \A i \in 1..m : i # 1 => longer[i] = longer[i - 1] + line[i - 1].len + 1
  <2> SUFFICES ASSUME NEW i \in 1..m, i # 1
               PROVE  longer[i] = longer[i - 1] + line[i - 1].len + 1
    OBVIOUS
  <2>1. i - 1 \in 1..(m - 1)
    BY <1>2
  <2> QED BY <2>1, <1>7
<1>9. StartsOf(line, m, longer)
  BY <1>6, <1>8 DEF StartsOf, Counts
<1> QED BY <1>2, <1>9

SameLengths(a, b, n) == \A i \in 1..(n - 1) : a[i].len = b[i].len

(* Where a word starts depends on the lengths of the words before it. *)
LEMMA SameStarts ==
    ASSUME NEW a, NEW b, NEW n \in Nat, NEW s, NEW t, Counts(a, n, s), Counts(b, n, t),
           SameLengths(a, b, n)
    PROVE  \A i \in 1..n : t[i] = s[i]
<1> DEFINE T == {i \in 1..n : t[i] # s[i]}
<1> SUFFICES ASSUME T # {} PROVE FALSE
  OBVIOUS
<1>1. PICK m \in T : \A k \in T : m <= k
  <2>1. T \subseteq Nat
    OBVIOUS
  <2> HIDE DEF T
  <2> QED BY <2>1, Least
<1>2. m \in 1..n /\ t[m] # s[m]
  BY <1>1
<1>3. m # 1
  BY <1>2 DEF Counts
<1>4. m - 1 \in 1..n /\ m - 1 \notin T /\ m - 1 \in 1..(n - 1)
  BY <1>1, <1>2, <1>3
<1>5. t[m - 1] = s[m - 1] /\ a[m - 1].len = b[m - 1].len
  BY <1>4 DEF SameLengths
<1> QED BY <1>2, <1>3, <1>5 DEF Counts

(* Starts is that function. *)
LEMMA StartsIs ==
    ASSUME NEW line \in Seq(Pieces)
    PROVE  StartsOf(line, Len(line), Starts(line))
<1> DEFINE F(s) == [i \in 1..Len(line) |-> IF i = 1 THEN 0 ELSE s[i - 1] + line[i - 1].len + 1]
<1>1. PICK s : StartsOf(line, Len(line), s)
  BY StartsExist
<1>2. s = F(s)
  BY <1>1 DEF StartsOf, Counts
<1>3. Starts(line) = CHOOSE t : t = F(t)
  BY DEF Starts
<1>4. Starts(line) = F(Starts(line))
  <2> HIDE DEF F
  <2> QED BY <1>2, <1>3
<1> DEFINE t == Starts(line)
<1>5. t = F(t)
  BY <1>4
<1> HIDE DEF t
<1>6. \A i \in 1..Len(line) : t[i] = s[i]
  <2>1. Counts(line, Len(line), t)
    BY <1>5 DEF Counts
  <2>2. Counts(line, Len(line), s)
    BY <1>1 DEF StartsOf
  <2>3. SameLengths(line, line, Len(line))
    BY DEF SameLengths
  <2> QED BY <2>1, <2>2, <2>3, SameStarts
<1>7. t = s
  BY <1>1, <1>2, <1>5, <1>6
<1> QED BY <1>1, <1>7 DEF t

(* The words of a line come one after the other, with a space between. *)
LEMMA StartsIncrease ==
    ASSUME NEW line \in Seq(Pieces), NEW i \in 1..Len(line), NEW j \in 1..Len(line), i < j
    PROVE  Starts(line)[i] + line[i].len + 1 <= Starts(line)[j]
<1> DEFINE n == Len(line)
           s == Starts(line)
           l == [k \in 1..n |-> line[k].len]
<1>1. n \in Nat /\ i \in 1..n /\ j \in 1..n
  OBVIOUS
<1>2. l \in [1..n -> Nat] /\ l[i] = line[i].len
  BY PieceIs
<1>3. /\ s \in [1..n -> Nat]
      /\ \A k \in 1..n : s[k] = IF k = 1 THEN 0 ELSE s[k - 1] + line[k - 1].len + 1
  BY StartsIs DEF StartsOf, Counts
<1>4. \A k \in 1..n : k - 1 \in 1..n => line[k - 1].len = l[k - 1]
  OBVIOUS
<1> HIDE DEF n, s, l
<1>5. \A k \in 1..n : k # 1 => s[k] = s[k - 1] + l[k - 1] + 1
  <2> SUFFICES ASSUME NEW k \in 1..n, k # 1 PROVE s[k] = s[k - 1] + l[k - 1] + 1
    OBVIOUS
  <2>1. k - 1 \in 1..n
    BY <1>1
  <2> QED BY <1>3, <1>4, <2>1
<1>6. \A k \in 1..n : i < k => s[i] + l[i] + 1 <= s[k]
  <2> DEFINE T == {k \in 1..n : i < k /\ ~(s[i] + l[i] + 1 <= s[k])}
  <2> SUFFICES ASSUME T # {} PROVE FALSE
    OBVIOUS
  <2>1. PICK m \in T : \A k \in T : m <= k
    <3>1. T \subseteq Nat
      BY <1>1
    <3> HIDE DEF T
    <3> QED BY <3>1, Least
  <2>2. m \in 1..n /\ i < m /\ ~(s[i] + l[i] + 1 <= s[m])
    BY <2>1
  <2>3. m - 1 \in 1..n /\ m - 1 \notin T
    BY <1>1, <2>1, <2>2
  <2>4. s[m] = s[m - 1] + l[m - 1] + 1
    BY <1>1, <1>5, <2>2
  <2>5. m - 1 = i \/ s[i] + l[i] + 1 <= s[m - 1]
    BY <1>1, <2>2, <2>3
  <2>6. /\ s[m] \in Nat /\ s[m - 1] \in Nat /\ s[i] \in Nat
        /\ l[m - 1] \in Nat /\ l[i] \in Nat
    BY <1>1, <1>2, <1>3, <2>2, <2>3
  <2>7. CASE m - 1 = i
    BY <2>2, <2>4, <2>6, <2>7
  <2>8. CASE s[i] + l[i] + 1 <= s[m - 1]
    BY <2>2, <2>4, <2>6, <2>8
  <2> QED BY <2>5, <2>7, <2>8
<1>7. s[i] + l[i] + 1 <= s[j]
  BY <1>1, <1>6
<1> QED BY <1>2, <1>7 DEF s

(* No word reaches beyond the end of the line. *)
LEMMA EndIs ==
    ASSUME NEW line \in Seq(Pieces), line # <<>>
    PROVE  /\ End(line) \in Nat
           /\ Starts(line)[1] = 0
           /\ \A i \in 1..Len(line) : /\ Starts(line)[i] \in Nat
                                      /\ Starts(line)[i] + line[i].len <= End(line)
<1>1. Len(line) \in Nat \ {0} /\ Len(line) \in 1..Len(line) /\ 1 \in 1..Len(line)
  OBVIOUS
<1>2. \A i \in 1..Len(line) : Starts(line)[i] \in Nat /\ line[i].len \in Nat
  BY StartsIs, PieceIs DEF StartsOf
<1>3. Starts(line)[1] = 0
  BY <1>1, StartsIs DEF StartsOf, Counts
<1> DEFINE e == End(line)
<1>4. e = Starts(line)[Len(line)] + line[Len(line)].len
  BY DEF End
<1> HIDE DEF e
<1>5. ASSUME NEW i \in 1..Len(line) PROVE Starts(line)[i] + line[i].len <= e
  <2>1. CASE i = Len(line)
    BY <1>1, <1>2, <1>4, <2>1
  <2>2. CASE i # Len(line)
    <3>1. Starts(line)[i] + line[i].len + 1 <= Starts(line)[Len(line)]
      BY <1>1, <2>2, StartsIncrease
    <3>2. /\ Starts(line)[i] \in Nat /\ line[i].len \in Nat
          /\ Starts(line)[Len(line)] \in Nat /\ line[Len(line)].len \in Nat
      BY <1>1, <1>2
    <3> QED BY <1>4, <3>1, <3>2
  <2> QED BY <2>1, <2>2
<1>6. e \in Nat
  BY <1>1, <1>2, <1>4
<1> QED BY <1>2, <1>3, <1>5, <1>6 DEF e

(* What the user types, as pieces. *)
LEMMA LineIs ==
    ASSUME NEW line \in Lines
    PROVE  /\ line \in Seq(Pieces) /\ line # <<>>
           /\ \A i \in 1..Len(line) : line[i].text # Unknown
<1>1. line \in Seq(Words) /\ line # <<>>
  BY LinesAssumption
<1>2. \A w \in Words : w \in Pieces /\ w.text \in Texts
  BY DEF Words, Pieces
<1>3. Seq(Words) \subseteq Seq(Pieces)
  <2>1. Words \subseteq Pieces
    BY <1>2
  <2> QED BY <2>1
<1>4. \A i \in 1..Len(line) : line[i] \in Words
  BY <1>1
<1> QED BY <1>1, <1>2, <1>3, <1>4, LinesAssumption

Room == LINEBUF_MAX - 1

(* The pieces of a line lie in the buffer, before the last place. *)
InBuffer(line) == \A i \in 1..Len(line) : Starts(line)[i] + line[i].len <= Room

LEMMA UnknownIs == ASSUME NEW len \in Nat PROVE UnknownText(len) \in Pieces /\ UnknownText(len).len = len
<1>1. 0 \in Word16
  BY DEF Word16
<1> QED BY <1>1 DEF UnknownText, Pieces

(* The words that start where there is room are the first ones. *)
LEMMA KeptIs ==
    ASSUME NEW line \in Lines
    PROVE  \E n \in 1..Len(line) : {i \in DOMAIN line : Starts(line)[i] <= Room} = 1..n
<1> DEFINE L == Len(line)
           s == Starts(line)
           T == {i \in 1..(L + 1) : i = L + 1 \/ ~(s[i] <= Room)}
<1>1. L \in Nat /\ L >= 1 /\ DOMAIN line = 1..L
  BY LineIs
<1>2. s[1] = 0 /\ \A i \in 1..L : s[i] \in Nat
  BY LineIs, EndIs
<1>3. \A i, j \in 1..L : i < j => s[i] <= s[j]
  <2> SUFFICES ASSUME NEW i \in 1..L, NEW j \in 1..L, i < j PROVE s[i] <= s[j]
    OBVIOUS
  <2>1. s[i] + line[i].len + 1 <= s[j] /\ line[i].len \in Nat
    BY LineIs, StartsIncrease, PieceIs
  <2>2. s[i] \in Nat /\ s[j] \in Nat
    BY <1>2
  <2> HIDE DEF s
  <2> QED BY <2>1, <2>2
<1>4. Room \in Nat
  BY BufferAssumption DEF Room
<1> HIDE DEF L, s
<1>5. PICK m \in T : \A k \in T : m <= k
  <2>1. T \subseteq Nat /\ L + 1 \in T
    BY <1>1
  <2> HIDE DEF T
  <2> QED BY <2>1, Least
<1>6. m \in 1..(L + 1) /\ (m = L + 1 \/ ~(s[m] <= Room)) /\ m # 1
  <2>1. 1 \in 1..L
    BY <1>1
  <2> QED BY <1>1, <1>2, <1>4, <1>5, <2>1
<1>7. ASSUME NEW i \in 1..L PROVE s[i] <= Room <=> i \in 1..(m - 1)
  <2>1. CASE i < m
    <3>1. i \notin T
      BY <1>1, <1>5, <1>6, <2>1
    <3> QED BY <1>1, <1>6, <2>1, <3>1
  <2>2. CASE i = m
    BY <1>1, <1>6, <2>2
  <2>3. CASE m < i
    <3>1. m \in 1..L /\ ~(s[m] <= Room) /\ s[m] <= s[i]
      BY <1>1, <1>3, <1>6, <2>3
    <3>2. s[m] \in Nat /\ s[i] \in Nat
      BY <1>2, <3>1
    <3> QED BY <1>4, <1>6, <2>3, <3>1, <3>2
  <2> QED BY <1>1, <1>6, <2>1, <2>2, <2>3
<1>8. m - 1 \in 1..L
  BY <1>1, <1>6
<1>9. {i \in DOMAIN line : s[i] <= Room} = 1..(m - 1)
  BY <1>1, <1>7, <1>8
<1> QED BY <1>8, <1>9 DEF s, L

(* What linebuf keeps of a line lies in the buffer, and is the line if that fits. *)
LEMMA CutIs ==
    ASSUME NEW line \in Lines
    PROVE  /\ Cut(line) \in Seq(Pieces) /\ Cut(line) # <<>>
           /\ InBuffer(Cut(line))
           /\ Fits(line) => Cut(line) = line
<1> DEFINE s == Starts(line)
           piece(i) == IF s[i] + line[i].len <= Room THEN line[i] ELSE UnknownText(Room - s[i])
<1>1. PICK n \in 1..Len(line) : {i \in DOMAIN line : s[i] <= Room} = 1..n
  BY KeptIs
<1>2. Len(line) \in Nat /\ n \in Nat \ {0} /\ line \in Seq(Pieces) /\ line # <<>>
  BY LineIs
<1>3. Room \in Nat
  BY BufferAssumption DEF Room
<1>4. Cut(line) = [i \in 1..n |-> piece(i)]
  BY <1>1 DEF Cut, Room
<1>5. ASSUME NEW i \in 1..n PROVE /\ piece(i) \in Pieces /\ s[i] \in Nat
                                 /\ s[i] + piece(i).len <= Room
  <2>1. i \in 1..Len(line) /\ i \in {j \in DOMAIN line : s[j] <= Room}
    BY <1>1, <1>2
  <2>2. s[i] \in Nat /\ s[i] <= Room /\ line[i] \in Pieces
    BY <1>2, <2>1, EndIs, PieceIs
  <2>3. Room - s[i] \in Nat
    BY <1>3, <2>2
  <2>4. UnknownText(Room - s[i]) \in Pieces /\ UnknownText(Room - s[i]).len = Room - s[i]
    BY <2>3, UnknownIs
  <2>5. s[i] + (Room - s[i]) = Room
    BY <1>3, <2>2
  <2> QED BY <1>3, <2>2, <2>4, <2>5
<1>6. \A i \in 1..(n - 1) : piece(i) = line[i]
  <2> SUFFICES ASSUME NEW i \in 1..(n - 1) PROVE s[i] + line[i].len <= Room
    OBVIOUS
  <2>1. n \in {j \in DOMAIN line : s[j] <= Room} /\ i \in 1..Len(line) /\ n \in 1..Len(line) /\ i < n
    BY <1>1, <1>2
  <2>2. s[i] + line[i].len + 1 <= s[n] /\ s[n] <= Room
    BY <1>2, <2>1, StartsIncrease
  <2>3. s[i] \in Nat /\ line[i].len \in Nat /\ s[n] \in Nat
    BY <1>2, <2>1, EndIs, PieceIs
  <2> HIDE DEF s
  <2> QED BY <1>3, <2>2, <2>3
<1>7. Cut(line) \in Seq(Pieces) /\ Len(Cut(line)) = n /\ Cut(line) # <<>>
  <2> HIDE DEF piece
  <2> QED BY <1>2, <1>4, <1>5
<1>8. \A i \in 1..n : Starts(Cut(line))[i] = s[i]
  <2>1. Counts(line, n, s)
    BY <1>2, StartsIs DEF StartsOf, Counts
  <2>2. Counts(Cut(line), n, Starts(Cut(line)))
    BY <1>7, StartsIs DEF StartsOf
  <2>3. SameLengths(line, Cut(line), n)
    BY <1>2, <1>4, <1>6 DEF SameLengths
  <2>4. n \in Nat
    BY <1>2
  <2> HIDE DEF s, piece
  <2> QED BY <2>1, <2>2, <2>3, <2>4, SameStarts
<1>9. InBuffer(Cut(line))
  <2> HIDE DEF s, piece
  <2> QED BY <1>4, <1>5, <1>7, <1>8 DEF InBuffer
<1>10. ASSUME Fits(line) PROVE Cut(line) = line
  <2>1. End(line) <= Room
    BY <1>2, <1>10, EndIs, BufferAssumption DEF Fits, Room
  <2>2. \A i \in 1..Len(line) : s[i] \in Nat /\ line[i].len \in Nat /\ s[i] + line[i].len <= End(line)
    BY <1>2, EndIs, PieceIs
  <2>3. End(line) \in Nat
    BY <1>2, EndIs
  <2>4. \A i \in 1..Len(line) : s[i] + line[i].len <= Room /\ s[i] <= Room
    <3> HIDE DEF s
    <3> QED BY <1>3, <2>1, <2>2, <2>3
  <2>5. {i \in DOMAIN line : s[i] <= Room} = 1..Len(line)
    BY <1>2, <2>4
  <2>6. n = Len(line)
    BY <1>1, <1>2, <2>5
  <2>7. \A i \in 1..Len(line) : Cut(line)[i] = line[i]
    BY <1>4, <2>4, <2>6
  <2> HIDE DEF s, piece
  <2> QED BY <1>2, <1>7, <2>6, <2>7
<1> QED BY <1>7, <1>9, <1>10

(* shell_exec's arguments are at most MAXARGS, lie in the buffer, and are the
   words of the line if it has no more and fits. *)
(* So do the arguments; there are never more than argv takes. *)
LEMMA ArgumentsIs ==
    ASSUME NEW line \in Lines
    PROVE  LET args == Arguments(Cut(line))
           IN  /\ args \in Seq(Pieces) /\ args # <<>> /\ Len(args) <= MAXARGS
               /\ InBuffer(args)
               /\ Fits(line) /\ Len(line) <= MAXARGS => args = line
<1> DEFINE c == Cut(line)
           args == Arguments(c)
           rest == UnknownText(End(c) - Starts(c)[MAXARGS])
<1>1. /\ c \in Seq(Pieces) /\ c # <<>> /\ InBuffer(c)
      /\ Fits(line) => c = line
  BY CutIs
<1>2. args = IF Len(c) <= MAXARGS THEN c ELSE Append(SubSeq(c, 1, MAXARGS - 1), rest)
  BY DEF Arguments
<1> HIDE DEF c, args
<1>3. CASE Len(c) <= MAXARGS
  BY <1>1, <1>2, <1>3 DEF args, c
<1>4. CASE ~(Len(c) <= MAXARGS)
  <2>1. Len(c) \in Nat /\ Len(c) > 5
    BY <1>1, <1>4 DEF MAXARGS
  <2>2. /\ End(c) \in Nat /\ Starts(c)[5] \in Nat /\ Starts(c)[5] + c[5].len <= End(c)
        /\ c[5].len \in Nat
    BY <1>1, <2>1, EndIs, PieceIs
  <2>3. rest \in Pieces /\ rest.len = End(c) - Starts(c)[5]
    <3>1. End(c) - Starts(c)[5] \in Nat
      BY <2>2
    <3> QED BY <3>1, UnknownIs DEF MAXARGS
  <2> HIDE DEF rest
  <2>4. args = Append(SubSeq(c, 1, 4), rest)
    BY <1>2, <1>4 DEF MAXARGS
  <2>5. /\ args \in Seq(Pieces) /\ Len(args) = 5
        /\ \A i \in 1..4 : args[i] = c[i]
        /\ args[5] = rest
    <3>1. SubSeq(c, 1, 4) \in Seq(Pieces) /\ Len(SubSeq(c, 1, 4)) = 4
          /\ \A i \in 1..4 : SubSeq(c, 1, 4)[i] = c[i]
      BY <1>1, <2>1
    <3> HIDE DEF args
    <3> QED BY <2>3, <2>4, <3>1
  <2>6. \A i \in 1..5 : Starts(args)[i] = Starts(c)[i]
    <3>1. Counts(c, 5, Starts(c)) /\ Counts(args, 5, Starts(args))
      BY <1>1, <2>1, <2>5, StartsIs DEF StartsOf, Counts
    <3>2. SameLengths(c, args, 5)
      BY <2>5 DEF SameLengths
    <3> QED BY <3>1, <3>2, SameStarts
  <2>7. ASSUME NEW i \in 1..5 PROVE Starts(args)[i] + args[i].len <= Room
    <3>1. CASE i = 5
      <4>1. Starts(args)[i] + args[i].len = End(c)
        BY <2>2, <2>3, <2>5, <2>6, <3>1
      <4>2. /\ Starts(c)[Len(c)] + c[Len(c)].len <= Room
        BY <1>1, <2>1 DEF InBuffer
      <4> QED BY <4>1, <4>2 DEF End
    <3>2. CASE i # 5
      <4>1. i \in 1..4 /\ i \in 1..Len(c)
        BY <2>1, <3>2
      <4>2. Starts(c)[i] + c[i].len <= Room
        BY <1>1, <4>1 DEF InBuffer
      <4> QED BY <2>5, <2>6, <4>1, <4>2
    <3> QED BY <3>1, <3>2
  <2>8. InBuffer(args)
    BY <2>5, <2>7 DEF InBuffer
  <2>9. ~(Fits(line) /\ Len(line) <= MAXARGS)
    BY <1>1, <1>4
  <2>10. Len(args) <= MAXARGS /\ args # <<>>
    <3>1. Len(args) <= MAXARGS
      BY <2>5 DEF MAXARGS
    <3>2. Len(args) # Len(<<>>)
      BY <2>5
    <3> QED BY <3>1, <3>2
  <2>11. args \in Seq(Pieces)
    BY <2>5
  <2> QED BY <2>8, <2>9, <2>10, <2>11 DEF args, c
<1> QED BY <1>3, <1>4

Placed(args, buffer) ==
    \A i \in 1..Len(args) : /\ Starts(args)[i] \in 0..Room
                            /\ Starts(args)[i] \in DOMAIN buffer
                            /\ buffer[Starts(args)[i]] = args[i]

(* The buffer then holds the arguments where they start. *)
LEMMA OverIs ==
    ASSUME NEW args \in Seq(Pieces), args # <<>>, InBuffer(args)
    PROVE  /\ Placed(args, Over(args))
           /\ DOMAIN Over(args) \subseteq DOMAIN linebuf \cup (0..Room)
<1> DEFINE s == Starts(args)
<1>1. \A i \in 1..Len(args) : s[i] \in Nat /\ args[i].len \in Nat /\ s[i] + args[i].len <= Room
  BY EndIs, PieceIs DEF InBuffer
<1>2. \A i, j \in 1..Len(args) : i < j => s[i] + args[i].len + 1 <= s[j]
  BY StartsIncrease
<1>3. Room \in Nat
  BY BufferAssumption DEF Room
<1>4. DOMAIN args = 1..Len(args) /\ Len(args) \in Nat
  OBVIOUS
<1>5. DOMAIN Over(args) = {s[i] : i \in 1..Len(args)} \cup {o \in DOMAIN linebuf : o > End(args)}
  BY <1>4 DEF Over
<1>6. \A i \in 1..Len(args) :
          Over(args)[s[i]] = args[CHOOSE j \in 1..Len(args) : s[j] = s[i]]
  BY <1>4 DEF Over
<1> HIDE DEF s
<1>7. \A i \in 1..Len(args) : s[i] \in 0..Room
  BY <1>1, <1>3
<1>8. ASSUME NEW i \in 1..Len(args), NEW j \in 1..Len(args), s[j] = s[i] PROVE i = j
  <2>1. ~(i < j)
    <3> SUFFICES ASSUME i < j PROVE FALSE
      OBVIOUS
    <3>1. s[i] + args[i].len + 1 <= s[j]
      BY <1>2
    <3> QED BY <1>1, <1>8, <3>1
  <2>2. ~(j < i)
    <3> SUFFICES ASSUME j < i PROVE FALSE
      OBVIOUS
    <3>1. s[j] + args[j].len + 1 <= s[i]
      BY <1>2
    <3> QED BY <1>1, <1>8, <3>1
  <2> QED BY <1>4, <2>1, <2>2
<1>9. ASSUME NEW i \in 1..Len(args) PROVE Over(args)[s[i]] = args[i]
  <2>1. (CHOOSE j \in 1..Len(args) : s[j] = s[i]) = i
    BY <1>8
  <2> QED BY <1>6, <2>1
<1> QED BY <1>5, <1>7, <1>9 DEF s, Placed

(***************************************************************************)
(* While a command runs, the entries of argv that argc counts point to the *)
(* arguments of the line typed.                                            *)
(***************************************************************************)
Args == Arguments(Cut(typed))

Pointing ==
    /\ typed \in Lines
    /\ did = Nothing
    /\ argc = Len(Args)
    /\ \A i \in 1..Len(Args) : /\ argv[i] = Starts(Args)[i]
                               /\ argv[i] \in DOMAIN linebuf
                               /\ linebuf[argv[i]] = Args[i]

ArgvInv ==
    /\ TypeOK
    /\ pc = "run" => Pointing
    /\ pc = "app" => did = Nothing

LEMMA ArgvInvInit == Init => ArgvInv
<1> SUFFICES ASSUME Init PROVE ArgvInv
  OBVIOUS
<1>1. DOMAIN linebuf = {}
  BY DEF Init
<1>2. argv \in [1..MAXARGS -> 0..LINEBUF_MAX \cup {Nowhere}]
  BY DEF Init
<1>3. argc \in 0..MAXARGS /\ pc = "read" /\ typed \in Lines \cup {<<>>}
  BY DEF Init, MAXARGS
<1> QED BY <1>1, <1>2, <1>3 DEF ArgvInv, TypeOK

(* shell_exec points argv to the words of the line that was typed. *)
LEMMA ShellExecStep == ASSUME ArgvInv, NEW line \in Lines, ShellExec(line) PROVE ArgvInv'
<1> DEFINE args == Arguments(Cut(line))
<1>1. /\ args \in Seq(Pieces) /\ args # <<>> /\ Len(args) <= MAXARGS /\ InBuffer(args)
  BY ArgumentsIs
<1>2. /\ linebuf' = Over(args) /\ argc' = Len(args)
      /\ argv' = [i \in DOMAIN argv \cup DOMAIN args |->
                      IF i \in DOMAIN args THEN Starts(args)[i] ELSE argv[i]]
      /\ pc' = "run" /\ typed' = line /\ did' = Nothing
  BY DEF ShellExec
<1>3. Args' = args
  BY <1>2 DEF Args
<1> HIDE DEF args
<1>4. Placed(args, Over(args)) /\ DOMAIN Over(args) \subseteq DOMAIN linebuf \cup (0..Room)
  BY <1>1, OverIs
<1>5. DOMAIN args = 1..Len(args) /\ Len(args) \in 0..MAXARGS
  <2>1. DOMAIN args = 1..Len(args) /\ Len(args) \in Nat
    BY <1>1
  <2> QED BY <1>1, <2>1 DEF MAXARGS
<1>6. DOMAIN argv \cup DOMAIN args = 1..MAXARGS
  BY <1>5 DEF ArgvInv, TypeOK, MAXARGS
<1>7. argv' \in [1..MAXARGS -> 0..LINEBUF_MAX \cup {Nowhere}]
  <2>1. 0..Room \subseteq 0..LINEBUF_MAX
    BY BufferAssumption DEF Room
  <2>2. \A i \in 1..MAXARGS : (IF i \in DOMAIN args THEN Starts(args)[i] ELSE argv[i])
                              \in 0..LINEBUF_MAX \cup {Nowhere}
    BY <1>4, <1>5, <2>1 DEF ArgvInv, TypeOK, Placed
  <2> QED BY <1>2, <1>6, <2>2
<1>8. DOMAIN linebuf' \subseteq 0..LINEBUF_MAX
  BY <1>2, <1>4, BufferAssumption DEF ArgvInv, TypeOK, Room
<1>9. TypeOK'
  BY <1>2, <1>5, <1>7, <1>8 DEF TypeOK
<1>10. \A i \in 1..Len(args) : argv'[i] = Starts(args)[i]
  BY <1>2, <1>5
<1>11. Pointing'
  BY <1>2, <1>3, <1>4, <1>10 DEF Pointing, Placed
<1> QED BY <1>2, <1>9, <1>11 DEF ArgvInv

(* The source's argv[i], for i below argc. *)
LEMMA TextIs ==
    ASSUME ArgvInv, pc = "run", NEW i \in 0..(argc - 1)
    PROVE  Text(i) = Args[i + 1] /\ Text(i) \in Pieces
<1>1. Args \in Seq(Pieces) /\ argc = Len(Args) /\ Len(Args) \in Nat
  BY ArgumentsIs DEF ArgvInv, Pointing, Args
<1>2. i + 1 \in 1..Len(Args)
  BY <1>1
<1> QED BY <1>1, <1>2, PieceIs DEF ArgvInv, Pointing, Text

(* Of a line that fits and has no more than MAXARGS words, it is the word. *)
LEMMA WordIs ==
    ASSUME ArgvInv, pc = "run", Fits(typed), Len(typed) <= MAXARGS
    PROVE  /\ argc = Len(typed)
           /\ \A i \in 0..(argc - 1) : /\ Text(i) = typed[i + 1]
                                        /\ Number(i) = {typed[i + 1].num}
<1>1. Args = typed /\ argc = Len(typed) /\ typed \in Lines
  BY ArgumentsIs DEF ArgvInv, Pointing, Args
<1>2. \A i \in 1..Len(typed) : typed[i].text # Unknown
  BY <1>1, LineIs
<1>3. ASSUME NEW i \in 0..(argc - 1) PROVE Text(i) = typed[i + 1] /\ Number(i) = {typed[i + 1].num}
  <2>1. Text(i) = typed[i + 1]
    BY <1>1, TextIs
  <2>2. i + 1 \in 1..Len(typed)
    <3>1. Len(typed) \in Nat
      BY <1>1, LineIs
    <3> QED BY <1>1, <3>1
  <2>3. Text(i).text # Unknown
    BY <1>2, <2>1, <2>2
  <2> QED BY <2>1, <2>3 DEF Number
<1> QED BY <1>1, <1>3

LEMMA ReturnKeeps ==
    ASSUME ArgvInv, NEW result, Return(result),
           argc' \in 0..MAXARGS, argv' \in [1..MAXARGS -> 0..LINEBUF_MAX \cup {Nowhere}]
    PROVE  ArgvInv'
BY DEF ArgvInv, Return, TypeOK

LEMMA CommandStep ==
    ASSUME ArgvInv,
           CmdReset \/ CmdBoot \/ CmdLed \/ CmdXdata \/ CmdPdata \/ CmdTx \/ CmdTeleled
           \/ CmdGfxinit \/ CmdGfxplot \/ CmdGfxtest \/ OtherWord
    PROVE  ArgvInv'
<1>1. CASE CmdReset
  <2>1. argv' \in [1..MAXARGS -> 0..LINEBUF_MAX \cup {Nowhere}] /\ DOMAIN linebuf' = {}
    BY <1>1 DEF CmdReset
  <2>2. /\ argc' \in 0..MAXARGS /\ pc' = "read" /\ typed' \in Lines \cup {<<>>}
    BY <1>1 DEF CmdReset, MAXARGS
  <2> QED BY <2>1, <2>2 DEF ArgvInv, TypeOK
<1>2. CASE CmdBoot
  <2>1. pc = "run" /\ pc' = "app" /\ UNCHANGED <<linebuf, argv, argc, typed, did>>
    BY <1>2 DEF CmdBoot, Called
  <2> QED BY <2>1 DEF ArgvInv, TypeOK, Pointing
<1>3. ASSUME pc = "run" PROVE argc \in 1..MAXARGS /\ argc - 1 \in 0..MAXARGS
  <2>1. Args \in Seq(Pieces) /\ Args # <<>> /\ argc = Len(Args) /\ argc \in 0..MAXARGS
    BY <1>3, ArgumentsIs DEF ArgvInv, Pointing, Args, TypeOK
  <2>2. Len(Args) \in Nat \ {0}
    BY <2>1
  <2> QED BY <2>1, <2>2 DEF MAXARGS
<1>4. CASE CmdTx
  <2>1. pc = "run" /\ argc' = argc - 1 /\ \E result : Return(result)
    BY <1>4 DEF CmdTx, Called, Send
  <2>2. CASE argv' = argv
    BY <1>3, <2>1, <2>2, ReturnKeeps DEF ArgvInv, TypeOK
  <2>3. CASE argc' > 3 /\ argv' = [argv EXCEPT ![5] = @ + Text(4).len]
    <3>1. Args \in Seq(Pieces) /\ InBuffer(Args) /\ argc = Len(Args) /\ argc = 5
      BY <1>3, <2>1, <2>3, ArgumentsIs DEF ArgvInv, Pointing, Args, MAXARGS
    <3>2. /\ Starts(Args)[5] + Args[5].len <= Room /\ argv[5] = Starts(Args)[5]
          /\ Starts(Args)[5] \in Nat /\ Args[5].len \in Nat
      <4>1. 5 \in 1..Len(Args) /\ Args # <<>>
        <5>1. Args # <<>>
          BY <2>1, ArgumentsIs DEF ArgvInv, Pointing, Args
        <5> QED BY <3>1, <5>1
      <4>2. Starts(Args)[5] + Args[5].len <= Room
        BY <3>1, <4>1 DEF InBuffer
      <4>3. Starts(Args)[5] \in Nat /\ Args[5].len \in Nat
        BY <3>1, <4>1, EndIs, PieceIs
      <4>4. argv[5] = Starts(Args)[5]
        BY <2>1, <4>1 DEF ArgvInv, Pointing
      <4> QED BY <4>2, <4>3, <4>4
    <3>3. Text(4) = Args[5]
      BY <2>1, <3>1, TextIs
    <3>4. argv[5] + Text(4).len \in 0..LINEBUF_MAX
      <4>1. Starts(Args)[5] + Args[5].len \in Nat
        BY <3>2
      <4> QED BY <3>2, <3>3, <4>1, BufferAssumption DEF Room
    <3>5. argv' \in [1..MAXARGS -> 0..LINEBUF_MAX \cup {Nowhere}]
      BY <2>3, <3>4 DEF ArgvInv, TypeOK
    <3> QED BY <1>3, <2>1, <3>5, ReturnKeeps
  <2> QED BY <1>4, <2>2, <2>3 DEF CmdTx
<1>5. CASE CmdXdata \/ CmdTeleled \/ CmdGfxinit \/ CmdGfxplot \/ CmdGfxtest
  <2>1. pc = "run" /\ argc' = argc - 1 /\ argv' = argv
    BY <1>5 DEF CmdXdata, CmdTeleled, CmdGfxinit, CmdGfxplot, CmdGfxtest, Called, CountDown
  <2>2. \E result : Return(result)
    BY <1>5 DEF CmdXdata, CmdTeleled, CmdGfxinit, CmdGfxplot, CmdGfxtest, Send, Poke
  <2> QED BY <1>3, <2>1, <2>2, ReturnKeeps DEF ArgvInv, TypeOK
<1>6. CASE CmdLed \/ CmdPdata \/ OtherWord
  <2>1. argc' = argc /\ argv' = argv /\ \E result : Return(result)
    BY <1>6 DEF CmdLed, CmdPdata, OtherWord, Poke
  <2> QED BY <2>1, ReturnKeeps DEF ArgvInv, TypeOK
<1> QED BY <1>1, <1>2, <1>4, <1>5, <1>6

LEMMA ArgvInvStep == ArgvInv /\ [Next]_vars => ArgvInv'
<1> SUFFICES ASSUME ArgvInv, [Next]_vars PROVE ArgvInv'
  OBVIOUS
<1>1. CASE UNCHANGED vars
  BY <1>1 DEF vars, ArgvInv, TypeOK, Pointing, Args
<1>2. CASE App
  BY <1>1, <1>2 DEF App
<1> QED BY <1>1, <1>2, ShellExecStep, CommandStep DEF Next

LEMMA ArgvAlways == Spec => []ArgvInv
BY ArgvInvInit, ArgvInvStep, PTL DEF Spec

(***************************************************************************)
(* What is sent.                                                           *)
(***************************************************************************)

(* A packet of a line that fits has its numbers from there. *)
LEMMA SendIs ==
    ASSUME NEW dst, NEW seq, NEW type, NEW len, NEW payload, Send(dst, seq, type, len, payload)
    PROVE  /\ did' = [kind |-> "send", dst |-> dst % 256, seq |-> seq % 256, type |-> type % 256,
                      len |-> (HEADER - 1 + len) % 256, payload |-> payload]
           /\ typed' = typed
BY DEF Send, Return

LEMMA NotSent ==
    ASSUME NEW result, Return(result), result.kind # "send"
    PROVE  SentFromLine'
BY DEF Return, SentFromLine

(* A line that fits, as the command finds it. *)
LEMMA FittingLine ==
    ASSUME ArgvInv, pc = "run", Fits(typed), Len(typed) <= MAXARGS
    PROVE  argc = Len(typed) /\ argc \in 1..5 /\ typed # <<>> /\ Text(0) = typed[1]
<1>1. typed \in Lines
  BY DEF ArgvInv, Pointing
<1>2. Len(typed) \in Nat \ {0} /\ typed # <<>>
  BY <1>1, LineIs
<1>3. argc = Len(typed) /\ argc \in 1..5
  BY <1>2, WordIs DEF MAXARGS
<1>4. 0 \in 0..(argc - 1)
  BY <1>3
<1>5. Text(0) = typed[0 + 1]
  BY <1>4, WordIs
<1> QED BY <1>2, <1>3, <1>5

LEMMA CmdTxSends == ASSUME ArgvInv, CmdTx PROVE SentFromLine'
<1>1. pc = "run" /\ Text(0).text = "tx" /\ argc' = argc - 1
  BY DEF CmdTx, Called
<1>2. CASE Return(Nothing)
  BY <1>2, NotSent DEF Nothing
<1>3. ASSUME argc' > 3, NEW dst \in Number(1), NEW seq \in Number(2), NEW type \in Number(3),
             Send(dst, seq, type, Text(4).len, Text(4).text)
      PROVE  SentFromLine'
  <2>1. /\ did'.dst = dst % 256 /\ did'.seq = seq % 256 /\ did'.type = type % 256
        /\ did'.payload = Text(4).text /\ typed' = typed
    BY <1>3, SendIs
  <2> SUFFICES ASSUME Fits(typed), Len(typed) <= MAXARGS
               PROVE  /\ did'.dst = Arg(1) /\ did'.seq = Arg(2) /\ did'.type = Arg(3)
                      /\ did'.payload = typed[5].text /\ IsCall("tx", 4)
    BY <2>1 DEF SentFromLine, Arg, IsCall, Fits
  <2>2. argc = 5 /\ Len(typed) = 5 /\ typed # <<>> /\ Text(0) = typed[1]
    BY <1>1, <1>3, FittingLine
  <2>3. /\ Text(4) = typed[5]
        /\ dst = typed[2].num /\ seq = typed[3].num /\ type = typed[4].num
    BY <1>1, <1>3, <2>2, WordIs
  <2> QED BY <1>1, <2>1, <2>2, <2>3 DEF Arg, IsCall
<1> QED BY <1>1, <1>2, <1>3 DEF CmdTx

LEMMA CmdTeleledSends == ASSUME ArgvInv, CmdTeleled PROVE SentFromLine'
<1>1. pc = "run" /\ Text(0).text = "teleled" /\ argc' = argc - 1
  BY DEF CmdTeleled, Called, CountDown
<1>2. CASE Return(Nothing)
  BY <1>2, NotSent DEF Nothing
<1>3. ASSUME argc' = 2, NEW dst \in Number(1), NEW on \in Number(2),
             Send(dst, REQ_ACK, LED, 1, <<on % 256>>)
      PROVE  SentFromLine'
  <2>1. /\ did'.dst = dst % 256 /\ did'.type = LED /\ did'.payload = <<on % 256>>
        /\ typed' = typed
    BY <1>3, SendIs DEF LED
  <2> SUFFICES ASSUME Fits(typed), Len(typed) <= MAXARGS
               PROVE  /\ did'.dst = Arg(1) /\ did'.payload = <<Arg(2)>> /\ IsCall("teleled", 2)
    BY <2>1 DEF SentFromLine, Arg, IsCall, Fits
  <2>2. argc = 3 /\ Len(typed) = 3 /\ typed # <<>> /\ Text(0) = typed[1]
    BY <1>1, <1>3, FittingLine
  <2>3. dst = typed[2].num /\ on = typed[3].num
    BY <1>1, <1>3, <2>2, WordIs
  <2> QED BY <1>1, <2>1, <2>2, <2>3 DEF Arg, IsCall
<1> QED BY <1>1, <1>2, <1>3 DEF CmdTeleled

LEMMA CmdGfxinitSends == ASSUME ArgvInv, CmdGfxinit PROVE SentFromLine'
<1>1. pc = "run" /\ Text(0).text = "gfxinit" /\ argc' = argc - 1
  BY DEF CmdGfxinit, Called, CountDown
<1>2. CASE Return(Nothing)
  BY <1>2, NotSent DEF Nothing
<1>3. ASSUME argc' = 1, NEW dst \in Number(1), Send(dst, REQ_ACK, GFXINIT, 0, <<>>)
      PROVE  SentFromLine'
  <2>1. did'.dst = dst % 256 /\ did'.type = GFXINIT /\ typed' = typed
    BY <1>3, SendIs DEF GFXINIT
  <2> SUFFICES ASSUME Fits(typed), Len(typed) <= MAXARGS
               PROVE  did'.dst = Arg(1) /\ IsCall("gfxinit", 1)
    BY <2>1 DEF SentFromLine, Arg, IsCall, Fits
  <2>2. argc = 2 /\ Len(typed) = 2 /\ typed # <<>> /\ Text(0) = typed[1]
    BY <1>1, <1>3, FittingLine
  <2>3. dst = typed[2].num
    BY <1>1, <1>3, <2>2, WordIs
  <2> QED BY <1>1, <2>1, <2>2, <2>3 DEF Arg, IsCall
<1> QED BY <1>1, <1>2, <1>3 DEF CmdGfxinit

LEMMA CmdGfxtestSends == ASSUME ArgvInv, CmdGfxtest PROVE SentFromLine'
<1>1. pc = "run" /\ Text(0).text = "gfxtest" /\ argc' = argc - 1
  BY DEF CmdGfxtest, Called, CountDown
<1>2. CASE Return(Nothing)
  BY <1>2, NotSent DEF Nothing
<1>3. ASSUME argc' = 1, NEW dst \in Number(1), NEW payload,
             Send(dst, 0, GFXPLOTLINE, 8 + 2, payload)
      PROVE  SentFromLine'
  <2>1. did'.dst = dst % 256 /\ did'.type = GFXPLOTLINE /\ typed' = typed
    BY <1>3, SendIs DEF GFXPLOTLINE
  <2> SUFFICES ASSUME Fits(typed), Len(typed) <= MAXARGS
               PROVE  did'.dst = Arg(1) /\ IsCall("gfxtest", 1)
    BY <2>1 DEF SentFromLine, Arg, IsCall, Fits
  <2>2. argc = 2 /\ Len(typed) = 2 /\ typed # <<>> /\ Text(0) = typed[1]
    BY <1>1, <1>3, FittingLine
  <2>3. dst = typed[2].num
    BY <1>1, <1>3, <2>2, WordIs
  <2> QED BY <1>1, <2>1, <2>2, <2>3 DEF Arg, IsCall
<1> QED BY <1>1, <1>2, <1>3 DEF CmdGfxtest

LEMMA CmdGfxplotSends == ASSUME ArgvInv, CmdGfxplot PROVE SentFromLine'
<1>1. pc = "run" /\ Text(0).text = "gfxplot" /\ argc' = argc - 1
  BY DEF CmdGfxplot, Called, CountDown
<1>2. CASE Return(Nothing)
  BY <1>2, NotSent DEF Nothing
<1>3. ASSUME argc' = 4, NEW dst \in Number(1), NEW x \in Number(2), NEW y \in Number(3),
             Send(dst, 0, GFXPLOTLINE, 8 + 2, <<x % 256, y % 256, Plotted>>)
      PROVE  SentFromLine'
  <2>1. /\ did'.dst = dst % 256 /\ did'.type = GFXPLOTLINE /\ typed' = typed
        /\ did'.payload[1] = x % 256 /\ did'.payload[2] = y % 256
    BY <1>3, SendIs DEF GFXPLOTLINE
  <2> SUFFICES ASSUME Fits(typed), Len(typed) <= MAXARGS
               PROVE  /\ did'.dst = Arg(1) /\ IsCall("gfxplot", 4)
                      /\ did'.payload[1] = Arg(2) /\ did'.payload[2] = Arg(3)
    BY <2>1 DEF SentFromLine, Arg, IsCall, Fits
  <2>2. argc = 5 /\ Len(typed) = 5 /\ typed # <<>> /\ Text(0) = typed[1]
    BY <1>1, <1>3, FittingLine
  <2>3. dst = typed[2].num /\ x = typed[3].num /\ y = typed[4].num
    BY <1>1, <1>3, <2>2, WordIs
  <2> QED BY <1>1, <2>1, <2>2, <2>3 DEF Arg, IsCall
<1> QED BY <1>1, <1>2, <1>3 DEF CmdGfxplot

LEMMA SentStep == ASSUME ArgvInv, SentFromLine, [Next]_vars PROVE SentFromLine'
<1>1. CASE UNCHANGED vars
  BY <1>1 DEF vars, SentFromLine, IsCall, Arg, Fits
<1>2. CASE App
  BY <1>1, <1>2 DEF App
<1>3. CASE CmdReset \/ \E line \in Lines : ShellExec(line)
  <2>1. did' = Nothing
    BY <1>3 DEF CmdReset, ShellExec
  <2> QED BY <2>1 DEF SentFromLine, Nothing
<1>4. CASE CmdBoot
  <2>1. did' = did /\ typed' = typed
    BY <1>4 DEF CmdBoot
  <2> QED BY <2>1 DEF SentFromLine, IsCall, Arg, Fits
<1>5. CASE CmdLed
  <2>1. ASSUME NEW to, Return([kind |-> "led", to |-> to]) PROVE SentFromLine'
    BY <2>1, NotSent
  <2>2. CASE Return(Nothing)
    BY <2>2, NotSent DEF Nothing
  <2> QED BY <1>5, <2>1, <2>2 DEF CmdLed
<1>6. CASE CmdXdata \/ CmdPdata
  <2>1. ASSUME NEW a, NEW v, Return([kind |-> "poke", at |-> a, val |-> v]) PROVE SentFromLine'
    BY <2>1, NotSent
  <2>2. CASE Return(Nothing)
    BY <2>2, NotSent DEF Nothing
  <2> QED BY <1>6, <2>1, <2>2 DEF CmdXdata, CmdPdata, Poke
<1>7. CASE OtherWord
  BY <1>7, NotSent DEF OtherWord, Nothing
<1> QED BY <1>1, <1>2, <1>3, <1>4, <1>5, <1>6, <1>7, CmdTxSends, CmdTeleledSends, CmdGfxinitSends,
           CmdGfxtestSends, CmdGfxplotSends DEF Next

(* Whatever was typed before, a command that sends a packet uses the arguments
   of its own line, if that fits the buffer and has no more words than argv:
   it is sent only if the line has them all. *)
THEOREM PacketsAreTyped == Spec => []SentFromLine
<1>1. Init => SentFromLine
  BY DEF Init, SentFromLine, Nothing
<1>2. ArgvInv /\ SentFromLine /\ [Next]_vars => SentFromLine'
  BY SentStep
<1> QED BY <1>1, <1>2, ArgvAlways, PTL DEF Spec

(***************************************************************************)
(* No packet is longer than the buffer: the text is cut to what linebuf    *)
(* holds, and the words before it take at least the room of the header.    *)
(***************************************************************************)
Bounded == did.kind = "send" => did.len + 1 <= PKTBUF_MAX

LEMMA LenByte == ASSUME NEW n \in Nat PROVE (n % 256) \in Nat /\ (n % 256) <= n
OBVIOUS

LEMMA NothingBounded ==
    ASSUME NEW result, Return(result), result.kind # "send"
    PROVE  Bounded'
BY DEF Return, Bounded

LEMMA SendBounded ==
    ASSUME NEW dst, NEW seq, NEW type, NEW len \in Nat, NEW payload,
           Send(dst, seq, type, len, payload), len + HEADER <= PKTBUF_MAX
    PROVE  Bounded'
<1>1. did'.len = (4 + len) % 256
  BY SendIs DEF HEADER
<1>2. 4 + len \in Nat
  OBVIOUS
<1>3. did'.len \in Nat /\ did'.len <= 4 + len
  BY <1>1, <1>2, LenByte
<1> QED BY <1>3, BufferAssumption DEF Bounded, HEADER

(* The payload of tx is part of a line that is in linebuf. *)
LEMMA CmdTxBounded == ASSUME ArgvInv, LINEBUF_MAX <= PKTBUF_MAX, CmdTx PROVE Bounded'
<1>1. pc = "run" /\ argc' = argc - 1
  BY DEF CmdTx, Called
<1>2. CASE Return(Nothing)
  BY <1>2, NothingBounded DEF Nothing
<1>3. ASSUME argc' > 3, NEW dst \in Number(1), NEW seq \in Number(2), NEW type \in Number(3),
             Send(dst, seq, type, Text(4).len, Text(4).text)
      PROVE  Bounded'
  <2>1. Args \in Seq(Pieces) /\ InBuffer(Args) /\ argc = Len(Args) /\ argc = 5 /\ Args # <<>>
    BY <1>1, <1>3, ArgumentsIs DEF ArgvInv, Pointing, Args, TypeOK, MAXARGS
  <2>2. /\ 1 \in 1..Len(Args) /\ 2 \in 1..Len(Args) /\ 3 \in 1..Len(Args)
        /\ 4 \in 1..Len(Args) /\ 5 \in 1..Len(Args)
    BY <2>1
  <2>3. Text(4) = Args[5]
    BY <1>1, <2>1, TextIs
  <2> DEFINE s == Starts(Args)
             l == [i \in 1..5 |-> Args[i].len]
  <2>4. \A i \in 1..5 : s[i] \in Nat /\ l[i] \in Nat
    BY <2>1, EndIs, PieceIs
  <2>5. \A i, j \in 1..5 : i < j => s[i] + l[i] + 1 <= s[j]
    BY <2>1, StartsIncrease
  <2>6. s[5] + l[5] <= Room
    BY <2>1, <2>2 DEF InBuffer
  <2> HIDE DEF s, l
  <2>7. \A i \in 1..4 : s[i] + 1 <= s[i + 1]
    <3> SUFFICES ASSUME NEW i \in 1..4 PROVE s[i] + 1 <= s[i + 1]
      OBVIOUS
    <3>1. i \in 1..5 /\ i + 1 \in 1..5 /\ i < i + 1
      OBVIOUS
    <3>2. s[i] + l[i] + 1 <= s[i + 1] /\ s[i] \in Nat /\ l[i] \in Nat /\ s[i + 1] \in Nat
      BY <2>4, <2>5, <3>1
    <3> QED BY <3>2
  <2>8. s[5] >= 4
    <3>1. /\ s[1] + 1 <= s[2] /\ s[2] + 1 <= s[3] /\ s[3] + 1 <= s[4] /\ s[4] + 1 <= s[5]
      BY <2>7
    <3>2. s[1] \in Nat /\ s[2] \in Nat /\ s[3] \in Nat /\ s[4] \in Nat /\ s[5] \in Nat
      BY <2>4
    <3> QED BY <3>1, <3>2
  <2>9. l[5] \in Nat /\ l[5] + 5 <= PKTBUF_MAX
    <3>1. s[5] \in Nat /\ l[5] \in Nat
      BY <2>4
    <3> QED BY <2>6, <2>8, <3>1, BufferAssumption DEF Room
  <2>10. l[5] = Text(4).len
    BY <2>3 DEF l
  <2> QED BY <1>3, <2>9, <2>10, SendBounded DEF HEADER
<1> QED BY <1>1, <1>2, <1>3 DEF CmdTx

LEMMA BoundedStep ==
    ASSUME ArgvInv, LINEBUF_MAX <= PKTBUF_MAX, 15 <= PKTBUF_MAX, Bounded, [Next]_vars
    PROVE  Bounded'
<1>1. CASE UNCHANGED vars
  BY <1>1 DEF vars, Bounded
<1>2. CASE App
  BY <1>1, <1>2 DEF App
<1>3. CASE CmdReset \/ \E line \in Lines : ShellExec(line)
  <2>1. did' = Nothing
    BY <1>3 DEF CmdReset, ShellExec
  <2> QED BY <2>1 DEF Bounded, Nothing
<1>4. CASE CmdBoot
  BY <1>4 DEF CmdBoot, Bounded
<1>5. CASE CmdLed
  <2>1. ASSUME NEW to, Return([kind |-> "led", to |-> to]) PROVE Bounded'
    BY <2>1, NothingBounded
  <2>2. CASE Return(Nothing)
    BY <2>2, NothingBounded DEF Nothing
  <2> QED BY <1>5, <2>1, <2>2 DEF CmdLed
<1>6. CASE CmdXdata \/ CmdPdata
  <2>1. ASSUME NEW a, NEW v, Return([kind |-> "poke", at |-> a, val |-> v]) PROVE Bounded'
    BY <2>1, NothingBounded
  <2>2. CASE Return(Nothing)
    BY <2>2, NothingBounded DEF Nothing
  <2> QED BY <1>6, <2>1, <2>2 DEF CmdXdata, CmdPdata, Poke
<1>7. CASE OtherWord
  BY <1>7, NothingBounded DEF OtherWord, Nothing
<1>8. CASE CmdTeleled \/ CmdGfxinit \/ CmdGfxtest \/ CmdGfxplot
  <2>1. \A n \in {0, 1, 8 + 2} : n \in Nat /\ n + HEADER <= PKTBUF_MAX
    BY BufferAssumption DEF HEADER
  <2>2. CASE Return(Nothing)
    BY <2>2, NothingBounded DEF Nothing
  <2>3. ASSUME NEW dst, NEW seq, NEW type, NEW n \in {0, 1, 8 + 2}, NEW payload,
               Send(dst, seq, type, n, payload)
        PROVE  Bounded'
    BY <2>1, <2>3, SendBounded
  <2> QED BY <1>8, <2>2, <2>3 DEF CmdTeleled, CmdGfxinit, CmdGfxtest, CmdGfxplot
<1> QED BY <1>1, <1>2, <1>3, <1>4, <1>5, <1>6, <1>7, <1>8, CmdTxBounded DEF Next

(* However many words a line has, shell_exec leaves argv its size, argc within
   it, and nothing beyond linebuf. *)
THEOREM ShellTyped == Spec => []TypeOK
<1>1. ArgvInv => TypeOK
  BY DEF ArgvInv
<1> QED BY <1>1, ArgvAlways, PTL

(* argv never grows beyond its five entries, and no packet that a command
   sends is longer than pktbuf, if that is as large as linebuf and takes the
   eight bytes of a line of the picture: packet_build checks neither. *)
THEOREM PacketsFit ==
    ASSUME LINEBUF_MAX <= PKTBUF_MAX, 15 <= PKTBUF_MAX PROVE Spec => []InBounds
<1>1. Init => Bounded
  BY DEF Init, Bounded, Nothing
<1>2. ArgvInv /\ Bounded /\ [Next]_vars => Bounded'
  BY BoundedStep
<1>3. ArgvInv /\ Bounded => InBounds
  <2> SUFFICES ASSUME ArgvInv, Bounded PROVE InBounds
    OBVIOUS
  <2>1. argv \in [1..5 -> 0..LINEBUF_MAX \cup {Nowhere}]
    BY DEF ArgvInv, TypeOK, MAXARGS
  <2>2. Len(argv) = 5
    <3> DEFINE places == 0..LINEBUF_MAX \cup {Nowhere}
    <3>1. argv \in [1..5 -> places]
      BY <2>1
    <3> HIDE DEF places
    <3> QED BY <3>1
  <2> QED BY <2>2 DEF Bounded, InBounds, MAXARGS
<1> QED BY <1>1, <1>2, <1>3, ArgvAlways, PTL DEF Spec

(***************************************************************************)
(* parse.c                                                                 *)
(***************************************************************************)
Bases == {2, 10, 16}

LEMMA DigitIs ==
    ASSUME NEW c \in HexDigits
    PROVE  DigitValue(c) = DigitToInt(c) /\ DigitToInt(c) \in 0..15
<1>1. c \in 48..57 \/ c \in 65..70 \/ c \in 97..102
  BY DEF HexDigits, Decimal
<1>2. DigitToInt(c) = (IF c \in 48..57 THEN c - 48 ELSE IF c \in 65..70 THEN c - 55 ELSE c - 87)
  <2>1. CASE c \in 48..57
    BY <2>1 DEF DigitToInt
  <2>2. CASE c \in 65..70
    BY <2>2 DEF DigitToInt
  <2>3. CASE c \in 97..102
    BY <2>3 DEF DigitToInt
  <2> QED BY <1>1, <2>1, <2>2, <2>3
<1>3. \A v \in 0..15 : c \in DigitsOf(v) <=> v = DigitToInt(c)
  BY <1>1, <1>2 DEF DigitsOf
<1>4. DigitToInt(c) \in 0..15
  BY <1>1, <1>2
<1> QED BY <1>3, <1>4 DEF DigitValue

(* v holds the values of the first digits of s. *)
LEMMA SumsExist ==
    ASSUME NEW s, NEW base, NEW n \in Nat
    PROVE  \E v : v = [i \in 0..n |-> IF i = 0 THEN 0 ELSE v[i - 1] * base + DigitValue(s[i])]
<1> DEFINE Sum(m, v) == v = [i \in 0..m |-> IF i = 0 THEN 0 ELSE v[i - 1] * base + DigitValue(s[i])]
           T == {m \in Nat : ~ \E v : Sum(m, v)}
<1> SUFFICES ASSUME T # {} PROVE FALSE
  OBVIOUS
<1>1. PICK m \in T : \A k \in T : m <= k
  <2>1. T \subseteq Nat
    OBVIOUS
  <2> HIDE DEF T
  <2> QED BY <2>1, Least
<1>2. m \in Nat /\ ~ \E v : Sum(m, v)
  BY <1>1
<1>3. m # 0
  <2>1. Sum(0, [i \in 0..0 |-> 0])
    OBVIOUS
  <2> HIDE DEF Sum
  <2> QED BY <1>2, <2>1
<1>4. PICK v : Sum(m - 1, v)
  <2>1. m - 1 \in Nat /\ m - 1 \notin T
    BY <1>1, <1>2, <1>3
  <2> HIDE DEF Sum
  <2> QED BY <2>1
<1> DEFINE longer == [i \in 0..m |-> IF i = 0 THEN 0 ELSE v[i - 1] * base + DigitValue(s[i])]
<1>5. \A i \in 0..(m - 1) : longer[i] = v[i]
  BY <1>2, <1>4
<1>6. \A i \in 0..m : i # 0 => i - 1 \in 0..(m - 1)
  BY <1>2
<1>7. longer = [i \in 0..m |-> IF i = 0 THEN 0 ELSE longer[i - 1] * base + DigitValue(s[i])]
  BY <1>5, <1>6
<1> QED BY <1>2, <1>7

Summed(s, base, v) ==
    /\ v \in [0..Len(s) -> Nat]
    /\ v[0] = 0
    /\ \A i \in 1..Len(s) : v[i] = v[i - 1] * base + DigitToInt(s[i])

LEMMA ValueIs ==
    ASSUME NEW s \in Seq(HexDigits), NEW base \in Bases
    PROVE  \E v : Summed(s, base, v) /\ Value(s, base) = (v[Len(s)] % 65536)
<1> DEFINE n == Len(s)
           F(v) == [i \in 0..n |-> IF i = 0 THEN 0 ELSE v[i - 1] * base + DigitValue(s[i])]
           v == CHOOSE u : u = F(u)
<1>1. n \in Nat /\ \A i \in 1..n : s[i] \in HexDigits
  OBVIOUS
<1>2. Value(s, base) = (v[n] % 65536)
  BY DEF Value
<1>3. v = F(v)
  <2>1. \E u : u = F(u)
    BY <1>1, SumsExist
  <2> HIDE DEF F
  <2> QED BY <2>1
<1> HIDE DEF v, n
<1>4. v[0] = 0 /\ \A i \in 1..n : v[i] = v[i - 1] * base + DigitValue(s[i])
  BY <1>1, <1>3
<1>5. \A i \in 1..n : DigitValue(s[i]) = DigitToInt(s[i]) /\ DigitToInt(s[i]) \in Nat
  <2> SUFFICES ASSUME NEW i \in 1..n PROVE DigitValue(s[i]) = DigitToInt(s[i]) /\ DigitToInt(s[i]) \in Nat
    OBVIOUS
  <2>1. DigitToInt(s[i]) \in 0..15 /\ DigitValue(s[i]) = DigitToInt(s[i])
    BY <1>1, DigitIs
  <2> QED BY <2>1
<1>6. \A i \in 0..n : v[i] \in Nat
  <2> DEFINE T == {i \in 0..n : v[i] \notin Nat}
  <2> SUFFICES ASSUME T # {} PROVE FALSE
    OBVIOUS
  <2>1. PICK m \in T : \A k \in T : m <= k
    <3>1. T \subseteq Nat
      BY <1>1
    <3> HIDE DEF T
    <3> QED BY <3>1, Least
  <2>2. m \in 1..n /\ v[m] \notin Nat
    BY <1>1, <1>4, <2>1
  <2>3. m - 1 \in 0..n /\ m - 1 \notin T
    BY <1>1, <2>1, <2>2
  <2>4. v[m - 1] \in Nat
    BY <2>3
  <2>5. DigitValue(s[m]) \in Nat /\ base \in Nat
    BY <1>5, <2>2 DEF Bases
  <2>6. v[m] = v[m - 1] * base + DigitValue(s[m])
    BY <1>4, <2>2
  <2> QED BY <2>2, <2>4, <2>5, <2>6
<1>7. v \in [0..n -> Nat]
  BY <1>3, <1>6
<1>8. Summed(s, base, v)
  BY <1>4, <1>5, <1>7 DEF n, Summed
<1> QED BY <1>2, <1>8 DEF n

(* What parse_number knows before the first character. *)
Fresh == [base |-> 10, result |-> 0, rejected |-> FALSE]

(* The recursive function of the loop of parse_number exists. *)
LEMMA AfterExist ==
    ASSUME NEW s, NEW n \in Nat
    PROVE  \E p : p = [i \in 0..n |-> IF i = 0 THEN Fresh ELSE NextChar(p[i - 1], s, i)]
<1> DEFINE After(m, p) == p = [i \in 0..m |-> IF i = 0 THEN Fresh ELSE NextChar(p[i - 1], s, i)]
           T == {m \in Nat : ~ \E p : After(m, p)}
<1> SUFFICES ASSUME T # {} PROVE FALSE
  OBVIOUS
<1>1. PICK m \in T : \A k \in T : m <= k
  <2>1. T \subseteq Nat
    OBVIOUS
  <2> HIDE DEF T
  <2> QED BY <2>1, Least
<1>2. m \in Nat /\ ~ \E p : After(m, p)
  BY <1>1
<1>3. m # 0
  <2>1. After(0, [i \in 0..0 |-> Fresh])
    OBVIOUS
  <2> HIDE DEF After
  <2> QED BY <1>2, <2>1
<1>4. PICK p : After(m - 1, p)
  <2>1. m - 1 \in Nat /\ m - 1 \notin T
    <3> HIDE DEF T
    <3> QED BY <1>1, <1>2, <1>3
  <2> HIDE DEF After
  <2> QED BY <2>1
<1> DEFINE longer == [i \in 0..m |-> IF i = 0 THEN Fresh ELSE NextChar(p[i - 1], s, i)]
<1>5. \A i \in 0..(m - 1) : longer[i] = p[i]
  BY <1>2, <1>4
<1>6. \A i \in 0..m : i # 0 => i - 1 \in 0..(m - 1)
  BY <1>2
<1>7. longer = [i \in 0..m |-> IF i = 0 THEN Fresh ELSE NextChar(longer[i - 1], s, i)]
  BY <1>5, <1>6
<1> QED BY <1>2, <1>7

LEMMA ParseNumberIs ==
    ASSUME NEW s, Len(s) \in Nat
    PROVE  \E p : /\ p[0] = Fresh
                 /\ \A i \in 1..Len(s) : p[i] = NextChar(p[i - 1], s, i)
                 /\ ParseNumber(s) = IF p[Len(s)].rejected THEN 0 ELSE p[Len(s)].result
<1> DEFINE F(p) == [i \in 0..Len(s) |-> IF i = 0 THEN Fresh ELSE NextChar(p[i - 1], s, i)]
           p == CHOOSE q : q = F(q)
<1>1. ParseNumber(s) = IF p[Len(s)].rejected THEN 0 ELSE p[Len(s)].result
  BY DEF ParseNumber, Fresh
<1>2. p = F(p)
  <2>1. \E q : q = F(q)
    BY AfterExist
  <2> HIDE DEF F
  <2> QED BY <2>1
<1> HIDE DEF p
<1>3. p[0] = Fresh /\ \A i \in 1..Len(s) : p[i] = NextChar(p[i - 1], s, i)
  BY <1>2
<1> QED BY <1>1, <1>3

(* Cutting to 16 bits at each digit or at the end is the same. *)
LEMMA DigitAdded ==
    ASSUME NEW base \in Bases, NEW value \in Nat, NEW d \in Nat
    PROVE  (((value % 65536) * base + d) % 65536) = ((value * base + d) % 65536)
<1>1. CASE base = 2
  BY <1>1
<1>2. CASE base = 10
  BY <1>2
<1>3. CASE base = 16
  BY <1>3
<1> QED BY <1>1, <1>2, <1>3 DEF Bases

Known(base, result) == [base |-> base, result |-> result, rejected |-> FALSE]

(* One digit of a numeral, where no prefix is announced. *)
LEMMA DigitStep ==
    ASSUME NEW s, NEW i, NEW base \in Bases, NEW result,
           s[i] \in Digits(base), i \in {1, 2} /\ base = 16 => s[i] # LowerB
    PROVE  NextChar(Known(base, result), s, i)
           = Known(base, ((result * base + DigitToInt(s[i])) % 65536))
<1> DEFINE p == Known(base, result)
           d == DigitToInt(s[i])
<1>1. s[i] \in HexDigits /\ d \in 0..15 /\ d < base
  BY DigitIs DEF Digits
<1>2. s[i] \in 48..57 \/ s[i] \in 65..70 \/ s[i] \in 97..102
  BY <1>1 DEF HexDigits, Decimal
<1>3. Announced(i, s[i]) = 0
  <2>1. s[i] # LowerH /\ s[i] # LowerX
    BY <1>2 DEF LowerH, LowerX
  <2>2. s[i] = LowerB => d = 11
    BY DEF LowerB, DigitToInt
  <2>3. s[i] = LowerB => i \notin {1, 2}
    BY <1>1, <2>2 DEF Bases
  <2> QED BY <2>1, <2>3 DEF Announced
<1>4. p.base = base /\ p.result = result /\ p.rejected = FALSE
  BY DEF Known
<1>5. NextChar(p, s, i) = NextDigit(p, d)
  BY <1>3, <1>4 DEF NextChar
<1> DEFINE next == (result * base + d) % 65536
<1>6. NextDigit(p, d) = Known(base, next)
  <2>1. NextDigit(p, d) = [p EXCEPT !.result = next]
    <3> HIDE DEF d
    <3> QED BY <1>1, <1>4 DEF NextDigit
  <2> HIDE DEF d, next
  <2> QED BY <2>1 DEF Known
<1> HIDE DEF next, d, p
<1>7. NextChar(p, s, i) = Known(base, next)
  BY <1>5, <1>6
<1> QED BY <1>7 DEF next, p, d

(* A letter that announces a base, before any digit but zeros. *)
LEMMA PrefixStep ==
    ASSUME NEW s, NEW i, NEW base, Len(s) \in Nat,
           Announced(i, s[i]) # 0, Shortest(s[i]) <= Len(s)
    PROVE  NextChar(Known(base, 0), s, i) = Known(Announced(i, s[i]), 0)
<1> DEFINE p == Known(base, 0)
           b == Announced(i, s[i])
           short == Len(s) < Shortest(s[i])
<1>1. p.base = base /\ p.result = 0 /\ p.rejected = FALSE
  BY DEF Known
<1>2. NextChar(p, s, i) = [p EXCEPT !.base = b, !.rejected = short]
  BY <1>1 DEF NextChar
<1>3. short = FALSE
  BY DEF Shortest
<1> HIDE DEF b, short
<1>4. NextChar(p, s, i) = Known(b, 0)
  BY <1>2, <1>3 DEF Known
<1> QED BY <1>4 DEF b

(* After the prefix of a numeral the base is known and nothing else. *)
LEMMA PrefixIs ==
    ASSUME NEW s, Len(s) \in Nat, NEW base \in Bases, NEW first \in 1..3, first <= Len(s),
           Numeral(s, base, first),
           NEW p, p[0] = Fresh, \A i \in 1..Len(s) : p[i] = NextChar(p[i - 1], s, i)
    PROVE  p[first - 1] = Known(base, 0)
<1>1. p[0] = Known(10, 0)
  BY DEF Fresh, Known
<1>2. CASE base = 10 /\ first = 1
  BY <1>1, <1>2
<1>3. CASE first = 2
  <2>1. (base = 2 /\ s[1] = LowerB) \/ (base = 16 /\ s[1] = LowerH)
    BY <1>3 DEF Numeral
  <2>2. Announced(1, s[1]) = base /\ Shortest(s[1]) = 2
    BY <2>1 DEF Announced, Shortest, LowerB, LowerH, LowerX
  <2>3. p[1] = NextChar(Known(10, 0), s, 1)
    <3>1. 1 \in 1..Len(s) /\ 1 - 1 = 0
      BY <1>3
    <3> QED BY <1>1, <3>1
  <2>4. p[1] = Known(base, 0)
    <3>1. Announced(1, s[1]) # 0 /\ Shortest(s[1]) <= Len(s)
      BY <1>3, <2>2 DEF Bases
    <3> QED BY <2>2, <2>3, <3>1, PrefixStep
  <2> QED BY <1>3, <2>4
<1>4. CASE first = 3
  <2>1. s[1] = 48 /\ ((base = 2 /\ s[2] = LowerB) \/ (base = 16 /\ s[2] = LowerX))
    BY <1>4 DEF Numeral
  <2>2. Announced(2, s[2]) = base /\ Shortest(s[2]) <= 3
    BY <2>1 DEF Announced, Shortest, LowerB, LowerH, LowerX
  <2>3. p[1] = Known(10, 0)
    <3>1. 48 \in HexDigits
      BY DEF HexDigits, Decimal
    <3>2. DigitToInt(48) = 0
      BY DEF DigitToInt
    <3>3. s[1] \in Digits(10) /\ 10 \in Bases
      BY <2>1, <3>1, <3>2, DigitIs DEF Digits, Bases
    <3>4. NextChar(Known(10, 0), s, 1) = Known(10, ((0 * 10 + DigitToInt(s[1])) % 65536))
      BY <3>3, DigitStep
    <3>5. ((0 * 10 + DigitToInt(s[1])) % 65536) = 0
      BY <2>1, <3>2
    <3>6. 1 \in 1..Len(s) /\ 1 - 1 = 0
      BY <1>4
    <3> QED BY <1>1, <3>4, <3>5, <3>6
  <2>4. p[2] = Known(base, 0)
    <3>1. Announced(2, s[2]) # 0 /\ Shortest(s[2]) <= Len(s)
      BY <1>4, <2>2 DEF Bases, Shortest
    <3>2. 2 \in 1..Len(s) /\ 2 - 1 = 1
      BY <1>4
    <3>3. p[2] = NextChar(Known(10, 0), s, 2)
      BY <2>3, <3>2
    <3> QED BY <2>2, <3>1, <3>3, PrefixStep
  <2> QED BY <1>4, <2>4
<1> QED BY <1>2, <1>3, <1>4 DEF Numeral

LEMMA NumeralParsed ==
    ASSUME NEW s \in Seq(Nat), NEW base \in Bases, NEW first \in 1..3, first <= Len(s),
           Numeral(s, base, first), ~(first = 2 /\ s[1] = LowerH /\ s[2] = LowerB)
    PROVE  ParseNumber(s) = Value(From(s, first), base)
<1> DEFINE f == From(s, first)
           n == Len(s) - first + 1
<1>1. Len(s) \in Nat /\ n \in Nat /\ n >= 1 /\ first - 1 + n = Len(s)
  OBVIOUS
<1>2. f \in Seq(Nat) /\ Len(f) = n /\ \A i \in 1..n : f[i] = s[first - 1 + i]
  BY <1>1 DEF From
<1>3. AllIn(f, Digits(base))
  BY DEF Numeral
<1> HIDE DEF f, n
<1>4. \A i \in 1..n : f[i] \in Digits(base) /\ s[first - 1 + i] \in Digits(base)
  <2>1. DOMAIN f = 1..n
    BY <1>2
  <2>2. \A i \in DOMAIN f : f[i] \in Digits(base)
    BY <1>3 DEF AllIn
  <2> QED BY <1>2, <2>1, <2>2
<1>5. f \in Seq(HexDigits)
  <2>1. \A i \in 1..n : f[i] \in HexDigits
    BY <1>4 DEF Digits
  <2>2. f = [i \in 1..n |-> f[i]]
    BY <1>2
  <2> QED BY <1>1, <2>1, <2>2
<1>6. PICK v : Summed(f, base, v) /\ Value(f, base) = (v[Len(f)] % 65536)
  BY <1>5, ValueIs
<1>7. PICK p : /\ p[0] = Fresh
               /\ \A i \in 1..Len(s) : p[i] = NextChar(p[i - 1], s, i)
               /\ ParseNumber(s) = IF p[Len(s)].rejected THEN 0 ELSE p[Len(s)].result
  BY <1>1, ParseNumberIs
<1>8. p[first - 1] = Known(base, 0)
  BY <1>1, <1>7, PrefixIs
<1>9. \A i \in 0..n : p[first - 1 + i] = Known(base, (v[i] % 65536))
  <2> DEFINE T == {i \in 0..n : p[first - 1 + i] # Known(base, (v[i] % 65536))}
  <2> SUFFICES ASSUME T # {} PROVE FALSE
    OBVIOUS
  <2>1. PICK m \in T : \A k \in T : m <= k
    <3>1. T \subseteq Nat
      BY <1>1
    <3> HIDE DEF T
    <3> QED BY <3>1, Least
  <2>2. m \in 0..n /\ p[first - 1 + m] # Known(base, (v[m] % 65536))
    BY <2>1
  <2>3. m # 0
    <3>1. (v[0] % 65536) = 0 /\ first - 1 + 0 = first - 1
      BY <1>6 DEF Summed
    <3> QED BY <1>8, <2>2, <3>1
  <2>4. m - 1 \in 0..n /\ m - 1 \notin T /\ m \in 1..n
    <3>1. m - 1 \in 0..n /\ m \in 1..n /\ ~(m <= m - 1)
      BY <1>1, <2>2, <2>3
    <3> HIDE DEF T
    <3> QED BY <2>1, <3>1
  <2>5. p[first - 1 + (m - 1)] = Known(base, (v[m - 1] % 65536))
    BY <2>4
  <2> DEFINE j == first - 1 + m
  <2>6. j \in 1..Len(s) /\ j - 1 = first - 1 + (m - 1) /\ j >= first
    BY <1>1, <2>4
  <2>7. s[j] \in Digits(base) /\ f[m] = s[j]
    BY <1>2, <1>4, <2>4
  <2>8. j \in {1, 2} /\ base = 16 => s[j] # LowerB
    <3> SUFFICES ASSUME j \in {1, 2}, base = 16 PROVE s[j] # LowerB
      OBVIOUS
    <3>1. first = 2 /\ j = 2 /\ s[1] = LowerH
      BY <2>4, <2>6 DEF Numeral
    <3> QED BY <3>1
  <2> HIDE DEF j, T
  <2>9. p[j] = Known(base, (((v[m - 1] % 65536) * base + DigitToInt(s[j])) % 65536))
    <3>1. p[j] = NextChar(Known(base, (v[m - 1] % 65536)), s, j)
      BY <1>7, <2>5, <2>6
    <3> QED BY <2>7, <2>8, <3>1, DigitStep
  <2>10. v[m - 1] \in Nat /\ DigitToInt(s[j]) \in Nat
    <3>1. DigitToInt(s[j]) \in 0..15
      BY <2>7, DigitIs DEF Digits
    <3>2. v[m - 1] \in Nat
      <4>1. v \in [0..n -> Nat]
        BY <1>2, <1>6 DEF Summed
      <4> QED BY <2>4, <4>1
    <3> QED BY <3>1, <3>2
  <2>11. v[m] = v[m - 1] * base + DigitToInt(s[j])
    BY <1>2, <1>6, <2>4, <2>7 DEF Summed
  <2>12. p[j] = Known(base, (v[m] % 65536))
    BY <2>9, <2>10, <2>11, DigitAdded
  <2> QED BY <2>2, <2>12 DEF j
<1>10. p[Len(s)] = Known(base, (v[n] % 65536))
  BY <1>1, <1>9
<1> QED BY <1>2, <1>6, <1>7, <1>10 DEF Known, f

LEMMA ByteIs == ASSUME NEW k \in 0..255 PROVE (k % 65536) = k /\ (k % 256) = k
OBVIOUS

(* A pair of hex digits is worth one byte. *)
LEMMA PairDecoded ==
    ASSUME NEW s \in Seq(HexDigits), Len(s) = 2
    PROVE  Value(s, 16) = ((DigitToInt(s[1]) * 16 + DigitToInt(s[2])) % 256)
<1> DEFINE a == DigitToInt(s[1])
           b == DigitToInt(s[2])
           n == Len(s)
<1>1. s[1] \in HexDigits /\ s[2] \in HexDigits
  <2>1. \A i \in 1..n : s[i] \in HexDigits
    OBVIOUS
  <2> QED BY <2>1
<1>2. a \in 0..15 /\ b \in 0..15
  BY <1>1, DigitIs
<1>3. PICK v : Summed(s, 16, v) /\ Value(s, 16) = (v[n] % 65536)
  <2> DEFINE base == 16
  <2>1. base \in Bases
    BY DEF Bases
  <2> HIDE DEF base
  <2>2. \E v : Summed(s, base, v) /\ Value(s, base) = (v[Len(s)] % 65536)
    BY ONLY <2>1, s \in Seq(HexDigits), ValueIs
  <2> QED BY <2>2 DEF base
<1>4. v[0] = 0 /\ v[1] = v[0] * 16 + a /\ v[2] = v[1] * 16 + b
  <2>1. 1 - 1 = 0 /\ 2 - 1 = 1 /\ 1 \in 1..2 /\ 2 \in 1..2
    OBVIOUS
  <2>2. \A i \in 1..2 : v[i] = v[i - 1] * 16 + DigitToInt(s[i])
    BY <1>3 DEF Summed
  <2> QED BY <1>3, <2>1, <2>2 DEF Summed
<1> HIDE DEF a, b
<1>5. v[1] = a
  BY <1>2, <1>4
<1>6. v[2] = a * 16 + b /\ v[2] \in 0..255
  BY <1>2, <1>4, <1>5
<1>7. (v[2] % 65536) = v[2] /\ (v[2] % 256) = v[2]
  <2>1. PICK k \in 0..255 : k = v[2]
    BY <1>6
  <2>2. (k % 65536) = k /\ (k % 256) = k
    BY ByteIs
  <2> QED BY <2>1, <2>2
<1>8. v[n] = v[2]
  OBVIOUS
<1> HIDE DEF n
<1>9. Value(s, 16) = ((a * 16 + b) % 256)
  BY <1>3, <1>6, <1>7, <1>8
<1> QED BY <1>9 DEF a, b

LEMMA PairsDecoded ==
    ASSUME NEW s \in Seq(Nat), NEW room \in Nat, AllIn(s, HexDigits)
    PROVE  LET out == ParseHexdata(s, room)
           IN  IF Len(s) % 2 = 0 /\ Len(s) <= 2 * room
               THEN /\ 2 * Len(out) = Len(s)
                    /\ \A i \in DOMAIN out : out[i] = Value(SubSeq(s, 2 * i - 1, 2 * i), 16)
               ELSE out = <<>>
<1> DEFINE n == Len(s) \div 2
           out == ParseHexdata(s, room)
<1>1. Len(s) \in Nat /\ n \in Nat /\ \A i \in 1..Len(s) : s[i] \in HexDigits
  BY DEF AllIn
<1>2. CASE (Len(s) % 2) = 0 /\ Len(s) <= 2 * room
  <2>1. Len(s) = 2 * n /\ n <= room
    BY <1>1, <1>2
  <2>2. FitsOut(Len(s), room)
    BY <1>2, <2>1 DEF FitsOut
  <2>3. out = [i \in 1..n |-> (DigitToInt(s[2 * i - 1]) * 16 + DigitToInt(s[2 * i])) % 256]
    BY <2>2 DEF ParseHexdata
  <2> HIDE DEF out, n
  <2>4. Len(out) = n /\ DOMAIN out = 1..n
    BY <1>1, <2>3
  <2>5. ASSUME NEW i \in 1..n PROVE out[i] = Value(SubSeq(s, 2 * i - 1, 2 * i), 16)
    <3>1. 2 * i - 1 \in 1..Len(s) /\ 2 * i \in 1..Len(s)
      BY <1>1, <2>1
    <3> DEFINE t == SubSeq(s, 2 * i - 1, 2 * i)
    <3>2. t \in Seq(Nat) /\ Len(t) = 2 /\ t[1] = s[2 * i - 1] /\ t[2] = s[2 * i]
      BY <3>1
    <3>3. s[2 * i - 1] \in HexDigits /\ s[2 * i] \in HexDigits
      BY <1>1, <3>1
    <3> HIDE DEF t
    <3>4. t \in Seq(HexDigits)
      <4>1. t = [j \in 1..2 |-> t[j]] /\ \A j \in 1..2 : t[j] \in HexDigits
        BY <3>2, <3>3
      <4> QED BY <4>1
    <3>5. Value(t, 16) = ((DigitToInt(t[1]) * 16 + DigitToInt(t[2])) % 256)
      BY <3>2, <3>4, PairDecoded
    <3> QED BY <2>3, <3>2, <3>5 DEF t
  <2> QED BY <1>2, <2>1, <2>4, <2>5 DEF out
<1>3. CASE ~((Len(s) % 2) = 0 /\ Len(s) <= 2 * room)
  <2>1. ~FitsOut(Len(s), room)
    BY <1>1, <1>3 DEF FitsOut
  <2> QED BY <1>3, <2>1 DEF ParseHexdata
<1> QED BY <1>2, <1>3

Written == str \in Seq(Nat)

LEMMA WrittenAlways == StrSpec => []Written
<1>1. StrInit => Written
  BY DEF StrInit, Written
<1>2. Written /\ [StrNext]_str => Written'
  <2>1. Alphabet \subseteq Nat
    BY AlphabetAssumption
  <2> SUFFICES ASSUME str \in Seq(Nat), [StrNext]_str PROVE str' \in Seq(Nat)
    BY DEF Written
  <2>2. ASSUME NEW c \in Alphabet, str' = Append(str, c) PROVE str' \in Seq(Nat)
    BY <2>1, <2>2
  <2>3. CASE str' = str
    BY <2>3
  <2> QED BY <2>2, <2>3 DEF StrNext
<1> QED BY <1>1, <1>2, PTL DEF StrSpec

(* parse_number gives a numeral of any length its value modulo 2^16, in every
   base and with every prefix (parse.c:75), but for a hexadecimal number that
   begins with b. *)
THEOREM NumeralsAreParsed == StrSpec => []ParsesNumerals
<1>1. Written => ParsesNumerals
  <2> SUFFICES ASSUME str \in Seq(Nat), NEW base \in {2, 10, 16}, NEW first \in 1..3,
                      first <= Len(str), Numeral(str, base, first), ~(first = 2 /\ BinaryInHex)
               PROVE  ParseNumber(str) = Value(From(str, first), base)
    BY DEF ParsesNumerals, Written
  <2> QED BY NumeralParsed DEF BinaryInHex, Bases
<1> QED BY <1>1, WrittenAlways, PTL

(* parse_hexdata decodes pairs of hex digits, all of them or none, however long
   the text is, with room for none up to three bytes (the check of the length at
   parse.c:66). *)
THEOREM PairsAreDecoded == StrSpec => []DecodesPairs
<1>1. Written => DecodesPairs
  <2> SUFFICES ASSUME str \in Seq(Nat), NEW room \in 0..3, AllIn(str, HexDigits)
               PROVE  LET out == ParseHexdata(str, room)
                      IN  IF Len(str) % 2 = 0 /\ Len(str) <= 2 * room
                          THEN /\ 2 * Len(out) = Len(str)
                               /\ \A i \in DOMAIN out :
                                      out[i] = Value(SubSeq(str, 2 * i - 1, 2 * i), 16)
                          ELSE out = <<>>
    BY DEF DecodesPairs, Written
  <2>1. room \in Nat
    OBVIOUS
  <2> QED BY <2>1, PairsDecoded
<1> QED BY <1>1, WrittenAlways, PTL
=============================================================================
