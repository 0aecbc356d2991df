----------------------------- MODULE ParseCheck -----------------------------
(***************************************************************************)
(* What parse.c computes, against the values of numerals: every string of  *)
(* the alphabet up to a length, one character after the other.             *)
(***************************************************************************)
EXTENDS Parse

CONSTANTS
    Alphabet,   \* character codes a string is made of
    MaxLen      \* bound: length of the longest string checked

ASSUME AlphabetAssumption == Alphabet \subseteq 1..127
ASSUME MaxLenAssumption == MaxLen \in 0..255

VARIABLE str

StrInit == str = <<>>
StrNext == /\ Len(str) < MaxLen
           /\ \E c \in Alphabet : str' = Append(str, c)
StrSpec == StrInit /\ [][StrNext]_str

---------------------------------------------------------------------------
(* Reference definitions: numerals and their values. *)

Decimal == 48..57
HexDigits == Decimal \cup (65..70) \cup (97..102)

DigitsOf(v) == IF v < 10 THEN {48 + v} ELSE {55 + v, 87 + v}

DigitValue(c) == CHOOSE v \in 0..15 : c \in DigitsOf(v)

Digits(base) == {c \in HexDigits : DigitValue(c) < base}

AllIn(s, set) == s # <<>> /\ \A i \in DOMAIN s : s[i] \in set

From(s, i) == SubSeq(s, i, Len(s))

Value(s, base) ==
    LET v[i \in 0..Len(s)] == IF i = 0 THEN 0 ELSE v[i - 1] * base + DigitValue(s[i])
    IN  v[Len(s)] % 65536

(* "parse binary, hex and decimal numbers, b101 hF8 0xF8 123" (parse.c:75),
   and 0b as the comment at parse.c:98 has it. *)
Numeral(s, base, first) ==
    /\ AllIn(From(s, first), Digits(base))
    /\ \/ base = 10 /\ first = 1
       \/ base = 2 /\ first = 2 /\ s[1] = LowerB
       \/ base = 2 /\ first = 3 /\ s[1] = 48 /\ s[2] = LowerB
       \/ base = 16 /\ first = 2 /\ s[1] = LowerH
       \/ base = 16 /\ first = 3 /\ s[1] = 48 /\ s[2] = LowerX

---------------------------------------------------------------------------
(* Properties *)

(* h, then a b that is meant as a digit: the code takes it for the prefix of a
   binary number (parse.c:98 looks at the second character too). *)
BinaryInHex == str[1] = LowerH /\ str[2] = LowerB

(* A numeral is parsed to its value modulo 2^16, in every base and with every
   prefix (parse.c:75), whatever zeros, letters and prefixes look alike; but
   for a hexadecimal number that begins with b. *)
ParsesNumerals ==
    \A base \in {2, 10, 16}, first \in 1..3 :
        first <= Len(str) /\ Numeral(str, base, first) /\ ~(first = 2 /\ BinaryInHex)
        => ParseNumber(str) = Value(From(str, first), base)

(* parse_hexdata decodes pairs of hex digits, all of them or none, and none
   beyond the room there is (the check of the length at parse.c:66). *)
DecodesPairs ==
    \A room \in 0..3 :
        LET out == ParseHexdata(str, room)
        IN  AllIn(str, HexDigits) =>
                IF Len(str) % 2 = 0 /\ Len(str) <= 2 * room
                THEN /\ 2 * Len(out) = Len(str)
                     /\ \A i \in DOMAIN out : out[i] = Value(SubSeq(str, 2 * i - 1, 2 * i), 16)
                ELSE out = <<>>
=============================================================================
