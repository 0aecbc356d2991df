------------------------------- MODULE Parse -------------------------------
(***************************************************************************)
(* common/parse.c: the numbers and the hex data of shell commands.  A      *)
(* string is a sequence of character codes.                                *)
(***************************************************************************)
EXTENDS Integers, Sequences

LowerB == 98
LowerH == 104
LowerX == 120

(* Mutant of DigitToInt: lower case is taken for upper case. *)
UpperDigit(ch) == IF ch >= 65 THEN ch - 55 ELSE IF ch <= 57 THEN ch - 48 ELSE ch

(* digit_to_int: 'a' is 97, 'A' is 65, '0' is 48. *)
DigitToInt(ch) ==
    CASE ch >= 97            -> ch - 87
      [] ch \in 65..96       -> ch - 55
      [] ch <= 57            -> ch - 48
      [] ch \in 58..64       -> ch

---------------------------------------------------------------------------
(* parse_number, one character after the other. *)

(* The base that character ch announces as the i-th of a string, 0 for none;
   it is looked for as long as the result is 0. *)
Announced(i, ch) ==
    CASE ch = LowerB /\ i \in {1, 2} -> 2
      [] ch = LowerH /\ i = 1        -> 16
      [] ch = LowerX /\ i = 2        -> 16
      [] OTHER                       -> 0

(* How long a string with that prefix must be. *)
Shortest(ch) == IF ch = LowerX THEN 3 ELSE 2

NextDigit(p, digit) ==
    IF digit < p.base
    THEN [p EXCEPT !.result = (@ * p.base + digit) % 65536]
    ELSE [p EXCEPT !.rejected = TRUE]

NextChar(p, s, i) ==
    IF p.rejected THEN p
    ELSE IF p.result = 0 /\ Announced(i, s[i]) # 0
    THEN [p EXCEPT !.base = Announced(i, s[i]), !.rejected = Len(s) < Shortest(s[i])]
    ELSE NextDigit(p, DigitToInt(s[i]))

ParseNumber(s) ==
    LET after[i \in 0..Len(s)] ==
            IF i = 0 THEN [base |-> 10, result |-> 0, rejected |-> FALSE]
                     ELSE NextChar(after[i - 1], s, i)
        last == after[Len(s)]
    IN  IF last.rejected THEN 0 ELSE last.result

---------------------------------------------------------------------------
(* parse_hexdata: the bytes written to outbuf. *)

(* Mutant of FitsOut: the last place of outbuf is never used. *)
FitsOutShort(len, room) == len % 2 = 0 /\ len \div 2 < room

FitsOut(len, room) == len % 2 = 0 /\ len \div 2 <= room

ParseHexdata(s, room) ==
    IF FitsOut(Len(s), room)
    THEN [i \in 1..(Len(s) \div 2) |->
             (DigitToInt(s[2 * i - 1]) * 16 + DigitToInt(s[2 * i])) % 256]
    ELSE <<>>
=============================================================================
