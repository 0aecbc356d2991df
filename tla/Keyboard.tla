------------------------------ MODULE Keyboard ------------------------------
(***************************************************************************)
(* The keyboard of the handset: key.c of PinkOS, keys.c of speccan, which  *)
(* scan alike.  A key joins two of ten lines, the ground among them.  The  *)
(* contacts change while a scan is under way; a scan is one step a row.    *)
(***************************************************************************)
EXTENDS Integers, FiniteSets

CONSTANTS
    Keys,       \* the keys that may be pressed, <<row, col>>
    Hold        \* bound: a contact stays as it is for at least Hold rows

Lines == 0..9                   \* gnd 0_1 1_2 1_3 1_4 1_5 1_6 1_7 0_6 0_7
Rows == 0..7
Places == {k \in Rows \X Lines : k[1] < k[2]}
None == "0x00"

ASSUME KeysAssumption == Keys \subseteq Places
ASSUME HoldAssumption == Hold \in Nat

(* keychars from col = row + 1 on; before it there is nothing.  Two keys are
   called by name. *)
keychars == [row \in Rows |->
    CASE row = 0 -> <<None, "o", "k", "n", "m", "KPWR", "p", None, None>>
      [] row = 1 -> <<"y", "g", "c", "space", "<", "comma", "KMNU", ">">>
      [] row = 2 -> <<"q", "w", "e", "r", "t", "u", "i">>
      [] row = 3 -> <<"a", "s", "d", "f", "h", "j">>
      [] row = 4 -> <<"KCAP", "z", "x", "v", "b">>
      [] row = 5 -> <<"KSPK", "KALT", "KONL", "BS">>
      [] row = 6 -> <<"KBYE", "^", "KDWN">>
      [] row = 7 -> <<"CR", "l">>]

(* keys.c has the arrows the other way round. *)
speccan_keychars == [keychars EXCEPT ![6] = <<"KBYE", "KDWN", "^">>]

KEY(row, col) == keychars[row][col - row]
Chars == {KEY(k[1], k[2]) : k \in Places}

VARIABLES
    down,       \* the keys whose contact is closed
    still,      \* rows since a contact changed, up to Hold
    row,        \* the row read next
    key,        \* key of key_get
    phase,      \* the scan under way: key_get's first, its test, its again
    active,     \* active_key
    out,        \* what getkey returned last
    seen,       \* history: the keys that were down since key_get was called
    calls       \* history: returns of getkey since a contact changed, up to 2

kbvars == <<down, still, row, key, phase, active, out, seen, calls>>

KbTypeOK ==
    /\ down \subseteq Keys /\ Cardinality(down) <= 2
    /\ still \in 0..Hold
    /\ row \in Rows
    /\ {key, active, out} \subseteq Chars
    /\ phase \in {"first", "test", "again"}
    /\ seen \subseteq Keys
    /\ calls \in 0..2

KbInit ==
    /\ down = {} /\ still = 0
    /\ row = 0 /\ phase = "first"
    /\ key = None /\ active = None /\ out = None
    /\ seen = {} /\ calls = 0

---------------------------------------------------------------------------
(* The contacts: one or two fingers. *)

Finger ==
    /\ still = Hold
    /\ \E k \in Keys : down' \in {down \cup {k}, down \ {k}}
    /\ down' # down
    /\ Cardinality(down') <= 2
    /\ still' = 0
    /\ seen' = seen \cup down'
    /\ calls' = 0
    /\ UNCHANGED <<row, key, phase, active, out>>

---------------------------------------------------------------------------
(* realkeyscan *)

(* Lines joined by a closed contact to one of S; twice, as there are two. *)
Join(S) == S \cup {k[2] : k \in {j \in down : j[1] \in S}}
             \cup {k[1] : k \in {j \in down : j[2] \in S}}
Low(S) == Join(Join(S))

(* The rows before stay driven, and the ground always is: col is the last
   line that reads low. *)
Col ==
    CHOOSE col \in Low(0..row) : \A l \in Low(0..row) : l <= col

Found == Col # row

---------------------------------------------------------------------------
(* key_get, getkey *)

(* getkey returns k when it is not what it was, or nothing. *)
Getkey(k) ==
    /\ out' = IF k # active THEN k ELSE None
    /\ active' = k

Scanning == UNCHANGED <<active, out, seen, calls>>

Return(k) ==
    /\ Getkey(k)
    /\ phase' = "first"
    /\ key' = k
    /\ seen' = down
    /\ calls' = IF calls < 2 THEN calls + 1 ELSE 2

(* Mutants of KeyGet: the first scan is believed; the loop compares with the
   first scan for ever. *)
KeyGetAtOnce(k) == Return(k)
KeyGetFirst(k) ==
    \/ phase # "test" /\ phase' = "test" /\ key' = k /\ Scanning
    \/ phase = "test" /\ key = k /\ Return(k)
    \/ phase = "test" /\ key # k /\ UNCHANGED <<phase, key>> /\ Scanning

(* A scan found k: the debouncing loop of key_get. *)
KeyGet(k) ==
    \/ phase # "test" /\ phase' = "test" /\ key' = k /\ Scanning
    \/ phase = "test" /\ key = k /\ Return(k)
    \/ phase = "test" /\ key # k /\ phase' = "again" /\ UNCHANGED key /\ Scanning

LastRow == 7

ReadRow ==
    /\ still' = IF still < Hold THEN still + 1 ELSE Hold
    /\ UNCHANGED down
    /\ \/ /\ Found
          /\ row' = 0
          /\ KeyGet(KEY(row, Col))
       \/ /\ ~Found /\ row = LastRow
          /\ row' = 0
          /\ KeyGet(None)
       \/ /\ ~Found /\ row < LastRow
          /\ row' = row + 1
          /\ UNCHANGED <<key, phase>> /\ Scanning

KbNext == Finger \/ ReadRow

(* The processor goes on scanning; nobody need press a key. *)
KbSpec == KbInit /\ [][KbNext]_kbvars /\ WF_kbvars(ReadRow)

---------------------------------------------------------------------------
(* Properties *)

Names(S) == {KEY(k[1], k[2]) : k \in S}

(* Keys whose contacts join three lines in a row: the matrix has no diodes *)
(* and cannot tell them from a third key.                                  *)
Chained(S) == \E k, l \in S : k[2] = l[1]

Pressed == out' \in {out, None} \cup Names(seen) \/ Chained(seen)
Once == phase = "test" /\ phase' = "first" /\ out' # None => calls < 2

(* A key comes out of getkey only if it was down while key_get scanned.  A *)
(* contact that closes between two rows makes a scan find its column in a  *)
(* wrong row (the rows before stay driven), another key's place; the       *)
(* debouncing loop (key.c:158) must not believe it.  And once the contacts *)
(* are still only the call under way and the next may return it, however   *)
(* long it is held: one press, one character (keys.c:132).                 *)
KeysGenuine == [][Pressed /\ Once]_kbvars

(* A key held alone comes out: debouncing ends when bouncing does, and     *)
(* what getkey remembers of the key before does not hide it.               *)
HeldIsActive ==
    \A k \in Keys : <>[](down = {k}) => <>[](active = KEY(k[1], k[2]))
=============================================================================
