-------------------------- MODULE LineDiscipline --------------------------
(***************************************************************************)
(* What the console promises its user: keys edit a line, Enter freezes it, *)
(* the shell gets exactly the frozen line, once, and only then can the     *)
(* next line be typed.  Only while the console starts may keys be          *)
(* forgotten.  Console implements it.                                      *)
(***************************************************************************)
EXTENDS Naturals, Sequences

CONSTANTS
    Chars,      \* characters that may be typed into a line
    MaxLine     \* length of the longest line

VARIABLES
    line,       \* the line typed so far
    frozen,     \* Enter was pressed, the line waits for the shell
    executed,   \* the last line given to the shell
    started     \* the console is ready

lineVars == <<line, frozen, executed, started>>

Init ==
    /\ line = <<>>
    /\ frozen = FALSE
    /\ executed = <<>>
    /\ started = FALSE

(* What was typed before the console is ready may be forgotten, Enter is. *)
Forget ==
    /\ ~started
    /\ line' = <<>>
    /\ UNCHANGED <<frozen, executed, started>>

Start ==
    /\ ~started
    /\ started' = TRUE
    /\ frozen' = FALSE
    /\ UNCHANGED <<line, executed>>

Type(c) ==
    /\ ~frozen
    /\ Len(line) < MaxLine
    /\ line' = Append(line, c)
    /\ UNCHANGED <<frozen, executed, started>>

RubOut ==
    /\ ~frozen
    /\ line # <<>>
    /\ line' = SubSeq(line, 1, Len(line) - 1)
    /\ UNCHANGED <<frozen, executed, started>>

Enter ==
    /\ ~frozen
    /\ frozen' = TRUE
    /\ UNCHANGED <<line, executed, started>>

Execute ==
    /\ started /\ frozen
    /\ line # <<>>
    /\ executed' = line
    /\ line' = <<>>
    /\ UNCHANGED <<frozen, started>>

NextLine ==
    /\ started /\ frozen
    /\ line = <<>>
    /\ frozen' = FALSE
    /\ UNCHANGED <<line, executed, started>>

Next ==
    \/ Forget \/ Start
    \/ (\E c \in Chars : Type(c)) \/ RubOut \/ Enter
    \/ Execute \/ NextLine

Spec == Init /\ [][Next]_lineVars /\ WF_lineVars(Start \/ Execute \/ NextLine)
=============================================================================
