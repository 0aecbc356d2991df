------------------------------ MODULE MCRadio ------------------------------
(* Instances of Radio for model checking: a buffer of six bytes instead of 32,
   so that a frame one byte too long for it is short enough to check. *)
EXTENDS Radio

MCAddr == 1

(* A packet that wants an acknowledgement, a frame that does not fit the
   buffer, a broadcast that must not be acknowledged, a frame shorter than the
   header, and one for somebody else. *)
MCAirFrames == { <<5, 1, 2, 129, 2, 7>>,
                 <<6, 1, 2, 3, 2, 7, 8>>,
                 <<4, 0, 2, 129, 2>>,
                 <<1, 1>>,
                 <<4, 9, 2, 129, 2>> }

(* One command with the empty payload and one whose packet fills the buffer. *)
MCSends == { [dst |-> 2, seq |-> 0, type |-> 1, data |-> <<>>],
             [dst |-> 0, seq |-> 129, type |-> 2, data |-> <<6>>] }

MCJunk == {0, 255}

(* For the dongle, where late interrupts scramble the buffer in many ways: a
   short frame and a command whose packet wants an acknowledgement.  What the
   command leaves behind the frame makes the device acknowledge it. *)
ShortFrame == { <<2, 1, 2>> }
AckedSend == { [dst |-> 2, seq |-> 129, type |-> 1, data |-> <<>>] }
OneJunk == {0}
=============================================================================
