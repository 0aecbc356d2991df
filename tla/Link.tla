-------------------------------- MODULE Link --------------------------------
(***************************************************************************)
(* What the driver of one device promises to the commands above it: whole  *)
(* frames.  A frame for this device that fits its buffer is received,      *)
(* handled once, and answered if it asks for that, with nothing else sent  *)
(* in between; only a command may come before it is handled.  After        *)
(* whatever was sent the device listens again.  What a command puts on the *)
(* air is left open: the receiver may store into the packet it builds.     *)
(* Radio implements this; the devices of PinkNet go through the same       *)
(* phases.                                                                 *)
(***************************************************************************)
EXTENDS Naturals, Sequences

CONSTANTS
    ADDR,       \* address of this device
    AirFrames,  \* frames that other devices may put on the air
    Longest     \* length of the longest frame that fits

Broadcast == 0
Header == 5

(* The frames the device takes. *)
Mine == {f \in AirFrames : Len(f) <= Longest /\ f[2] \in {ADDR, Broadcast}}

WantsAck(f) == f[2] # Broadcast /\ f[4] >= 128

Ack(f) == <<Header - 1, f[3], ADDR, f[4] % 128, 0>>

VARIABLES
    phase,      \* what the device is at: listen, complete, handled, send, delay
    frame,      \* frame in hand: the one received, or its answer; <<>> for
                \* none, or for one nothing is promised of
    out         \* the last frame sent, until the device listens again

linkVars == <<phase, frame, out>>

Init ==
    /\ phase = "delay"
    /\ frame = <<>>
    /\ out = <<>>

Receive(f) ==
    /\ phase = "listen"
    /\ phase' = "complete"
    /\ frame' = f
    /\ UNCHANGED out

Handle ==
    /\ phase = "complete"
    /\ phase' = "handled"
    /\ UNCHANGED <<frame, out>>

(* A frame too short to say whether it wants an answer is answered or not,
   and with anything. *)
Answer ==
    /\ phase = "handled"
    /\ Len(frame) >= Header => WantsAck(frame)
    /\ phase' = "send"
    /\ frame' = IF Len(frame) >= Header THEN Ack(frame) ELSE <<>>
    /\ UNCHANGED out

Leave ==
    /\ phase = "handled"
    /\ Len(frame) >= Header => ~WantsAck(frame)
    /\ phase' = "listen"
    /\ frame' = <<>>
    /\ UNCHANGED out

Command ==
    /\ phase \in {"listen", "complete"}
    /\ phase' = "send"
    /\ frame' = <<>>
    /\ UNCHANGED out

Sent ==
    /\ phase = "send"
    /\ phase' = "delay"
    /\ frame' = <<>>
    /\ out' \in Seq(0..255)
    /\ frame # <<>> => out' = frame

Listen ==
    /\ phase = "delay"
    /\ phase' = "listen"
    /\ out' = <<>>
    /\ UNCHANGED frame

Next ==
    \/ \E f \in Mine : Receive(f)
    \/ Handle \/ Answer \/ Leave \/ Command \/ Sent \/ Listen

(* The main loop gets on: whatever the device is at, it listens again. *)
GetsOn == []<>(phase = "listen")

Spec == Init /\ [][Next]_linkVars /\ GetsOn
=============================================================================
