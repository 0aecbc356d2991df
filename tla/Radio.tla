------------------------------- MODULE Radio -------------------------------
(***************************************************************************)
(* The packet driver of PinkOS: common/radio.c and common/packet.c under   *)
(* the main loop of pinkos/pinkos.c, against the radio of RadioChip.       *)
(*                                                                         *)
(* Three actors share one packet buffer and four flags without a lock: the *)
(* main loop, rftxrx_isr (one byte in or out) and rf_isr (frame events).   *)
(* Interrupts do not nest and a pending one is served before the main loop *)
(* goes on, so the main loop steps only when all is quiet.  A radio handler *)
(* is done long before the next byte is through (32 us at 250 kbaud), so   *)
(* the chip steps only when all is quiet too, with one exception: on the   *)
(* dongle uart0_isr echoes what is typed and waits for the UART inside the *)
(* handler, 87 us a character at 115200 baud, while the chip runs on.      *)
(***************************************************************************)
EXTENDS RadioChip

CONSTANTS
    PKTBUF_MAX,     \* size of pktbuf
    UART,           \* the board has a UART console: uart0_isr exists (dongle)
    Sends           \* what shell commands ask packet_send to transmit

HEADER == 5         \* sizeof(packet_t)
REQ_ACK == 128      \* PACKET_SEQ_REQ_ACK
ACK == 0            \* PACKET_TYPE_ACK

ASSUME BufferAssumption == PKTBUF_MAX \in HEADER..255
ASSUME UartAssumption == UART \in BOOLEAN
ASSUME SendsAssumption ==
    \A s \in Sends : /\ {s.dst, s.seq, s.type} \subseteq Byte
                     /\ s.data \in Seq(Byte)
                     /\ HEADER + Len(s.data) <= PKTBUF_MAX

VARIABLES
    pktbuf,         \* shared tx and rx packet buffer
    pktbuf_index,   \* uint8_t, next byte to store or to send
    errflag, receiving, pkt_complete,
    echo,           \* uart0_isr is running and waits for the UART
    pc,             \* next step of the main loop
    ret,            \* where radio_tx and radio_rx return to
    todo,           \* stores into pktbuf the main loop still has to make
    want            \* history: the frame last meant to be transmitted

flags == <<pktbuf_index, errflag, receiving, pkt_complete>>
mainVars == <<pc, ret, todo, want>>
vars == <<chipVars, pktbuf, flags, echo, mainVars>>

Offsets == 0..(PKTBUF_MAX - 1)

DriverTypeOK ==
    /\ pktbuf \in [Offsets -> Byte]
    /\ pktbuf_index \in Byte
    /\ errflag \in BOOLEAN
    /\ receiving \in BOOLEAN
    /\ pkt_complete \in BOOLEAN
    /\ echo \in BOOLEAN
    /\ pc \in {"console_tick", "build", "radio_tick", "tick_complete",
               "tick_sent", "check_crc", "packet_handle", "packet_autoack",
               "tx_idle", "tx_init", "tx_strobe", "tx_wait",
               "rx_idle", "rx_init", "rx_strobe"}
    /\ ret \in {"console_tick", "radio_tick", "tick_sent", "rx_idle"}
    /\ todo \in Seq(Offsets \X Byte)
    /\ want \in Seq(Byte)

TypeOK == ChipTypeOK /\ DriverTypeOK

(* radio_init: the chip idles and radio_rx is called. *)
Init ==
    /\ ChipInit
    /\ pktbuf = [i \in Offsets |-> 0]
    /\ pktbuf_index = 0
    /\ errflag = FALSE
    /\ receiving = FALSE
    /\ pkt_complete = FALSE
    /\ echo = FALSE
    /\ pc = "rx_idle"
    /\ ret = "console_tick"
    /\ todo = <<>>
    /\ want = <<>>

---------------------------------------------------------------------------
(* Interrupt handlers. *)

Quiet == ~rftxrx /\ ~s1con

(* pktbuf[i], which for i beyond the buffer is somebody else's memory. *)
Fetch(i) == IF i \in Offsets THEN {pktbuf[i]} ELSE Junk

(* What the header says of the frame in the buffer: pktbuf[0]+1, an int. *)
FrameLen == pktbuf[0] + 1

SendByte ==
    /\ marc = "TX"
    /\ IF pktbuf_index < FrameLen
       THEN /\ rfd' \in Fetch(pktbuf_index)
            /\ rfd_full' = TRUE
            /\ pktbuf_index' = (pktbuf_index + 1) % 256
            /\ UNCHANGED errflag
       ELSE /\ errflag' = TRUE
            /\ UNCHANGED <<rfd, rfd_full, pktbuf_index>>
    /\ UNCHANGED <<pktbuf, pkt_complete>>

(* Mutant of MayStore: no test against the end of the buffer. *)
MayStoreAnywhere == pktbuf_index = 0 \/ pktbuf_index < FrameLen

MayStore == \/ pktbuf_index = 0
            \/ pktbuf_index < FrameLen /\ pktbuf_index < PKTBUF_MAX

FetchByte ==
    /\ marc = "RX"
    /\ IF MayStore
       THEN /\ pktbuf' = [pktbuf EXCEPT ![pktbuf_index] = rfd]
            /\ pktbuf_index' = pktbuf_index + 1
            /\ rfd' = 0
            /\ rfd_full' = FALSE
            /\ UNCHANGED <<errflag, pkt_complete>>
       ELSE /\ pkt_complete' = (pkt_complete \/ pktbuf_index = FrameLen)
            /\ errflag' = (errflag \/ pktbuf_index # FrameLen)
            /\ UNCHANGED <<pktbuf, pktbuf_index, rfd, rfd_full>>

RftxrxIsr ==
    /\ ~echo
    /\ rftxrx
    /\ rftxrx' = FALSE
    /\ \/ SendByte
       \/ FetchByte
       \/ /\ marc \notin {"TX", "RX"}
          /\ UNCHANGED <<rfd, rfd_full, pktbuf, pktbuf_index, errflag, pkt_complete>>
    /\ UNCHANGED <<marc, rfif, s1con, rxf, pos, txphase, txf, lqi_ok, history,
                   receiving, echo, mainVars>>

(* Mutant of Done: the end of a transmission goes unnoticed. *)
DoneReceiving == "DONE" \in rfif /\ receiving

(* The three parts of rf_isr look for these in RFIF. *)
Done == "DONE" \in rfif
Failed == rfif \cap {"TXUNF", "RXOVF"} # {}
Whole == pktbuf_index = FrameLen

(* End of frame, errors, sync.  RFTXRX comes before RF in the polling order. *)
RfIsr ==
    /\ ~echo
    /\ s1con
    /\ ~rftxrx
    /\ s1con' = FALSE
    /\ IF Done \/ Failed THEN SIDLE ELSE UNCHANGED radioState
    /\ pktbuf_index' = IF rfif = {} THEN pktbuf_index ELSE 0
    /\ pkt_complete' = (pkt_complete \/ (Done /\ Whole))
    /\ errflag' = (errflag \/ (Done /\ ~Whole) \/ Failed)
    /\ rfif' = {}
    /\ UNCHANGED <<rftxrx, lqi_ok, history, pktbuf, receiving, echo, mainVars>>

(* uart0_isr comes between the two in the polling order. *)
EchoStart ==
    /\ UART
    /\ ~echo
    /\ ~rftxrx
    /\ echo' = TRUE
    /\ UNCHANGED <<chipVars, pktbuf, flags, mainVars>>

EchoEnd ==
    /\ echo
    /\ echo' = FALSE
    /\ UNCHANGED <<chipVars, pktbuf, flags, mainVars>>

(* The chip beside the program. *)
Beside(chip) ==
    /\ chip
    /\ echo \/ Quiet
    /\ UNCHANGED <<pktbuf, flags, echo, mainVars>>

Chip == Beside(ChipNext)

---------------------------------------------------------------------------
(* Main loop: radio_tx and radio_rx. *)

(* A step of the main loop that gives no strobe. *)
NoStrobe == UNCHANGED chipVars

(* A strobe leaves the rest of the chip alone. *)
OnlyStrobe == UNCHANGED <<rfif, s1con, rftxrx, lqi_ok>>

(* Both functions start by idling the radio (the history of a frame ends when
   the receiver is started again), *)
RadioTxIdle ==
    /\ pc = "tx_idle"
    /\ pc' = "tx_init"
    /\ SIDLE /\ OnlyStrobe
    /\ UNCHANGED <<history, pktbuf, flags, ret, todo, want>>

RadioRxIdle ==
    /\ pc = "rx_idle"
    /\ pc' = "rx_init"
    /\ SIDLE /\ OnlyStrobe
    /\ lastrx' = <<>>
    /\ fresh' = FALSE
    /\ sentf' = <<>>
    /\ want' = <<>>
    /\ UNCHANGED <<pktbuf, flags, ret, todo>>

(* go on with clearing the flags, *)
InitFlags(from, to, rx) ==
    /\ pc = from
    /\ pc' = to
    /\ pktbuf_index' = 0
    /\ receiving' = rx
    /\ pkt_complete' = FALSE
    /\ errflag' = FALSE
    /\ NoStrobe
    /\ UNCHANGED <<pktbuf, ret, todo, want>>

(* Mutants of the two: pkt_complete keeps its old value. *)
InitButComplete(from, to, rx) ==
    /\ pc = from
    /\ pc' = to
    /\ pktbuf_index' = 0
    /\ receiving' = rx
    /\ errflag' = FALSE
    /\ NoStrobe
    /\ UNCHANGED <<pkt_complete, pktbuf, ret, todo, want>>

RadioTxInitStale == InitButComplete("tx_init", "tx_strobe", FALSE)
RadioRxInitStale == InitButComplete("rx_init", "rx_strobe", TRUE)

(* Mutant of RadioRxInit: the receiver is not started. *)
RadioRxInitOnly == InitFlags("rx_init", "console_tick", TRUE)

RadioTxInit == InitFlags("tx_init", "tx_strobe", FALSE)
RadioRxInit == InitFlags("rx_init", "rx_strobe", TRUE)

(* and end with the strobe.  wait_rfstate gives up after 255 polls and nobody
   looks at what it returns: the wait is over at any time. *)
RadioTxStrobe ==
    /\ pc = "tx_strobe"
    /\ pc' = "tx_wait"
    /\ STX /\ OnlyStrobe
    /\ UNCHANGED <<history, pktbuf, flags, ret, todo, want>>

RadioRxStrobe ==
    /\ pc = "rx_strobe"
    /\ pc' = ret
    /\ SRX /\ OnlyStrobe
    /\ UNCHANGED <<history, pktbuf, flags, ret, todo, want>>

(* Block until sent or failed. *)
RadioTxWait ==
    /\ pc = "tx_wait"
    /\ pkt_complete \/ errflag
    /\ pc' = ret
    /\ ret' = "console_tick"
    /\ NoStrobe
    /\ UNCHANGED <<pktbuf, flags, todo, want>>

---------------------------------------------------------------------------
(* Main loop: packet.c. *)

(* The frame a command asks for. *)
FrameOf(s) == <<HEADER - 1 + Len(s.data), s.dst, ADDR, s.seq, s.type>> \o s.data

(* Mutant of Stores: the payload starts one byte too far. *)
StoresTooFar(s) == [i \in 1..Len(s.data) |-> <<HEADER + i, s.data[i]>>]

(* A shell command: packet_build stores length, source and type, the caller
   the payload, packet_send destination and sequence number. *)
Stores(s) ==
    LET f == FrameOf(s)
    IN  <<<<0, f[1]>>, <<2, f[3]>>, <<4, f[5]>>>>
        \o [i \in 1..Len(s.data) |-> <<HEADER + i - 1, s.data[i]>>]
        \o <<<<1, f[2]>>, <<3, f[4]>>>>

ConsoleTick ==
    /\ pc = "console_tick"
    /\ \/ /\ pc' = "radio_tick"
          /\ UNCHANGED <<ret, todo, want>>
       \/ \E s \in Sends :
             /\ todo' = Stores(s)
             /\ want' = FrameOf(s)
             /\ pc' = "build"
             /\ ret' = "radio_tick"
    /\ NoStrobe
    /\ UNCHANGED <<pktbuf, flags>>

(* One store of packet_build, packet_send or packet_autoack; radio_tx is
   called after the last. *)
Build ==
    /\ pc = "build"
    /\ pktbuf' = [pktbuf EXCEPT ![Head(todo)[1]] = Head(todo)[2]]
    /\ todo' = Tail(todo)
    /\ pc' = IF Len(todo) = 1 THEN "tx_idle" ELSE "build"
    /\ NoStrobe
    /\ UNCHANGED <<flags, ret, want>>

(* packet_dump and packet_handle: the packet goes to packet_rx_callback. *)
PacketHandle ==
    /\ pc = "packet_handle"
    /\ pc' = "packet_autoack"
    /\ fresh' = FALSE
    /\ UNCHANGED <<marc, rfif, s1con, rftxrx, rfd, rfd_full, rxf, pos, txphase,
                   txf, lqi_ok, lastrx, sentf, pktbuf, flags, ret, todo, want>>

(* Mutant of AckWanted: broadcasts are acknowledged too. *)
AckAnything == pktbuf[3] >= REQ_ACK

AckWanted == pktbuf[1] # Broadcast /\ pktbuf[3] >= REQ_ACK

(* The acknowledgement takes the place of the packet. *)
PacketAutoack ==
    /\ pc = "packet_autoack"
    /\ IF AckWanted
       THEN /\ todo' = <<<<1, pktbuf[2]>>, <<2, ADDR>>,
                         <<3, pktbuf[3] % REQ_ACK>>, <<4, ACK>>,
                         <<0, HEADER - 1>>>>
            /\ want' = <<HEADER - 1, pktbuf[2], ADDR, pktbuf[3] % REQ_ACK, ACK>>
            /\ pc' = "build"
            /\ ret' = "rx_idle"
       ELSE /\ pc' = "rx_idle"
            /\ UNCHANGED <<ret, todo, want>>
    /\ NoStrobe
    /\ UNCHANGED <<pktbuf, flags>>

---------------------------------------------------------------------------
(* Main loop: radio_tick.  It reads the flags one after the other. *)

RadioTick ==
    /\ pc = "radio_tick"
    /\ pc' = CASE errflag -> "rx_idle"
               [] ~errflag /\ receiving -> "tick_complete"
               [] ~errflag /\ ~receiving -> "tick_sent"
    /\ ret' = IF errflag /\ ~receiving THEN "tick_sent" ELSE "console_tick"
    /\ NoStrobe
    /\ UNCHANGED <<pktbuf, flags, todo, want>>

TickComplete ==
    /\ pc = "tick_complete"
    /\ pc' = IF pkt_complete THEN "check_crc" ELSE "console_tick"
    /\ NoStrobe
    /\ UNCHANGED <<pktbuf, flags, ret, todo, want>>

(* After a transmission, successful or not. *)
TickSent ==
    /\ pc = "tick_sent"
    /\ pc' = IF pkt_complete THEN "rx_idle" ELSE "console_tick"
    /\ ret' = "console_tick"
    /\ NoStrobe
    /\ UNCHANGED <<pktbuf, flags, todo, want>>

(* Mutant of CheckCrc: packet_autoack comes before packet_handle. *)
CheckCrcAckFirst ==
    /\ pc = "check_crc"
    /\ pc' = IF lqi_ok THEN "packet_autoack" ELSE "rx_idle"
    /\ NoStrobe
    /\ UNCHANGED <<pktbuf, flags, ret, todo, want>>

CheckCrc ==
    /\ pc = "check_crc"
    /\ pc' = IF lqi_ok THEN "packet_handle" ELSE "rx_idle"
    /\ NoStrobe
    /\ UNCHANGED <<pktbuf, flags, ret, todo, want>>

---------------------------------------------------------------------------
MainStep ==
    \/ ConsoleTick \/ Build
    \/ RadioTick \/ TickComplete \/ TickSent \/ CheckCrc
    \/ PacketHandle \/ PacketAutoack
    \/ RadioTxIdle \/ RadioTxInit \/ RadioTxStrobe \/ RadioTxWait
    \/ RadioRxIdle \/ RadioRxInit \/ RadioRxStrobe

Main == /\ Quiet
        /\ ~echo
        /\ MainStep
        /\ UNCHANGED echo

Next == Chip \/ RftxrxIsr \/ RfIsr \/ EchoStart \/ EchoEnd \/ Main

Spec == Init /\ [][Next]_vars

(* The chip goes on with what it has begun and a pending interrupt is served.
   The main loop, interrupted again and again, gets on all the same: a byte
   takes 32 us on the air and a handler a few, and nobody types for ever. *)
Fairness == /\ WF_vars(Beside(ChipProgress))
            /\ WF_vars(RftxrxIsr)
            /\ SF_vars(RfIsr)
            /\ WF_vars(EchoEnd)
            /\ SF_vars(Main)

FairSpec == Spec /\ Fairness
---------------------------------------------------------------------------
(* Properties *)

(* The handler never stores beyond the buffer, whatever length byte comes in:
   the test against PKTBUF_MAX in rftxrx_isr (radio.c:180). *)
RxInBounds == marc = "RX" => pktbuf_index <= PKTBUF_MAX

(* The bytes 0..n-1 of the buffer are the first n of frame f. *)
Holds(f, n) == \A i \in 1..n : pktbuf[i - 1] = f[i]

(* A packet handed to packet_rx_callback is one that came in whole with its
   CRC right, with every byte where it was received, and never twice: what
   the CRC test (radio.c:248) and the order idle, flags, strobe in radio_rx
   are for. *)
GenuineDelivery ==
    pc = "packet_handle" =>
        /\ lqi_ok
        /\ fresh
        /\ Len(lastrx) <= PKTBUF_MAX
        /\ Holds(lastrx, Len(lastrx))

(* While the main loop works on a received packet no handler stores into the
   buffer under its feet, although the chip is still on (radio.c:185). *)
BufferStable ==
    [][(pc \in {"check_crc", "packet_handle", "packet_autoack"})
        => pktbuf' = pktbuf]_vars

(* An acknowledgement goes out only for a packet that asked for one and was
   not a broadcast, names that packet, and asks for none itself
   (packet_autoack). *)
AckFaithful ==
    pc = "tx_wait" /\ ret = "rx_idle" /\ pkt_complete /\ ~errflag
        /\ Len(lastrx) >= HEADER
    => /\ lastrx[2] # Broadcast
       /\ lastrx[4] >= REQ_ACK
       /\ sentf = <<HEADER - 1, lastrx[3], ADDR, lastrx[4] % REQ_ACK, ACK>>

(* radio_tx returns true only when the chip has sent what is in the buffer,
   and nothing else (the comment at radio.c:280). *)
OkMeansSent ==
    pc = "tx_wait" /\ pkt_complete /\ ~errflag =>
        /\ Len(sentf) = FrameLen
        /\ FrameLen <= PKTBUF_MAX => Holds(sentf, FrameLen)

(* When the main loop is past radio_rx and the chip is not listening, a flag
   says so, and the next radio_tick starts the receiver again. *)
NeverDeaf ==
    Quiet /\ receiving /\ pc \in {"console_tick", "radio_tick"}
        /\ marc \notin {"FS_RX", "RX"}
    => errflag \/ pkt_complete

(* A completed reception is always dealt with. *)
CompleteHandled == pkt_complete ~> ~pkt_complete

(* Whatever happened, the device comes back to listening: radio_tx does not
   block for ever on its two flags (radio.c:298), and radio_tick sees what
   ended a reception (radio.c:242). *)
ListensAgain == []<>(receiving /\ marc \in {"FS_RX", "RX"})

(* What the device is at, frame by frame.  A packet is complete when its CRC
   has come, handled when it is no longer fresh; once the chip has sent the
   last byte only the receiver has to be started. *)
Complete == fresh /\ lqi_ok /\ ~errflag /\ Len(lastrx) <= PKTBUF_MAX

LinkPhase ==
    CASE \/ pc = "packet_handle"
         \/ pc = "packet_autoack" /\ fresh
         \/ pc \in {"console_tick", "radio_tick", "tick_complete", "check_crc"}
               /\ receiving /\ Complete          -> "complete"
      [] pc = "packet_autoack" /\ ~fresh         -> "handled"
      [] \/ pc \in {"build", "tx_idle", "tx_init", "tx_strobe"}
         \/ pc = "tx_wait" /\ marc # "IDLE"      -> "send"
      [] \/ pc = "tx_wait" /\ marc = "IDLE"
         \/ pc \in {"radio_tick", "tick_sent", "rx_idle"} /\ ~receiving -> "delay"
      [] OTHER                                   -> "listen"

(* The frame in the buffer, or the acknowledgement of the last one. *)
LinkFrame ==
    CASE LinkPhase \in {"complete", "handled"} ->
             [i \in 1..FrameLen |-> pktbuf[i - 1]]
      [] LinkPhase = "send" /\ ret = "rx_idle" /\ Len(lastrx) >= HEADER ->
             <<HEADER - 1, lastrx[3], ADDR, lastrx[4] % REQ_ACK, ACK>>
      [] OTHER -> <<>>

Device == INSTANCE Link WITH
    Longest <- PKTBUF_MAX,
    phase <- LinkPhase,
    frame <- LinkFrame,
    out <- sentf

(* Byte by byte, interrupt by interrupt, the driver does what Link says frame
   by frame: what it hands over is in the buffer as it was on the air, for
   this device, and stays there until it is answered, at once and once; and
   a packet that is complete is not lost unless a command comes first
   (radio_tick, packet_process and the order idle, flags, strobe). *)
ImplementsLink == Device!Spec

(* What goes out after an OK is what the command asked for. *)
SentAsCommanded ==
    pc = "tx_wait" /\ pkt_complete /\ ~errflag => sentf = want
=============================================================================
