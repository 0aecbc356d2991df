----------------------------- MODULE RadioChip -----------------------------
(***************************************************************************)
(* The CC1110 radio as radio.c sees it: MARCSTATE, the one-byte data       *)
(* register RFD, the two interrupt lines (RFTXRX, one per byte, and RF,    *)
(* one per frame event) and the frame on the air.                          *)
(*                                                                         *)
(* The chip is not part of the repository.  This module says how radio.c   *)
(* uses it: which strobes it gives, which events it waits for, and when    *)
(* each of them is raised.  The registers radio_init sets decide the rest: *)
(* variable length with CRC (PKTCTRL0), status bytes appended (PKTCTRL1    *)
(* 0x04), hardware address filter (PKTCTRL1 |= 2), fall back to IDLE after *)
(* a frame in both directions (MCSM1 0x30), no RX timeout (MCSM2 0x07).    *)
(***************************************************************************)
EXTENDS Integers, Sequences

CONSTANTS
    ADDR,       \* address of this device, the one radio_init gives the chip
    AirFrames,  \* frames that other devices may put on the air
    Junk        \* bytes nobody in the program chose: the appended status, and
                \* what lies in memory behind the packet buffer

Byte == 0..255

(* A frame is its length byte and the bytes it counts; the CRC that follows
   is made and stripped by the hardware. *)
IsFrame(f) == /\ f \in Seq(Byte)
              /\ Len(f) >= 2
              /\ Len(f) = f[1] + 1

ASSUME AddrAssumption == ADDR \in Byte
ASSUME FramesAssumption == \A f \in AirFrames : IsFrame(f)
ASSUME JunkAssumption == Junk # {} /\ Junk \subseteq Byte

Broadcast == 0

Events == {"SFD", "DONE", "RXOVF", "TXUNF"}

VARIABLES
    marc,       \* MARCSTATE
    rfif,       \* RFIF: the frame events raised and not yet cleared
    s1con,      \* RF interrupt request (S1CON)
    rftxrx,     \* RFTXRX interrupt request, cleared by entering the handler
    rfd,        \* RFD, the data register
    rfd_full,   \* RFD holds a byte not yet taken by its reader
    rxf,        \* frame on the air during reception, <<>> for none
    pos,        \* bytes of rxf received so far, then status bytes
    txphase,    \* progress of the transmitter with the current byte
    txf,        \* bytes transmitted since STX
    lqi_ok,     \* bit 7 of LQI: the CRC of the last frame was right
    lastrx,     \* history: last frame received to its end
    fresh,      \* history: lastrx has not been handed to the OS yet
    sentf       \* history: last frame transmitted to its end

chipVars == <<marc, rfif, s1con, rftxrx, rfd, rfd_full, rxf, pos, txphase,
              txf, lqi_ok, lastrx, fresh, sentf>>

radioState == <<marc, rxf, pos, txphase, txf, rfd, rfd_full>>

history == <<lastrx, fresh, sentf>>

ChipTypeOK ==
    /\ marc \in {"IDLE", "FS_RX", "RX", "RXOVF", "FS_TX", "TX", "TXUNF"}
    /\ rfif \in SUBSET Events
    /\ s1con \in BOOLEAN
    /\ rftxrx \in BOOLEAN
    /\ rfd \in Byte
    /\ rfd_full \in BOOLEAN
    /\ rxf \in AirFrames \cup {<<>>}
    /\ pos \in 0..(Len(rxf) + 2)
    /\ txphase \in {"off", "preamble", "ready", "asked"}
    /\ txf \in Seq(Byte)
    /\ lqi_ok \in BOOLEAN
    /\ lastrx \in AirFrames \cup {<<>>}
    /\ fresh \in BOOLEAN
    /\ sentf \in Seq(Byte)

ChipInit ==
    /\ marc = "IDLE"
    /\ rfif = {}
    /\ s1con = FALSE
    /\ rftxrx = FALSE
    /\ rfd = 0
    /\ rfd_full = FALSE
    /\ rxf = <<>>
    /\ pos = 0
    /\ txphase = "off"
    /\ txf = <<>>
    /\ lqi_ok = FALSE
    /\ lastrx = <<>>
    /\ fresh = FALSE
    /\ sentf = <<>>

---------------------------------------------------------------------------
(* Strobes.  They leave the interrupt requests and the history alone. *)

(* The chip drops what it was doing and enters state m. *)
EnterState(m) ==
    /\ marc' = m
    /\ rxf' = <<>>
    /\ pos' = 0
    /\ txphase' = "off"
    /\ txf' = <<>>
    /\ rfd' = 0
    /\ rfd_full' = FALSE

(* RFST = RFST_SIDLE, then the wait for MARC_STATE_IDLE. *)
SIDLE == EnterState("IDLE")

(* RFST = RFST_SRX and RFST = RFST_STX.  From IDLE the chip calibrates its
   synthesizer first; wait_rfstate may give up before it is done. *)
StrobeFromIdle(m) ==
    IF marc = "IDLE"
    THEN EnterState(m)
    ELSE UNCHANGED radioState

SRX == StrobeFromIdle("FS_RX")
STX == StrobeFromIdle("FS_TX")

(* A frame event: the flag of the event and the RF interrupt request. *)
Raise(e) == /\ rfif' = rfif \cup {e}
            /\ s1con' = TRUE

Calibrated ==
    /\ marc \in {"FS_RX", "FS_TX"}
    /\ marc' = IF marc = "FS_RX" THEN "RX" ELSE "TX"
    /\ txphase' = IF marc = "FS_TX" THEN "preamble" ELSE "off"
    /\ lqi_ok' = (lqi_ok /\ marc = "FS_TX")
    /\ UNCHANGED <<rfif, s1con, rftxrx, rfd, rfd_full, rxf, pos, txf, history>>

---------------------------------------------------------------------------
(* Reception. *)

(* A sync word: the start of some frame. *)
RxSync ==
    /\ marc = "RX"
    /\ rxf = <<>>
    /\ rxf' \in AirFrames
    /\ pos' = 0
    /\ Raise("SFD")
    /\ UNCHANGED <<marc, rftxrx, rfd, rfd_full, txphase, txf, lqi_ok, history>>

(* The second byte is the address: a frame for somebody else is dropped and
   the receiver searches for a sync word again. *)
Filtered == pos = 2 /\ rxf[2] \notin {ADDR, Broadcast}

RxFilter ==
    /\ marc = "RX"
    /\ rxf # <<>>
    /\ Filtered
    /\ rxf' = <<>>
    /\ pos' = 0
    /\ rfd_full' = FALSE
    /\ lqi_ok' = FALSE
    /\ UNCHANGED <<marc, rfif, s1con, rftxrx, rfd, txphase, txf, history>>

(* A byte has come in: it goes to RFD, unless the one before was not read. *)
RxByte ==
    /\ marc = "RX"
    /\ rxf # <<>>
    /\ pos < Len(rxf)
    /\ ~Filtered
    /\ ~rfd_full
    /\ pos' = pos + 1
    /\ rfd' = rxf[pos + 1]
    /\ rfd_full' = TRUE
    /\ rftxrx' = TRUE
    /\ UNCHANGED <<marc, rfif, s1con, rxf, txphase, txf, lqi_ok, history>>

RxOverflow ==
    /\ marc = "RX"
    /\ rxf # <<>>
    /\ pos < Len(rxf)
    /\ ~Filtered
    /\ rfd_full
    /\ EnterState("RXOVF")
    /\ Raise("RXOVF")
    /\ UNCHANGED <<rftxrx, lqi_ok, history>>

(* The CRC has been compared and the first of the two status bytes appended
   to the frame asks to be read; LQI holds the outcome from here on. *)
RxCrc ==
    /\ marc = "RX"
    /\ rxf # <<>>
    /\ pos = Len(rxf)
    /\ ~Filtered
    /\ pos' = pos + 1
    /\ lqi_ok' \in BOOLEAN
    /\ rfd' \in Junk
    /\ rftxrx' = TRUE
    /\ lastrx' = rxf
    /\ fresh' = TRUE
    /\ UNCHANGED <<marc, rfif, s1con, rfd_full, rxf, txphase, txf, sentf>>

RxStatus ==
    /\ marc = "RX"
    /\ rxf # <<>>
    /\ pos = Len(rxf) + 1
    /\ pos' = pos + 1
    /\ rfd' \in Junk
    /\ rftxrx' = TRUE
    /\ UNCHANGED <<marc, rfif, s1con, rfd_full, rxf, txphase, txf, lqi_ok,
                   history>>

(* End of frame: the receiver goes idle.  The request of the last status byte
   may come together with it. *)
RxDone ==
    /\ marc = "RX"
    /\ rxf # <<>>
    /\ pos > Len(rxf)
    /\ EnterState("IDLE")
    /\ Raise("DONE")
    /\ rftxrx' \in {rftxrx, TRUE}
    /\ UNCHANGED <<lqi_ok, history>>

---------------------------------------------------------------------------
(* Transmission: preamble and sync word, then byte after byte. *)

TxSync ==
    /\ marc = "TX"
    /\ txphase = "preamble"
    /\ txphase' = "ready"
    /\ Raise("SFD")
    /\ UNCHANGED <<marc, rftxrx, rfd, rfd_full, rxf, pos, txf, lqi_ok, history>>

(* The first byte transmitted is the length, and says when to stop. *)
TxMore == Len(txf) < (IF txf = <<>> THEN 1 ELSE txf[1] + 1)

TxAsk ==
    /\ marc = "TX"
    /\ txphase = "ready"
    /\ TxMore
    /\ txphase' = "asked"
    /\ rftxrx' = TRUE
    /\ UNCHANGED <<marc, rfif, s1con, rfd, rfd_full, rxf, pos, txf, lqi_ok, history>>

TxByte ==
    /\ marc = "TX"
    /\ txphase = "asked"
    /\ rfd_full
    /\ txf' = Append(txf, rfd)
    /\ rfd_full' = FALSE
    /\ rfd' = 0
    /\ txphase' = "ready"
    /\ UNCHANGED <<marc, rfif, s1con, rftxrx, rxf, pos, lqi_ok, history>>

TxUnderflow ==
    /\ marc = "TX"
    /\ txphase = "asked"
    /\ ~rfd_full
    /\ EnterState("TXUNF")
    /\ Raise("TXUNF")
    /\ UNCHANGED <<rftxrx, lqi_ok, history>>

TxDone ==
    /\ marc = "TX"
    /\ txphase = "ready"
    /\ ~TxMore
    /\ EnterState("IDLE")
    /\ Raise("DONE")
    /\ sentf' = txf
    /\ UNCHANGED <<rftxrx, lqi_ok, lastrx, fresh>>

---------------------------------------------------------------------------
(* What the chip does on its own once it has something to do. *)
ChipProgress ==
    \/ Calibrated
    \/ RxFilter \/ RxByte \/ RxOverflow \/ RxCrc \/ RxStatus \/ RxDone
    \/ TxSync \/ TxAsk \/ TxByte \/ TxUnderflow \/ TxDone

ChipNext == RxSync \/ ChipProgress
=============================================================================
