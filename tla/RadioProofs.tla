---------------------------- MODULE RadioProofs ----------------------------
(***************************************************************************)
(* Theorems about Radio: its types; what the receiver stores and delivers; *)
(* its coming back to listening; what is sent; and that every step of it   *)
(* is one of Link or goes unseen there.                                    *)
(*                                                                         *)
(* GenuineDelivery, OkMeansSent, AckFaithful and the steps of Link need    *)
(* the handlers to be prompt, so they are proved for a board without       *)
(* uart0_isr.  That the handlers keep to the buffer, and that no device is *)
(* left deaf, does not need it.                                            *)
(***************************************************************************)
EXTENDS Radio, SequenceTheorems, TLAPS

(* What is known of a frame on the air. *)
LEMMA Frames ==
    \A f \in AirFrames : /\ f \in Seq(Byte)
                         /\ Len(f) \in Nat
                         /\ Len(f) >= 2
                         /\ Len(f) = f[1] + 1
                         /\ f # <<>>
BY FramesAssumption DEF IsFrame, Byte

(* The packet a command asks for, and the stores that make it, are typed. *)
LEMMA Commands ==
    ASSUME NEW s \in Sends
    PROVE  /\ s.data \in Seq(Byte)
           /\ Len(s.data) \in Nat
           /\ HEADER + Len(s.data) <= PKTBUF_MAX
           /\ s.dst \in Byte /\ s.seq \in Byte /\ s.type \in Byte
<1>1. s.data \in Seq(Byte)
  BY SendsAssumption
<1>2. Len(s.data) \in Nat
  BY <1>1, LenProperties
<1> QED BY <1>1, <1>2, SendsAssumption

LEMMA FrameOfType ==
    ASSUME NEW s \in Sends
    PROVE  FrameOf(s) \in Seq(Byte) /\ Len(FrameOf(s)) = HEADER + Len(s.data)
<1> DEFINE n == Len(s.data)
           len == HEADER - 1 + n
           h == <<len, s.dst, ADDR, s.seq, s.type>>
<1>1. len \in Byte
  <2>1. n \in Nat /\ HEADER + n <= PKTBUF_MAX
    BY Commands
  <2> HIDE DEF n
  <2> QED BY <2>1, BufferAssumption DEF HEADER, Byte
<1>2. ADDR \in Byte
  BY AddrAssumption DEF Byte
<1>3. h \in Seq(Byte) /\ Len(h) = 5
  <2> HIDE DEF len
  <2> QED BY <1>1, <1>2, Commands
<1> QED BY <1>3, Commands, ConcatProperties DEF FrameOf, HEADER

LEMMA StoresType ==
    ASSUME NEW s \in Sends
    PROVE  Stores(s) \in Seq(Offsets \X Byte) /\ Stores(s) # <<>>
<1> DEFINE n == Len(s.data)
           f == FrameOf(s)
           head == <<<<0, f[1]>>, <<2, f[3]>>, <<4, f[5]>>>>
           body == [i \in 1..n |-> <<HEADER + i - 1, s.data[i]>>]
           tail == <<<<1, f[2]>>, <<3, f[4]>>>>
<1>1. n \in Nat /\ HEADER + n <= PKTBUF_MAX /\ s.data \in Seq(Byte)
  BY Commands
<1>2. f \in Seq(Byte) /\ Len(f) = 5 + n
  BY FrameOfType DEF HEADER
<1>3. f[1] \in Byte /\ f[2] \in Byte /\ f[3] \in Byte /\ f[4] \in Byte /\ f[5] \in Byte
  <2> HIDE DEF f, n
  <2> QED BY <1>1, <1>2, ElementOfSeq
<1>4. 0 \in Offsets /\ 1 \in Offsets /\ 2 \in Offsets /\ 3 \in Offsets /\ 4 \in Offsets
  BY BufferAssumption DEF Offsets, HEADER
<1>5. /\ head \in Seq(Offsets \X Byte) /\ Len(head) = 3
      /\ tail \in Seq(Offsets \X Byte) /\ Len(tail) = 2
  <2> HIDE DEF f
  <2> QED BY <1>3, <1>4
<1>6. body \in Seq(Offsets \X Byte) /\ Len(body) = n
  <2>1. ASSUME NEW i \in 1..n
        PROVE  <<HEADER + i - 1, s.data[i]>> \in Offsets \X Byte
    <3>1. HEADER + i - 1 \in Offsets
      BY <1>1, BufferAssumption DEF Offsets, HEADER
    <3>2. s.data[i] \in Byte
      BY <1>1, ElementOfSeq
    <3> QED BY <3>1, <3>2
  <2>2. body \in [1..n -> Offsets \X Byte]
    BY <2>1
  <2> HIDE DEF body, n
  <2> QED BY <1>1, <2>2, SeqDef, LenProperties
<1> HIDE DEF head, body, tail
<1>7. ASSUME NEW T, head \in Seq(T), body \in Seq(T), tail \in Seq(T)
      PROVE  /\ (head \o body) \o tail \in Seq(T)
             /\ Len((head \o body) \o tail) = 5 + n
  <2> HIDE DEF n
  <2>1. head \o body \in Seq(T) /\ Len(head \o body) = Len(head) + Len(body)
    BY <1>7, ConcatProperties
  <2>2. /\ (head \o body) \o tail \in Seq(T)
        /\ Len((head \o body) \o tail) = Len(head \o body) + Len(tail)
    BY <1>7, <2>1, ConcatProperties
  <2> QED BY <1>1, <1>5, <1>6, <2>1, <2>2
<1>8. Stores(s) = (head \o body) \o tail
  BY DEF Stores, head, body, tail
<1>9. Stores(s) \in Seq(Offsets \X Byte) /\ Len(Stores(s)) = 5 + n
  BY <1>5, <1>6, <1>7, <1>8
<1> QED BY <1>1, <1>9, EmptySeq
---------------------------------------------------------------------------
(* Type correctness. *)

LEMMA Nothing ==
    /\ 0 \in Byte
    /\ <<>> \in Seq(Byte)
    /\ <<>> \in Seq(Offsets \X Byte)
    /\ 0 \in 0..(Len(<<>>) + 2)
BY EmptySeq DEF Byte

LEMMA TypeInit == Init => TypeOK
<1> SUFFICES ASSUME Init PROVE TypeOK
  OBVIOUS
<1>1. ChipTypeOK
  BY Nothing DEF Init, ChipInit, ChipTypeOK, Events
<1>2. DriverTypeOK
  BY Nothing DEF Init, DriverTypeOK
<1> QED BY <1>1, <1>2 DEF TypeOK

(* Steps that leave the chip alone, and steps that strobe it. *)
LEMMA ChipSame == ChipTypeOK /\ UNCHANGED chipVars => ChipTypeOK'
BY DEF ChipTypeOK, chipVars

LEMMA ChipStrobed ==
    ASSUME ChipTypeOK,
           \/ EnterState("IDLE") \/ EnterState("FS_RX") \/ EnterState("FS_TX")
           \/ UNCHANGED radioState,
           rfif' \in SUBSET Events, s1con' \in BOOLEAN, rftxrx' \in BOOLEAN,
           lqi_ok' \in BOOLEAN, lastrx' \in AirFrames \cup {<<>>},
           fresh' \in BOOLEAN, sentf' \in Seq(Byte)
    PROVE  ChipTypeOK'
BY Nothing DEF ChipTypeOK, EnterState, radioState

LEMMA DriverSame == DriverTypeOK /\ UNCHANGED <<pktbuf, flags, echo, mainVars>> => DriverTypeOK'
BY DEF DriverTypeOK, flags, mainVars

LEMMA TypeChip == TypeOK /\ Chip => TypeOK'
<1> SUFFICES ASSUME TypeOK, Chip PROVE TypeOK'
  OBVIOUS
<1> SUFFICES ChipTypeOK'
  BY DriverSame DEF Chip, Beside, TypeOK
<1> USE DEF TypeOK, ChipTypeOK, Raise, EnterState, history, radioState, Events
<1>1. CASE RxSync
  BY <1>1, Frames DEF RxSync
<1>2. CASE Calibrated
  BY <1>2 DEF Calibrated
<1>3. CASE RxFilter
  BY <1>3, Frames, Nothing DEF RxFilter, Filtered
<1>4. CASE RxByte
  BY <1>4, Frames DEF RxByte, Filtered
<1>5. CASE RxOverflow
  BY <1>5, Frames, Nothing DEF RxOverflow, Filtered
<1>6. CASE RxCrc
  BY <1>6, Frames, JunkAssumption DEF RxCrc, Filtered
<1>7. CASE RxStatus
  BY <1>7, Frames, JunkAssumption DEF RxStatus
<1>8. CASE RxDone
  BY <1>8, Frames, Nothing DEF RxDone
<1>9. CASE TxSync
  BY <1>9 DEF TxSync
<1>10. CASE TxAsk
  BY <1>10 DEF TxAsk
<1>11. CASE TxByte
  BY <1>11, Nothing, AppendProperties DEF TxByte
<1>12. CASE TxUnderflow
  BY <1>12, Nothing DEF TxUnderflow
<1>13. CASE TxDone
  BY <1>13, Nothing DEF TxDone
<1> QED BY <1>1, <1>2, <1>3, <1>4, <1>5, <1>6, <1>7, <1>8, <1>9, <1>10, <1>11, <1>12, <1>13 DEF Chip, Beside, ChipNext, ChipProgress

(* packet_build and packet_autoack always have a store left to make. *)
BuildPending == pc = "build" => todo # <<>>

LEMMA TypeIsr == TypeOK /\ (RftxrxIsr \/ RfIsr \/ EchoStart \/ EchoEnd) => TypeOK'
<1> SUFFICES ASSUME TypeOK, RftxrxIsr \/ RfIsr \/ EchoStart \/ EchoEnd PROVE TypeOK'
  OBVIOUS
<1>t. ChipTypeOK /\ DriverTypeOK
  BY DEF TypeOK
<1>1. CASE RftxrxIsr
  <2>u. UNCHANGED <<marc, rfif, s1con, rxf, pos, txphase, txf, lqi_ok, history,
                    receiving, echo, mainVars>> /\ rftxrx' = FALSE
    BY <1>1 DEF RftxrxIsr
  <2>1. CASE SendByte
    <3>1. rfd' \in Byte
      BY <1>t, <2>1, JunkAssumption DEF SendByte, Fetch, ChipTypeOK, DriverTypeOK
    <3>2. pktbuf_index' \in Byte
      <4>1. pktbuf_index \in 0..255
        BY <1>t DEF DriverTypeOK, Byte
      <4>2. (pktbuf_index + 1) % 256 \in 0..255
        BY <4>1
      <4> QED BY <4>1, <4>2, <2>1 DEF SendByte, Byte
    <3>3. ChipTypeOK'
      BY <1>t, <2>u, <2>1, <3>1 DEF SendByte, ChipTypeOK, history
    <3>4. DriverTypeOK'
      BY <1>t, <2>u, <2>1, <3>2 DEF SendByte, DriverTypeOK, mainVars
    <3> QED BY <3>3, <3>4 DEF TypeOK
  <2>2. CASE FetchByte
    <3>1. pktbuf_index' \in Byte
      <4>1. pktbuf_index \in 0..255 /\ PKTBUF_MAX \in 5..255
        BY <1>t, BufferAssumption DEF DriverTypeOK, Byte, HEADER
      <4>2. MayStore => pktbuf_index < 255
        BY <4>1 DEF MayStore
      <4>3. \/ pktbuf_index' = pktbuf_index
            \/ MayStore /\ pktbuf_index' = pktbuf_index + 1
        BY <2>2 DEF FetchByte
      <4> QED BY <4>1, <4>2, <4>3 DEF Byte
    <3>2. rfd' \in Byte /\ pktbuf' \in [Offsets -> Byte]
      BY <1>t, <2>2, Nothing DEF FetchByte, ChipTypeOK, DriverTypeOK
    <3>3. ChipTypeOK'
      BY <1>t, <2>u, <2>2, <3>2 DEF FetchByte, ChipTypeOK, history
    <3>4. errflag' \in BOOLEAN /\ pkt_complete' \in BOOLEAN
      BY <1>t, <2>2, Zenon DEF FetchByte, DriverTypeOK
    <3>5. DriverTypeOK'
      BY <1>t, <2>u, <3>1, <3>2, <3>4 DEF DriverTypeOK, mainVars
    <3> QED BY <3>3, <3>5 DEF TypeOK
  <2>3. CASE UNCHANGED <<rfd, rfd_full, pktbuf, pktbuf_index, errflag, pkt_complete>>
    <3>1. ChipTypeOK'
      BY <1>t, <2>u, <2>3 DEF ChipTypeOK, history
    <3>2. DriverTypeOK'
      BY <1>t, <2>u, <2>3 DEF DriverTypeOK, mainVars
    <3> QED BY <3>1, <3>2 DEF TypeOK
  <2> QED BY <1>1, <2>1, <2>2, <2>3 DEF RftxrxIsr
<1>2. CASE RfIsr
  <2>1. ChipTypeOK'
    <3>1. rfif' \in SUBSET Events /\ s1con' \in BOOLEAN
      BY <1>2 DEF RfIsr
    <3>2. UNCHANGED <<rftxrx, lqi_ok, history>>
      BY <1>2 DEF RfIsr
    <3>3. EnterState("IDLE") \/ UNCHANGED radioState
      BY <1>2 DEF RfIsr, SIDLE
    <3> QED BY <1>t, <3>1, <3>2, <3>3, ChipStrobed DEF ChipTypeOK, history
  <2>2. errflag' \in BOOLEAN /\ pkt_complete' \in BOOLEAN
    BY <1>2, Zenon DEF RfIsr
  <2>3. pktbuf_index' \in Byte /\ UNCHANGED <<pktbuf, receiving, echo, mainVars>>
    BY <1>t, <1>2, Nothing DEF RfIsr, DriverTypeOK
  <2>4. DriverTypeOK'
    BY <1>t, <2>2, <2>3 DEF DriverTypeOK, mainVars
  <2> QED BY <2>1, <2>4 DEF TypeOK
<1>3. CASE EchoStart \/ EchoEnd
  <2>1. UNCHANGED <<chipVars, pktbuf, flags, mainVars>> /\ echo' \in BOOLEAN
    BY <1>3 DEF EchoStart, EchoEnd
  <2>2. DriverTypeOK'
    BY <1>t, <2>1 DEF DriverTypeOK, flags, mainVars
  <2> QED BY <1>t, <2>1, <2>2, ChipSame DEF TypeOK
<1> QED BY <1>1, <1>2, <1>3

LEMMA TypeMain == TypeOK /\ BuildPending /\ Main => TypeOK' /\ BuildPending'
<1> SUFFICES ASSUME TypeOK, BuildPending, Main PROVE TypeOK' /\ BuildPending'
  OBVIOUS
<1>t. ChipTypeOK /\ DriverTypeOK /\ echo' = echo
  BY DEF TypeOK, Main
<1> USE DEF BuildPending
<1>1. CASE ConsoleTick
  <2>1. todo' \in Seq(Offsets \X Byte) /\ want' \in Seq(Byte) /\ BuildPending'
    BY <1>1, <1>t, StoresType, FrameOfType DEF ConsoleTick, DriverTypeOK
  <2>2. DriverTypeOK'
    BY <1>1, <1>t, <2>1 DEF ConsoleTick, DriverTypeOK, flags
  <2> QED BY <1>1, <1>t, <2>1, <2>2, ChipSame DEF ConsoleTick, NoStrobe, TypeOK
<1>2. CASE Build
  <2>1. todo # <<>> /\ todo \in Seq(Offsets \X Byte)
    BY <1>2, <1>t DEF Build, DriverTypeOK
  <2>2. /\ Head(todo) \in Offsets \X Byte
        /\ Tail(todo) \in Seq(Offsets \X Byte)
        /\ Len(Tail(todo)) = Len(todo) - 1 /\ Len(todo) \in Nat
    BY <2>1, HeadTailProperties, LenProperties
  <2>3. pc' = "build" => todo' # <<>>
    <3>1. ASSUME Len(todo) # 1 PROVE Tail(todo) # <<>>
      <4> DEFINE n == Len(todo)
                 m == Len(Tail(todo))
      <4>1. n \in Nat \ {0} /\ n # 1 /\ m = n - 1
        BY <2>1, <2>2, <3>1, EmptySeq
      <4>2. m # 0
        <5> HIDE DEF n, m
        <5> QED BY <4>1
      <4> QED BY <4>2, EmptySeq
    <3> QED BY <1>2, <3>1 DEF Build
  <2>4. pktbuf' \in [Offsets -> Byte]
    BY <1>2, <1>t, <2>2 DEF Build, DriverTypeOK
  <2>5. DriverTypeOK'
    BY <1>2, <1>t, <2>2, <2>4 DEF Build, DriverTypeOK, flags
  <2> QED BY <1>2, <1>t, <2>3, <2>5, ChipSame DEF Build, NoStrobe, TypeOK
<1>3. CASE RadioTick \/ TickComplete \/ TickSent \/ CheckCrc
  <2>1. UNCHANGED <<chipVars, pktbuf, flags, todo, want>> /\ pc' # "build"
    BY <1>3 DEF RadioTick, TickComplete, TickSent, CheckCrc, NoStrobe
  <2>2. pc' \in {"rx_idle", "tick_complete", "tick_sent", "check_crc",
                 "console_tick", "packet_handle"}
        /\ ret' \in {ret, "tick_sent", "console_tick"}
    BY <1>3, <1>t DEF RadioTick, TickComplete, TickSent, CheckCrc, DriverTypeOK
  <2>3. DriverTypeOK'
    BY <1>t, <2>1, <2>2 DEF DriverTypeOK, flags
  <2> QED BY <1>t, <2>1, <2>3, ChipSame DEF TypeOK
<1>4. CASE PacketHandle
  <2>1. ChipTypeOK'
    BY <1>4, <1>t DEF PacketHandle, ChipTypeOK
  <2>2. DriverTypeOK'
    BY <1>4, <1>t DEF PacketHandle, DriverTypeOK, flags
  <2> QED BY <1>4, <2>1, <2>2 DEF PacketHandle, TypeOK
<1>5. CASE PacketAutoack
  <2> DEFINE ack == <<<<1, pktbuf[2]>>, <<2, ADDR>>, <<3, pktbuf[3] % REQ_ACK>>,
                      <<4, ACK>>, <<0, HEADER - 1>>>>
             frame == <<HEADER - 1, pktbuf[2], ADDR, pktbuf[3] % REQ_ACK, ACK>>
  <2>1. 0 \in Offsets /\ 1 \in Offsets /\ 2 \in Offsets /\ 3 \in Offsets /\ 4 \in Offsets
    BY BufferAssumption DEF Offsets, HEADER
  <2>2. /\ pktbuf[2] \in Byte /\ pktbuf[3] \in 0..255
        /\ ADDR \in Byte /\ ACK \in Byte /\ HEADER - 1 \in Byte
    BY <1>t, <2>1, AddrAssumption DEF DriverTypeOK, Byte, ACK, HEADER
  <2>3. pktbuf[3] % REQ_ACK \in Byte
    <3> DEFINE x == pktbuf[3]
    <3>1. x \in 0..255
      BY <2>2
    <3>2. x % 128 \in 0..255
      <4> HIDE DEF x
      <4> QED BY <3>1
    <3> QED BY <3>2 DEF Byte, REQ_ACK
  <2>4. ack \in Seq(Offsets \X Byte) /\ ack # <<>> /\ frame \in Seq(Byte)
    BY <2>1, <2>2, <2>3
  <2> HIDE DEF ack, frame
  <2>5. \/ todo' = ack /\ want' = frame /\ pc' = "build" /\ ret' = "rx_idle"
        \/ pc' = "rx_idle" /\ UNCHANGED <<ret, todo, want>>
    BY <1>5 DEF PacketAutoack, ack, frame
  <2>6. DriverTypeOK' /\ BuildPending'
    BY <1>5, <1>t, <2>4, <2>5 DEF PacketAutoack, DriverTypeOK, flags
  <2> QED BY <1>5, <1>t, <2>6, ChipSame DEF PacketAutoack, NoStrobe, TypeOK
<1>6. CASE RadioTxIdle \/ RadioTxStrobe \/ RadioRxIdle \/ RadioRxStrobe
  <2>1. /\ \/ EnterState("IDLE") \/ EnterState("FS_RX") \/ EnterState("FS_TX")
           \/ UNCHANGED radioState
        /\ UNCHANGED <<rfif, s1con, rftxrx, lqi_ok>>
    BY <1>6 DEF RadioTxIdle, RadioTxStrobe, RadioRxIdle, RadioRxStrobe, SIDLE, SRX,
                STX, StrobeFromIdle, OnlyStrobe, radioState
  <2>2. lastrx' \in {lastrx, <<>>} /\ fresh' \in {fresh, FALSE} /\ sentf' \in {sentf, <<>>}
    BY <1>6 DEF RadioTxIdle, RadioTxStrobe, RadioRxIdle, RadioRxStrobe, history
  <2>3. ChipTypeOK'
    BY <1>t, <2>1, <2>2, ChipStrobed, Nothing DEF ChipTypeOK
  <2>4. DriverTypeOK' /\ BuildPending'
    BY <1>6, <1>t, Nothing DEF RadioTxIdle, RadioTxStrobe, RadioRxIdle, RadioRxStrobe,
                               DriverTypeOK, flags
  <2> QED BY <2>3, <2>4 DEF TypeOK
<1>7. CASE RadioTxInit \/ RadioRxInit
  <2>1. DriverTypeOK' /\ BuildPending'
    BY <1>7, <1>t, Nothing DEF RadioTxInit, RadioRxInit, InitFlags, DriverTypeOK
  <2> QED BY <1>7, <1>t, <2>1, ChipSame DEF RadioTxInit, RadioRxInit, InitFlags,
                                            NoStrobe, TypeOK
<1>8. CASE RadioTxWait
  <2>1. DriverTypeOK' /\ BuildPending'
    BY <1>8, <1>t DEF RadioTxWait, DriverTypeOK, flags
  <2> QED BY <1>8, <1>t, <2>1, ChipSame DEF RadioTxWait, NoStrobe, TypeOK
<1> QED BY <1>1, <1>2, <1>3, <1>4, <1>5, <1>6, <1>7, <1>8 DEF Main, MainStep

LEMMA TypeStep == TypeOK /\ BuildPending /\ [Next]_vars => TypeOK' /\ BuildPending'
<1> SUFFICES ASSUME TypeOK, BuildPending, [Next]_vars PROVE TypeOK' /\ BuildPending'
  OBVIOUS
<1>1. CASE Chip
  BY <1>1, TypeChip DEF Chip, Beside, BuildPending, mainVars
<1>2. CASE RftxrxIsr \/ RfIsr \/ EchoStart \/ EchoEnd
  BY <1>2, TypeIsr DEF RftxrxIsr, RfIsr, EchoStart, EchoEnd, BuildPending, mainVars
<1>3. CASE Main
  BY <1>3, TypeMain
<1>4. CASE UNCHANGED vars
  BY <1>4, ChipSame, DriverSame DEF vars, TypeOK, BuildPending, mainVars
<1> QED BY <1>1, <1>2, <1>3, <1>4 DEF Next

(* Every variable keeps its type: bytes are bytes, the buffer has its size and
   stays one of bytes, and no flag or address is ever anything else. *)
THEOREM TypeCorrect == Spec => []TypeOK
<1> DEFINE I == TypeOK /\ BuildPending
<1>1. Init => I
  BY TypeInit DEF BuildPending, Init
<1>2. I /\ [Next]_vars => I'
  BY TypeStep
<1>3. I => TypeOK
  OBVIOUS
<1> QED BY <1>1, <1>2, <1>3, PTL DEF Spec

---------------------------------------------------------------------------
(* Reception: what the handler stores, and what is delivered. *)

---------------------------------------------------------------------------
(* The inductive invariant. *)

(* The flags are cleared, and the receiver is started, in peace. *)
Peace == /\ pc \in {"rx_init", "rx_strobe"} => marc = "IDLE" /\ Quiet
         /\ pc = "rx_strobe" => pktbuf_index = 0
         /\ rfif # {} => s1con

(* What RxInBounds needs: the chip has got into reception with index 0. *)
InBounds == marc \in {"FS_RX", "RX"} => pktbuf_index <= PKTBUF_MAX

(* Which way the main loop came. *)
Way == /\ pc \in {"tx_strobe", "tx_wait"} => ~receiving
       /\ pc \in {"tick_complete", "check_crc", "packet_handle", "packet_autoack"}
            => receiving
       /\ pc \in {"check_crc", "packet_handle", "packet_autoack"} => pkt_complete
       /\ pc = "packet_handle" => lqi_ok
       /\ pc = "rx_strobe" => receiving /\ ~pkt_complete

(* The buffer belongs to the receiver: nothing is being built or sent. *)
Owned == receiving /\ pc \notin {"build", "tx_idle", "tx_init", "tx_strobe",
                                 "tx_wait", "rx_init"}

(* The last frame has not been handed over before. *)
NotHanded == fresh \/ pc \in {"packet_autoack", "rx_idle"}

(* How much of a frame gets into the buffer. *)
Fitting(n) == IF n <= PKTBUF_MAX THEN n ELSE PKTBUF_MAX

(* The handler has stored the first n bytes of f and nothing else since. *)
Stored(f, n) == pktbuf_index = n /\ Holds(f, n)

(* All of f that fits is stored. *)
AllStored(f) == /\ Stored(f, Fitting(Len(f)))
                /\ pkt_complete => Len(f) <= PKTBUF_MAX
                /\ lastrx = f
                /\ NotHanded

(* Waiting for a frame. *)
Waiting == ~pkt_complete /\ ~rfd_full /\ Quiet

(* A sync word has come in and rf_isr is due. *)
AtSync == s1con /\ rfif = {"SFD"} /\ pos = 0 /\ ~rftxrx /\ ~pkt_complete /\ ~rfd_full

(* A byte of the frame is in RFD and rftxrx_isr is due. *)
AtByte == /\ rftxrx /\ pos \in 1..Len(rxf) /\ pos - 1 <= PKTBUF_MAX
          /\ rfd_full /\ rfd = rxf[pos]
          /\ Stored(rxf, pos - 1)
          /\ ~pkt_complete /\ ~s1con

(* Between two bytes; RFD is left full when the buffer is. *)
Between == /\ ~rftxrx /\ pos <= Len(rxf)
           /\ rfd_full <=> pos > PKTBUF_MAX
           /\ Stored(rxf, Fitting(pos))
           /\ ~pkt_complete /\ ~s1con

(* The frame is complete, its status bytes come. *)
AtStatus == pos > Len(rxf) /\ AllStored(rxf) /\ ~s1con

(* The frame is complete and the chip is idle again. *)
Ended == /\ s1con => rfif = {"DONE"} /\ lastrx \in AirFrames /\ AllStored(lastrx)
         /\ pkt_complete => /\ lastrx \in AirFrames
                            /\ Len(lastrx) <= PKTBUF_MAX
                            /\ Holds(lastrx, Len(lastrx))
                            /\ NotHanded

Reception ==
    Owned => /\ marc \in {"FS_RX", "RX", "RXOVF", "IDLE"}
             /\ marc = "FS_RX" => rxf = <<>> /\ Waiting
             /\ marc = "RX" /\ rxf = <<>> => Waiting
             /\ marc = "RX" /\ rxf # <<>> => AtSync \/ AtByte \/ Between \/ AtStatus
             /\ marc = "RXOVF" => s1con /\ rfif = {"RXOVF"} /\ ~pkt_complete /\ ~rftxrx
             /\ marc = "IDLE" => Ended

BoundsInv == TypeOK /\ BuildPending /\ Peace /\ InBounds
DeliveryInv == BoundsInv /\ ~echo /\ Way /\ Reception
---------------------------------------------------------------------------
(* Bounds: for any board. *)

LEMMA PeaceChip == TypeOK /\ Peace /\ InBounds /\ Chip => Peace' /\ InBounds'
<1> SUFFICES ASSUME TypeOK, Peace, InBounds, Chip PROVE Peace' /\ InBounds'
  OBVIOUS
<1>1. UNCHANGED <<pc, pktbuf_index>> /\ ChipNext
  BY DEF Chip, Beside, flags, mainVars
<1>2. marc # "IDLE" /\ (marc' \in {"FS_RX", "RX"} => marc \in {"FS_RX", "RX"})
  BY <1>1 DEF ChipNext, ChipProgress, RxSync, Calibrated, RxFilter, RxByte, RxOverflow,
              RxCrc, RxStatus, RxDone, TxSync, TxAsk, TxByte, TxUnderflow, TxDone, EnterState
<1>3. \/ rfif' # {} /\ s1con'
      \/ UNCHANGED <<rfif, s1con>>
  BY <1>1 DEF ChipNext, ChipProgress, RxSync, Calibrated, RxFilter, RxByte, RxOverflow,
              RxCrc, RxStatus, RxDone, TxSync, TxAsk, TxByte, TxUnderflow, TxDone, Raise
<1> QED BY <1>1, <1>2, <1>3 DEF Peace, InBounds

LEMMA PeaceIsr ==
    /\ TypeOK /\ Peace /\ InBounds
    /\ RftxrxIsr \/ RfIsr \/ EchoStart \/ EchoEnd
    => Peace' /\ InBounds'
<1> SUFFICES ASSUME TypeOK, Peace, InBounds,
                    RftxrxIsr \/ RfIsr \/ EchoStart \/ EchoEnd
             PROVE  Peace' /\ InBounds'
  OBVIOUS
<1>t. pktbuf_index \in 0..255 /\ PKTBUF_MAX \in 5..255
  BY BufferAssumption DEF TypeOK, DriverTypeOK, Byte, HEADER
<1>1. CASE RftxrxIsr
  <2>1. rftxrx /\ UNCHANGED <<marc, rfif, s1con, pc>>
    BY <1>1 DEF RftxrxIsr, mainVars
  <2>2. marc = "RX" /\ pktbuf_index <= PKTBUF_MAX => pktbuf_index' <= PKTBUF_MAX
    BY <1>1, <1>t DEF RftxrxIsr, FetchByte, MayStore, SendByte
  <2>3. marc = "FS_RX" => pktbuf_index' = pktbuf_index
    BY <1>1 DEF RftxrxIsr, FetchByte, SendByte
  <2> QED BY <2>1, <2>2, <2>3 DEF Peace, InBounds, Quiet
<1>2. CASE RfIsr
  BY <1>2, <1>t DEF RfIsr, Peace, InBounds, Quiet, mainVars, SIDLE, EnterState, radioState
<1>3. CASE EchoStart \/ EchoEnd
  BY <1>3 DEF EchoStart, EchoEnd, Peace, InBounds, Quiet, chipVars, flags, mainVars
<1> QED BY <1>1, <1>2, <1>3

LEMMA PeaceMain == TypeOK /\ Peace /\ InBounds /\ Main => Peace' /\ InBounds'
<1> SUFFICES ASSUME TypeOK, Peace, InBounds, Main PROVE Peace' /\ InBounds'
  OBVIOUS
<1>t. 0 <= PKTBUF_MAX /\ Quiet /\ MainStep /\ ret \notin {"rx_init", "rx_strobe"}
  BY BufferAssumption DEF Main, TypeOK, DriverTypeOK, HEADER
<1>1. CASE RadioTxIdle \/ RadioRxIdle
  BY <1>t, <1>1 DEF RadioTxIdle, RadioRxIdle, SIDLE, EnterState, OnlyStrobe, Peace,
                    InBounds, Quiet
<1>2. CASE RadioTxStrobe \/ RadioRxStrobe
  BY <1>t, <1>2 DEF RadioTxStrobe, RadioRxStrobe, STX, SRX, StrobeFromIdle, EnterState,
                    radioState, OnlyStrobe, Peace, InBounds, Quiet, flags
<1>3. CASE RadioTxInit \/ RadioRxInit
  BY <1>t, <1>3 DEF RadioTxInit, RadioRxInit, InitFlags, NoStrobe, chipVars, Peace,
                    InBounds, Quiet
<1>4. CASE PacketHandle
  BY <1>4 DEF PacketHandle, Peace, InBounds, Quiet, flags
<1>5. CASE ConsoleTick \/ Build \/ RadioTick \/ TickComplete \/ TickSent \/ CheckCrc
           \/ PacketAutoack \/ RadioTxWait
  <2>1. NoStrobe /\ UNCHANGED flags
    BY <1>5 DEF ConsoleTick, Build, RadioTick, TickComplete, TickSent, CheckCrc,
                PacketAutoack, RadioTxWait
  <2>2. pc' \notin {"rx_init", "rx_strobe"}
    BY <1>t, <1>5 DEF ConsoleTick, Build, RadioTick, TickComplete, TickSent, CheckCrc,
                      PacketAutoack, RadioTxWait
  <2> QED BY <2>1, <2>2 DEF NoStrobe, chipVars, flags, Peace, InBounds
<1> QED BY <1>t, <1>1, <1>2, <1>3, <1>4, <1>5 DEF MainStep

LEMMA BoundsInductive == Spec => []BoundsInv
<1>1. Init => BoundsInv
  BY TypeInit DEF Init, ChipInit, BoundsInv, BuildPending, Peace, InBounds
<1>2. BoundsInv /\ [Next]_vars => BoundsInv'
  <2> SUFFICES ASSUME BoundsInv, [Next]_vars PROVE BoundsInv'
    OBVIOUS
  <2>t. TypeOK /\ BuildPending /\ Peace /\ InBounds
    BY DEF BoundsInv
  <2>1. TypeOK' /\ BuildPending'
    BY <2>t, TypeStep
  <2>2. Peace' /\ InBounds'
    <3>1. CASE UNCHANGED vars
      BY <2>t, <3>1 DEF vars, chipVars, flags, mainVars, Peace, InBounds, Quiet
    <3> QED BY <2>t, <3>1, PeaceChip, PeaceIsr, PeaceMain DEF Next
  <2> QED BY <2>1, <2>2 DEF BoundsInv
<1> QED BY <1>1, <1>2, PTL DEF Spec

(* No length byte, and no order of interrupts, makes rftxrx_isr store beyond
   the end of the packet buffer. *)
THEOREM StoresInBounds == Spec => []RxInBounds
<1>1. BoundsInv => RxInBounds
  BY DEF BoundsInv, InBounds, RxInBounds
<1> QED BY <1>1, BoundsInductive, PTL
---------------------------------------------------------------------------
(* Delivery: for a board without uart0_isr. *)

(* The frame being received, in arithmetic the provers can use. *)
LEMMA OnAir ==
    ASSUME TypeOK, rxf # <<>>
    PROVE  /\ rxf \in AirFrames
           /\ Len(rxf) \in Nat /\ Len(rxf) >= 2 /\ Len(rxf) = rxf[1] + 1
           /\ pos \in Nat /\ pos <= Len(rxf) + 2
           /\ pktbuf_index \in Nat
           /\ PKTBUF_MAX \in Nat /\ PKTBUF_MAX >= 5
BY Frames, BufferAssumption DEF TypeOK, ChipTypeOK, DriverTypeOK, Byte, HEADER

(* The chip between two handlers. *)
LEMMA ReceptionChip ==
    ASSUME DeliveryInv, Chip
    PROVE  Reception'
<1>t. TypeOK /\ Peace /\ ~echo /\ Reception
  BY DEF DeliveryInv, BoundsInv
<1>1. /\ UNCHANGED <<pktbuf, pktbuf_index, errflag, receiving, pkt_complete, pc>>
      /\ ChipNext /\ ~rftxrx /\ ~s1con
  BY <1>t DEF Chip, Beside, flags, mainVars, Quiet
<1>2. rfif = {} /\ (Owned' => Owned)
  BY <1>t, <1>1 DEF Peace, Owned
<1> SUFFICES ASSUME Owned, Owned' PROVE Reception'
  BY <1>2 DEF Reception
<1>3. /\ marc \in {"FS_RX", "RX", "RXOVF", "IDLE"} /\ marc # "RXOVF"
      /\ marc = "FS_RX" => rxf = <<>> /\ Waiting
      /\ marc = "RX" /\ rxf = <<>> => Waiting
      /\ marc = "RX" /\ rxf # <<>> => Between \/ AtStatus
  BY <1>t, <1>1 DEF Reception, AtSync, AtByte
<1>4. CASE Calibrated
  BY <1>1, <1>3, <1>4 DEF Calibrated, Reception, Waiting, Quiet
<1>5. CASE RxSync
  <2>1. rxf' # <<>>
    BY <1>5, Frames DEF RxSync
  <2>2. AtSync'
    BY <1>1, <1>2, <1>3, <1>5 DEF RxSync, Waiting, AtSync, Raise
  <2> QED BY <1>5, <2>1, <2>2 DEF Reception, RxSync
<1>6. CASE RxFilter
  <2>1. Between
    BY <1>t, <1>3, <1>6, OnAir DEF RxFilter, Filtered, AtStatus
  <2>2. Waiting'
    BY <1>1, <1>6, <2>1 DEF RxFilter, Between, Waiting, Quiet
  <2> QED BY <1>6, <2>2 DEF Reception, RxFilter
<1>7. CASE RxByte
  <2>1. Between /\ rxf # <<>>
    BY <1>t, <1>3, <1>7, OnAir DEF RxByte, AtStatus
  <2>2. pos <= PKTBUF_MAX /\ Stored(rxf, pos)
    BY <1>t, <1>7, <2>1, OnAir DEF RxByte, Between, Fitting
  <2>3. AtByte'
    BY <1>t, <1>1, <1>7, <2>1, <2>2, OnAir DEF RxByte, AtByte, Between, Stored, Holds
  <2> QED BY <1>7, <2>1, <2>3 DEF Reception, RxByte
<1>8. CASE RxOverflow
  <2>1. Between
    BY <1>t, <1>3, <1>8, OnAir DEF RxOverflow, AtStatus
  <2> QED BY <1>1, <1>2, <1>8, <2>1 DEF Reception, RxOverflow, EnterState, Raise, Between
<1>9. CASE RxCrc
  <2>1. Between /\ rxf # <<>>
    BY <1>t, <1>3, <1>9, OnAir DEF RxCrc, AtStatus
  <2>2. AllStored(rxf)'
    BY <1>1, <1>9, <2>1 DEF RxCrc, AllStored, Between, Stored, Holds, NotHanded
  <2>3. AtStatus'
    BY <1>t, <1>1, <1>9, <2>1, <2>2, OnAir DEF RxCrc, AtStatus
  <2> QED BY <1>9, <2>1, <2>3 DEF Reception, RxCrc
<1>10. CASE RxStatus
  <2>1. AtStatus /\ rxf # <<>>
    BY <1>t, <1>3, <1>10, OnAir DEF RxStatus, Between
  <2>2. AtStatus'
    BY <1>t, <1>1, <1>10, <2>1, OnAir DEF RxStatus, AtStatus, AllStored, Stored, Holds,
                                          NotHanded, history
  <2> QED BY <1>10, <2>1, <2>2 DEF Reception, RxStatus
<1>11. CASE RxDone
  <2>1. AtStatus /\ rxf # <<>> /\ rxf \in AirFrames
    BY <1>t, <1>3, <1>11, OnAir DEF RxDone, Between
  <2>2. lastrx = rxf /\ lastrx' = lastrx /\ AllStored(lastrx)
    BY <1>11, <2>1 DEF RxDone, AtStatus, AllStored, history
  <2>3. AllStored(lastrx)'
    BY <1>1, <1>11, <2>2 DEF RxDone, AllStored, Stored, Holds, NotHanded, history
  <2>4. Ended'
    BY <1>1, <1>2, <1>11, <2>1, <2>2, <2>3 DEF RxDone, Raise, Ended, AllStored, Stored,
                                               Fitting
  <2> QED BY <1>11, <2>4 DEF Reception, RxDone, EnterState
<1>12. CASE TxSync \/ TxAsk \/ TxByte \/ TxUnderflow \/ TxDone
  BY <1>3, <1>12 DEF TxSync, TxAsk, TxByte, TxUnderflow, TxDone
<1> QED BY <1>1, <1>4, <1>5, <1>6, <1>7, <1>8, <1>9, <1>10, <1>11, <1>12 DEF ChipNext, ChipProgress

(* Once the frame is complete nothing more is stored, and the packet is taken
   for complete only if all of it is there. *)
LEMMA FullUp ==
    ASSUME TypeOK, rxf # <<>>, AllStored(rxf), FetchByte,
           UNCHANGED <<rxf, lastrx, fresh, pc>>
    PROVE  UNCHANGED <<pktbuf, pktbuf_index>> /\ AllStored(rxf)'
<1> DEFINE n == Len(rxf)
<1>1. /\ n \in Nat /\ n >= 2 /\ n = rxf[1] + 1
      /\ PKTBUF_MAX \in Nat /\ PKTBUF_MAX >= 5
  BY OnAir
<1>2. /\ pktbuf_index = Fitting(n)
      /\ \A i \in 1..Fitting(n) : pktbuf[i - 1] = rxf[i]
  BY DEF AllStored, Stored, Holds
<1>3. FrameLen = n
  <2> HIDE DEF n
  <2> QED BY <1>1, <1>2 DEF Fitting, FrameLen
<1>4. ~MayStore /\ (pktbuf_index = FrameLen => n <= PKTBUF_MAX)
  <2> HIDE DEF n
  <2> QED BY <1>1, <1>2, <1>3 DEF Fitting, MayStore
<1>5. UNCHANGED <<pktbuf, pktbuf_index>>
      /\ (pkt_complete' => pkt_complete \/ pktbuf_index = FrameLen)
  BY <1>4 DEF FetchByte
<1> QED BY <1>4, <1>5 DEF AllStored, Stored, Holds, NotHanded

(* One byte: rftxrx_isr. *)
LEMMA ReceptionByte ==
    ASSUME DeliveryInv, RftxrxIsr
    PROVE  Reception'
<1>t. TypeOK /\ ~echo /\ Reception /\ PKTBUF_MAX \in Nat /\ PKTBUF_MAX >= 5
  BY BufferAssumption DEF DeliveryInv, BoundsInv, HEADER
<1>1. /\ rftxrx /\ ~rftxrx'
      /\ UNCHANGED <<marc, rfif, s1con, rxf, pos, lastrx, fresh, receiving, pc>>
      /\ Owned' => Owned
  BY DEF RftxrxIsr, history, mainVars, Owned
<1> SUFFICES ASSUME Owned, Owned' PROVE Reception'
  BY <1>1 DEF Reception
<1>2. CASE marc = "IDLE"
  <2>1. UNCHANGED <<pktbuf, pktbuf_index, pkt_complete>>
    BY <1>2 DEF RftxrxIsr, SendByte, FetchByte
  <2>2. Ended'
    BY <1>t, <1>1, <1>2, <2>1 DEF Reception, Ended, AllStored, Stored, Holds, NotHanded
  <2> QED BY <1>1, <1>2, <2>2 DEF Reception
<1>3. CASE marc = "RX" /\ rxf # <<>> /\ AtByte
  <2>f. FetchByte
    BY <1>3 DEF RftxrxIsr, SendByte
  <2>1. /\ pos \in Nat /\ pos >= 1 /\ pos <= Len(rxf) /\ pos <= PKTBUF_MAX + 1
        /\ pktbuf_index = pos - 1 /\ pktbuf \in [Offsets -> Byte]
        /\ Len(rxf) \in Nat /\ Len(rxf) = rxf[1] + 1
        /\ \A i \in 1..(pos - 1) : pktbuf[i - 1] = rxf[i]
    BY <1>t, <1>3, OnAir DEF AtByte, Stored, Holds, TypeOK, DriverTypeOK
  <2>2. pos > 1 => FrameLen = Len(rxf)
    BY <2>1 DEF FrameLen
  <2>3. CASE pos <= PKTBUF_MAX
    <3>1. MayStore
      BY <1>t, <2>1, <2>2, <2>3 DEF MayStore
    <3>2. /\ pktbuf' = [pktbuf EXCEPT ![pos - 1] = rxf[pos]]
          /\ pktbuf_index' = pos /\ ~rfd_full' /\ ~pkt_complete'
      BY <1>3, <2>f, <2>1, <3>1 DEF FetchByte, AtByte
    <3>3. Stored(rxf, pos)'
      BY <1>t, <1>1, <2>1, <2>3, <3>2 DEF Stored, Holds, Offsets
    <3>4. Between'
      BY <1>t, <1>1, <1>3, <2>1, <2>3, <3>2, <3>3 DEF Between, Fitting, AtByte
    <3> QED BY <1>1, <1>3, <3>4 DEF Reception
  <2>4. CASE pos > PKTBUF_MAX
    <3>1. pos = PKTBUF_MAX + 1 /\ ~MayStore /\ pktbuf_index # FrameLen
      BY <1>t, <2>1, <2>2, <2>4 DEF MayStore
    <3>2. UNCHANGED <<pktbuf, pktbuf_index, rfd_full>> /\ ~pkt_complete'
      BY <1>3, <2>f, <3>1 DEF FetchByte, AtByte
    <3>3. Between'
      BY <1>t, <1>1, <1>3, <2>1, <3>1, <3>2 DEF Between, Fitting, AtByte, Stored, Holds
    <3> QED BY <1>1, <1>3, <3>3 DEF Reception
  <2> QED BY <1>t, <2>1, <2>3, <2>4
<1>4. CASE marc = "RX" /\ rxf # <<>> /\ AtStatus
  <2>1. FetchByte
    BY <1>4 DEF RftxrxIsr, SendByte
  <2>2. UNCHANGED <<pktbuf, pktbuf_index>> /\ AllStored(rxf)'
    BY <1>t, <1>1, <1>4, <2>1, FullUp DEF AtStatus
  <2>3. AtStatus'
    BY <1>1, <1>4, <2>2 DEF AtStatus
  <2> QED BY <1>1, <1>4, <2>3 DEF Reception
<1> QED BY <1>t, <1>1, <1>2, <1>3, <1>4 DEF Reception, Waiting, Quiet, AtSync, Between

(* One frame event: rf_isr. *)
LEMMA ReceptionEvent ==
    ASSUME DeliveryInv, RfIsr
    PROVE  Reception'
<1>t. TypeOK /\ ~echo /\ Reception /\ PKTBUF_MAX \in Nat /\ PKTBUF_MAX >= 5
  BY BufferAssumption DEF DeliveryInv, BoundsInv, HEADER
<1>1. /\ s1con /\ ~s1con' /\ ~rftxrx /\ ~rftxrx' /\ rfif' = {}
      /\ UNCHANGED <<pktbuf, lastrx, fresh, receiving, pc>>
      /\ Owned' => Owned
  BY DEF RfIsr, history, mainVars, Owned
<1> SUFFICES ASSUME Owned, Owned' PROVE Reception'
  BY <1>1 DEF Reception
<1>2. CASE marc = "RX" /\ rxf # <<>> /\ AtSync
  <2>1. ~Done /\ ~Failed
    BY <1>2 DEF AtSync, Done, Failed
  <2>2. UNCHANGED <<marc, rxf, pos, rfd_full>> /\ pktbuf_index' = 0 /\ ~pkt_complete'
    BY <1>2, <2>1 DEF RfIsr, AtSync, radioState
  <2>3. Between'
    BY <1>t, <1>1, <1>2, <2>2, OnAir DEF AtSync, Between, Fitting, Stored, Holds
  <2> QED BY <1>2, <2>2, <2>3 DEF Reception
<1>3. CASE marc = "RXOVF"
  <2>1. rfif = {"RXOVF"} /\ ~pkt_complete
    BY <1>t, <1>3 DEF Reception
  <2>2. marc' = "IDLE" /\ ~pkt_complete'
    BY <2>1 DEF RfIsr, Done, Failed, SIDLE, EnterState
  <2> QED BY <1>1, <2>2 DEF Reception, Ended
<1>4. CASE marc = "IDLE"
  <2>1. rfif = {"DONE"} /\ lastrx \in AirFrames /\ AllStored(lastrx)
    BY <1>t, <1>1, <1>4 DEF Reception, Ended
  <2>2. marc' = "IDLE" /\ (pkt_complete' => pkt_complete \/ Whole)
    BY <2>1 DEF RfIsr, Done, Failed, SIDLE, EnterState
  <2>3. Len(lastrx) \in Nat /\ Len(lastrx) >= 2 /\ Len(lastrx) = lastrx[1] + 1
    BY <2>1, Frames
  <2>4. Whole => Len(lastrx) <= PKTBUF_MAX
    BY <1>t, <2>1, <2>3 DEF Whole, FrameLen, AllStored, Stored, Holds, Fitting
  <2>5. Len(lastrx) <= PKTBUF_MAX => Holds(lastrx, Len(lastrx))
    BY <2>1 DEF AllStored, Stored, Fitting
  <2>6. Ended'
    BY <1>1, <2>1, <2>2, <2>4, <2>5 DEF Ended, AllStored, NotHanded, Holds
  <2> QED BY <2>2, <2>6 DEF Reception
<1> QED BY <1>t, <1>1, <1>2, <1>3, <1>4 DEF Reception, Waiting, Quiet, AtByte, Between, AtStatus

(* The main loop.  It works on a packet only after it has got it. *)
LEMMA WayMain ==
    ASSUME DeliveryInv, Main
    PROVE  Way'
<1>t. TypeOK /\ Way /\ MainStep
  BY DEF DeliveryInv, BoundsInv, Main
<1>1. ret \in {"console_tick", "radio_tick", "tick_sent", "rx_idle"}
  BY <1>t DEF TypeOK, DriverTypeOK
<1> USE DEF Way, NoStrobe, chipVars, OnlyStrobe, flags
<1>2. CASE ConsoleTick \/ Build \/ PacketHandle \/ PacketAutoack
  BY <1>t, <1>2 DEF ConsoleTick, Build, PacketHandle, PacketAutoack
<1>3. CASE RadioTick \/ TickComplete \/ TickSent \/ CheckCrc
  BY <1>t, <1>3 DEF RadioTick, TickComplete, TickSent, CheckCrc
<1>4. CASE RadioTxIdle \/ RadioTxInit \/ RadioTxStrobe \/ RadioTxWait
  BY <1>t, <1>1, <1>4 DEF RadioTxIdle, RadioTxInit, RadioTxStrobe, RadioTxWait, InitFlags
<1>5. CASE RadioRxIdle \/ RadioRxInit \/ RadioRxStrobe
  BY <1>t, <1>1, <1>5 DEF RadioRxIdle, RadioRxInit, RadioRxStrobe, InitFlags
<1> QED BY <1>t, <1>2, <1>3, <1>4, <1>5 DEF MainStep

(* The handlers only raise pkt_complete, and LQI is not touched while a packet
   is being worked on. *)
LEMMA WayBeside ==
    ASSUME DeliveryInv, Chip \/ RftxrxIsr \/ RfIsr
    PROVE  Way'
<1>t. TypeOK /\ Way /\ Peace /\ ~echo /\ Reception
  BY DEF DeliveryInv, BoundsInv
<1>1. CASE Chip
  <2>1. UNCHANGED <<pc, receiving, pkt_complete>> /\ ChipNext /\ Quiet
    BY <1>t, <1>1 DEF Chip, Beside, flags, mainVars
  <2>2. ASSUME pc = "packet_handle"
        PROVE  lqi_ok' = lqi_ok
    <3>1. Owned /\ pkt_complete
      BY <1>t, <2>2 DEF Way, Owned
    <3>2. marc # "FS_RX" /\ (marc = "RX" => rxf # <<>> /\ AtStatus)
      BY <1>t, <2>1, <3>1 DEF Reception, Waiting, AtSync, AtByte, Between
    <3>3. ~Calibrated /\ ~RxFilter /\ ~RxCrc
      BY <1>t, <3>1, <3>2, OnAir DEF Reception, AtStatus, Calibrated, RxFilter, Filtered,
                                    RxCrc
    <3> QED BY <2>1, <3>3 DEF ChipNext, ChipProgress, RxSync, RxByte, RxOverflow, RxStatus,
                              RxDone, TxSync, TxAsk, TxByte, TxUnderflow, TxDone
  <2> QED BY <1>t, <2>1, <2>2 DEF Way
<1>2. CASE RftxrxIsr
  <2>1. UNCHANGED <<pc, receiving, lqi_ok>> /\ rftxrx
    BY <1>2 DEF RftxrxIsr, mainVars
  <2>2. pkt_complete => pkt_complete'
    BY <1>2 DEF RftxrxIsr, SendByte, FetchByte
  <2> QED BY <1>t, <2>1, <2>2 DEF Way, Peace, Quiet
<1>3. CASE RfIsr
  <2>1. UNCHANGED <<pc, receiving, lqi_ok>> /\ s1con
    BY <1>3 DEF RfIsr, mainVars
  <2>2. pkt_complete => pkt_complete'
    BY <1>3 DEF RfIsr
  <2> QED BY <1>t, <2>1, <2>2 DEF Way, Peace, Quiet
<1> QED BY <1>1, <1>2, <1>3

LEMMA ReceptionMain ==
    ASSUME DeliveryInv, Main
    PROVE  Reception'
<1>t. TypeOK /\ Way /\ Peace /\ Quiet /\ Reception /\ MainStep
  BY DEF DeliveryInv, BoundsInv, Main
<1>1. ret \in {"console_tick", "radio_tick", "tick_sent", "rx_idle"}
  BY <1>t DEF TypeOK, DriverTypeOK
<1>2. CASE RadioRxStrobe
  <2>1. /\ Way /\ pc = "rx_strobe" /\ marc = "IDLE" /\ ~pkt_complete
    BY <1>t, <1>2 DEF RadioRxStrobe, Way, Peace
  <2>2. /\ marc' = "FS_RX" /\ rxf' = <<>> /\ ~rfd_full' /\ ~pkt_complete' /\ Quiet'
    BY <1>t, <1>2, <2>1 DEF RadioRxStrobe, SRX, StrobeFromIdle, EnterState, OnlyStrobe,
                            flags, Quiet
  <2> QED BY <2>2 DEF Reception, Waiting
<1>3. CASE RadioRxInit
  <2>1. marc' = "IDLE" /\ ~s1con' /\ ~pkt_complete'
    BY <1>t, <1>3 DEF RadioRxInit, InitFlags, NoStrobe, chipVars, Peace, Quiet
  <2> QED BY <2>1 DEF Reception, Ended
<1>4. CASE RadioRxIdle \/ RadioTxIdle \/ RadioTxInit
  BY <1>4 DEF RadioRxIdle, RadioTxIdle, RadioTxInit, InitFlags, Reception, Owned
<1>5. CASE RadioTxStrobe \/ RadioTxWait
  <2>1. ~receiving'
    BY <1>t, <1>5 DEF RadioTxStrobe, RadioTxWait, Way, flags
  <2> QED BY <2>1 DEF Reception, Owned
<1>6. CASE Build
  BY <1>6 DEF Build, Reception, Owned
<1>7. CASE ConsoleTick \/ RadioTick \/ TickComplete \/ TickSent \/ CheckCrc
           \/ PacketHandle \/ PacketAutoack
  <2>1. /\ UNCHANGED <<marc, rxf, pos, rfd, rfd_full, s1con, rfif, rftxrx, lastrx,
                       pktbuf, flags>>
        /\ fresh' = fresh \/ pc' = "packet_autoack"
        /\ Owned' => Owned
        /\ pc \in {"packet_autoack", "rx_idle"} /\ Owned' => pc' = "rx_idle"
    BY <1>t, <1>7 DEF ConsoleTick, RadioTick, TickComplete, TickSent, CheckCrc,
                      PacketHandle, PacketAutoack, NoStrobe, chipVars, Owned, flags
  <2>2. Owned' /\ NotHanded => NotHanded'
    BY <2>1 DEF NotHanded
  <2>3. ASSUME Owned', NEW f, f = rxf \/ f = lastrx, AllStored(f)
        PROVE  AllStored(f)'
    BY <2>1, <2>2, <2>3 DEF AllStored, Stored, Holds, flags
  <2>4. Owned' /\ Ended => Ended'
    BY <2>1, <2>2 DEF Ended, AllStored, Stored, Holds, flags
  <2>5. Owned' /\ AtStatus => AtStatus'
    BY <2>1, <2>2 DEF AtStatus, AllStored, Stored, Holds, flags
  <2>6. /\ Waiting => Waiting'
        /\ AtSync => AtSync'
        /\ AtByte => AtByte'
        /\ Between => Between'
    BY <2>1 DEF Waiting, AtSync, AtByte, Between, Stored, Holds, Quiet, flags
  <2> QED BY <1>t, <2>1, <2>4, <2>5, <2>6 DEF Reception, flags
<1> QED BY <1>t, <1>2, <1>3, <1>4, <1>5, <1>6, <1>7 DEF MainStep

LEMMA DeliveryInductive ==
    ASSUME UART = FALSE
    PROVE  Spec => []DeliveryInv
<1>1. Init => Way /\ Reception /\ ~echo
  BY DEF Init, ChipInit, Way, Reception, Owned, Ended
<1>2. Spec => []BoundsInv
  BY BoundsInductive
<1>3. BoundsInv /\ BoundsInv' /\ Way /\ Reception /\ ~echo /\ [Next]_vars
      => Way' /\ Reception' /\ ~echo'
  <2> SUFFICES ASSUME BoundsInv, Way, Reception, ~echo, [Next]_vars
               PROVE  Way' /\ Reception' /\ ~echo'
    OBVIOUS
  <2>t. DeliveryInv
    BY DEF DeliveryInv
  <2>1. CASE Chip \/ RftxrxIsr \/ RfIsr
    <3>1. ~echo'
      BY <2>1 DEF Chip, Beside, RftxrxIsr, RfIsr
    <3>2. Way' /\ Reception'
      BY <2>t, <2>1, WayBeside, ReceptionChip, ReceptionByte, ReceptionEvent
    <3> QED BY <3>1, <3>2
  <2>2. CASE EchoStart \/ EchoEnd
    BY <2>2 DEF EchoStart, EchoEnd
  <2>3. CASE Main
    BY <2>t, <2>3, WayMain, ReceptionMain DEF Main
  <2>4. CASE UNCHANGED vars
    BY <2>4 DEF vars, chipVars, flags, mainVars, Way, Reception, Owned, Waiting, Quiet,
                AtSync, AtByte, Between, AtStatus, Ended, AllStored, Stored, Holds, NotHanded
  <2> QED BY <2>1, <2>2, <2>3, <2>4 DEF Next
<1> QED BY <1>1, <1>2, <1>3, PTL DEF Spec, DeliveryInv

(* Without a UART console every packet handed to packet_rx_callback came in
   whole, with its CRC right, is in the buffer byte for byte, and was not
   handed over before. *)
THEOREM DeliversGenuine ==
    ASSUME UART = FALSE
    PROVE  Spec => []GenuineDelivery
<1>1. DeliveryInv => GenuineDelivery
  <2> SUFFICES ASSUME DeliveryInv, pc = "packet_handle"
               PROVE  /\ lqi_ok /\ fresh
                      /\ Len(lastrx) <= PKTBUF_MAX
                      /\ Holds(lastrx, Len(lastrx))
    BY DEF GenuineDelivery
  <2>t. TypeOK /\ Way /\ Reception
    BY DEF DeliveryInv, BoundsInv
  <2>1. Owned /\ pkt_complete /\ lqi_ok
    BY <2>t DEF Way, Owned
  <2>2. \/ AllStored(rxf) /\ lastrx = rxf
        \/ Ended
    BY <2>t, <2>1 DEF Reception, Waiting, AtSync, AtByte, Between, AtStatus, AllStored
  <2> QED BY <2>1, <2>2 DEF AllStored, Stored, Fitting, Ended, NotHanded
<1> QED BY <1>1, DeliveryInductive, PTL

(* And its buffer is not written while it is worked on. *)
THEOREM BufferIsStable ==
    ASSUME UART = FALSE
    PROVE  Spec => BufferStable
<1> DEFINE Working == pc \in {"check_crc", "packet_handle", "packet_autoack"}
<1>1. DeliveryInv /\ [Next]_vars => [Working => pktbuf' = pktbuf]_vars
  <2> SUFFICES ASSUME DeliveryInv, Next, Working PROVE pktbuf' = pktbuf
    OBVIOUS
  <2>t. TypeOK /\ Way /\ Reception /\ ~echo
    BY DEF DeliveryInv, BoundsInv
  <2>1. CASE RftxrxIsr
    <3>1. CASE FetchByte
      <4>1. Owned /\ pkt_complete /\ marc = "RX" /\ rftxrx
        BY <2>t, <2>1, <3>1 DEF Way, Owned, FetchByte, RftxrxIsr
      <4>2. rxf # <<>> /\ AllStored(rxf)
        BY <2>t, <4>1 DEF Reception, Waiting, AtSync, AtByte, Between, AtStatus
      <4> QED BY <2>t, <2>1, <3>1, <4>2, FullUp DEF RftxrxIsr, history, mainVars
    <3> QED BY <2>1, <3>1 DEF RftxrxIsr, SendByte
  <2>2. CASE Main
    BY <2>2 DEF Main, MainStep, ConsoleTick, Build, RadioTick, TickComplete, TickSent,
                CheckCrc, PacketHandle, PacketAutoack, RadioTxIdle, RadioTxInit,
                RadioTxStrobe, RadioTxWait, RadioRxIdle, RadioRxInit, RadioRxStrobe, InitFlags
  <2> QED BY <2>1, <2>2 DEF Next, Chip, Beside, RfIsr, EchoStart, EchoEnd
<1> QED BY <1>1, DeliveryInductive, PTL DEF Spec, BufferStable

---------------------------------------------------------------------------
(* Listening again, and sending. *)

---------------------------------------------------------------------------
(* The inductive invariants. *)

(* The end of a reception is told by a flag, or about to be. *)
Told == errflag \/ pkt_complete \/ (s1con /\ (Done \/ Failed))

(* From radio_rx on the chip listens, or something says why not. *)
Heard == receiving /\ pc \notin {"tx_init", "rx_init", "rx_strobe"}
             /\ marc \notin {"FS_RX", "RX"} => Told

(* t is a beginning of the frame in the buffer; of a frame longer than the
   buffer nobody knows the rest. *)
Copied(t) == /\ Len(t) <= FrameLen
             /\ \A i \in 1..Len(t) : i <= PKTBUF_MAX => t[i] = pktbuf[i - 1]

SentAll == Copied(sentf) /\ Len(sentf) = FrameLen

(* Before the sync word, *)
Starting == ~pkt_complete /\ txf = <<>> /\ ~rfd_full /\ pktbuf_index = 0 /\ Quiet

(* between two bytes; after the sync word rf_isr is due, *)
Ready == /\ txphase = "ready" /\ ~pkt_complete /\ ~rfd_full /\ ~rftxrx
         /\ Copied(txf)
         /\ pktbuf_index = Len(txf) % 256
         /\ s1con => rfif = {"SFD"} /\ txf = <<>>

(* and when the chip has asked for one: rftxrx_isr is due, or has answered. *)
Asked == /\ txphase = "asked" /\ ~pkt_complete /\ ~s1con
         /\ Copied(txf) /\ Len(txf) < FrameLen
         /\ \/ rftxrx /\ ~rfd_full /\ pktbuf_index = Len(txf)
            \/ /\ ~rftxrx /\ rfd_full /\ pktbuf_index = (Len(txf) + 1) % 256
               /\ Len(txf) < PKTBUF_MAX => rfd = pktbuf[Len(txf)]

Transmission == /\ marc \in {"FS_TX", "TX", "IDLE"}
                /\ marc = "FS_TX" => Starting
                /\ marc = "TX" => (txphase = "preamble" /\ Starting) \/ Ready \/ Asked
                /\ marc = "IDLE" => /\ SentAll /\ ~rftxrx
                                    /\ s1con => rfif = {"DONE"}

Sending ==
    /\ pc \in {"tx_init", "tx_strobe"} => marc = "IDLE" /\ Quiet
    /\ pc = "tx_strobe" => ~pkt_complete /\ pktbuf_index = 0
    /\ pc = "tx_wait" => Transmission

(* The stores of packet_autoack for f. *)
AckStores(f) == <<<<1, f[3]>>, <<2, ADDR>>, <<3, f[4] % REQ_ACK>>,
                  <<4, ACK>>, <<0, HEADER - 1>>>>

Written(f, k) == \A j \in 1..k : pktbuf[AckStores(f)[j][1]] = AckStores(f)[j][2]

(* The first stores are made, the others are left. *)
Building(f) == /\ Len(todo) \in 1..5
               /\ \A i \in 1..Len(todo) : todo[i] = AckStores(f)[5 - Len(todo) + i]
               /\ Written(f, 5 - Len(todo))

(* An acknowledgement is being made or sent. *)
Answering == /\ pc \in {"build", "tx_idle", "tx_init", "tx_strobe", "tx_wait"}
             /\ ret = "rx_idle"

(* Until radio_tx idles it the receiver is at the end of its frame. *)
Past == Answering /\ pc \in {"build", "tx_idle"} =>
            \/ marc = "IDLE"
            \/ marc = "RX" /\ ~s1con /\ rxf # <<>> /\ pos > Len(rxf)

(* It answers the last frame received, if that had a header: as far as it is
   made, and without a store of the handler in between. *)
Answer == Answering /\ Len(lastrx) >= HEADER =>
            /\ lastrx \in AirFrames
            /\ lastrx[2] # Broadcast /\ lastrx[4] >= REQ_ACK
            /\ pc \in {"build", "tx_idle"} /\ marc = "RX" =>
                   pktbuf_index = Len(lastrx) /\ FrameLen <= Len(lastrx)
            /\ pc = "build" => Building(lastrx)
            /\ pc # "build" => Written(lastrx, 5)

AnswerInv == DeliveryInv /\ Sending /\ Past /\ Answer
---------------------------------------------------------------------------
(* Never deaf: for any board. *)

LEMMA HeardChip ==
    ASSUME Heard, Chip
    PROVE  Heard'
<1>1. ChipNext /\ UNCHANGED <<errflag, pkt_complete, receiving, pc>>
  BY DEF Chip, Beside, flags, mainVars
<1>2. \/ UNCHANGED <<rfif, s1con>>
      \/ Raise("SFD") \/ Raise("DONE") \/ Raise("RXOVF") \/ Raise("TXUNF")
  BY <1>1 DEF ChipNext, ChipProgress, RxSync, Calibrated, RxFilter, RxByte, RxOverflow,
              RxCrc, RxStatus, RxDone, TxSync, TxAsk, TxByte, TxUnderflow, TxDone
<1>3. marc \notin {"FS_RX", "RX"} \/ marc' \in {"FS_RX", "RX"}
      \/ Raise("DONE") \/ Raise("RXOVF")
  BY <1>1 DEF ChipNext, ChipProgress, RxSync, Calibrated, RxFilter, RxByte, RxOverflow,
              RxCrc, RxStatus, RxDone, TxSync, TxAsk, TxByte, TxUnderflow, TxDone
<1>4. Told => Told'
  BY <1>1, <1>2 DEF Told, Done, Failed, Raise
<1>5. Raise("DONE") \/ Raise("RXOVF") => Told'
  BY DEF Told, Done, Failed, Raise
<1> QED BY <1>1, <1>3, <1>4, <1>5 DEF Heard

LEMMA HeardIsr ==
    ASSUME TypeOK, Heard, RftxrxIsr \/ RfIsr \/ EchoStart \/ EchoEnd
    PROVE  Heard'
<1>1. CASE RftxrxIsr
  <2>1. UNCHANGED <<marc, rfif, s1con, receiving, pc>>
    BY <1>1 DEF RftxrxIsr, mainVars
  <2>2. (errflag => errflag') /\ (pkt_complete => pkt_complete')
    <3>1. CASE SendByte
      BY <3>1 DEF SendByte
    <3>2. CASE FetchByte
      BY <3>2 DEF FetchByte
    <3> QED BY <1>1, <3>1, <3>2 DEF RftxrxIsr
  <2> QED BY <2>1, <2>2 DEF Heard, Told, Done, Failed
<1>2. CASE RfIsr
  <2>1. UNCHANGED <<receiving, pc>>
    BY <1>2 DEF RfIsr, mainVars
  <2>2. Told => errflag' \/ pkt_complete'
    BY <1>2 DEF RfIsr, Told
  <2>3. Done \/ Failed => errflag' \/ pkt_complete'
    BY <1>2 DEF RfIsr
  <2>4. ~(Done \/ Failed) => marc' = marc
    BY <1>2 DEF RfIsr, radioState
  <2> QED BY <2>1, <2>2, <2>3, <2>4 DEF Heard, Told
<1>3. CASE EchoStart \/ EchoEnd
  BY <1>3 DEF EchoStart, EchoEnd, chipVars, flags, mainVars, Heard, Told, Done, Failed
<1> QED BY <1>1, <1>2, <1>3

LEMMA HeardMain ==
    ASSUME TypeOK, Peace, Heard, Main
    PROVE  Heard'
<1>t. MainStep /\ Quiet /\ ret \notin {"tx_init", "rx_init", "rx_strobe"}
  BY DEF Main, TypeOK, DriverTypeOK
<1>1. CASE RadioTxIdle \/ RadioRxIdle
  BY <1>1 DEF RadioTxIdle, RadioRxIdle, Heard
<1>2. CASE RadioTxInit \/ RadioRxInit
  BY <1>2 DEF RadioTxInit, RadioRxInit, InitFlags, Heard
<1>3. CASE RadioTxStrobe
  <2>1. UNCHANGED flags /\ pc = "tx_strobe" /\ UNCHANGED <<rfif, s1con>>
    BY <1>3 DEF RadioTxStrobe, OnlyStrobe
  <2>2. marc' = marc \/ marc = "IDLE"
    BY <1>3 DEF RadioTxStrobe, STX, StrobeFromIdle, radioState
  <2> QED BY <2>1, <2>2 DEF Heard, Told, Done, Failed, flags
<1>4. CASE RadioRxStrobe
  <2>1. marc = "IDLE"
    BY <1>4 DEF RadioRxStrobe, Peace
  <2> QED BY <1>4, <2>1 DEF RadioRxStrobe, SRX, StrobeFromIdle, EnterState, Heard
<1>5. CASE ConsoleTick \/ Build \/ RadioTick \/ TickComplete \/ TickSent \/ CheckCrc
           \/ PacketHandle \/ PacketAutoack \/ RadioTxWait
  <2>1. UNCHANGED <<marc, rfif, s1con, flags>>
    BY <1>5 DEF ConsoleTick, Build, RadioTick, TickComplete, TickSent, CheckCrc,
                PacketHandle, PacketAutoack, RadioTxWait, NoStrobe, chipVars
  <2>2. pc \notin {"tx_init", "rx_init", "rx_strobe"}
    BY <1>5 DEF ConsoleTick, Build, RadioTick, TickComplete, TickSent, CheckCrc,
                PacketHandle, PacketAutoack, RadioTxWait
  <2> QED BY <2>1, <2>2 DEF flags, Heard, Told, Done, Failed
<1> QED BY <1>t, <1>1, <1>2, <1>3, <1>4, <1>5 DEF MainStep

(* Wherever the main loop is. *)
LEMMA HeardInductive == Spec => []Heard
<1>1. Init => Heard
  BY DEF Init, Heard
<1>2. BoundsInv /\ Heard /\ [Next]_vars => Heard'
  <2> SUFFICES ASSUME BoundsInv, Heard, [Next]_vars PROVE Heard'
    OBVIOUS
  <2>t. TypeOK /\ Peace
    BY DEF BoundsInv
  <2>1. CASE UNCHANGED vars
    BY <2>1 DEF vars, chipVars, flags, mainVars, Heard, Told, Done, Failed
  <2> QED BY <2>t, <2>1, HeardChip, HeardIsr, HeardMain DEF Next
<1> QED BY <1>1, <1>2, BoundsInductive, PTL DEF Spec

(* On either board, when the chip has stopped listening and no interrupt is
   due, the flags say so and radio_tick starts the receiver again: there is no
   way out of reception that neither handler tells of. *)
THEOREM NeverLeftDeaf == Spec => []NeverDeaf
<1>1. Heard => NeverDeaf
  BY DEF Heard, Told, NeverDeaf, Quiet
<1> QED BY <1>1, HeardInductive, PTL
---------------------------------------------------------------------------
(* OK means sent: for a board without uart0_isr. *)

(* The transmitter stops where the frame in the buffer ends. *)
LEMMA More ==
    ASSUME TypeOK
    PROVE  /\ FrameLen \in Nat /\ 1 <= FrameLen /\ FrameLen <= 256
           /\ Len(txf) \in Nat /\ txf \in Seq(Byte)
           /\ Copied(txf) => (TxMore <=> Len(txf) < FrameLen)
<1>1. txf \in Seq(Byte) /\ Len(txf) \in Nat
  BY DEF TypeOK, ChipTypeOK
<1>2. /\ PKTBUF_MAX \in Nat /\ PKTBUF_MAX >= 5
      /\ pktbuf[0] \in Nat /\ pktbuf[0] <= 255
  <2>1. PKTBUF_MAX \in Nat /\ PKTBUF_MAX >= 5
    BY BufferAssumption DEF HEADER
  <2>2. pktbuf[0] \in Byte
    BY <2>1 DEF TypeOK, DriverTypeOK, Offsets
  <2> QED BY <2>1, <2>2 DEF Byte
<1>3. FrameLen = pktbuf[0] + 1 /\ FrameLen \in Nat /\ 1 <= FrameLen /\ FrameLen <= 256
  BY <1>2 DEF FrameLen
<1>4. CASE txf = <<>>
  <2>1. Len(txf) = 0
    BY <1>4, EmptySeq
  <2>2. TxMore
    BY <1>4, <2>1 DEF TxMore
  <2>3. Len(txf) < FrameLen
    BY <1>3, <2>1
  <2> QED BY <1>1, <1>3, <2>2, <2>3
<1>5. CASE txf # <<>>
  <2>1. Len(txf) >= 1
    BY <1>1, <1>5, EmptySeq
  <2>2. Copied(txf) => txf[1] = pktbuf[0]
    BY <1>1, <1>2, <2>1 DEF Copied
  <2> QED BY <1>1, <1>3, <1>5, <2>2 DEF TxMore
<1> QED BY <1>1, <1>3, <1>4, <1>5

(* A byte appended is the next of the frame in the buffer. *)
LEMMA CopiedAppend ==
    ASSUME TypeOK, Copied(txf), Len(txf) < FrameLen, NEW b \in Byte,
           Len(txf) < PKTBUF_MAX => b = pktbuf[Len(txf)],
           pktbuf' = pktbuf, txf' = Append(txf, b)
    PROVE  Copied(txf)' /\ Len(txf') = Len(txf) + 1
<1>1. txf \in Seq(Byte) /\ Len(txf) \in Nat /\ FrameLen \in Nat
  BY More
<1>2. /\ Len(txf') = Len(txf) + 1
      /\ \A i \in 1..Len(txf) : txf'[i] = txf[i]
      /\ txf'[Len(txf) + 1] = b
  BY <1>1, AppendProperties
<1>3. FrameLen' = FrameLen
  BY DEF FrameLen
<1>4. ASSUME NEW i \in 1..(Len(txf) + 1), i <= PKTBUF_MAX
      PROVE  txf'[i] = pktbuf[i - 1]
  <2>1. CASE i = Len(txf) + 1
    BY <1>1, <1>2, <1>4, <2>1, BufferAssumption DEF HEADER
  <2>2. CASE i # Len(txf) + 1
    <3>1. i \in 1..Len(txf)
      BY <1>1, <2>2
    <3> QED BY <1>2, <1>4, <3>1 DEF Copied
  <2> QED BY <2>1, <2>2
<1> QED BY <1>1, <1>2, <1>3, <1>4 DEF Copied

LEMMA SendingChip ==
    ASSUME DeliveryInv, Sending, Chip
    PROVE  Sending'
<1>t. TypeOK /\ Peace /\ ~echo
  BY DEF DeliveryInv, BoundsInv
<1>1. /\ UNCHANGED <<pktbuf, pktbuf_index, pkt_complete, pc>>
      /\ ChipNext /\ Quiet /\ rfif = {}
  BY <1>t DEF Chip, Beside, flags, mainVars, Peace, Quiet
<1>2. marc # "IDLE"
  BY <1>1 DEF ChipNext, ChipProgress, RxSync, Calibrated, RxFilter, RxByte, RxOverflow,
              RxCrc, RxStatus, RxDone, TxSync, TxAsk, TxByte, TxUnderflow, TxDone
<1>3. pc \notin {"tx_init", "tx_strobe"}
  BY <1>2 DEF Sending
<1> SUFFICES ASSUME pc = "tx_wait" PROVE Transmission'
  BY <1>1, <1>3 DEF Sending
<1>4. Transmission
  BY DEF Sending
<1>5. FrameLen' = FrameLen
  BY <1>1 DEF FrameLen
<1>6. CASE marc = "FS_TX"
  <2>1. Starting /\ Calibrated
    BY <1>1, <1>4, <1>6 DEF Transmission, ChipNext, ChipProgress, RxSync, RxFilter, RxByte,
              RxOverflow, RxCrc, RxStatus, RxDone, TxSync, TxAsk, TxByte, TxUnderflow, TxDone
  <2>2. marc' = "TX" /\ txphase' = "preamble" /\ Starting'
    BY <1>1, <1>6, <2>1 DEF Calibrated, Starting, Quiet
  <2> QED BY <2>2 DEF Transmission
<1>7. ASSUME marc = "TX" PROVE TxSync \/ TxAsk \/ TxByte \/ TxUnderflow \/ TxDone
  BY <1>1, <1>7 DEF ChipNext, ChipProgress, Calibrated, RxSync, RxFilter, RxByte,
                    RxOverflow, RxCrc, RxStatus, RxDone
<1>8. CASE marc = "TX" /\ txphase = "preamble" /\ Starting
  <2>1. TxSync
    BY <1>7, <1>8 DEF TxAsk, TxByte, TxUnderflow, TxDone
  <2>2. txf' = <<>> /\ Len(txf') = 0
    BY <1>8, <2>1 DEF TxSync, Starting
  <2>3. Copied(txf)'
    <3>1. FrameLen' \in Nat /\ 1 <= FrameLen' /\ \A i \in 1..0 : FALSE
      BY <1>t, <1>5, More
    <3> QED BY <2>2, <3>1 DEF Copied
  <2>4. Ready'
    BY <1>1, <1>8, <2>1, <2>2, <2>3 DEF TxSync, Starting, Ready, Raise, Quiet
  <2> QED BY <1>8, <2>1, <2>4 DEF Transmission, TxSync
<1>9. CASE marc = "TX" /\ Ready
  <2>0. /\ FrameLen \in Nat /\ FrameLen <= 256 /\ Len(txf) \in Nat
        /\ TxMore <=> Len(txf) < FrameLen
    BY <1>t, <1>9, More DEF Ready
  <2>1. TxAsk \/ TxDone
    BY <1>7, <1>9 DEF Ready, TxSync, TxByte, TxUnderflow
  <2>2. CASE TxAsk
    <3>1. Copied(txf)' /\ Len(txf') = Len(txf)
      BY <1>1, <1>5, <1>9, <2>2 DEF TxAsk, Ready, Copied
    <3>2. pktbuf_index = Len(txf) /\ Len(txf) < FrameLen
      BY <1>9, <2>0, <2>2 DEF TxAsk, Ready
    <3>3. Asked'
      BY <1>1, <1>5, <1>9, <2>2, <3>1, <3>2 DEF TxAsk, Ready, Asked, Quiet
    <3> QED BY <2>2, <3>3 DEF Transmission, TxAsk
  <2>3. CASE TxDone
    <3>1. Len(txf) = FrameLen
      BY <1>9, <2>0, <2>3 DEF TxDone, Ready, Copied
    <3>2. SentAll'
      BY <1>1, <1>5, <1>9, <2>3, <3>1 DEF TxDone, Ready, Copied, SentAll
    <3> QED BY <1>1, <2>3, <3>2 DEF Transmission, TxDone, EnterState, Raise, Quiet
  <2> QED BY <2>1, <2>2, <2>3
<1>10. CASE marc = "TX" /\ Asked
  <2>1. /\ TxByte /\ rfd \in Byte
        /\ Len(txf) < PKTBUF_MAX => rfd = pktbuf[Len(txf)]
        /\ pktbuf_index = (Len(txf) + 1) % 256
    BY <1>t, <1>1, <1>7, <1>10 DEF Asked, TxSync, TxAsk, TxUnderflow, TxDone, Quiet,
                                   TypeOK, ChipTypeOK
  <2>2. Copied(txf)' /\ Len(txf') = Len(txf) + 1
    BY <1>t, <1>1, <1>10, <2>1, CopiedAppend DEF TxByte, Asked
  <2>3. Ready'
    BY <1>1, <1>10, <2>1, <2>2 DEF TxByte, Asked, Ready, Quiet
  <2> QED BY <1>10, <2>1, <2>3 DEF Transmission, TxByte
<1> QED BY <1>2, <1>4, <1>6, <1>8, <1>9, <1>10 DEF Transmission
(* One byte: rftxrx_isr. *)
LEMMA SendingByte ==
    ASSUME DeliveryInv, Sending, RftxrxIsr
    PROVE  Sending'
<1>t. TypeOK
  BY DEF DeliveryInv, BoundsInv
<1>1. /\ rftxrx /\ ~rftxrx' /\ ~Quiet
      /\ UNCHANGED <<marc, rfif, s1con, txphase, txf, pc>>
  BY DEF RftxrxIsr, mainVars, Quiet
<1>2. pc \notin {"tx_init", "tx_strobe"}
  BY <1>1 DEF Sending
<1> SUFFICES ASSUME pc = "tx_wait" PROVE Transmission'
  BY <1>1, <1>2 DEF Sending
<1>3. marc = "TX" /\ Asked /\ ~rfd_full /\ pktbuf_index = Len(txf)
  BY <1>1 DEF Sending, Transmission, Starting, Ready, Asked
<1>4. SendByte
  BY <1>1, <1>3 DEF RftxrxIsr, FetchByte
<1>5. /\ pktbuf_index < FrameLen
      /\ FrameLen \in Nat /\ FrameLen <= 256 /\ Len(txf) \in Nat
  BY <1>t, <1>3, More DEF Asked
<1>6. /\ rfd' \in Fetch(Len(txf)) /\ rfd_full'
      /\ pktbuf_index' = (Len(txf) + 1) % 256
      /\ UNCHANGED <<pktbuf, pkt_complete>>
  BY <1>3, <1>4, <1>5 DEF SendByte
<1>7. Len(txf) < PKTBUF_MAX => rfd' = pktbuf[Len(txf)]
  BY <1>5, <1>6, BufferAssumption DEF Fetch, Offsets, HEADER
<1>8. Copied(txf)' /\ FrameLen' = FrameLen /\ Len(txf') = Len(txf)
  BY <1>1, <1>3, <1>6 DEF Asked, Copied, FrameLen
<1>9. Asked'
  BY <1>1, <1>3, <1>6, <1>7, <1>8 DEF Asked
<1> QED BY <1>1, <1>3, <1>9 DEF Transmission

(* One frame event: rf_isr. *)
LEMMA SendingEvent ==
    ASSUME DeliveryInv, Sending, RfIsr
    PROVE  Sending'
<1>t. TypeOK
  BY DEF DeliveryInv, BoundsInv
<1>1. /\ s1con /\ ~s1con' /\ ~rftxrx /\ ~rftxrx' /\ rfif' = {} /\ ~Quiet
      /\ UNCHANGED <<pktbuf, sentf, pc>>
  BY DEF RfIsr, mainVars, history, Quiet
<1>2. pc \notin {"tx_init", "tx_strobe"}
  BY <1>1 DEF Sending
<1> SUFFICES ASSUME pc = "tx_wait" PROVE Transmission'
  BY <1>1, <1>2 DEF Sending
<1>3. \/ marc = "TX" /\ Ready
      \/ marc = "IDLE" /\ SentAll
  BY <1>1 DEF Sending, Transmission, Starting, Asked
<1>4. CASE marc = "TX" /\ Ready
  <2>1. ~Done /\ ~Failed /\ rfif # {}
    BY <1>1, <1>4 DEF Ready, Done, Failed
  <2>2. /\ UNCHANGED <<marc, txphase, txf, rfd_full>>
        /\ pktbuf_index' = 0 /\ ~pkt_complete'
    BY <1>4, <2>1 DEF RfIsr, radioState, Ready
  <2>3. Len(txf) = 0
    BY <1>1, <1>4, EmptySeq DEF Ready
  <2>4. Copied(txf)'
    BY <1>1, <1>4, <2>2 DEF Ready, Copied, FrameLen
  <2>5. Ready'
    BY <1>1, <1>4, <2>2, <2>3, <2>4 DEF Ready
  <2> QED BY <1>4, <2>2, <2>5 DEF Transmission
<1>5. CASE marc = "IDLE" /\ SentAll
  <2>1. marc' = "IDLE"
    BY <1>5 DEF RfIsr, SIDLE, EnterState, radioState
  <2>2. SentAll'
    BY <1>1, <1>5 DEF SentAll, Copied, FrameLen
  <2> QED BY <1>1, <2>1, <2>2 DEF Transmission
<1> QED BY <1>3, <1>4, <1>5

(* The main loop: radio_tx. *)
LEMMA SendingMain ==
    ASSUME DeliveryInv, Sending, Main
    PROVE  Sending'
<1>t. TypeOK /\ MainStep /\ Quiet
  BY DEF DeliveryInv, BoundsInv, Main
<1>1. ret \notin {"tx_init", "tx_strobe", "tx_wait"}
  BY <1>t DEF TypeOK, DriverTypeOK
<1>2. CASE RadioTxIdle
  <2>1. pc' = "tx_init" /\ marc' = "IDLE" /\ Quiet'
    BY <1>t, <1>2 DEF RadioTxIdle, SIDLE, EnterState, OnlyStrobe, Quiet
  <2> QED BY <2>1 DEF Sending
<1>3. CASE RadioTxInit
  <2>1. /\ pc = "tx_init" /\ pc' = "tx_strobe"
        /\ pktbuf_index' = 0 /\ ~pkt_complete' /\ NoStrobe
    BY <1>3 DEF RadioTxInit, InitFlags
  <2>2. marc' = "IDLE" /\ Quiet'
    BY <1>t, <2>1 DEF NoStrobe, chipVars, Sending, Quiet
  <2> QED BY <2>1, <2>2 DEF Sending
<1>4. CASE RadioTxStrobe
  <2>1. /\ pc' = "tx_wait" /\ marc = "IDLE" /\ ~pkt_complete /\ pktbuf_index = 0
        /\ STX /\ OnlyStrobe /\ UNCHANGED flags
    BY <1>4 DEF RadioTxStrobe, Sending
  <2>2. marc' = "FS_TX" /\ Starting'
    BY <1>t, <2>1 DEF STX, StrobeFromIdle, EnterState, OnlyStrobe, flags, Starting, Quiet
  <2> QED BY <2>1, <2>2 DEF Sending, Transmission
<1>5. CASE \/ ConsoleTick \/ Build \/ RadioTick \/ TickComplete \/ TickSent \/ CheckCrc
           \/ PacketHandle \/ PacketAutoack \/ RadioTxWait
           \/ RadioRxIdle \/ RadioRxInit \/ RadioRxStrobe
  <2>1. pc' \notin {"tx_init", "tx_strobe", "tx_wait"}
    BY <1>1, <1>5 DEF ConsoleTick, Build, RadioTick, TickComplete, TickSent, CheckCrc,
                      PacketHandle, PacketAutoack, RadioTxWait, RadioRxIdle, RadioRxInit,
                      RadioRxStrobe, InitFlags
  <2> QED BY <2>1 DEF Sending
<1> QED BY <1>t, <1>2, <1>3, <1>4, <1>5 DEF MainStep

LEMMA SendingStep ==
    ASSUME DeliveryInv, Sending, [Next]_vars
    PROVE  Sending'
<1>1. CASE EchoStart \/ EchoEnd \/ UNCHANGED vars
  <2>1. UNCHANGED <<chipVars, pktbuf, flags, mainVars>>
    BY <1>1 DEF EchoStart, EchoEnd, vars
  <2> QED BY <2>1 DEF chipVars, flags, mainVars, Sending, Transmission, Starting, Ready,
                      Asked, SentAll, Copied, FrameLen, Quiet
<1> QED BY <1>1, SendingChip, SendingByte, SendingEvent, SendingMain DEF Next

(* Without a UART console radio_tx returns true only when the chip has sent
   what is in the buffer, and nothing else. *)
THEOREM OkOnlyWhenSent ==
    ASSUME UART = FALSE
    PROVE  Spec => []OkMeansSent
<1>1. Init => Sending
  BY DEF Init, Sending
<1>2. Sending => OkMeansSent
  <2> SUFFICES ASSUME Sending, pc = "tx_wait", pkt_complete
               PROVE  Len(sentf) = FrameLen /\ (FrameLen <= PKTBUF_MAX => Holds(sentf, FrameLen))
    BY DEF OkMeansSent
  <2>1. SentAll
    BY DEF Sending, Transmission, Starting, Ready, Asked
  <2>2. ASSUME FrameLen <= PKTBUF_MAX, NEW i \in 1..FrameLen
        PROVE  sentf[i] = pktbuf[i - 1]
    BY <2>1, <2>2, BufferAssumption DEF SentAll, Copied, HEADER
  <2> QED BY <2>1, <2>2 DEF SentAll, Holds
<1> QED BY <1>1, <1>2, DeliveryInductive, SendingStep, PTL DEF Spec
---------------------------------------------------------------------------
(* Acknowledgements: for a board without uart0_isr. *)

(* The packet packet_autoack works on is the last frame received. *)
LEMMA AtAutoack ==
    ASSUME DeliveryInv, pc = "packet_autoack"
    PROVE  /\ lastrx \in AirFrames /\ Len(lastrx) <= PKTBUF_MAX
           /\ Holds(lastrx, Len(lastrx))
           /\ \/ marc = "IDLE"
              \/ /\ marc = "RX" /\ ~s1con /\ rxf # <<>> /\ pos > Len(rxf)
                 /\ pktbuf_index = Len(lastrx)
<1>t. TypeOK /\ Way /\ Reception
  BY DEF DeliveryInv, BoundsInv
<1>1. Owned /\ pkt_complete
  BY <1>t DEF Way, Owned
<1>2. \/ marc = "IDLE" /\ Ended
      \/ marc = "RX" /\ rxf # <<>> /\ AtStatus
  BY <1>t, <1>1 DEF Reception, Waiting, AtSync, AtByte, Between
<1>3. CASE marc = "IDLE" /\ Ended
  BY <1>1, <1>3 DEF Ended
<1>4. CASE marc = "RX" /\ rxf # <<>> /\ AtStatus
  <2>1. rxf \in AirFrames /\ lastrx = rxf /\ Len(rxf) <= PKTBUF_MAX
    BY <1>t, <1>1, <1>4, OnAir DEF AtStatus, AllStored
  <2>2. Stored(rxf, Len(rxf))
    BY <1>4, <2>1 DEF AtStatus, AllStored, Fitting
  <2> QED BY <1>4, <2>1, <2>2 DEF AtStatus, Stored
<1> QED BY <1>2, <1>3, <1>4

LEMMA AnswerAutoack ==
    ASSUME DeliveryInv, PacketAutoack
    PROVE  Past' /\ Answer'
<1>1. pc = "packet_autoack" /\ UNCHANGED <<pktbuf, flags>> /\ UNCHANGED chipVars
  BY DEF PacketAutoack, NoStrobe
<1>2. /\ lastrx \in AirFrames
      /\ Holds(lastrx, Len(lastrx))
      /\ marc # "IDLE" => /\ marc = "RX" /\ ~s1con /\ rxf # <<>> /\ pos > Len(rxf)
                          /\ pktbuf_index = Len(lastrx)
  BY <1>1, AtAutoack
<1>3. UNCHANGED <<marc, s1con, rxf, pos, lastrx, pktbuf_index, pktbuf>>
  BY <1>1 DEF chipVars, flags
<1>4. Past'
  BY <1>2, <1>3 DEF Past
<1> SUFFICES ASSUME Answering', Len(lastrx') >= HEADER PROVE Answer'
  BY <1>4 DEF Answer
<1>5. AckWanted /\ pc' = "build"
  BY DEF PacketAutoack, Answering
<1>6. Len(lastrx) \in Nat /\ Len(lastrx) >= 5 /\ Len(lastrx) = lastrx[1] + 1
  BY <1>2, <1>3, Frames DEF HEADER
<1>7. /\ pktbuf[0] = lastrx[1] /\ pktbuf[1] = lastrx[2]
      /\ pktbuf[2] = lastrx[3] /\ pktbuf[3] = lastrx[4]
  BY <1>2, <1>6 DEF Holds
<1>8. lastrx[2] # Broadcast /\ lastrx[4] >= REQ_ACK
  BY <1>5, <1>7 DEF AckWanted
<1>9. todo' = AckStores(lastrx)
  BY <1>5, <1>7 DEF PacketAutoack, AckStores
<1>10. Len(AckStores(lastrx)) = 5
  BY DEF AckStores
<1>11. Building(lastrx)'
  <2>1. Len(todo') = 5
    BY <1>9, <1>10
  <2>2. \A i \in 1..5 : todo'[i] = AckStores(lastrx')[5 - 5 + i]
    BY <1>3, <1>9
  <2> QED BY <2>1, <2>2 DEF Building, Written
<1>12. FrameLen' = Len(lastrx)
  BY <1>3, <1>6, <1>7 DEF FrameLen
<1> QED BY <1>2, <1>3, <1>5, <1>6, <1>8, <1>11, <1>12 DEF Answer

(* One store of the acknowledgement. *)
LEMMA AnswerBuild ==
    ASSUME TypeOK, Past, Answer, Build
    PROVE  Past' /\ Answer'
<1>1. /\ pc = "build" /\ UNCHANGED chipVars /\ UNCHANGED <<flags, ret>>
      /\ pc' \in {"build", "tx_idle"} /\ pc' = IF Len(todo) = 1 THEN "tx_idle" ELSE "build"
  BY DEF Build, NoStrobe
<1>2. UNCHANGED <<marc, s1con, rxf, pos, lastrx, pktbuf_index>>
  BY <1>1 DEF chipVars, flags
<1>3. Past'
  BY <1>1, <1>2 DEF Past, Answering
<1> SUFFICES ASSUME Answering', Len(lastrx') >= HEADER PROVE Answer'
  BY <1>3 DEF Answer
<1> DEFINE a == AckStores(lastrx)
           m == Len(todo)
<1>4. /\ Answering /\ lastrx \in AirFrames
      /\ lastrx[2] # Broadcast /\ lastrx[4] >= REQ_ACK
      /\ marc = "RX" => pktbuf_index = Len(lastrx) /\ FrameLen <= Len(lastrx)
      /\ Building(lastrx)
  BY <1>1, <1>2 DEF Answering, Answer
<1>5. /\ m \in 1..5
      /\ \A i \in 1..m : todo[i] = a[5 - m + i]
      /\ \A j \in 1..(5 - m) : pktbuf[a[j][1]] = a[j][2]
  BY <1>4 DEF Building, Written
<1>6. /\ \A j \in 1..5 : a[j] = <<a[j][1], a[j][2]>> /\ a[j][1] \in Offsets
      /\ \A i, j \in 1..5 : i # j => a[i][1] # a[j][1]
      /\ \A j \in 1..5 : a[j][1] = 0 => a[j][2] = 4
  <2>1. Offsets = 0..(PKTBUF_MAX - 1) /\ PKTBUF_MAX \in Nat /\ PKTBUF_MAX >= 5
    BY BufferAssumption DEF Offsets, HEADER
  <2>2. /\ a[1] = <<1, lastrx[3]>> /\ a[2] = <<2, ADDR>>
        /\ a[3] = <<3, lastrx[4] % REQ_ACK>> /\ a[4] = <<4, ACK>> /\ a[5] = <<0, 4>>
    BY DEF AckStores, HEADER
  <2> HIDE DEF a
  <2> QED BY <2>1, <2>2
<1>m. m \in 1..5 /\ 6 - m \in 1..5
  <2>1. m \in 1..5
    BY <1>5
  <2> HIDE DEF m
  <2> QED BY <2>1
<1>7. todo \in Seq(Offsets \X Byte) /\ todo # <<>> /\ pktbuf \in [Offsets -> Byte]
  <2>1. todo # <<>>
    BY <1>m, EmptySeq
  <2> QED BY <2>1 DEF TypeOK, DriverTypeOK
<1> HIDE DEF a
<1>8. /\ Head(todo) = a[6 - m]
      /\ Len(todo') = m - 1 /\ \A i \in 1..(m - 1) : todo'[i] = todo[i + 1]
  <2>1. Head(todo) = todo[1] /\ 5 - m + 1 = 6 - m
    BY <1>5, <1>7, HeadTailProperties
  <2>2. todo' = Tail(todo)
    BY DEF Build
  <2> QED BY <1>5, <1>7, <2>1, <2>2, HeadTailProperties
<1>9. pktbuf' = [pktbuf EXCEPT ![a[6 - m][1]] = a[6 - m][2]]
  BY <1>8 DEF Build
<1>10. \A j \in 1..(6 - m) : pktbuf'[a[j][1]] = a[j][2]
  <2> SUFFICES ASSUME NEW j \in 1..(6 - m) PROVE pktbuf'[a[j][1]] = a[j][2]
    OBVIOUS
  <2>1. j \in 1..5 /\ 6 - m \in 1..5
    BY <1>5
  <2>2. CASE j = 6 - m
    BY <1>6, <1>7, <1>9, <2>1, <2>2
  <2>3. CASE j # 6 - m
    <3>1. j \in 1..(5 - m) /\ a[j][1] # a[6 - m][1]
      BY <1>5, <1>6, <2>1, <2>3
    <3> QED BY <1>5, <1>6, <1>7, <1>9, <2>1, <3>1
  <2> QED BY <2>2, <2>3
<1>11. marc = "RX" => FrameLen' <= Len(lastrx)
  <2>2. CASE a[6 - m][1] = 0
    <3>1. pktbuf'[0] = 4
      BY <1>m, <1>6, <1>7, <1>9, <2>2
    <3>2. Len(lastrx) \in Nat /\ Len(lastrx) >= 5
      BY <1>2, <1>4, Frames DEF HEADER
    <3> QED BY <3>1, <3>2 DEF FrameLen
  <2>3. CASE a[6 - m][1] # 0
    <3>1. pktbuf'[0] = pktbuf[0]
      BY <1>7, <1>9, <2>3, BufferAssumption DEF Offsets, HEADER
    <3> QED BY <1>4, <3>1 DEF FrameLen
  <2> QED BY <2>2, <2>3
<1>12. a' = a
  BY <1>2 DEF a, AckStores
<1>13. CASE m = 1
  <2>1. pc' = "tx_idle" /\ Written(lastrx, 5)'
    BY <1>1, <1>2, <1>10, <1>12, <1>13 DEF Written, a
  <2> QED BY <1>2, <1>4, <1>11, <2>1 DEF Answer
<1>14. CASE m # 1
  <2>1. m - 1 \in 1..5 /\ 5 - (m - 1) = 6 - m
    BY <1>5, <1>14
  <2>2. ASSUME NEW i \in 1..(m - 1)
        PROVE  todo'[i] = a[5 - (m - 1) + i]
    <3>1. i + 1 \in 1..m /\ 5 - m + (i + 1) = 5 - (m - 1) + i
      <4> HIDE DEF m
      <4> QED BY <1>m
    <3>2. todo[i + 1] = a[5 - m + (i + 1)]
      BY <1>5, <3>1
    <3> QED BY <1>8, <3>1, <3>2
  <2>3. Building(lastrx)'
    BY <1>2, <1>8, <1>10, <1>12, <2>1, <2>2 DEF Building, Written, a
  <2> QED BY <1>1, <1>2, <1>4, <1>11, <1>14, <2>3 DEF Answer
<1> QED BY <1>13, <1>14
(* What is left of an acknowledgement does not change with what it does not
   speak of. *)
LEMMA AnswerFrame ==
    ASSUME Past, Answer, UNCHANGED <<pc, ret, todo, pktbuf, lastrx>>,
           Answering /\ pc \in {"build", "tx_idle"} =>
               \/ marc' = "IDLE"
               \/ /\ marc = "RX" /\ marc' = "RX" /\ ~s1con'
                  /\ rxf' = rxf /\ rxf # <<>> /\ pos' > Len(rxf)
                  /\ Len(lastrx) >= HEADER => pktbuf_index' = pktbuf_index
    PROVE  Past' /\ Answer'
<1>1. Answering' = Answering
  BY DEF Answering
<1>2. Past'
  BY <1>1 DEF Past
<1>3. /\ FrameLen' = FrameLen /\ Building(lastrx)' = Building(lastrx)
      /\ Written(lastrx, 5)' = Written(lastrx, 5)
  BY DEF FrameLen, Building, Written, AckStores
<1>4. Answer'
  BY <1>1, <1>3 DEF Answer
<1> QED BY <1>2, <1>4

LEMMA AnswerChip ==
    ASSUME AnswerInv, Chip
    PROVE  Past' /\ Answer'
<1>t. TypeOK /\ Sending /\ Past /\ Answer /\ ~echo
  BY DEF AnswerInv, DeliveryInv, BoundsInv
<1>1. UNCHANGED <<pc, ret, todo, pktbuf, pktbuf_index>> /\ ChipNext
  BY DEF Chip, Beside, flags, mainVars
<1>2. marc # "IDLE"
  BY <1>1 DEF ChipNext, ChipProgress, RxSync, Calibrated, RxFilter, RxByte, RxOverflow,
              RxCrc, RxStatus, RxDone, TxSync, TxAsk, TxByte, TxUnderflow, TxDone
<1>3. lastrx' = lastrx \/ RxCrc
  BY <1>1 DEF ChipNext, ChipProgress, RxSync, Calibrated, RxFilter, RxByte, RxOverflow,
              RxStatus, RxDone, TxSync, TxAsk, TxByte, TxUnderflow, TxDone, history
<1>4. CASE Answering /\ pc \in {"build", "tx_idle"}
  <2>1. marc = "RX" /\ ~s1con /\ rxf # <<>> /\ pos > Len(rxf)
    BY <1>t, <1>2, <1>4 DEF Past
  <2>2. RxStatus \/ RxDone
    BY <1>t, <1>1, <2>1, OnAir DEF ChipNext, ChipProgress, RxSync, Calibrated, RxFilter,
              Filtered, RxByte, RxOverflow, RxCrc, TxSync, TxAsk, TxByte, TxUnderflow, TxDone
  <2>3. lastrx' = lastrx
    BY <2>2 DEF RxStatus, RxDone, history
  <2>4. CASE RxStatus
    BY <1>t, <1>1, <2>1, <2>3, <2>4, AnswerFrame, OnAir DEF RxStatus
  <2>5. CASE RxDone
    <3>1. marc' = "IDLE"
      BY <2>5 DEF RxDone, EnterState
    <3> QED BY <1>t, <1>1, <2>3, <3>1, AnswerFrame
  <2> QED BY <2>2, <2>4, <2>5
<1>5. CASE Answering /\ pc \notin {"build", "tx_idle"}
  <2>1. marc # "RX"
    BY <1>t, <1>2, <1>5 DEF Answering, Sending, Transmission
  <2>2. lastrx' = lastrx
    BY <1>3, <2>1 DEF RxCrc
  <2> QED BY <1>t, <1>1, <1>5, <2>2, AnswerFrame
<1>6. CASE ~Answering
  BY <1>1, <1>6 DEF Answering, Past, Answer
<1> QED BY <1>4, <1>5, <1>6

LEMMA AnswerIsr ==
    ASSUME AnswerInv, RftxrxIsr \/ RfIsr
    PROVE  Past' /\ Answer'
<1>t. TypeOK /\ Sending /\ Past /\ Answer
  BY DEF AnswerInv, DeliveryInv, BoundsInv
<1>1. UNCHANGED <<pc, ret, todo, lastrx>>
  BY DEF RftxrxIsr, RfIsr, mainVars, history
<1>2. CASE ~Answering
  BY <1>1, <1>2 DEF Answering, Past, Answer
<1>3. CASE Answering /\ RfIsr
  <2>1. pktbuf' = pktbuf /\ s1con /\ (marc' = marc \/ marc' = "IDLE")
    BY <1>3 DEF RfIsr, SIDLE, EnterState, radioState
  <2>2. pc \in {"build", "tx_idle"} => marc' = "IDLE"
    BY <1>t, <1>3, <2>1 DEF Past
  <2> QED BY <1>t, <1>1, <2>1, <2>2, AnswerFrame
<1>4. CASE Answering /\ RftxrxIsr
  <2>1. UNCHANGED <<marc, s1con, rxf, pos>> /\ rftxrx
    BY <1>4 DEF RftxrxIsr
  <2>2. CASE pc \in {"build", "tx_idle"}
    <3>1. CASE marc = "IDLE"
      <4>1. pktbuf' = pktbuf
        BY <1>4, <3>1 DEF RftxrxIsr, SendByte, FetchByte
      <4> QED BY <1>t, <1>1, <2>1, <3>1, <4>1, AnswerFrame
    <3>2. CASE marc = "RX" /\ Len(lastrx) >= HEADER
      <4>1. FetchByte
        BY <1>4, <3>2 DEF RftxrxIsr, SendByte
      <4>2. /\ pktbuf_index = Len(lastrx) /\ FrameLen <= Len(lastrx)
            /\ Len(lastrx) \in Nat /\ Len(lastrx) >= 5
        BY <1>t, <1>4, <2>2, <3>2, Frames DEF Answer, HEADER
      <4>3. ~MayStore
        <5>1. FrameLen \in Nat
          BY <1>t, More
        <5> QED BY <4>2, <5>1 DEF MayStore
      <4>4. UNCHANGED <<pktbuf, pktbuf_index>>
        BY <4>1, <4>3 DEF FetchByte
      <4>5. ~s1con /\ rxf # <<>> /\ pos > Len(rxf)
        BY <1>t, <1>4, <2>2, <3>2 DEF Past
      <4> QED BY <1>t, <1>1, <2>1, <3>2, <4>4, <4>5, AnswerFrame
    <3>3. CASE ~(Len(lastrx) >= HEADER)
      BY <1>t, <1>1, <2>1, <3>3 DEF Past, Answer, Answering
    <3> QED BY <1>t, <1>4, <2>2, <3>1, <3>2, <3>3 DEF Past
  <2>3. CASE pc \notin {"build", "tx_idle"}
    <3>1. marc # "RX"
      BY <1>t, <1>4, <2>3 DEF Answering, Sending, Transmission
    <3>2. pktbuf' = pktbuf
      BY <1>4, <3>1 DEF RftxrxIsr, SendByte, FetchByte
    <3> QED BY <1>t, <1>1, <2>3, <3>2, AnswerFrame
  <2> QED BY <2>2, <2>3
<1> QED BY <1>2, <1>3, <1>4

LEMMA AnswerMain ==
    ASSUME AnswerInv, Main
    PROVE  Past' /\ Answer'
<1>t. TypeOK /\ DeliveryInv /\ Past /\ Answer /\ MainStep
  BY DEF AnswerInv, DeliveryInv, BoundsInv, Main
<1>1. CASE PacketAutoack
  BY <1>t, <1>1, AnswerAutoack
<1>2. CASE Build
  BY <1>t, <1>2, AnswerBuild
<1>3. CASE RadioTxIdle \/ RadioTxInit \/ RadioTxStrobe
  <2>1. /\ UNCHANGED <<ret, lastrx, pktbuf, todo>>
        /\ pc \in {"tx_idle", "tx_init", "tx_strobe"}
        /\ pc' \in {"tx_init", "tx_strobe", "tx_wait"}
    BY <1>3 DEF RadioTxIdle, RadioTxInit, RadioTxStrobe, InitFlags, NoStrobe, chipVars,
                history
  <2>2. Past'
    BY <2>1 DEF Past
  <2>3. Answering' => Answering
    BY <2>1 DEF Answering
  <2>4. Written(lastrx, 5)' = Written(lastrx, 5)
    BY <2>1 DEF Written, AckStores
  <2>5. Answer'
    BY <1>t, <2>1, <2>3, <2>4 DEF Answer
  <2> QED BY <2>2, <2>5
<1>4. CASE \/ ConsoleTick \/ RadioTick \/ TickComplete \/ TickSent \/ CheckCrc
           \/ PacketHandle \/ RadioTxWait \/ RadioRxIdle \/ RadioRxInit \/ RadioRxStrobe
  <2>1. ret \in {"console_tick", "radio_tick", "tick_sent", "rx_idle"}
    BY <1>t DEF TypeOK, DriverTypeOK
  <2>2. ~Answering'
    BY <1>4, <2>1 DEF ConsoleTick, RadioTick, TickComplete, TickSent, CheckCrc, PacketHandle,
              RadioTxWait, RadioRxIdle, RadioRxInit, RadioRxStrobe, InitFlags, Answering
  <2> QED BY <2>2 DEF Past, Answer
<1> QED BY <1>t, <1>1, <1>2, <1>3, <1>4 DEF MainStep

LEMMA AnswerInductive ==
    ASSUME UART = FALSE
    PROVE  Spec => []AnswerInv
<1>1. Init => Sending /\ Past /\ Answer
  BY DEF Init, Sending, Past, Answer, Answering
<1>2. Spec => []DeliveryInv
  BY DeliveryInductive
<1>3. DeliveryInv /\ Sending /\ Past /\ Answer /\ [Next]_vars => Sending' /\ Past' /\ Answer'
  <2> SUFFICES ASSUME DeliveryInv, Sending, Past, Answer, [Next]_vars
               PROVE  Sending' /\ Past' /\ Answer'
    OBVIOUS
  <2>t. AnswerInv
    BY DEF AnswerInv
  <2>1. CASE EchoStart \/ EchoEnd \/ UNCHANGED vars
    <3>1. UNCHANGED <<chipVars, pktbuf, flags, mainVars>>
      BY <2>1 DEF EchoStart, EchoEnd, vars
    <3> QED BY <3>1, SendingStep DEF chipVars, flags, mainVars, Past, Answer, Answering,
                                     FrameLen, Building, Written, AckStores
  <2>2. CASE Chip \/ RftxrxIsr \/ RfIsr \/ Main
    BY <2>t, <2>2, SendingStep, AnswerChip, AnswerIsr, AnswerMain
  <2> QED BY <2>1, <2>2 DEF Next
<1> QED BY <1>1, <1>2, <1>3, PTL DEF Spec, AnswerInv

(* The acknowledgement that has been sent. *)
LEMMA AckIsSent ==
    AnswerInv /\ pc = "tx_wait" /\ ret = "rx_idle" /\ marc = "IDLE" /\ Len(lastrx) >= HEADER
    => sentf = <<HEADER - 1, lastrx[3], ADDR, lastrx[4] % REQ_ACK, ACK>>
<1> SUFFICES ASSUME AnswerInv, pc = "tx_wait", ret = "rx_idle", marc = "IDLE",
                    Len(lastrx) >= HEADER
             PROVE  sentf = <<HEADER - 1, lastrx[3], ADDR, lastrx[4] % REQ_ACK, ACK>>
  OBVIOUS
<1>1. Written(lastrx, 5) /\ SentAll /\ TypeOK
  BY DEF AnswerInv, DeliveryInv, BoundsInv, Answer, Answering, Sending, Transmission
<1>2. /\ pktbuf[0] = 4 /\ pktbuf[1] = lastrx[3] /\ pktbuf[2] = ADDR
      /\ pktbuf[3] = lastrx[4] % REQ_ACK /\ pktbuf[4] = ACK
  BY <1>1 DEF Written, AckStores, HEADER
<1>3. FrameLen = 5 /\ PKTBUF_MAX \in Nat /\ PKTBUF_MAX >= 5
  BY <1>2, BufferAssumption DEF FrameLen, HEADER
<1>4. Len(sentf) = 5 /\ \A i \in 1..5 : sentf[i] = pktbuf[i - 1]
  BY <1>1, <1>3 DEF SentAll, Copied
<1>5. sentf \in Seq(Byte)
  BY <1>1 DEF TypeOK, ChipTypeOK
<1>6. sentf = <<sentf[1], sentf[2], sentf[3], sentf[4], sentf[5]>>
  BY <1>4, <1>5
<1> QED BY <1>2, <1>4, <1>6 DEF HEADER

(* Without a UART console an acknowledgement that goes out answers the last
   packet received: one that asked for it and was no broadcast. *)
THEOREM AcksAreFaithful ==
    ASSUME UART = FALSE
    PROVE  Spec => []AckFaithful
<1> SUFFICES AnswerInv => AckFaithful
  BY AnswerInductive, PTL
<1> SUFFICES ASSUME AnswerInv, pc = "tx_wait", ret = "rx_idle", pkt_complete,
                    Len(lastrx) >= HEADER
             PROVE  /\ lastrx[2] # Broadcast /\ lastrx[4] >= REQ_ACK
                    /\ sentf = <<HEADER - 1, lastrx[3], ADDR, lastrx[4] % REQ_ACK, ACK>>
  BY DEF AckFaithful
<1>1. lastrx[2] # Broadcast /\ lastrx[4] >= REQ_ACK /\ marc = "IDLE"
  BY DEF AnswerInv, DeliveryInv, BoundsInv, Answer, Answering, Sending, Transmission, Starting,
         Ready, Asked
<1> QED BY <1>1, AckIsSent
---------------------------------------------------------------------------
(* Frame by frame, as Link says: for a board without uart0_isr. *)

(* The chip lets a frame through only if it is for this device. *)
ForUs(f) == f[2] \in {ADDR, Broadcast}

Addressed == /\ rxf # <<>> /\ pos > 2 => ForUs(rxf)
             /\ lastrx # <<>> => ForUs(lastrx)

(* The transmitter is on in radio_tx only, and meets no error. *)
OnlyHere == /\ marc \in {"FS_TX", "TX"} => pc = "tx_wait" /\ ~errflag
            /\ pc = "tx_strobe" => ~errflag

(* After a transmission the main loop goes to radio_rx at once. *)
After == /\ pc \in {"build", "tx_idle", "tx_init", "tx_strobe", "tx_wait"}
              => ret \in {"radio_tick", "rx_idle"}
         /\ pc = "console_tick" => receiving
         /\ pc = "radio_tick" /\ ~receiving => errflag \/ pkt_complete
         /\ pc = "tick_sent" /\ ~receiving => pkt_complete

(* The receiver is at the end of its frame. *)
AtEnd == marc = "IDLE" \/ (marc = "RX" /\ rxf # <<>> /\ pos > Len(rxf))

(* Nothing is left of an earlier frame when the receiver is started, and one
   that came in ends the reception. *)
Restarted == /\ receiving \/ pc \in {"rx_init", "rx_strobe"} => sentf = <<>>
             /\ pc \in {"rx_init", "rx_strobe", "packet_autoack"} => ~fresh
             /\ Owned /\ fresh => AtEnd

LinkInv == AnswerInv /\ Heard /\ Addressed /\ OnlyHere /\ After /\ Restarted

(* What the steps below use of it. *)
LEMMA LinkParts ==
    ASSUME LinkInv
    PROVE  /\ TypeOK /\ Peace /\ ~echo /\ Way /\ Reception /\ DeliveryInv
           /\ Sending /\ Past /\ Answer /\ Heard
           /\ Addressed /\ OnlyHere /\ After /\ Restarted
BY DEF LinkInv, AnswerInv, DeliveryInv, BoundsInv

(* The address filter of the chip, over every step. *)
LEMMA AddressedStep ==
    ASSUME TypeOK, Addressed, [Next]_vars
    PROVE  Addressed'
<1>1. CASE Chip
  <2>1. ChipNext
    BY <1>1 DEF Chip, Beside
  <2>2. CASE RxFilter \/ RxSync \/ RxDone \/ RxOverflow
    <3>1. pos' = 0 /\ lastrx' = lastrx
      BY <2>2 DEF RxFilter, RxSync, RxDone, RxOverflow, EnterState, history
    <3> QED BY <3>1 DEF Addressed
  <2>3. CASE RxByte
    <3>1. rxf' = rxf /\ lastrx' = lastrx /\ pos' = pos + 1 /\ pos \in Nat /\ ~Filtered
      BY <2>3, OnAir DEF RxByte, history
    <3> QED BY <3>1 DEF Addressed, Filtered, ForUs
  <2>4. CASE RxCrc
    <3>1. /\ rxf' = rxf /\ lastrx' = rxf /\ pos' = pos + 1 /\ pos \in Nat /\ pos >= 2
          /\ rxf # <<>> /\ ~Filtered
      BY <2>4, OnAir DEF RxCrc
    <3> QED BY <3>1 DEF Addressed, Filtered, ForUs
  <2>5. CASE RxStatus
    <3>1. /\ rxf' = rxf /\ lastrx' = lastrx /\ pos' = pos + 1 /\ pos \in Nat /\ pos > 2
      BY <2>5, OnAir DEF RxStatus, history
    <3> QED BY <3>1 DEF Addressed
  <2>6. CASE TxUnderflow \/ TxDone
    BY <2>6 DEF TxUnderflow, TxDone, EnterState, history, Addressed
  <2>7. CASE Calibrated \/ TxSync \/ TxAsk \/ TxByte
    BY <2>7 DEF Calibrated, TxSync, TxAsk, TxByte, history, Addressed
  <2> QED BY <2>1, <2>2, <2>3, <2>4, <2>5, <2>6, <2>7 DEF ChipNext, ChipProgress
<1>2. CASE RftxrxIsr \/ EchoStart \/ EchoEnd \/ UNCHANGED vars
  BY <1>2 DEF RftxrxIsr, EchoStart, EchoEnd, vars, chipVars, history, Addressed
<1>3. CASE RfIsr
  BY <1>3 DEF RfIsr, SIDLE, EnterState, radioState, history, Addressed
<1>4. CASE Main
  <2>1. MainStep
    BY <1>4 DEF Main
  <2>2. CASE RadioTxIdle \/ RadioRxIdle
    BY <2>2 DEF RadioTxIdle, RadioRxIdle, SIDLE, EnterState, history, Addressed
  <2>3. CASE RadioTxStrobe \/ RadioRxStrobe
    BY <2>3 DEF RadioTxStrobe, RadioRxStrobe, STX, SRX, StrobeFromIdle, EnterState, radioState,
                history, Addressed
  <2>4. CASE PacketHandle
    BY <2>4 DEF PacketHandle, Addressed
  <2>5. CASE \/ ConsoleTick \/ Build \/ RadioTick \/ TickComplete \/ TickSent \/ CheckCrc
             \/ PacketAutoack \/ RadioTxInit \/ RadioTxWait \/ RadioRxInit
    BY <2>5 DEF ConsoleTick, Build, RadioTick, TickComplete, TickSent, CheckCrc, PacketAutoack,
                RadioTxInit, RadioTxWait, RadioRxInit, InitFlags, NoStrobe, chipVars, Addressed
  <2> QED BY <2>1, <2>2, <2>3, <2>4, <2>5 DEF MainStep
<1> QED BY <1>1, <1>2, <1>3, <1>4 DEF Next

(* Nobody but radio_tx turns the transmitter on, and it has no error to meet:
   rftxrx_isr always has the next byte in time. *)
LEMMA OnlyHereStep ==
    ASSUME LinkInv, Chip \/ RftxrxIsr \/ RfIsr \/ Main
    PROVE  OnlyHere'
<1>t. TypeOK /\ Peace /\ ~echo /\ Sending /\ OnlyHere
  BY LinkParts
<1>1. CASE Chip
  <2>1. ChipNext /\ UNCHANGED <<pc, errflag>>
    BY <1>1 DEF Chip, Beside, flags, mainVars
  <2>2. marc' \in {"FS_TX", "TX"} => marc \in {"FS_TX", "TX"}
    BY <2>1 DEF ChipNext, ChipProgress, RxSync, Calibrated, RxFilter, RxByte, RxOverflow,
                RxCrc, RxStatus, RxDone, TxSync, TxAsk, TxByte, TxUnderflow, TxDone, EnterState
  <2> QED BY <1>t, <2>1, <2>2 DEF OnlyHere
<1>2. CASE RftxrxIsr
  <2>1. UNCHANGED <<pc, marc>> /\ rftxrx
    BY <1>2 DEF RftxrxIsr, mainVars
  <2>2. CASE marc \in {"FS_TX", "TX"}
    <3>1. pc = "tx_wait" /\ Transmission /\ ~errflag
      BY <1>t, <2>2 DEF OnlyHere, Sending
    <3>2. marc = "TX" /\ Asked /\ pktbuf_index = Len(txf) /\ Len(txf) < FrameLen
      BY <2>1, <2>2, <3>1 DEF Transmission, Starting, Ready, Asked, Quiet
    <3>3. ~errflag'
      BY <1>2, <3>1, <3>2 DEF RftxrxIsr, SendByte, FetchByte
    <3> QED BY <2>1, <3>1, <3>3 DEF OnlyHere
  <2>3. pc # "tx_strobe"
    BY <1>t, <2>1 DEF Sending, Quiet
  <2> QED BY <2>1, <2>2, <2>3 DEF OnlyHere
<1>3. CASE RfIsr
  <2>1. pc' = pc /\ s1con /\ (marc' = marc \/ marc' = "IDLE")
    BY <1>3 DEF RfIsr, mainVars, SIDLE, EnterState, radioState
  <2>2. CASE marc \in {"FS_TX", "TX"}
    <3>1. pc = "tx_wait" /\ Transmission /\ ~errflag
      BY <1>t, <2>2 DEF OnlyHere, Sending
    <3>2. rfif = {"SFD"}
      BY <2>1, <2>2, <3>1 DEF Transmission, Starting, Ready, Asked, Quiet
    <3>3. ~errflag'
      BY <1>3, <3>1, <3>2 DEF RfIsr, Done, Failed
    <3> QED BY <2>1, <3>1, <3>3 DEF OnlyHere
  <2>3. pc # "tx_strobe"
    BY <1>t, <2>1 DEF Sending, Quiet
  <2> QED BY <2>1, <2>2, <2>3 DEF OnlyHere
<1>4. CASE Main
  <2>1. MainStep /\ ret # "tx_strobe"
    BY <1>t, <1>4 DEF Main, TypeOK, DriverTypeOK
  <2>2. CASE RadioTxIdle \/ RadioRxIdle
    BY <2>2 DEF RadioTxIdle, RadioRxIdle, SIDLE, EnterState, OnlyHere
  <2>3. CASE RadioTxInit
    <3>1. pc = "tx_init" /\ marc' = marc /\ ~errflag' /\ marc = "IDLE"
      BY <1>t, <2>3 DEF RadioTxInit, InitFlags, NoStrobe, chipVars, Sending
    <3> QED BY <3>1 DEF OnlyHere
  <2>4. CASE RadioTxStrobe
    BY <1>t, <2>4 DEF RadioTxStrobe, OnlyHere, flags
  <2>5. CASE RadioTxWait
    <3>1. pc = "tx_wait" /\ (pkt_complete \/ errflag) /\ Transmission /\ pc' = ret /\ marc' = marc
      BY <1>t, <2>5 DEF RadioTxWait, Sending, NoStrobe, chipVars
    <3>2. marc = "IDLE"
      BY <1>t, <3>1 DEF Transmission, Starting, Ready, Asked, OnlyHere
    <3> QED BY <2>1, <3>1, <3>2 DEF OnlyHere
  <2>6. CASE RadioRxInit \/ RadioRxStrobe
    <3>1. marc = "IDLE" /\ pc' # "tx_strobe"
      BY <1>t, <2>1, <2>6 DEF RadioRxInit, RadioRxStrobe, InitFlags, Peace
    <3>2. marc' \in {"IDLE", "FS_RX"}
      BY <2>6, <3>1 DEF RadioRxInit, RadioRxStrobe, InitFlags, NoStrobe, chipVars, SRX,
                        StrobeFromIdle, EnterState
    <3> QED BY <3>1, <3>2 DEF OnlyHere
  <2>7. CASE \/ ConsoleTick \/ Build \/ RadioTick \/ TickComplete \/ TickSent \/ CheckCrc
             \/ PacketHandle \/ PacketAutoack
    <3>1. pc # "tx_wait" /\ pc' # "tx_strobe" /\ marc' = marc
      BY <2>7 DEF ConsoleTick, Build, RadioTick, TickComplete, TickSent, CheckCrc, PacketHandle,
                  PacketAutoack, NoStrobe, chipVars
    <3> QED BY <1>t, <3>1 DEF OnlyHere
  <2> QED BY <2>1, <2>2, <2>3, <2>4, <2>5, <2>6, <2>7 DEF MainStep
<1> QED BY <1>1, <1>2, <1>3, <1>4

(* radio_tick finds a device that does not receive only after a transmission,
   and then starts the receiver. *)
LEMMA AfterStep ==
    ASSUME LinkInv, Chip \/ RftxrxIsr \/ RfIsr \/ Main
    PROVE  After'
<1>t. TypeOK /\ Way /\ After
  BY LinkParts
<1>1. CASE Chip \/ RftxrxIsr \/ RfIsr
  <2>1. UNCHANGED <<pc, ret, receiving>>
    BY <1>1 DEF Chip, Beside, RftxrxIsr, RfIsr, flags, mainVars
  <2>2. (errflag => errflag') /\ (pkt_complete => pkt_complete')
    <3>1. CASE RftxrxIsr
      <4>1. CASE SendByte
        BY <4>1 DEF SendByte
      <4>2. CASE FetchByte
        BY <4>2 DEF FetchByte
      <4> QED BY <3>1, <4>1, <4>2 DEF RftxrxIsr
    <3>2. CASE Chip
      BY <3>2 DEF Chip, Beside, flags
    <3>3. CASE RfIsr
      <4>1. errflag => errflag'
        BY <3>3 DEF RfIsr
      <4>2. pkt_complete => pkt_complete'
        BY <3>3 DEF RfIsr
      <4> QED BY <4>1, <4>2
    <3> QED BY <1>1, <3>1, <3>2, <3>3
  <2> QED BY <1>t, <2>1, <2>2 DEF After
<1>2. CASE Main
  <2>1. MainStep
    BY <1>2 DEF Main
  <2>2. CASE ConsoleTick \/ Build \/ PacketHandle \/ PacketAutoack
    BY <1>t, <2>2 DEF ConsoleTick, Build, PacketHandle, PacketAutoack, flags, After
  <2>3. CASE RadioTick \/ TickComplete \/ TickSent \/ CheckCrc
    BY <1>t, <2>3 DEF RadioTick, TickComplete, TickSent, CheckCrc, flags, After, Way
  <2>4. CASE RadioTxIdle \/ RadioTxInit \/ RadioTxStrobe
    BY <1>t, <2>4 DEF RadioTxIdle, RadioTxInit, RadioTxStrobe, InitFlags, flags, After
  <2>5. CASE RadioTxWait
    BY <1>t, <2>5 DEF RadioTxWait, flags, After
  <2>6. CASE RadioRxIdle \/ RadioRxInit
    BY <1>t, <2>6 DEF RadioRxIdle, RadioRxInit, InitFlags, After
  <2>7. CASE RadioRxStrobe
    <3>1. receiving' /\ pc' \in {"console_tick", "radio_tick", "tick_sent", "rx_idle"}
      BY <1>t, <2>7 DEF RadioRxStrobe, TypeOK, DriverTypeOK, Way, flags
    <3> QED BY <3>1 DEF After
  <2> QED BY <2>1, <2>2, <2>3, <2>4, <2>5, <2>6, <2>7 DEF MainStep
<1> QED BY <1>1, <1>2

(* radio_rx forgets the frame before it, and a reception that brought one in
   is over. *)
LEMMA RestartedStep ==
    ASSUME LinkInv, Chip \/ RftxrxIsr \/ RfIsr \/ Main
    PROVE  Restarted'
<1>t. TypeOK /\ Peace /\ Way /\ Reception /\ DeliveryInv /\ OnlyHere /\ After /\ Restarted /\ ~echo
  BY LinkParts
<1>1. CASE Chip
  <2>1. ChipNext /\ UNCHANGED <<pc, receiving>> /\ Quiet
    BY <1>t, <1>1 DEF Chip, Beside, flags, mainVars
  <2>2. marc # "IDLE"
    BY <2>1 DEF ChipNext, ChipProgress, RxSync, Calibrated, RxFilter, RxByte, RxOverflow,
                RxCrc, RxStatus, RxDone, TxSync, TxAsk, TxByte, TxUnderflow, TxDone
  <2>3. pc \notin {"rx_init", "rx_strobe"}
    BY <1>t, <2>2 DEF Peace
  <2>4. CASE TxDone
    <3>1. pc = "tx_wait" /\ ~receiving /\ fresh' = fresh
      BY <1>t, <2>4 DEF TxDone, OnlyHere, Way
    <3> QED BY <2>1, <3>1 DEF Restarted, Owned
  <2>5. CASE RxCrc
    <3>1. AtEnd' /\ sentf' = sentf
      <4>1. /\ marc' = "RX" /\ rxf' = rxf /\ rxf # <<>> /\ pos' = Len(rxf) + 1 /\ sentf' = sentf
        BY <2>5 DEF RxCrc
      <4>2. Len(rxf) \in Nat
        BY <1>t, <4>1, OnAir
      <4> QED BY <4>1, <4>2 DEF AtEnd
    <3>2. pc # "packet_autoack"
      BY <1>t, <2>5, AtAutoack DEF RxCrc
    <3> QED BY <1>t, <2>1, <2>3, <3>1, <3>2 DEF Restarted
  <2>6. CASE ~TxDone /\ ~RxCrc
    <3>1. UNCHANGED <<fresh, sentf>>
      BY <2>1, <2>6 DEF ChipNext, ChipProgress, RxSync, Calibrated, RxFilter, RxByte,
                RxOverflow, RxStatus, RxDone, TxSync, TxAsk, TxByte, TxUnderflow, history
    <3>2. AtEnd => AtEnd'
      <4> SUFFICES ASSUME marc = "RX", rxf # <<>>, pos > Len(rxf) PROVE AtEnd'
        BY <2>2 DEF AtEnd
      <4>1. pos \in Nat /\ Len(rxf) \in Nat /\ Len(rxf) >= 2
        BY <1>t, OnAir
      <4>2. RxStatus \/ RxDone
        BY <2>1, <2>6, <4>1 DEF ChipNext, ChipProgress, RxSync, Calibrated, RxFilter, Filtered,
              RxByte, RxOverflow, TxSync, TxAsk, TxByte, TxUnderflow
      <4>3. CASE RxStatus
        BY <4>1, <4>3 DEF RxStatus, AtEnd
      <4>4. CASE RxDone
        BY <4>4 DEF RxDone, EnterState, AtEnd
      <4> QED BY <4>2, <4>3, <4>4
    <3> QED BY <1>t, <2>1, <3>1, <3>2 DEF Restarted, Owned
  <2> QED BY <2>4, <2>5, <2>6
<1>2. CASE RftxrxIsr \/ RfIsr
  <2>1. UNCHANGED <<pc, receiving, fresh, sentf>>
    BY <1>2 DEF RftxrxIsr, RfIsr, history, mainVars
  <2>2. AtEnd => AtEnd'
    BY <1>2 DEF RftxrxIsr, RfIsr, AtEnd, SIDLE, EnterState, radioState
  <2> QED BY <1>t, <2>1, <2>2 DEF Restarted, Owned
<1>3. CASE Main
  <2>1. MainStep
    BY <1>3 DEF Main
  <2>2. CASE RadioRxIdle
    BY <2>2 DEF RadioRxIdle, Restarted, Owned, flags
  <2>3. CASE RadioRxInit \/ RadioRxStrobe
    <3>1. /\ pc \in {"rx_init", "rx_strobe"}
          /\ UNCHANGED <<sentf, fresh>>
      BY <2>3 DEF RadioRxInit, RadioRxStrobe, InitFlags, NoStrobe, chipVars, history
    <3>2. sentf' = <<>> /\ ~fresh'
      BY <1>t, <3>1 DEF Restarted
    <3> QED BY <3>2 DEF Restarted
  <2>4. CASE RadioTxIdle
    BY <1>t, <2>4 DEF RadioTxIdle, Restarted, history, flags, Owned
  <2>5. CASE RadioTxInit
    BY <1>t, <2>5 DEF RadioTxInit, InitFlags, NoStrobe, chipVars, Restarted, Owned
  <2>6. CASE RadioTxStrobe \/ RadioTxWait
    <3>1. ~receiving' /\ pc' \notin {"rx_init", "rx_strobe", "packet_autoack"}
      BY <1>t, <2>6 DEF RadioTxStrobe, RadioTxWait, flags, Way, TypeOK, DriverTypeOK
    <3> QED BY <3>1 DEF Restarted, Owned
  <2>7. CASE \/ ConsoleTick \/ Build \/ RadioTick \/ TickComplete \/ TickSent \/ CheckCrc
             \/ PacketAutoack \/ PacketHandle
    <3>1. /\ UNCHANGED <<receiving, marc, rxf, pos, sentf>> /\ (fresh' => fresh)
          /\ pc' \notin {"rx_init", "rx_strobe"} /\ (pc' = "packet_autoack" => ~fresh')
          /\ Owned' => Owned \/ pc = "build"
          /\ pc = "build" => ~Owned'
      BY <2>7 DEF ConsoleTick, Build, RadioTick, TickComplete, TickSent, CheckCrc, PacketHandle,
                  PacketAutoack, NoStrobe, chipVars, flags, Owned
    <3> QED BY <1>t, <3>1 DEF Restarted, AtEnd
  <2> QED BY <2>1, <2>2, <2>3, <2>4, <2>5, <2>6, <2>7 DEF MainStep
<1> QED BY <1>1, <1>2, <1>3

(* Together with what is known of deliveries and answers this is inductive. *)
LEMMA LinkInductive ==
    ASSUME UART = FALSE
    PROVE  Spec => []LinkInv
<1>1. Init => Addressed /\ OnlyHere /\ After /\ Restarted
  BY DEF Init, ChipInit, Addressed, OnlyHere, After, Restarted, Owned
<1>2. Spec => []AnswerInv /\ []Heard
  BY AnswerInductive, HeardInductive
<1>3. LinkInv /\ [Next]_vars => Addressed' /\ OnlyHere' /\ After' /\ Restarted'
  <2> SUFFICES ASSUME LinkInv, [Next]_vars
               PROVE  Addressed' /\ OnlyHere' /\ After' /\ Restarted'
    OBVIOUS
  <2>t. TypeOK /\ Addressed /\ OnlyHere /\ After /\ Restarted
    BY LinkParts
  <2>1. CASE EchoStart \/ EchoEnd \/ UNCHANGED vars
    <3>1. UNCHANGED <<chipVars, pktbuf, flags, mainVars>>
      BY <2>1 DEF EchoStart, EchoEnd, vars
    <3> QED BY <2>t, <3>1 DEF chipVars, flags, mainVars, Addressed, OnlyHere, After, Restarted,
                              Owned, AtEnd
  <2>2. CASE Chip \/ RftxrxIsr \/ RfIsr \/ Main
    BY <2>t, <2>2, AddressedStep, OnlyHereStep, AfterStep, RestartedStep
  <2> QED BY <2>1, <2>2 DEF Next
<1> QED BY <1>1, <1>2, <1>3, PTL DEF Spec, LinkInv

(* A packet that is complete, or has been handled, is the last frame received:
   all of it is in the buffer, and its end has been noticed. *)
LEMMA Arrived ==
    ASSUME LinkInv, LinkPhase \in {"complete", "handled"}
    PROVE  /\ lastrx \in AirFrames /\ Len(lastrx) <= PKTBUF_MAX
           /\ Holds(lastrx, Len(lastrx))
           /\ AtEnd
           /\ pc \notin {"packet_handle", "packet_autoack"} =>
                /\ Complete
                /\ marc = "RX" \/ s1con => AllStored(lastrx)
                /\ marc = "RX" => ~s1con
                /\ s1con => rfif = {"DONE"}
<1>t. TypeOK /\ Way /\ Reception /\ DeliveryInv /\ Heard /\ Restarted
  BY LinkParts
<1>1. CASE pc = "packet_autoack"
  BY <1>t, <1>1, AtAutoack DEF AtEnd
<1>2. ASSUME Owned, marc = "RX", rxf # <<>>, AtStatus
      PROVE  lastrx \in AirFrames /\ AllStored(lastrx) /\ pos > Len(rxf) /\ ~s1con
  BY <1>t, <1>2, OnAir DEF AtStatus, AllStored
<1>3. ASSUME AllStored(lastrx), Len(lastrx) <= PKTBUF_MAX
      PROVE  Holds(lastrx, Len(lastrx))
  BY <1>3 DEF AllStored, Stored, Fitting
<1>4. CASE pc = "packet_handle"
  <2>1. Owned /\ pkt_complete
    BY <1>t, <1>4 DEF Way, Owned
  <2>2. \/ marc = "RX" /\ rxf # <<>> /\ AtStatus
        \/ marc = "IDLE" /\ Ended
    BY <1>t, <2>1 DEF Reception, Waiting, AtSync, AtByte, Between
  <2>3. CASE marc = "RX" /\ rxf # <<>> /\ AtStatus
    BY <1>2, <1>3, <1>4, <2>1, <2>3 DEF AllStored, AtEnd
  <2>4. CASE marc = "IDLE" /\ Ended
    BY <1>4, <2>1, <2>4 DEF Ended, AtEnd
  <2> QED BY <2>2, <2>3, <2>4
<1>5. CASE pc \notin {"packet_handle", "packet_autoack"}
  <2>1. /\ pc \in {"console_tick", "radio_tick", "tick_complete", "check_crc"}
        /\ receiving /\ Complete
    BY <1>5 DEF LinkPhase
  <2>2. Owned /\ AtEnd /\ ~errflag /\ Len(lastrx) <= PKTBUF_MAX
    BY <1>t, <2>1 DEF Owned, Complete, Restarted
  <2>3. CASE marc = "IDLE"
    <3>1. pkt_complete \/ s1con
      BY <1>t, <2>1, <2>2, <2>3 DEF Heard, Told
    <3>2. Ended
      BY <1>t, <2>2, <2>3 DEF Reception
    <3> QED BY <1>3, <1>5, <2>1, <2>2, <2>3, <3>1, <3>2 DEF Ended
  <2>4. CASE marc = "RX" /\ rxf # <<>> /\ pos > Len(rxf)
    <3>1. pos \in Nat /\ Len(rxf) \in Nat /\ Len(rxf) >= 2
      BY <1>t, <2>4, OnAir
    <3>2. AtStatus
      BY <1>t, <2>2, <2>4, <3>1 DEF Reception, AtSync, AtByte, Between
    <3> QED BY <1>2, <1>3, <1>5, <2>1, <2>2, <2>4, <3>2
  <2> QED BY <2>2, <2>3, <2>4 DEF AtEnd
<1> QED BY <1>1, <1>4, <1>5

(* It is for this device, and what Link calls the frame in hand. *)
LEMMA Taken ==
    LinkInv /\ LinkPhase \in {"complete", "handled"} =>
        /\ lastrx \in Device!Mine
        /\ LinkFrame = lastrx
<1> SUFFICES ASSUME LinkInv, LinkPhase \in {"complete", "handled"}
             PROVE  lastrx \in Device!Mine /\ LinkFrame = lastrx
  OBVIOUS
<1>1. /\ lastrx \in AirFrames /\ Len(lastrx) <= PKTBUF_MAX
      /\ Holds(lastrx, Len(lastrx))
  BY Arrived
<1>2. /\ lastrx \in Seq(Byte) /\ Len(lastrx) \in Nat /\ Len(lastrx) >= 2
      /\ Len(lastrx) = lastrx[1] + 1 /\ lastrx # <<>>
  BY <1>1, Frames
<1>3. ForUs(lastrx)
  BY <1>2, LinkParts DEF Addressed
<1>4. lastrx \in Device!Mine
  BY <1>1, <1>3 DEF ForUs, Device!Mine, Device!Broadcast, Broadcast
<1>5. FrameLen = Len(lastrx)
  BY <1>1, <1>2 DEF Holds, FrameLen
<1>6. LinkFrame = [i \in 1..Len(lastrx) |-> pktbuf[i - 1]]
  BY <1>5 DEF LinkFrame
<1>7. [i \in 1..Len(lastrx) |-> pktbuf[i - 1]] = lastrx
  <2> DEFINE n == Len(lastrx)
  <2>1. lastrx \in [1..n -> Byte]
    BY <1>2, LenProperties
  <2>2. \A i \in 1..n : pktbuf[i - 1] = lastrx[i]
    BY <1>1 DEF Holds
  <2> HIDE DEF n
  <2>3. [i \in 1..n |-> pktbuf[i - 1]] = lastrx
    BY <2>1, <2>2
  <2> QED BY <2>3 DEF n
<1> QED BY <1>4, <1>6, <1>7

(* The same after a step, for steps that end in these phases. *)
LEMMA TakenThen ==
    (LinkInv /\ LinkPhase \in {"complete", "handled"} =>
        /\ lastrx \in Device!Mine
        /\ LinkFrame = lastrx)'
BY Taken, PTL

(* The same after the step that sends its last byte. *)
LEMMA AckIsSentThen ==
    (AnswerInv /\ pc = "tx_wait" /\ ret = "rx_idle" /\ marc = "IDLE" /\ Len(lastrx) >= HEADER
     => sentf = <<HEADER - 1, lastrx[3], ADDR, lastrx[4] % REQ_ACK, ACK>>)'
BY AckIsSent, PTL

LinkStep == [Device!Next]_(Device!linkVars)

(* What Link speaks of stays as it is. *)
LEMMA LinkStays ==
    ASSUME LinkInv, LinkInv', UNCHANGED <<LinkPhase, sentf>>,
           \/ UNCHANGED <<lastrx, ret>>
           \/ UNCHANGED lastrx /\ LinkPhase # "send"
           \/ LinkPhase \notin {"complete", "handled", "send"}
           \/ LinkPhase = "send" /\ ret # "rx_idle" /\ ret' = ret
    PROVE  LinkStep
<1>1. LinkPhase \in {"complete", "handled"} => LinkFrame' = LinkFrame
  BY Taken, TakenThen
<1>2. LinkPhase \notin {"complete", "handled"} => LinkFrame' = LinkFrame
  BY DEF LinkFrame
<1> QED BY <1>1, <1>2 DEF LinkStep, Device!linkVars

(* A frame is received. *)
LEMMA LinkReceives ==
    ASSUME LinkInv', LinkPhase = "listen", LinkPhase' = "complete", sentf' = sentf
    PROVE  LinkStep
<1>1. lastrx' \in Device!Mine /\ LinkFrame' = lastrx'
  BY TakenThen
<1>2. Device!Receive(lastrx')
  BY <1>1 DEF Device!Receive
<1> QED BY <1>1, <1>2 DEF LinkStep, Device!Next

(* When a frame comes to its end the device was listening, or its main loop
   was busy with something else than reception. *)
LEMMA CrcPhases ==
    ASSUME LinkInv, marc = "RX", rxf # <<>>, pos = Len(rxf)
    PROVE  LinkPhase \notin {"complete", "handled"} /\ ~Answering
<1>t. TypeOK /\ Sending /\ Past /\ pos \in Nat /\ Len(rxf) \in Nat
  BY LinkParts, OnAir
<1>1. ~AtEnd
  BY <1>t DEF AtEnd
<1>2. ~Answering
  BY <1>t DEF Past, Answering, Sending, Transmission
<1> QED BY <1>1, <1>2, Arrived

(* The chip: the end of a transmission is Sent, a CRC that is right may be
   Receive, all else goes unseen. *)
LEMMA LinkChip ==
    ASSUME LinkInv, LinkInv', Chip
    PROVE  LinkStep
<1>t. TypeOK /\ Peace /\ ~echo /\ Sending /\ OnlyHere /\ Restarted /\ After /\ Way
  BY LinkParts
<1>1. ChipNext /\ UNCHANGED <<pc, ret, flags>>
  BY DEF Chip, Beside, mainVars
<1>2. marc # "IDLE"
  BY <1>1 DEF ChipNext, ChipProgress, RxSync, Calibrated, RxFilter, RxByte, RxOverflow,
              RxCrc, RxStatus, RxDone, TxSync, TxAsk, TxByte, TxUnderflow, TxDone
<1>3. CASE TxDone
  <2>1. /\ pc = "tx_wait" /\ marc = "TX" /\ marc' = "IDLE" /\ lastrx' = lastrx
        /\ UNCHANGED <<pc, ret>>
    BY <1>t, <1>1, <1>3 DEF TxDone, OnlyHere, EnterState
  <2>2. LinkPhase = "send" /\ LinkPhase' = "delay" /\ LinkFrame' = <<>>
    BY <2>1 DEF LinkPhase, LinkFrame
  <2>3. sentf' \in Seq(0..255)
    BY LinkParts DEF LinkInv, AnswerInv, DeliveryInv, BoundsInv, TypeOK, ChipTypeOK, Byte
  <2>4. LinkFrame # <<>> => sentf' = LinkFrame
    <3>1. ASSUME LinkFrame # <<>>
          PROVE  /\ ret = "rx_idle" /\ Len(lastrx) >= HEADER
                 /\ LinkFrame = <<HEADER - 1, lastrx[3], ADDR, lastrx[4] % REQ_ACK, ACK>>
      BY <2>2, <3>1 DEF LinkFrame
    <3>2. AnswerInv'
      BY DEF LinkInv
    <3> QED BY <2>1, <3>1, <3>2, AckIsSentThen
  <2>5. Device!Sent
    BY <2>2, <2>3, <2>4 DEF Device!Sent
  <2> QED BY <2>5 DEF LinkStep, Device!Next
<1>4. CASE RxCrc
  <2>1. /\ marc = "RX" /\ marc' = "RX" /\ rxf # <<>> /\ pos = Len(rxf) /\ sentf' = sentf
    BY <1>4 DEF RxCrc
  <2>2. LinkPhase \notin {"complete", "handled"} /\ ~Answering
    BY <2>1, CrcPhases
  <2>3. pc # "packet_autoack"
    BY <2>2 DEF LinkPhase
  <2>4. LinkPhase' = LinkPhase \/ (LinkPhase = "listen" /\ LinkPhase' = "complete")
    BY <1>1, <2>1, <2>2, <2>3 DEF LinkPhase, flags
  <2>5. LinkPhase = "send" => ret # "rx_idle"
    BY <2>2 DEF LinkPhase, Answering
  <2> QED BY <1>1, <2>1, <2>2, <2>4, <2>5, LinkStays, LinkReceives
<1>5. CASE ~TxDone /\ ~RxCrc
  <2>1. UNCHANGED <<fresh, lastrx, sentf>>
    BY <1>1, <1>5 DEF ChipNext, ChipProgress, RxSync, Calibrated, RxFilter, RxByte,
              RxOverflow, RxStatus, RxDone, TxSync, TxAsk, TxByte, TxUnderflow, history
  <2>2. lqi_ok' = lqi_ok \/ (~lqi_ok' /\ (Calibrated \/ RxFilter))
    BY <1>1, <1>5, <1>t DEF ChipNext, ChipProgress, RxSync, Calibrated, RxFilter, RxByte,
              RxOverflow, RxStatus, RxDone, TxSync, TxAsk, TxByte, TxUnderflow,
              TypeOK, ChipTypeOK
  <2>3. LinkPhase = "complete" /\ pc # "packet_handle" /\ pc # "packet_autoack"
           => lqi_ok' = lqi_ok
    <3>1. ASSUME AtEnd PROVE ~Calibrated /\ ~RxFilter
      BY <1>t, <1>2, <3>1, OnAir DEF AtEnd, Calibrated, RxFilter, Filtered
    <3> QED BY <2>2, <3>1, Arrived
  <2>4. pc = "tx_wait" => marc' # "IDLE"
    BY <1>1, <1>2, <1>5, <1>t DEF Sending, Transmission, ChipNext, ChipProgress, RxSync,
              Calibrated, RxFilter, RxByte, RxOverflow, RxStatus, RxDone, TxSync, TxAsk, TxByte,
              TxUnderflow, EnterState
  <2>5. LinkPhase' = LinkPhase
    <3>1. Complete' => Complete
      BY <1>1, <2>1, <2>2 DEF Complete, flags
    <3>2. Complete /\ lqi_ok' = lqi_ok => Complete'
      BY <1>1, <2>1 DEF Complete, flags
    <3> QED BY <1>1, <1>2, <2>1, <2>3, <2>4, <3>1, <3>2 DEF LinkPhase, flags
  <2> QED BY <1>1, <2>1, <2>5, LinkStays
<1> QED BY <1>3, <1>4, <1>5

(* The handlers go unseen: a packet that is complete when one of them comes
   stays so, since it finds nothing more to store and nothing amiss. *)
LEMMA LinkIsr ==
    ASSUME LinkInv, LinkInv', RftxrxIsr \/ RfIsr
    PROVE  LinkStep
<1>t. TypeOK /\ Peace /\ ~echo /\ Sending /\ OnlyHere /\ Restarted /\ After /\ Way
  BY LinkParts
<1>1. UNCHANGED <<pc, ret, fresh, lastrx, lqi_ok, sentf, receiving>>
  BY DEF RftxrxIsr, RfIsr, mainVars, history
<1>2. Complete' => Complete
  <2>1. errflag => errflag'
    <3>1. CASE RftxrxIsr
      <4>1. CASE SendByte
        BY <4>1 DEF SendByte
      <4>2. CASE FetchByte
        BY <4>2 DEF FetchByte
      <4> QED BY <3>1, <4>1, <4>2 DEF RftxrxIsr
    <3>2. CASE RfIsr
      BY <3>2 DEF RfIsr
    <3> QED BY <3>1, <3>2
  <2> QED BY <1>1, <2>1 DEF Complete
<1>3. ASSUME LinkPhase = "complete", pc \notin {"packet_handle", "packet_autoack"}
      PROVE  Complete'
  <2>1. /\ Complete /\ AtEnd /\ lastrx \in AirFrames /\ Len(lastrx) <= PKTBUF_MAX
        /\ marc = "RX" \/ s1con => AllStored(lastrx)
        /\ marc = "RX" => ~s1con
        /\ s1con => rfif = {"DONE"}
    BY <1>3, Arrived
  <2>2. /\ Len(lastrx) \in Nat /\ Len(lastrx) >= 2 /\ Len(lastrx) = lastrx[1] + 1
        /\ PKTBUF_MAX \in Nat
    BY <2>1, Frames, BufferAssumption DEF HEADER
  <2>3. marc = "RX" \/ s1con => pktbuf_index = Len(lastrx) /\ FrameLen = Len(lastrx)
    BY <2>1, <2>2 DEF AllStored, Stored, Fitting, Holds, FrameLen
  <2>4. CASE RftxrxIsr
    <3>1. CASE marc = "RX"
      <4>1. FetchByte /\ ~MayStore
        BY <2>2, <2>3, <2>4, <3>1 DEF RftxrxIsr, SendByte, MayStore
      <4>2. errflag' = errflag
        BY <1>t, <2>3, <3>1, <4>1 DEF FetchByte, TypeOK, DriverTypeOK
      <4> QED BY <1>1, <2>1, <4>2 DEF Complete
    <3>2. CASE marc = "IDLE"
      <4>1. errflag' = errflag
        BY <2>4, <3>2 DEF RftxrxIsr, SendByte, FetchByte
      <4> QED BY <1>1, <2>1, <4>1 DEF Complete
    <3> QED BY <2>1, <3>1, <3>2 DEF AtEnd
  <2>5. CASE RfIsr
    <3>1. s1con /\ rfif = {"DONE"} /\ Whole
      BY <2>1, <2>3, <2>5 DEF RfIsr, Whole
    <3>2. Done /\ ~Failed
      BY <3>1 DEF Done, Failed
    <3>3. errflag' = errflag
      BY <1>t, <2>5, <3>1, <3>2 DEF RfIsr, TypeOK, DriverTypeOK
    <3> QED BY <1>1, <2>1, <3>3 DEF Complete
  <2> QED BY <2>4, <2>5
<1>4. pc = "tx_wait" => (marc' = "IDLE" <=> marc = "IDLE")
  <2>1. CASE RftxrxIsr
    BY <2>1 DEF RftxrxIsr
  <2>2. CASE RfIsr
    <3>1. marc' = marc \/ marc' = "IDLE"
      BY <2>2 DEF RfIsr, SIDLE, EnterState, radioState
    <3>2. ASSUME pc = "tx_wait", marc # "IDLE"
          PROVE  marc' = marc
      <4>1. rfif = {"SFD"} /\ marc = "TX"
        BY <1>t, <2>2, <3>2 DEF RfIsr, Sending, Transmission, Starting, Ready, Asked, Quiet
      <4> QED BY <2>2, <4>1 DEF RfIsr, Done, Failed, radioState
    <3> QED BY <3>1, <3>2
  <2> QED BY <2>1, <2>2
<1>5. LinkPhase' = LinkPhase
  BY <1>1, <1>2, <1>3, <1>4 DEF LinkPhase
<1> QED BY <1>1, <1>5, LinkStays

(* The main loop but for radio_tx, radio_rx and packet_process. *)
LEMMA LinkTick ==
    ASSUME LinkInv, LinkInv', UNCHANGED chipVars,
           ConsoleTick \/ Build \/ RadioTick \/ TickComplete \/ TickSent \/ CheckCrc
    PROVE  LinkStep
<1>t. After /\ Way
  BY LinkParts
<1>1. UNCHANGED <<fresh, lastrx, lqi_ok, sentf>>
  BY DEF chipVars
<1>2. CASE ConsoleTick
  <2>1. /\ pc = "console_tick" /\ receiving /\ UNCHANGED <<receiving, errflag>>
        /\ (pc' = "radio_tick" /\ ret' = ret) \/ (pc' = "build" /\ ret' = "radio_tick")
    BY <1>t, <1>2 DEF ConsoleTick, After, flags
  <2>2. CASE pc' = "radio_tick" /\ ret' = ret
    <3>1. LinkPhase' = LinkPhase
      BY <1>1, <2>1, <2>2 DEF LinkPhase, Complete
    <3> QED BY <1>1, <2>2, <3>1, LinkStays
  <2>3. CASE pc' = "build" /\ ret' = "radio_tick"
    <3>1. LinkPhase \in {"listen", "complete"} /\ LinkPhase' = "send"
      BY <2>1, <2>3 DEF LinkPhase
    <3>2. LinkFrame' = <<>>
      BY <2>3, <3>1 DEF LinkFrame
    <3>3. Device!Command
      BY <1>1, <3>1, <3>2 DEF Device!Command
    <3> QED BY <3>3 DEF LinkStep, Device!Next
  <2> QED BY <2>1, <2>2, <2>3
<1>3. CASE Build
  <2>1. pc = "build" /\ pc' \in {"tx_idle", "build"} /\ ret' = ret
    BY <1>3 DEF Build
  <2>2. LinkPhase = "send" /\ LinkPhase' = "send"
    BY <2>1 DEF LinkPhase
  <2> QED BY <1>1, <2>1, <2>2, LinkStays
<1>4. CASE RadioTick
  <2>1. /\ pc = "radio_tick" /\ UNCHANGED <<receiving, errflag>>
        /\ pc' = CASE errflag -> "rx_idle"
                   [] ~errflag /\ receiving -> "tick_complete"
                   [] ~errflag /\ ~receiving -> "tick_sent"
    BY <1>4 DEF RadioTick, flags
  <2>2. LinkPhase' = LinkPhase
    <3>1. CASE errflag
      BY <1>1, <2>1, <3>1 DEF LinkPhase, Complete
    <3>2. CASE ~errflag /\ receiving
      BY <1>1, <2>1, <3>2 DEF LinkPhase, Complete
    <3>3. CASE ~errflag /\ ~receiving
      BY <1>1, <2>1, <3>3 DEF LinkPhase, Complete
    <3> QED BY <3>1, <3>2, <3>3
  <2>3. LinkPhase # "send"
    BY <2>1 DEF LinkPhase
  <2> QED BY <1>1, <2>2, <2>3, LinkStays
<1>5. CASE TickComplete
  <2>1. /\ pc = "tick_complete" /\ receiving /\ UNCHANGED <<receiving, errflag, ret>>
        /\ pc' \in {"check_crc", "console_tick"}
    BY <1>t, <1>5 DEF TickComplete, Way, flags
  <2>2. LinkPhase' = LinkPhase
    BY <1>1, <2>1 DEF LinkPhase, Complete
  <2> QED BY <1>1, <2>1, <2>2, LinkStays
<1>6. CASE TickSent
  <2>1. /\ pc = "tick_sent" /\ UNCHANGED <<receiving, errflag>>
        /\ pc' = IF pkt_complete THEN "rx_idle" ELSE "console_tick"
    BY <1>6 DEF TickSent, flags
  <2>2. CASE ~receiving
    <3>1. LinkPhase = "delay" /\ LinkPhase' = "delay"
      BY <1>t, <2>1, <2>2 DEF LinkPhase, After
    <3> QED BY <1>1, <3>1, LinkStays
  <2>3. CASE receiving
    <3>1. LinkPhase = "listen" /\ LinkPhase' \in {"listen", "complete"}
      BY <2>1, <2>3 DEF LinkPhase
    <3> QED BY <1>1, <3>1, LinkStays, LinkReceives
  <2> QED BY <2>2, <2>3
<1>7. CASE CheckCrc
  <2>1. /\ pc = "check_crc" /\ receiving /\ UNCHANGED <<receiving, errflag, ret>>
        /\ pc' = IF lqi_ok THEN "packet_handle" ELSE "rx_idle"
    BY <1>t, <1>7 DEF CheckCrc, Way, flags
  <2>2. CASE lqi_ok
    <3>1. LinkPhase \in {"listen", "complete"} /\ LinkPhase' = "complete"
      BY <2>1, <2>2 DEF LinkPhase
    <3> QED BY <1>1, <2>1, <3>1, LinkStays, LinkReceives
  <2>3. CASE ~lqi_ok
    <3>1. LinkPhase = "listen" /\ LinkPhase' = "listen"
      BY <2>1, <2>3 DEF LinkPhase, Complete
    <3> QED BY <1>1, <3>1, LinkStays
  <2> QED BY <2>2, <2>3
<1> QED BY <1>2, <1>3, <1>4, <1>5, <1>6, <1>7

(* packet_process. *)
LEMMA LinkProcess ==
    ASSUME LinkInv, LinkInv', PacketHandle \/ PacketAutoack
    PROVE  LinkStep
<1>t. Way /\ Restarted
  BY LinkParts
<1>1. CASE PacketHandle
  <2>1. /\ pc = "packet_handle" /\ pc' = "packet_autoack" /\ fresh' = FALSE
        /\ lastrx' = lastrx /\ sentf' = sentf
    BY <1>1 DEF PacketHandle
  <2>2. LinkPhase = "complete" /\ LinkPhase' = "handled"
    BY <2>1 DEF LinkPhase
  <2>3. LinkFrame' = LinkFrame
    BY <2>1, <2>2, Taken, TakenThen
  <2>4. Device!Handle
    BY <2>1, <2>2, <2>3 DEF Device!Handle
  <2> QED BY <2>4 DEF LinkStep, Device!Next
<1>2. CASE PacketAutoack
  <2>1. /\ pc = "packet_autoack" /\ ~fresh /\ receiving /\ lastrx' = lastrx /\ sentf' = sentf
        /\ receiving' = receiving
    BY <1>t, <1>2 DEF PacketAutoack, NoStrobe, chipVars, flags, Way, Restarted
  <2>2. LinkPhase = "handled" /\ LinkFrame = lastrx
    <3>1. LinkPhase = "handled"
      BY <2>1 DEF LinkPhase
    <3> QED BY <3>1, Taken
  <2>3. lastrx \in AirFrames /\ Holds(lastrx, Len(lastrx)) /\ Len(lastrx) \in Nat
    BY <2>2, Arrived, Frames
  <2>4. Len(lastrx) >= HEADER => (AckWanted <=> Device!WantsAck(lastrx))
    <3>1. ASSUME Len(lastrx) >= HEADER
          PROVE  pktbuf[1] = lastrx[2] /\ pktbuf[3] = lastrx[4]
      <4>1. pktbuf[2 - 1] = lastrx[2] /\ pktbuf[4 - 1] = lastrx[4]
        BY <2>3, <3>1 DEF Holds, HEADER
      <4> QED BY <4>1
    <3> QED BY <3>1 DEF AckWanted, Device!WantsAck, Device!Broadcast, Broadcast, REQ_ACK
  <2>5. CASE AckWanted
    <3>1. pc' = "build" /\ ret' = "rx_idle"
      BY <1>2, <2>5 DEF PacketAutoack
    <3>2. LinkPhase' = "send"
      BY <3>1 DEF LinkPhase
    <3>3. LinkFrame' = IF Len(lastrx) >= Device!Header THEN Device!Ack(lastrx) ELSE <<>>
      BY <2>1, <3>1, <3>2 DEF LinkFrame, Device!Header, Device!Ack, HEADER, REQ_ACK, ACK
    <3>4. Device!Answer
      BY <2>1, <2>2, <2>4, <2>5, <3>2, <3>3 DEF Device!Answer, Device!Header, HEADER
    <3> QED BY <3>4 DEF LinkStep, Device!Next
  <2>6. CASE ~AckWanted
    <3>1. pc' = "rx_idle"
      BY <1>2, <2>6 DEF PacketAutoack
    <3>2. LinkPhase' = "listen"
      BY <2>1, <3>1 DEF LinkPhase
    <3>3. LinkFrame' = <<>>
      BY <3>2 DEF LinkFrame
    <3>4. Device!Leave
      BY <2>1, <2>2, <2>4, <2>6, <3>2, <3>3 DEF Device!Leave, Device!Header, HEADER
    <3> QED BY <3>4 DEF LinkStep, Device!Next
  <2> QED BY <2>5, <2>6
<1> QED BY <1>1, <1>2

(* radio_tx and radio_rx. *)
LEMMA LinkRadio ==
    ASSUME LinkInv, LinkInv',
           \/ RadioTxIdle \/ RadioTxInit \/ RadioTxStrobe \/ RadioTxWait
           \/ RadioRxIdle \/ RadioRxInit \/ RadioRxStrobe
    PROVE  LinkStep
<1>t. TypeOK /\ Way /\ Sending /\ OnlyHere /\ After /\ Restarted
  BY LinkParts
<1>1. CASE RadioTxIdle \/ RadioTxInit \/ RadioTxStrobe
  <2>1. /\ pc \in {"tx_idle", "tx_init", "tx_strobe"}
        /\ UNCHANGED <<ret, lastrx, sentf>>
    BY <1>1 DEF RadioTxIdle, RadioTxInit, RadioTxStrobe, InitFlags, NoStrobe, chipVars, history
  <2>2. pc' \in {"tx_init", "tx_strobe"} \/ (pc' = "tx_wait" /\ marc' = "FS_TX")
    BY <1>1, <1>t DEF RadioTxIdle, RadioTxInit, RadioTxStrobe, InitFlags, STX,
                      StrobeFromIdle, EnterState, Sending
  <2>3. LinkPhase = "send" /\ LinkPhase' = "send"
    BY <2>1, <2>2 DEF LinkPhase
  <2> QED BY <2>1, <2>3, LinkStays
<1>2. CASE RadioTxWait
  <2>1. /\ pc = "tx_wait" /\ (pkt_complete \/ errflag) /\ Transmission /\ ~receiving
        /\ pc' = ret /\ marc' = marc /\ UNCHANGED <<sentf, receiving>>
    BY <1>t, <1>2 DEF RadioTxWait, Sending, NoStrobe, chipVars, Way, flags
  <2>2. marc = "IDLE"
    BY <1>t, <2>1 DEF Transmission, Starting, Ready, Asked, OnlyHere
  <2>3. pc' \in {"radio_tick", "rx_idle"}
    BY <1>t, <2>1 DEF After
  <2>4. LinkPhase = "delay" /\ LinkPhase' = "delay"
    BY <2>1, <2>2, <2>3 DEF LinkPhase
  <2> QED BY <2>1, <2>4, LinkStays
<1>3. CASE RadioRxIdle
  <2>1. pc = "rx_idle" /\ pc' = "rx_init" /\ sentf' = <<>>
    BY <1>3 DEF RadioRxIdle
  <2>2. LinkPhase' = "listen"
    BY <2>1 DEF LinkPhase
  <2>3. CASE receiving
    <3>1. LinkPhase = "listen" /\ sentf = <<>>
      BY <1>t, <2>1, <2>3 DEF LinkPhase, Restarted
    <3> QED BY <2>1, <2>2, <3>1, LinkStays
  <2>4. CASE ~receiving
    <3>1. LinkPhase = "delay"
      BY <2>1, <2>4 DEF LinkPhase
    <3>2. LinkFrame = <<>> /\ LinkFrame' = <<>>
      BY <2>2, <3>1 DEF LinkFrame
    <3>3. Device!Listen
      BY <2>1, <2>2, <3>1, <3>2 DEF Device!Listen
    <3> QED BY <3>3 DEF LinkStep, Device!Next
  <2> QED BY <2>3, <2>4
<1>4. CASE RadioRxInit \/ RadioRxStrobe
  <2>1. /\ pc \in {"rx_init", "rx_strobe"} /\ UNCHANGED <<fresh, sentf>> /\ receiving'
        /\ pc' \in {"rx_strobe", "console_tick", "radio_tick", "tick_sent", "rx_idle"}
    BY <1>4, <1>t DEF RadioRxInit, RadioRxStrobe, InitFlags, NoStrobe, chipVars, history, flags,
                      Way, TypeOK, DriverTypeOK
  <2>2. ~fresh'
    BY <1>t, <2>1 DEF Restarted
  <2>3. LinkPhase = "listen"
    BY <2>1 DEF LinkPhase
  <2>4. LinkPhase' = "listen"
    BY <2>1, <2>2 DEF LinkPhase, Complete
  <2> QED BY <2>1, <2>3, <2>4, LinkStays
<1> QED BY <1>1, <1>2, <1>3, <1>4

(* The main loop. *)
LEMMA LinkMain ==
    ASSUME LinkInv, LinkInv', Main
    PROVE  LinkStep
<1>1. MainStep
  BY DEF Main
<1>2. CASE ConsoleTick \/ Build \/ RadioTick \/ TickComplete \/ TickSent \/ CheckCrc
  <2>1. UNCHANGED chipVars
    BY <1>2 DEF ConsoleTick, Build, RadioTick, TickComplete, TickSent, CheckCrc, NoStrobe
  <2> QED BY <1>2, <2>1, LinkTick
<1> QED BY <1>1, <1>2, LinkProcess, LinkRadio DEF MainStep

(* One device, taken frame by frame, is Link's: no step of an interrupt
   handler, of the chip or of the main loop loses, repeats or alters a packet,
   whatever the frames and the size of the buffer. *)
THEOREM DriverIsLink ==
    ASSUME UART = FALSE
    PROVE  Spec => Device!Init /\ [][Device!Next]_(Device!linkVars)
<1>1. Init => Device!Init
  <2> SUFFICES ASSUME Init PROVE Device!Init
    OBVIOUS
  <2>1. pc = "rx_idle" /\ ~receiving /\ sentf = <<>>
    BY DEF Init, ChipInit
  <2>2. LinkPhase = "delay"
    BY <2>1 DEF LinkPhase
  <2>3. LinkFrame = <<>>
    BY <2>2 DEF LinkFrame
  <2> QED BY <2>1, <2>2, <2>3 DEF Device!Init
<1>2. LinkInv /\ LinkInv' /\ [Next]_vars => [Device!Next]_(Device!linkVars)
  <2> SUFFICES ASSUME LinkInv, LinkInv', [Next]_vars PROVE LinkStep
    BY DEF LinkStep
  <2>1. CASE EchoStart \/ EchoEnd \/ UNCHANGED vars
    <3>1. UNCHANGED <<chipVars, pktbuf, flags, mainVars>>
      BY <2>1 DEF EchoStart, EchoEnd, vars
    <3>2. UNCHANGED <<LinkPhase, sentf, lastrx, ret>>
      BY <3>1 DEF chipVars, flags, mainVars, LinkPhase, Complete
    <3> QED BY <3>2, LinkStays
  <2> QED BY <2>1, LinkChip, LinkIsr, LinkMain DEF Next
<1>3. Spec => []LinkInv
  BY LinkInductive
<1> QED BY <1>1, <1>2, <1>3, PTL DEF Spec
=============================================================================
