---------------------------- MODULE Uart0Proofs ----------------------------
(***************************************************************************)
(* Proofs about Uart0: its types, and how many characters may be lost, for *)
(* any length of the text, any number of keys and either reading of the    *)
(* data sheet.                                                             *)
(*                                                                         *)
(* uart0_putc writes to U0DBUF before it waits, so a caller is not ahead   *)
(* of the line if it finds nothing to send and no status left over.  Ahead *)
(* counts by how much it is: characters to be sent and a status, less one  *)
(* for each call that waits.  Only one thing moves it up, a handler whose  *)
(* call comes between the main loop's test of TX_BYTE and its clearing of  *)
(* it; a character lost moves it down.                                     *)
(***************************************************************************)
EXTENDS Uart0, FiniteSetTheorems, TLAPS

(* What each caller has written and has still to write. *)
Counted ==
    /\ count["main"] + left["main"] = Text + (IF at["main"] = "out" THEN 0 ELSE 1)
    /\ count["isr"] + left["isr"] <= 3 * keys + (IF at["isr"] = "out" THEN 0 ELSE 1)
    /\ left["isr"] <= 3
    /\ \A c \in Callers : left[c] = 0 => at[c] = "out"

(* U0DBUF holds a character only behind one that is being sent. *)
Queued == shift = None => dbuf = None

(* The handler clears a status that is there. *)
Polled == at["isr"] = "clear" => tx_byte

Bit(b) == IF b THEN 1 ELSE 0

(* By how much the callers are ahead of the line.  The status the main loop
   is about to clear does not count, unless the handler finds it first. *)
Ahead ==
    Bit(shift # None) + Bit(dbuf # None)
    + (IF at["main"] = "clear" /\ ~Handling THEN 0 ELSE Bit(tx_byte))
    - Bit(at["main"] = "wait") - Bit(Handling /\ at["isr"] # "out")

(* A key moves Ahead up only if it meets the main loop at "clear". *)
Paid == Ahead + Cardinality(Lost) <= keys - Bit(Handling /\ at["main"] # "clear")

(***************************************************************************)
(* Types, for any number of keys.                                          *)
(***************************************************************************)
Typed == TypeOK /\ Counted

LEMMA TypedInit == Init => Typed
<1> SUFFICES ASSUME Init PROVE Typed
  OBVIOUS
<1>1. TypeOK
  <2>1. sent \in Seq(Characters) /\ {shift, dbuf} \subseteq Characters \cup {None}
    BY DEF Init
  <2>2. /\ at \in [Callers -> {"out", "wait", "clear"}]
        /\ left \in [Callers -> 0..(Text + 3)]
        /\ count \in [Callers -> 0..(Text + 3 * Keys)]
        /\ keys \in 0..Keys
    BY BoundsAssumption DEF Init, Callers
  <2> QED BY <2>1, <2>2 DEF Init, TypeOK
<1>2. Counted
  BY BoundsAssumption DEF Init, Counted, Callers
<1> QED BY <1>1, <1>2 DEF Typed

(* What is written has a number that Text and Keys allow. *)
LEMMA NextCharacter ==
    ASSUME Typed, NEW c \in Callers, Write(c)
    PROVE  /\ count' \in [Callers -> 0..(Text + 3 * Keys)]
           /\ count'[c] = count[c] + 1
           /\ <<c, count'[c]>> \in Characters \ {None}
<1> USE BoundsAssumption
<1>1. c \in {"main", "isr"} /\ left[c] > 0 /\ at[c] = "out"
  BY DEF Write, Running, Callers
<1>2. count' = [count EXCEPT ![c] = @ + 1] /\ count[c] \in Nat
  BY DEF Write, Typed, TypeOK
<1>3. count[c] < Text + 3 * Keys
  BY <1>1 DEF Typed, TypeOK, Counted, Callers
<1> QED BY <1>2, <1>3 DEF Typed, TypeOK, Characters, None, Callers

LEMMA PutcTyped == ASSUME Typed, NEW c \in Callers, Putc(c) PROVE Typed'
<1> USE BoundsAssumption
<1>1. /\ c \in {"main", "isr"} /\ left[c] > 0
      /\ left["main"] \in Nat /\ left["isr"] \in Nat /\ keys \in Nat
      /\ count["main"] \in Nat /\ count["isr"] \in Nat
  BY DEF Putc, Write, Poll, Clear, Running, Typed, TypeOK, Callers
<1>2. CASE Write(c)
  <2>1. /\ at[c] = "out" /\ at' = [at EXCEPT ![c] = "wait"]
        /\ UNCHANGED <<tx_byte, sent, left, keys>>
    BY <1>2 DEF Write
  <2>2. shift' \in {shift, <<c, count'[c]>>} /\ dbuf' \in {dbuf, <<c, count'[c]>>}
    BY <1>2 DEF Write, Put, Present
  <2>7. taken' \in BOOLEAN
    BY <1>2 DEF Write, Typed, TypeOK
  <2>3. TypeOK'
    BY <1>2, <2>1, <2>2, <2>7, NextCharacter DEF Typed, TypeOK
  <2>4. \A d \in Callers : /\ at'[d] = (IF d = c THEN "wait" ELSE at[d])
                            /\ count'[d] = (IF d = c THEN count[d] + 1 ELSE count[d])
    BY <1>2 DEF Write, Typed, TypeOK
  <2>5. CASE c = "main"
    BY <1>1, <2>1, <2>3, <2>4, <2>5 DEF Typed, Counted, Callers
  <2>6. CASE c = "isr"
    BY <1>1, <2>1, <2>3, <2>4, <2>6 DEF Typed, Counted, Callers
  <2> QED BY <1>1, <2>5, <2>6
<1>3. CASE Poll(c)
  BY <1>1, <1>3 DEF Poll, uart, Typed, TypeOK, Counted, Callers
<1>4. CASE Clear(c)
  <2>1. /\ at' = [at EXCEPT ![c] = "out"] /\ left' = [left EXCEPT ![c] = @ - 1]
        /\ tx_byte' = FALSE /\ UNCHANGED <<shift, dbuf, sent, count, keys>>
    BY <1>4 DEF Clear
  <2>2. \A d \in Callers : /\ at'[d] = (IF d = c THEN "out" ELSE at[d])
                            /\ left'[d] = (IF d = c THEN left[d] - 1 ELSE left[d])
    BY <2>1 DEF Typed, TypeOK
  <2>3. TypeOK'
    <3>1. left' \in [Callers -> 0..(Text + 3)]
      BY <1>1, <2>1 DEF Typed, TypeOK, Callers
    <3>2. at' \in [Callers -> {"out", "wait", "clear"}] /\ tx_byte' \in BOOLEAN
      BY <2>1 DEF Typed, TypeOK
    <3>3. taken' \in BOOLEAN
      BY <1>4 DEF Clear, Typed, TypeOK
    <3> QED BY <2>1, <3>1, <3>2, <3>3 DEF Typed, TypeOK
  <2>4. at[c] = "clear"
    BY <1>4 DEF Clear
  <2>5. CASE c = "main"
    BY <1>1, <2>1, <2>2, <2>3, <2>4, <2>5 DEF Typed, Counted, Callers
  <2>6. CASE c = "isr"
    BY <1>1, <2>1, <2>2, <2>3, <2>4, <2>6 DEF Typed, Counted, Callers
  <2> QED BY <1>1, <2>5, <2>6
<1> QED BY <1>2, <1>3, <1>4 DEF Putc

LEMMA IsrTyped == ASSUME Typed, Uart0Isr PROVE Typed'
<1> USE BoundsAssumption
<1>1. PICK n \in 1..3 : left' = [left EXCEPT !["isr"] = n]
  BY DEF Uart0Isr
<1>2. /\ ~Handling /\ keys < Keys /\ keys' = keys + 1
      /\ UNCHANGED <<shift, dbuf, tx_byte, sent, at, count, taken>>
  BY DEF Uart0Isr, uart
<1>3. left["isr"] = 0 /\ at["isr"] = "out"
  BY <1>2 DEF Typed, TypeOK, Counted, Handling, Callers
<1> QED BY <1>1, <1>2, <1>3 DEF Typed, TypeOK, Counted, Callers

LEMMA TransmitTyped == ASSUME Typed, Transmit PROVE Typed'
<1>1. /\ shift # None /\ shift' = dbuf /\ dbuf' = None /\ sent' = Append(sent, shift)
      /\ UNCHANGED <<at, left, count, keys, taken>>
  BY DEF Transmit
<1>2. tx_byte' \in BOOLEAN
  BY DEF Transmit, Typed, TypeOK
<1> QED BY <1>1, <1>2 DEF Typed, TypeOK, Counted

LEMMA TypedStep == ASSUME Typed, [Next]_vars PROVE Typed'
<1>1. CASE UNCHANGED vars
  BY <1>1 DEF vars, uart, Typed, TypeOK, Counted
<1> QED BY <1>1, PutcTyped, IsrTyped, TransmitTyped DEF Next

(* However many keys are typed, shift and dbuf hold characters that were
   written, and neither caller of uart0_putc writes more than it has. *)
THEOREM UartTyped == Spec => []TypeOK
<1>1. Spec => []Typed
  BY TypedInit, TypedStep, PTL DEF Spec
<1>2. Typed => TypeOK
  BY DEF Typed
<1> QED BY <1>1, <1>2, PTL

(***************************************************************************)
(* How many characters are lost.                                           *)
(***************************************************************************)
UartInv ==
    /\ Typed /\ Queued /\ Polled
    /\ IsFiniteSet(Lost)
    /\ Paid
    /\ LossBounded

LEMMA UartInvInit == Init => UartInv
<1> SUFFICES ASSUME Init PROVE UartInv
  OBVIOUS
<1>1. Lost = {}
  <2>1. \A c \in Callers : 1..count[c] = {}
    BY DEF Init
  <2> QED BY <2>1 DEF Lost, Written
<1>2. IsFiniteSet(Lost) /\ Cardinality(Lost) = 0
  BY <1>1, FS_EmptySet
<1>3. Queued /\ Polled /\ Paid /\ LossBounded
  BY <1>2, BoundsAssumption
     DEF Init, Queued, Polled, Paid, Ahead, Bit, LossBounded, Handling, Callers
<1> QED BY <1>2, <1>3, TypedInit DEF UartInv

(* No more is lost than a step loses. *)
LEMMA NoMoreLost ==
    ASSUME IsFiniteSet(Lost), Lost' \subseteq Lost
    PROVE  /\ IsFiniteSet(Lost')
           /\ Cardinality(Lost) \in Nat /\ Cardinality(Lost') \in Nat
           /\ Cardinality(Lost') <= Cardinality(Lost)
BY FS_Subset, FS_CardinalityType

LEMMA OneMoreLost ==
    ASSUME IsFiniteSet(Lost), NEW ch, Lost' \subseteq Lost \cup {ch}
    PROVE  /\ IsFiniteSet(Lost')
           /\ Cardinality(Lost) \in Nat /\ Cardinality(Lost') \in Nat
           /\ Cardinality(Lost') <= Cardinality(Lost) + 1
<1>1. /\ IsFiniteSet(Lost \cup {ch}) /\ Cardinality(Lost) \in Nat
      /\ Cardinality(Lost \cup {ch}) <= Cardinality(Lost) + 1
  BY FS_AddElement, FS_CardinalityType
<1> QED BY <1>1, FS_Subset, FS_CardinalityType

LEMMA NoneIsNotWritten == None \notin Written
BY DEF None, Written, Callers

(* A step that counts no character and drops none. *)
LEMMA StillThere ==
    ASSUME count' = count, Out \subseteq Out',
           {shift, dbuf} \subseteq Out' \cup {shift', dbuf', None}
    PROVE  Lost' \subseteq Lost
<1>1. Written' = Written
  BY DEF Written
<1> QED BY <1>1, NoneIsNotWritten DEF Lost

(* What a caller writes over, in U0DBUF, is all it can lose. *)
LEMMA WriteLoses ==
    ASSUME UartInv, NEW c \in Callers, Write(c)
    PROVE  /\ Lost' \subseteq Lost \cup {dbuf}
           /\ dbuf = None => Lost' \subseteq Lost
<1>1. /\ count' = [count EXCEPT ![c] = @ + 1] /\ sent' = sent /\ count[c] \in Nat
      /\ count'[c] = count[c] + 1
  BY NextCharacter DEF Write, UartInv, Typed, TypeOK
<1>2. \/ shift = None /\ shift' = <<c, count'[c]>> /\ dbuf' = dbuf
      \/ shift' = shift /\ dbuf' = <<c, count'[c]>>
  BY DEF Write, Put, Present
<1>3. Written' \subseteq Written \cup {<<c, count'[c]>>}
  <2> SUFFICES ASSUME NEW d \in Callers, NEW i \in 1..count'[d]
               PROVE  <<d, i>> \in Written \cup {<<c, count'[c]>>}
    BY DEF Written
  <2>1. i \in 1..count[d] \/ (d = c /\ i = count'[c])
    BY <1>1 DEF UartInv, Typed, TypeOK, Callers
  <2> QED BY <2>1 DEF Written
<1>4. Out' = Out
  BY <1>1 DEF Out
<1>5. Written' \subseteq Written \cup {shift', dbuf'}
  BY <1>2, <1>3
<1> QED BY <1>2, <1>4, <1>5, NoneIsNotWritten DEF Lost

LEMMA WriteStep ==
    ASSUME UartInv, NEW c \in Callers, Write(c)
    PROVE  (Queued /\ Polled /\ Paid /\ LossBounded)' /\ IsFiniteSet(Lost')
<1>1. /\ c \in {"main", "isr"} /\ at[c] = "out" /\ (c = "main" <=> ~Handling)
  BY DEF Write, Running, Handling, Callers, UartInv, Typed, TypeOK
<1>2. /\ at' = [at EXCEPT ![c] = "wait"] /\ left' = left /\ keys' = keys
      /\ tx_byte' = tx_byte /\ tx_byte \in BOOLEAN /\ keys \in Nat
      /\ <<c, count'[c]>> # None
  <2>1. <<c, count'[c]>> # None
    BY NextCharacter DEF UartInv
  <2>2. tx_byte \in BOOLEAN /\ keys \in Nat
    BY BoundsAssumption DEF UartInv, Typed, TypeOK
  <2> QED BY <2>1, <2>2 DEF Write
<1>3. \/ shift = None /\ shift' # None /\ dbuf' = dbuf
      \/ shift # None /\ shift' = shift /\ dbuf' # None
  BY <1>2 DEF Write, Put, Present
<1>4. Queued' /\ Polled'
  BY <1>1, <1>2, <1>3 DEF UartInv, Queued, Polled, Typed, TypeOK, Callers
<1>5. Handling' = Handling /\ at'["main"] = (IF c = "main" THEN "wait" ELSE at["main"])
      /\ at'["isr"] = (IF c = "isr" THEN "wait" ELSE at["isr"])
  BY <1>1, <1>2 DEF Handling, UartInv, Typed, TypeOK, Callers
<1>6. CASE dbuf = None
  <2>1. /\ IsFiniteSet(Lost') /\ Cardinality(Lost) \in Nat /\ Cardinality(Lost') \in Nat
        /\ Cardinality(Lost') <= Cardinality(Lost)
    BY <1>6, WriteLoses, NoMoreLost DEF UartInv
  <2>2. Ahead' = Ahead
    BY <1>1, <1>2, <1>3, <1>5, <1>6 DEF Ahead, Bit
  <2>3. Paid' /\ LossBounded'
    BY <1>1, <1>2, <1>5, <2>1, <2>2 DEF UartInv, Paid, LossBounded, Bit, Ahead
  <2> QED BY <1>4, <2>1, <2>3
<1>7. CASE dbuf # None
  <2>1. /\ IsFiniteSet(Lost') /\ Cardinality(Lost) \in Nat /\ Cardinality(Lost') \in Nat
        /\ Cardinality(Lost') <= Cardinality(Lost) + 1
    BY WriteLoses, OneMoreLost DEF UartInv
  <2>2. shift # None /\ shift' # None /\ dbuf' # None
    BY <1>3, <1>7 DEF UartInv, Queued
  <2>3. Ahead' = Ahead - 1
    BY <1>1, <1>2, <1>5, <1>7, <2>2 DEF Ahead, Bit
  <2>4. Ahead >= 1 /\ (at["main"] # "wait" \/ c = "main" => Ahead >= 2)
    BY <1>1, <1>2, <1>7, <2>2 DEF Ahead, Bit
  <2>5. Paid' /\ LossBounded'
    BY <1>1, <1>2, <1>5, <2>1, <2>3, <2>4 DEF UartInv, Paid, LossBounded, Bit, Ahead
  <2> QED BY <1>4, <2>1, <2>5
<1> QED BY <1>6, <1>7

(* A caller that finds TX_BYTE set goes on to clear it. *)
LEMMA PollStep ==
    ASSUME UartInv, NEW c \in Callers, Poll(c)
    PROVE  (Queued /\ Polled /\ Paid /\ LossBounded)' /\ IsFiniteSet(Lost')
<1>1. c \in {"main", "isr"} /\ at[c] = "wait" /\ tx_byte /\ (c = "main" <=> ~Handling)
  BY DEF Poll, Running, Handling, Callers
<1>2. /\ at' = [at EXCEPT ![c] = "clear"] /\ keys \in Nat
      /\ UNCHANGED <<shift, dbuf, tx_byte, sent, left, count, keys>>
  BY DEF Poll, uart, UartInv, Typed, TypeOK
<1>3. Queued' /\ Polled'
  BY <1>1, <1>2 DEF UartInv, Queued, Polled, Typed, TypeOK, Callers
<1>4. /\ IsFiniteSet(Lost') /\ Cardinality(Lost) \in Nat /\ Cardinality(Lost') \in Nat
      /\ Cardinality(Lost') <= Cardinality(Lost)
  <2>1. Lost' \subseteq Lost
    BY <1>2, StillThere DEF Out
  <2> QED BY <2>1, NoMoreLost DEF UartInv
<1>5. /\ Handling' = Handling
      /\ at'["main"] = (IF c = "main" THEN "clear" ELSE at["main"])
      /\ at'["isr"] = (IF c = "isr" THEN "clear" ELSE at["isr"])
  BY <1>1, <1>2 DEF Handling, UartInv, Typed, TypeOK, Callers
<1>6. Ahead' = Ahead
  BY <1>1, <1>2, <1>5 DEF Ahead, Bit
<1>7. Paid' /\ LossBounded'
  BY <1>1, <1>2, <1>4, <1>5, <1>6 DEF UartInv, Paid, LossBounded, Bit, Ahead
<1> QED BY <1>3, <1>4, <1>7

(* With the status a call goes out of the count. *)
LEMMA ClearStep ==
    ASSUME UartInv, NEW c \in Callers, Clear(c)
    PROVE  (Queued /\ Polled /\ Paid /\ LossBounded)' /\ IsFiniteSet(Lost')
<1>1. /\ c \in {"main", "isr"} /\ at[c] = "clear" /\ (c = "main" <=> ~Handling)
      /\ tx_byte \in BOOLEAN /\ keys \in Nat /\ left["isr"] \in Nat
  BY DEF Clear, Running, Handling, Callers, UartInv, Typed, TypeOK
<1>2. /\ at' = [at EXCEPT ![c] = "out"] /\ left' = [left EXCEPT ![c] = @ - 1]
      /\ tx_byte' = FALSE /\ UNCHANGED <<shift, dbuf, sent, count, keys>>
  BY DEF Clear
<1>5. /\ at'["main"] = (IF c = "main" THEN "out" ELSE at["main"])
      /\ at'["isr"] = (IF c = "isr" THEN "out" ELSE at["isr"])
      /\ left'["isr"] = (IF c = "isr" THEN left["isr"] - 1 ELSE left["isr"])
  BY <1>1, <1>2 DEF UartInv, Typed, TypeOK, Callers
<1>6. at["isr"] = "clear" => c = "isr"
  BY <1>1 DEF Handling, UartInv, Typed, TypeOK, Counted, Callers
<1>3. Queued' /\ Polled'
  BY <1>1, <1>2, <1>5, <1>6 DEF UartInv, Queued, Polled
<1>4. /\ IsFiniteSet(Lost') /\ Cardinality(Lost) \in Nat /\ Cardinality(Lost') \in Nat
      /\ Cardinality(Lost') <= Cardinality(Lost)
  <2>1. Lost' \subseteq Lost
    BY <1>2, StillThere DEF Out
  <2> QED BY <2>1, NoMoreLost DEF UartInv
<1>7. CASE c = "main"
  <2>1. ~Handling' /\ Ahead' = Ahead
    BY <1>1, <1>2, <1>5, <1>7 DEF Ahead, Bit, Handling
  <2> QED BY <1>1, <1>2, <1>3, <1>4, <1>5, <1>7, <2>1 DEF UartInv, Paid, LossBounded, Bit, Ahead
<1>8. CASE c = "isr"
  <2>1. tx_byte
    BY <1>1, <1>8 DEF UartInv, Polled
  <2>2. Ahead' = Ahead /\ (Handling' => Handling)
    BY <1>1, <1>2, <1>5, <1>8, <2>1 DEF Ahead, Bit, Handling
  <2> QED BY <1>1, <1>2, <1>3, <1>4, <1>5, <1>8, <2>2 DEF UartInv, Paid, LossBounded, Bit, Ahead
<1> QED BY <1>1, <1>7, <1>8

(* A key. *)
LEMMA IsrStep ==
    ASSUME UartInv, Uart0Isr
    PROVE  (Queued /\ Polled /\ Paid /\ LossBounded)' /\ IsFiniteSet(Lost')
<1>1. /\ keys' = keys + 1 /\ ~Handling /\ keys \in Nat /\ tx_byte \in BOOLEAN
      /\ UNCHANGED <<shift, dbuf, tx_byte, sent, at, count>>
  BY DEF Uart0Isr, uart, UartInv, Typed, TypeOK
<1>2. PICK n \in 1..3 : left' = [left EXCEPT !["isr"] = n]
  BY DEF Uart0Isr
<1>3. Handling' /\ at["isr"] = "out"
  BY <1>1, <1>2 DEF Handling, UartInv, Typed, TypeOK, Counted, Callers
<1>4. /\ IsFiniteSet(Lost') /\ Cardinality(Lost) \in Nat /\ Cardinality(Lost') \in Nat
      /\ Cardinality(Lost') <= Cardinality(Lost)
  <2>1. Lost' \subseteq Lost
    BY <1>1, StillThere DEF Out
  <2> QED BY <2>1, NoMoreLost DEF UartInv
<1>5. Ahead' <= Ahead + Bit(at["main"] = "clear")
  BY <1>1, <1>3 DEF Ahead, Bit
<1>6. Ahead \in Int /\ Ahead' \in Int
  BY <1>1, <1>3 DEF Ahead, Bit
<1>7. Paid' /\ LossBounded'
  BY <1>1, <1>3, <1>4, <1>5, <1>6 DEF UartInv, Paid, LossBounded, Bit
<1> QED BY <1>1, <1>4, <1>7 DEF UartInv, Queued, Polled

(* What is sent goes out of the count; the status may come in for it. *)
LEMMA TransmitStep ==
    ASSUME UartInv, Transmit
    PROVE  (Queued /\ Polled /\ Paid /\ LossBounded)' /\ IsFiniteSet(Lost')
<1>1. /\ shift # None /\ shift' = dbuf /\ dbuf' = None /\ sent' = Append(sent, shift)
      /\ tx_byte' \in BOOLEAN /\ (tx_byte => tx_byte') /\ tx_byte \in BOOLEAN /\ keys \in Nat
      /\ UNCHANGED <<at, left, count, keys>>
  <2>1. tx_byte \in BOOLEAN /\ keys \in Nat
    BY BoundsAssumption DEF UartInv, Typed, TypeOK
  <2>2. /\ shift # None /\ shift' = dbuf /\ dbuf' = None /\ sent' = Append(sent, shift)
        /\ UNCHANGED <<at, left, count, keys>>
    BY DEF Transmit
  <2>3. tx_byte' = TRUE \/ tx_byte' = tx_byte
    BY DEF Transmit
  <2> QED BY <2>1, <2>2, <2>3
<1>2. Queued' /\ Polled'
  BY <1>1 DEF UartInv, Queued, Polled
<1>3. Lost' \subseteq Lost
  <2>1. /\ Len(sent') = Len(sent) + 1 /\ Len(sent) \in Nat
        /\ DOMAIN sent = 1..Len(sent) /\ DOMAIN sent' = 1..Len(sent')
        /\ sent'[Len(sent) + 1] = shift /\ \A i \in 1..Len(sent) : sent'[i] = sent[i]
    <3>1. sent \in Seq(Characters) /\ shift \in Characters
      BY <1>1 DEF UartInv, Typed, TypeOK
    <3> QED BY <1>1, <3>1
  <2>2. Out \subseteq Out'
    BY <2>1 DEF Out
  <2>3. shift \in Out'
    BY <2>1 DEF Out
  <2> QED BY <1>1, <2>2, <2>3, StillThere
<1>4. /\ IsFiniteSet(Lost') /\ Cardinality(Lost) \in Nat /\ Cardinality(Lost') \in Nat
      /\ Cardinality(Lost') <= Cardinality(Lost)
  BY <1>3, NoMoreLost DEF UartInv
<1>5. Ahead' <= Ahead /\ Ahead \in Int /\ Ahead' \in Int
  BY <1>1 DEF Ahead, Bit, Handling
<1>6. Paid' /\ LossBounded'
  BY <1>1, <1>4, <1>5 DEF UartInv, Paid, LossBounded, Bit, Handling
<1> QED BY <1>2, <1>4, <1>6

LEMMA UartInvStep == ASSUME UartInv, [Next]_vars PROVE UartInv'
<1>1. Typed'
  BY TypedStep DEF UartInv
<1>2. CASE UNCHANGED vars
  <2>1. UNCHANGED <<shift, dbuf, tx_byte, sent, at, left, count, keys>>
    BY <1>2 DEF vars, uart
  <2>2. Lost' = Lost
    BY <2>1 DEF Lost, Written, Out
  <2> QED BY <1>1, <2>1, <2>2
          DEF UartInv, Queued, Polled, Paid, Ahead, Handling, LossBounded
<1>3. ASSUME NEW c \in Callers, Putc(c) PROVE UartInv'
  BY <1>1, <1>3, WriteStep, PollStep, ClearStep DEF Putc, UartInv
<1> QED BY <1>1, <1>2, <1>3, IsrStep, TransmitStep DEF Next, UartInv

(* However many keys are typed and however they fall between the stores of
   uart0_putc, what is overwritten in U0DBUF is at most one character for
   each key but the first; with one key the text and the echo come out
   whole. *)
THEOREM LossIsBounded == Spec => []LossBounded
<1>1. Spec => []UartInv
  BY UartInvInit, UartInvStep, PTL DEF Spec
<1>2. UartInv => LossBounded
  BY DEF UartInv
<1> QED BY <1>1, <1>2, PTL
=============================================================================
