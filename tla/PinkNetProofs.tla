---------------------------- MODULE PinkNetProofs ----------------------------
(***************************************************************************)
(* Theorems about PinkNet, for every set of devices and consoles, any      *)
(* number of commands, and whatever is stored over a packet.  Requests and *)
(* acknowledgements are counted on their way: a device has one buffer, so  *)
(* it holds at most one of either.                                         *)
(***************************************************************************)
EXTENDS PinkNet, FiniteSetTheorems, TLAPS

(* f is a request of a to b alone. *)
IsReq(f, a, b) == f.src = a /\ f.dst = b /\ f.req

One(p) == IF p THEN 1 ELSE 0

(* Requests of a to b between Command and Handle. *)
Going(a, b) ==
    One(phase[a] = "send" /\ IsReq(pktbuf[a], a, b))
    + One(phase[b] = "complete" /\ IsReq(pktbuf[b], a, b))

(* Acknowledgements of b to a between Handle and Handle. *)
Coming(a, b) ==
    One(phase[b] = "handled" /\ IsReq(pktbuf[b], a, b))
    + One(phase[b] = "answer" /\ pktbuf[b].dst = a)
    + One(phase[a] = "complete" /\ pktbuf[a].type = "ACK" /\ pktbuf[a].src = b)

(* A device sends what it made itself if nothing was stored over it, and
   works on what is for it. *)
Places ==
    \A n \in Nodes :
        /\ phase[n] \in {"send", "answer"} => pktbuf[n].src = n /\ pktbuf[n].len >= HEADER
        /\ phase[n] = "send" => pktbuf[n].type \in {"LED", "GFXINIT", "GFXPLOTLINE"} \cup TxTypes
        /\ phase[n] = "answer" => pktbuf[n].dst \in Nodes /\ ~pktbuf[n].req
        /\ phase[n] \in {"complete", "handled"} => pktbuf[n].dst \in {n, BROADCAST}

(* Every packet that was sent overwritten was commanded. *)
Busy == {n \in Nodes : phase[n] \in {"send", "spoilt"}}

Made == garbled + Cardinality(Busy) <= entered

Counted ==
    \A a, b \in Nodes :
        /\ asked[a][b] <= entered
        /\ answered[a][b] + Going(a, b) <= asked[a][b] + garbled
        /\ acked[a][b] + Coming(a, b) <= answered[a][b] + garbled

(* f is the command that makes b's led what a wants. *)
Good(f, a, b) == /\ f.type = "LED" /\ f.len = HEADER + 1
                 /\ want[a][b] = (IF f.arg THEN "on" ELSE "off")

(* Requests of a to b on their way that do not. *)
Stray(a, b) ==
    One(phase[a] = "send" /\ IsReq(pktbuf[a], a, b) /\ ~Good(pktbuf[a], a, b))
    + One(phase[b] = "complete" /\ IsReq(pktbuf[b], a, b) /\ ~Good(pktbuf[b], a, b))

(* b is about to set its led to what a wanted before. *)
Outdated(a, b) ==
    /\ phase[b] = "complete" /\ IsReq(pktbuf[b], a, b)
    /\ pktbuf[b].type = "LED" /\ ~Good(pktbuf[b], a, b)

(* As long as b's led is not what a wants, or will not stay so, a request of a
   is missing: it was lost, or it is the good one on its way. *)
LedPair(a, b) ==
    want[a][b] # "any" =>
        /\ phase[a] = "send" /\ IsReq(pktbuf[a], a, b) /\ pktbuf[a].type = "LED"
               => Good(pktbuf[a], a, b)
        /\ led[b] # (want[a][b] = "on") \/ Outdated(a, b)
               => answered[a][b] + Stray(a, b) < asked[a][b]

LedInv == garbled = 0 => \A a, b \in Nodes : LedPair(a, b)

NetInv == TypeOK /\ Places /\ Made /\ Counted /\ LedInv

---------------------------------------------------------------------------
(* Types *)

(* What the commands send are frames, and never acknowledgements if tx is
   not used for them. *)
LEMMA CommandFrames ==
    ASSUME NEW n \in Nodes, NEW dst \in Nodes \cup {BROADCAST}, NEW f \in Commands(n, dst)
    PROVE  /\ f \in Frames
           /\ f.src = n /\ f.dst = dst /\ f.len >= HEADER
           /\ f.type \in {"LED", "GFXINIT", "GFXPLOTLINE"} \cup TxTypes
<1>1. PICK req \in BOOLEAN, type \in Types, arg \in BOOLEAN :
          /\ \/ f = Built(n, dst, req, type, arg)
             \/ f = BuiltEmpty(n, dst, req, type)
          /\ type \in {"LED", "GFXINIT", "GFXPLOTLINE"} \cup TxTypes
  <2>1. CASE f \in {Built(n, dst, TRUE, "LED", on) : on \in BOOLEAN}
    BY <2>1 DEF Types
  <2>2. CASE f \in {BuiltEmpty(n, dst, TRUE, "GFXINIT"), Built(n, dst, FALSE, "GFXPLOTLINE", FALSE)}
    BY <2>2 DEF Types
  <2>3. CASE f \in UNION {TxCommands(n, dst, type) : type \in TxTypes}
    <3>t. PICK type \in TxTypes : f \in TxCommands(n, dst, type)
      BY <2>3
    <3>1. PICK req \in BOOLEAN :
              f \in {Built(n, dst, req, type, TRUE), BuiltEmpty(n, dst, req, type)}
      BY <3>t DEF TxCommands
    <3>2. type \in Types
      BY TypesAssumption
    <3> QED BY <3>1, <3>2
  <2> QED BY <2>1, <2>2, <2>3 DEF Commands
<1>2. \E len \in {HEADER, HEADER + 1}, x \in BOOLEAN :
          f = [len |-> len, dst |-> dst, src |-> n, req |-> req, type |-> type, arg |-> x]
  <2>1. CASE f = Built(n, dst, req, type, arg)
    BY <2>1 DEF Built
  <2>2. CASE f = BuiltEmpty(n, dst, req, type)
    <3>1. f = [len |-> HEADER, dst |-> dst, src |-> n, req |-> req, type |-> type, arg |-> FALSE]
      BY <2>2 DEF Built, BuiltEmpty
    <3> QED BY <3>1
  <2> QED BY <1>1, <2>1, <2>2
<1> QED BY <1>1, <1>2 DEF Frames, HEADER

LEMMA AckFrame ==
    ASSUME TypeOK, NEW n \in Nodes
    PROVE  /\ Ack(n) \in Frames
           /\ Ack(n).src = n /\ Ack(n).dst = pktbuf[n].src /\ Ack(n).len = HEADER
           /\ Ack(n).type = "ACK" /\ Ack(n).req = FALSE
<1> DEFINE f == pktbuf[n]
<1>1. f \in Frames
  BY DEF TypeOK
<1>2. f.src \in Nodes /\ f.arg \in BOOLEAN
  BY <1>1 DEF Frames
<1>3. Ack(n) = [len |-> HEADER, dst |-> f.src, src |-> n, req |-> FALSE, type |-> "ACK",
                arg |-> f.arg]
  <2>1. Ack(n) = [f EXCEPT !.dst = f.src, !.src = n, !.req = FALSE, !.type = "ACK",
                         !.len = HEADER]
    BY DEF Ack
  <2>2. f = [len |-> f.len, dst |-> f.dst, src |-> f.src, req |-> f.req, type |-> f.type,
             arg |-> f.arg]
    BY <1>1 DEF Frames
  <2> HIDE DEF f
  <2> QED BY <2>1, <2>2
<1> HIDE DEF f
<1>4. Ack(n) \in Frames
  BY <1>2, <1>3 DEF Frames, HEADER, Types
<1>5. /\ Ack(n).src = n /\ Ack(n).dst = f.src /\ Ack(n).len = HEADER
      /\ Ack(n).type = "ACK" /\ Ack(n).req = FALSE
  BY <1>3
<1> QED BY <1>4, <1>5 DEF f

(* What is received agrees with what was sent, as far as that goes. *)
LEMMA ReceivedFrame ==
    ASSUME NEW f \in Frames, NEW g \in Received(f)
    PROVE  /\ g \in Frames
           /\ g.len = f.len /\ g.dst = f.dst
           /\ f.len >= HEADER => g.src = f.src /\ g.req = f.req /\ g.type = f.type
           /\ f.len = HEADER + 1 => g.arg = f.arg
<1>1. /\ f.len \in 0..(HEADER + 1) /\ f.dst \in Nodes \cup {BROADCAST} /\ f.src \in Nodes
      /\ f.req \in BOOLEAN /\ f.type \in Types /\ f.arg \in BOOLEAN
  BY DEF Frames
<1>2. /\ Known(f.len >= 2, f.src, Nodes) \subseteq Nodes
      /\ Known(f.len >= 3, f.req, BOOLEAN) \subseteq BOOLEAN
      /\ Known(f.len >= 4, f.type, Types) \subseteq Types
      /\ Known(f.len >= 5, f.arg, BOOLEAN) \subseteq BOOLEAN
  BY <1>1 DEF Known
<1>3. g \in Frames /\ g.len = f.len /\ g.dst = f.dst
  BY <1>1, <1>2 DEF Received, Frames
<1>4. f.len >= HEADER => g.src = f.src /\ g.req = f.req /\ g.type = f.type
  BY <1>1 DEF Received, Known, HEADER
<1>5. f.len = HEADER + 1 => g.arg = f.arg
  BY <1>1 DEF Received, Known, HEADER
<1> QED BY <1>3, <1>4, <1>5

(* What Command does with the packet it makes. *)
Commanded(n, f) ==
    /\ f.src = n /\ f.len >= HEADER
    /\ f.type \in {"LED", "GFXINIT", "GFXPLOTLINE"} \cup TxTypes
    /\ pktbuf' = [pktbuf EXCEPT ![n] = f]
    /\ asked' = IF f.req /\ f.dst # BROADCAST THEN Plus(asked, n, f.dst) ELSE asked
    /\ want' = Wanted(f)

LEMMA CommandStep ==
    ASSUME NEW n \in Console, Command(n)
    PROVE  \E f \in Frames : Commanded(n, f)
<1>1. PICK dst \in Nodes \cup {BROADCAST} : \E f \in Commands(n, dst) :
        /\ pktbuf' = [pktbuf EXCEPT ![n] = f]
        /\ asked' = IF f.req /\ dst # BROADCAST THEN Plus(asked, n, dst) ELSE asked
        /\ want' = Wanted(f)
  BY DEF Command
<1>2. n \in Nodes
  BY NodesAssumption
<1>3. PICK f \in Commands(n, dst) :
        /\ pktbuf' = [pktbuf EXCEPT ![n] = f]
        /\ asked' = IF f.req /\ dst # BROADCAST THEN Plus(asked, n, dst) ELSE asked
        /\ want' = Wanted(f)
  BY <1>1
<1>4. /\ f \in Frames /\ f.src = n /\ f.dst = dst /\ f.len >= HEADER
      /\ f.type \in {"LED", "GFXINIT", "GFXPLOTLINE"} \cup TxTypes
  BY <1>2, CommandFrames
<1> QED BY <1>3, <1>4 DEF Commanded

(* What Sent does: S has the frame, and n is at rest. *)
Delivered(n, S) ==
    /\ \A m \in S : /\ m \in Nodes \ {n} /\ phase[m] = "listen" /\ phase'[m] = "complete"
                    /\ pktbuf[n].dst \in {m, BROADCAST}
                    /\ pktbuf'[m] \in Received(pktbuf[n])
    /\ \A m \in Nodes \ S : pktbuf'[m] = pktbuf[m]
    /\ \A m \in Nodes \ (S \cup {n}) : phase'[m] = phase[m]
    /\ phase[n] \in OnAir /\ phase'[n] \in {"listen", "delay"}

LEMMA SentStep ==
    ASSUME NEW n \in Nodes, Sent(n)
    PROVE  /\ \E S \in SUBSET Nodes : Delivered(n, S)
           /\ pktbuf' = [m \in Nodes |-> pktbuf'[m]] /\ phase' = [m \in Nodes |-> phase'[m]]
<1>1. PICK S \in SUBSET Listeners(n) : \E got \in [S -> Received(pktbuf[n])] :
        /\ pktbuf' = [m \in Nodes |-> IF m \in S THEN got[m] ELSE pktbuf[m]]
        /\ phase' = [m \in Nodes |->
               IF m \in S THEN "complete"
               ELSE IF m # n THEN phase[m]
               ELSE IF phase[n] = "answer" THEN "listen" ELSE "delay"]
  BY DEF Sent
<1>2. PICK got \in [S -> Received(pktbuf[n])] :
        /\ pktbuf' = [m \in Nodes |-> IF m \in S THEN got[m] ELSE pktbuf[m]]
        /\ phase' = [m \in Nodes |->
               IF m \in S THEN "complete"
               ELSE IF m # n THEN phase[m]
               ELSE IF phase[n] = "answer" THEN "listen" ELSE "delay"]
  BY <1>1
<1>3. \A m \in S : /\ m \in Nodes \ {n} /\ phase[m] = "listen"
                   /\ pktbuf[n].dst \in {m, BROADCAST}
  BY DEF Listeners
<1>4. \A m \in S : got[m] \in Received(pktbuf[n])
  OBVIOUS
<1>5. Delivered(n, S)
  BY <1>2, <1>3, <1>4 DEF Delivered, Sent
<1>6. S \in SUBSET Nodes
  BY <1>3
<1>7. pktbuf' = [m \in Nodes |-> pktbuf'[m]] /\ phase' = [m \in Nodes |-> phase'[m]]
  BY <1>2
<1> QED BY <1>5, <1>6, <1>7

LEMMA PlusType ==
    ASSUME NEW c \in Counts, NEW a \in Nodes, NEW b \in Nodes
    PROVE  Plus(c, a, b) \in Counts
BY CommandsAssumption DEF Plus, Counts

LEMMA PlusOne ==
    ASSUME NEW c \in Counts, NEW a \in Nodes, NEW b \in Nodes, c[a][b] <= 3 * MaxCommands
    PROVE  \A x, y \in Nodes :
               Plus(c, a, b)[x][y] = IF x = a /\ y = b THEN c[x][y] + 1 ELSE c[x][y]
BY CommandsAssumption DEF Plus, Counts

LEMMA TypeInit == Init => TypeOK
<1> SUFFICES ASSUME Init PROVE TypeOK
  OBVIOUS
<1>1. Zero \in Counts
  BY CommandsAssumption DEF Zero, Counts
<1>2. \A n \in Nodes : [len |-> 0, dst |-> BROADCAST, src |-> n, req |-> FALSE,
                        type |-> "ACK", arg |-> FALSE] \in Frames
  BY DEF Frames, Types, HEADER
<1>3. pktbuf \in [Nodes -> Frames]
  BY <1>2 DEF Init
<1> QED BY <1>1, <1>3, CommandsAssumption DEF Init, TypeOK, Phases, Wants

LEMMA TypeStep == TypeOK /\ [Next]_vars => TypeOK'
<1> SUFFICES ASSUME TypeOK, [Next]_vars PROVE TypeOK'
  OBVIOUS
<1>1. ASSUME NEW n \in Console, Command(n) PROVE TypeOK'
  <2>n. n \in Nodes
    BY NodesAssumption
  <2>2. PICK f \in Frames : Commanded(n, f)
    BY <1>1, CommandStep
  <2>4. pktbuf' \in [Nodes -> Frames]
    BY <2>2 DEF Commanded, TypeOK
  <2>5. asked' \in Counts
    BY <2>n, <2>2, PlusType DEF Commanded, Frames, TypeOK
  <2>6. want' \in [Nodes -> [Nodes -> Wants]]
    <3>1. f.src \in Nodes
      BY <2>2 DEF Frames
    <3>2. \A b \in Nodes : want[f.src][b] \in Wants
      BY <3>1 DEF TypeOK
    <3>3. [b \in Nodes |-> IF f.type # "LED" \/ f.dst \notin {b, BROADCAST} THEN want[f.src][b]
                          ELSE IF f.dst = BROADCAST \/ ~f.req \/ f.len = HEADER THEN "any"
                          ELSE IF f.arg THEN "on" ELSE "off"] \in [Nodes -> Wants]
      BY <3>2 DEF Wants
    <3> QED BY <2>2, <3>1, <3>3 DEF Commanded, Wanted, TypeOK
  <2>7. phase' \in [Nodes -> Phases]
    BY <1>1 DEF Command, TypeOK, Phases
  <2>8. entered' \in 0..MaxCommands
    BY <1>1, CommandsAssumption DEF Command, TypeOK
  <2> QED BY <1>1, <2>4, <2>5, <2>6, <2>7, <2>8 DEF Command, TypeOK
<1>2. ASSUME NEW n \in Nodes, Sent(n) PROVE TypeOK'
  <2>1. PICK S \in SUBSET Nodes : Delivered(n, S)
    BY <1>2, SentStep
  <2>2. \A m \in Nodes : pktbuf'[m] \in Frames
    BY <2>1, ReceivedFrame DEF Delivered, TypeOK
  <2>3. \A m \in Nodes : phase'[m] \in Phases
    BY <2>1 DEF Delivered, TypeOK, Phases
  <2>4. pktbuf' \in [Nodes -> Frames] /\ phase' \in [Nodes -> Phases]
    BY <1>2, <2>2, <2>3, SentStep
  <2>5. garbled' \in Nat
    BY <1>2 DEF Sent, TypeOK
  <2> QED BY <1>2, <2>4, <2>5 DEF Sent, TypeOK
<1>3. ASSUME NEW n \in Nodes, Delay(n) PROVE TypeOK'
  BY <1>3 DEF Delay, history, TypeOK, Phases
<1>4. ASSUME NEW n \in Nodes, Handle(n) PROVE TypeOK'
  <2> DEFINE f == pktbuf[n]
  <2>1. f \in Frames
    BY DEF TypeOK
  <2>2. f.src \in Nodes /\ f.arg \in BOOLEAN
    BY <2>1 DEF Frames
  <2>3. phase' \in [Nodes -> Phases]
    BY <1>4 DEF Handle, TypeOK, Phases
  <2>4. led' \in [Nodes -> BOOLEAN] /\ graphics' \in [Nodes -> BOOLEAN]
    BY <1>4, <2>2 DEF Handle, TypeOK
  <2>5. answered' \in Counts /\ acked' \in Counts
    BY <1>4, <2>2, PlusType DEF Handle, TypeOK
  <2>7. want' \in [Nodes -> [Nodes -> Wants]]
    BY <1>4, <2>2 DEF Handle, TypeOK, Wants
  <2> QED BY <1>4, <2>3, <2>4, <2>5, <2>7 DEF Handle, TypeOK
<1>5. ASSUME NEW n \in Nodes, Autoack(n) PROVE TypeOK'
  <2>1. phase' \in [Nodes -> Phases]
    BY <1>5 DEF Autoack, TypeOK, Phases
  <2>2. pktbuf' \in [Nodes -> Frames]
    BY <1>5, AckFrame DEF Autoack, TypeOK
  <2> QED BY <1>5, <2>1, <2>2 DEF Autoack, history, TypeOK
<1>6. ASSUME NEW n \in Nodes, Overwrite(n) PROVE TypeOK'
  <2>1. phase' \in [Nodes -> Phases]
    BY <1>6 DEF Overwrite, TypeOK, Phases
  <2>2. pktbuf' \in [Nodes -> Frames]
    BY <1>6, OverwrittenAssumption DEF Overwrite, TypeOK
  <2> QED BY <1>6, <2>1, <2>2 DEF Overwrite, history, TypeOK
<1>7. CASE UNCHANGED vars
  BY <1>7 DEF vars, history, TypeOK
<1> QED BY <1>1, <1>2, <1>3, <1>4, <1>5, <1>6, <1>7 DEF Next, Main, Idle

---------------------------------------------------------------------------
(* Where a packet is *)

LEMMA PlacesStep ==
    ASSUME TypeOK, Places, [Next]_vars
    PROVE  Places'
<1>1. ASSUME NEW n \in Console, Command(n) PROVE Places'
  <2>1. PICK f \in Frames : Commanded(n, f)
    BY <1>1, CommandStep
  <2>2. n \in Nodes /\ phase' = [phase EXCEPT ![n] = "send"]
    BY <1>1, NodesAssumption DEF Command
  <2> QED BY <2>1, <2>2 DEF Commanded, Places, TypeOK
<1>2. ASSUME NEW n \in Nodes, Sent(n) PROVE Places'
  <2>1. PICK S \in SUBSET Nodes : Delivered(n, S)
    BY <1>2, SentStep
  <2>2. \A m \in S : pktbuf'[m].dst \in {m, BROADCAST}
    <3>1. pktbuf[n] \in Frames
      BY DEF TypeOK
    <3> QED BY <2>1, <3>1, ReceivedFrame DEF Delivered
  <2> QED BY <2>1, <2>2 DEF Delivered, Places
<1>3. ASSUME NEW n \in Nodes, Delay(n) \/ Handle(n) PROVE Places'
  BY <1>3 DEF Delay, Handle, Places, TypeOK
<1>4. ASSUME NEW n \in Nodes, Autoack(n) PROVE Places'
  <2>1. CASE WantsAck(pktbuf[n])
    <3>1. pktbuf' = [pktbuf EXCEPT ![n] = Ack(n)] /\ phase' = [phase EXCEPT ![n] = "answer"]
      BY <1>4, <2>1 DEF Autoack
    <3>2. pktbuf[n].src \in Nodes
      BY DEF TypeOK, Frames
    <3>h. HEADER >= HEADER
      BY DEF HEADER
    <3>3. /\ Ack(n).src = n /\ Ack(n).len >= HEADER
          /\ Ack(n).dst \in Nodes /\ Ack(n).req = FALSE
      BY <3>2, <3>h, AckFrame
    <3>4. /\ phase'[n] = "answer" /\ pktbuf'[n] = Ack(n)
          /\ \A m \in Nodes \ {n} : phase'[m] = phase[m] /\ pktbuf'[m] = pktbuf[m]
      BY <3>1 DEF TypeOK
    <3> HIDE DEF Ack
    <3> QED BY <3>3, <3>4 DEF Places
  <2>2. CASE ~WantsAck(pktbuf[n])
    BY <1>4, <2>2 DEF Autoack, Places, TypeOK
  <2> QED BY <2>1, <2>2
<1>5. ASSUME NEW n \in Nodes, Overwrite(n) PROVE Places'
  <2>1. /\ phase' = [phase EXCEPT ![n] = "spoilt"]
        /\ \A m \in Nodes \ {n} : pktbuf'[m] = pktbuf[m]
    BY <1>5 DEF Overwrite, TypeOK
  <2> QED BY <2>1 DEF Places, TypeOK
<1>6. CASE UNCHANGED vars
  BY <1>6 DEF vars, Places
<1> QED BY <1>1, <1>2, <1>3, <1>4, <1>5, <1>6 DEF Next, Main, Idle

LEMMA MadeStep ==
    ASSUME TypeOK, Made, [Next]_vars
    PROVE  Made'
<1>b. /\ IsFiniteSet(Busy) /\ Cardinality(Busy) \in Nat
      /\ entered \in Nat /\ garbled \in Nat
  <2>1. IsFiniteSet(Busy)
    BY NodesAssumption, FS_Subset DEF Busy
  <2> QED BY <2>1, FS_CardinalityType, CommandsAssumption DEF TypeOK
<1>1. ASSUME NEW n \in Console, Command(n) PROVE Made'
  <2>1. n \in Nodes
    BY NodesAssumption
  <2>2. n \notin Busy /\ Busy' = Busy \cup {n}
    BY <1>1, <2>1 DEF Command, Busy, TypeOK
  <2>3. Cardinality(Busy') = Cardinality(Busy) + 1
    BY <1>b, <2>2, FS_AddElement
  <2>4. entered' = entered + 1 /\ garbled' = garbled
    BY <1>1 DEF Command
  <2> QED BY <1>b, <2>3, <2>4 DEF Made
<1>2. ASSUME NEW n \in Nodes, Sent(n) PROVE Made'
  <2>1. PICK S \in SUBSET Nodes : Delivered(n, S)
    BY <1>2, SentStep
  <2>2. Busy' = Busy \ {n}
    BY <2>1 DEF Delivered, Busy
  <2>3. entered' = entered
    BY <1>2 DEF Sent
  <2>4. CASE n \in Busy
    <3>1. Cardinality(Busy') = Cardinality(Busy) - 1
      BY <1>b, <2>2, <2>4, FS_RemoveElement
    <3>2. garbled' <= garbled + 1 /\ garbled' \in Nat
      BY <1>b, <1>2 DEF Sent
    <3> QED BY <1>b, <2>3, <3>1, <3>2 DEF Made
  <2>5. CASE n \notin Busy
    <3>1. Busy' = Busy /\ garbled' = garbled
      BY <1>2, <2>2, <2>5 DEF Sent, Busy
    <3> QED BY <2>3, <3>1 DEF Made
  <2> QED BY <2>4, <2>5
<1>3. ASSUME NEW n \in Nodes, Delay(n) \/ Handle(n) \/ Autoack(n) \/ Overwrite(n) PROVE Made'
  <2>1. UNCHANGED <<entered, garbled>>
    BY <1>3 DEF Delay, Handle, Autoack, Overwrite, history
  <2>2. \A m \in Nodes : phase'[m] \in {"send", "spoilt"} <=> phase[m] \in {"send", "spoilt"}
    BY <1>3 DEF Delay, Handle, Autoack, Overwrite, TypeOK
  <2>3. Busy' = Busy
    BY <2>2 DEF Busy
  <2> QED BY <2>1, <2>3 DEF Made
<1>4. CASE UNCHANGED vars
  BY <1>4 DEF vars, history, Made, Busy
<1> QED BY <1>1, <1>2, <1>3, <1>4 DEF Next, Main, Idle

(* So the cap of Plus is out of reach. *)
LEMMA Small ==
    ASSUME TypeOK, Made, Counted
    PROVE  /\ entered \in Nat /\ entered <= MaxCommands
           /\ garbled \in Nat /\ garbled <= MaxCommands
           /\ \A a, b \in Nodes :
                 /\ asked[a][b] \in Nat /\ asked[a][b] <= MaxCommands
                 /\ answered[a][b] \in Nat /\ answered[a][b] <= 2 * MaxCommands
                 /\ acked[a][b] \in Nat /\ acked[a][b] <= 3 * MaxCommands
<1>1. entered \in Nat /\ entered <= MaxCommands /\ garbled \in Nat
  BY CommandsAssumption DEF TypeOK
<1>2. garbled <= MaxCommands
  <2>1. IsFiniteSet(Busy)
    BY NodesAssumption, FS_Subset DEF Busy
  <2>2. Cardinality(Busy) \in Nat
    BY <2>1, FS_CardinalityType
  <2> QED BY <1>1, <2>2, CommandsAssumption DEF Made
<1>3. ASSUME NEW a \in Nodes, NEW b \in Nodes
      PROVE  /\ asked[a][b] \in Nat /\ asked[a][b] <= MaxCommands
             /\ answered[a][b] \in Nat /\ answered[a][b] <= 2 * MaxCommands
             /\ acked[a][b] \in Nat /\ acked[a][b] <= 3 * MaxCommands
  <2>1. asked[a][b] \in Nat /\ answered[a][b] \in Nat /\ acked[a][b] \in Nat
    BY CommandsAssumption DEF TypeOK, Counts
  <2>2. Going(a, b) \in Nat /\ Coming(a, b) \in Nat
    BY DEF Going, Coming, One
  <2> QED BY <1>1, <1>2, <2>1, <2>2, CommandsAssumption DEF Counted
<1> QED BY <1>1, <1>2, <1>3

---------------------------------------------------------------------------
(* Acknowledgements *)

(* A command counts as one request if it is one. *)
LEMMA CommandAsks ==
    ASSUME TypeOK, Made, Counted,
           NEW n \in Nodes, NEW f \in Frames, Commanded(n, f)
    PROVE  \A x, y \in Nodes : asked'[x][y] = IF x = n /\ y = f.dst /\ f.req THEN asked[x][y] + 1
                                                                     ELSE asked[x][y]
<1>1. CASE f.req /\ f.dst # BROADCAST
  <2>1. f.dst \in Nodes
    BY <1>1 DEF Frames
  <2>2. asked \in Counts /\ asked[n][f.dst] \in Nat /\ asked[n][f.dst] <= MaxCommands
    BY <2>1, Small DEF TypeOK
  <2>3. asked[n][f.dst] <= 3 * MaxCommands
    BY <2>2, CommandsAssumption
  <2> QED BY <1>1, <2>1, <2>2, <2>3, PlusOne DEF Commanded
<1>2. CASE ~(f.req /\ f.dst # BROADCAST)
  BY <1>2, NodesAssumption DEF Commanded
<1> QED BY <1>1, <1>2

(* So does the handling of one, and of an acknowledgement. *)
LEMMA HandleAnswers ==
    ASSUME TypeOK, Made, Counted, NEW n \in Nodes, Handle(n)
    PROVE  \A x, y \in Nodes :
               /\ answered'[x][y] =
                      IF x = pktbuf[n].src /\ y = n /\ pktbuf[n].req /\ pktbuf[n].dst = n
                      THEN answered[x][y] + 1 ELSE answered[x][y]
               /\ acked'[x][y] = IF x = n /\ y = pktbuf[n].src /\ pktbuf[n].type = "ACK"
                                 THEN acked[x][y] + 1 ELSE acked[x][y]
<1> DEFINE f == pktbuf[n]
<1>1. f.src \in Nodes /\ answered \in Counts /\ acked \in Counts
  BY DEF TypeOK, Frames
<1>2. /\ answered' = IF f.req /\ f.dst = n THEN Plus(answered, f.src, n) ELSE answered
      /\ acked' = IF f.type = "ACK" THEN Plus(acked, n, f.src) ELSE acked
  BY DEF Handle
<1>3. /\ answered[f.src][n] \in Nat /\ answered[f.src][n] <= 2 * MaxCommands
      /\ acked[n][f.src] <= 3 * MaxCommands
  BY <1>1, Small
<1>4. answered[f.src][n] <= 3 * MaxCommands
  BY <1>3, CommandsAssumption
<1> SUFFICES \A x, y \in Nodes :
        /\ answered'[x][y] = IF x = f.src /\ y = n /\ f.req /\ f.dst = n
                             THEN answered[x][y] + 1 ELSE answered[x][y]
        /\ acked'[x][y] = IF x = n /\ y = f.src /\ f.type = "ACK"
                          THEN acked[x][y] + 1 ELSE acked[x][y]
  OBVIOUS
<1> HIDE DEF f
<1>5. \A x, y \in Nodes : answered'[x][y] = IF x = f.src /\ y = n /\ f.req /\ f.dst = n
                                          THEN answered[x][y] + 1 ELSE answered[x][y]
  <2>1. CASE f.req /\ f.dst = n
    BY <1>1, <1>2, <1>4, <2>1, PlusOne
  <2>2. CASE ~(f.req /\ f.dst = n)
    BY <1>2, <2>2
  <2> QED BY <2>1, <2>2
<1>6. \A x, y \in Nodes : acked'[x][y] = IF x = n /\ y = f.src /\ f.type = "ACK"
                                       THEN acked[x][y] + 1 ELSE acked[x][y]
  <2>1. CASE f.type = "ACK"
    BY <1>1, <1>2, <1>3, <2>1, PlusOne
  <2>2. CASE f.type # "ACK"
    BY <1>2, <2>2
  <2> QED BY <2>1, <2>2
<1> QED BY <1>5, <1>6

LEMMA CountedStep ==
    ASSUME "ACK" \notin TxTypes, TypeOK, Places, Made, Counted, [Next]_vars
    PROVE  Counted'
<1>c. /\ entered \in Nat /\ garbled \in Nat
      /\ \A a, b \in Nodes : /\ asked[a][b] \in Nat /\ answered[a][b] \in Nat
                             /\ acked[a][b] \in Nat
  BY Small
<1>1. ASSUME NEW n \in Console, Command(n) PROVE Counted'
  <2>1. PICK f \in Frames : Commanded(n, f)
    BY <1>1, CommandStep
  <2>2. /\ n \in Nodes
        /\ phase[n] \in {"listen", "complete"} /\ phase' = [phase EXCEPT ![n] = "send"]
        /\ entered' = entered + 1 /\ UNCHANGED <<answered, acked, garbled>>
    BY <1>1, NodesAssumption DEF Command
  <2>3. \A x, y \in Nodes : asked'[x][y] = IF x = n /\ y = f.dst /\ f.req THEN asked[x][y] + 1
                                                                  ELSE asked[x][y]
    BY <2>1, <2>2, CommandAsks
  <2>4. /\ phase'[n] = "send" /\ pktbuf'[n] = f
        /\ \A m \in Nodes \ {n} : phase'[m] = phase[m] /\ pktbuf'[m] = pktbuf[m]
    BY <2>1, <2>2 DEF Commanded, TypeOK
  <2> SUFFICES ASSUME NEW a \in Nodes, NEW b \in Nodes
               PROVE  /\ asked'[a][b] <= entered'
                      /\ answered'[a][b] + Going(a, b)' <= asked'[a][b] + garbled'
                      /\ acked'[a][b] + Coming(a, b)' <= answered'[a][b] + garbled'
    BY DEF Counted
  <2>5. /\ asked[a][b] <= entered
        /\ answered[a][b] + Going(a, b) <= asked[a][b] + garbled
        /\ acked[a][b] + Coming(a, b) <= answered[a][b] + garbled
    BY DEF Counted
  <2>6. asked'[a][b] <= entered'
    BY <1>c, <2>2, <2>3, <2>5
  <2>7. answered'[a][b] + Going(a, b)' <= asked'[a][b] + garbled'
    BY <1>c, <2>2, <2>3, <2>4, <2>5 DEF Going, One, IsReq
  <2>8. acked'[a][b] + Coming(a, b)' <= answered'[a][b] + garbled'
    BY <1>c, <2>2, <2>4, <2>5 DEF Coming, One, IsReq
  <2> QED BY <2>6, <2>7, <2>8
<1>2. ASSUME NEW n \in Nodes, Sent(n) PROVE Counted'
  <2> DEFINE f == pktbuf[n]
  <2>1. PICK S \in SUBSET Nodes : Delivered(n, S)
    BY <1>2, SentStep
  <2>2. /\ UNCHANGED <<entered, asked, answered, acked>>
        /\ garbled' = IF phase[n] = "spoilt" THEN garbled + 1 ELSE garbled
    BY <1>2 DEF Sent
  <2>3. f \in Frames
    BY DEF TypeOK
  <2>4. \A m \in S : f.len >= HEADER => /\ pktbuf'[m].src = f.src /\ pktbuf'[m].req = f.req
                                        /\ pktbuf'[m].type = f.type
    BY <2>1, <2>3, ReceivedFrame DEF Delivered
  <2>5. \A m \in S : pktbuf'[m].dst = f.dst
    BY <2>1, <2>3, ReceivedFrame DEF Delivered
  <2>6. /\ phase[n] \in OnAir /\ phase'[n] \in {"listen", "delay"} /\ n \notin S
        /\ \A m \in S : phase[m] = "listen" /\ phase'[m] = "complete" /\ f.dst \in {m, BROADCAST}
        /\ \A m \in Nodes \ (S \cup {n}) : phase'[m] = phase[m] /\ pktbuf'[m] = pktbuf[m]
    BY <2>1 DEF Delivered
  <2>7. /\ phase[n] \in {"send", "answer"} => f.src = n /\ f.len >= HEADER
        /\ phase[n] = "send" => f.type # "ACK"
        /\ phase[n] = "answer" => f.dst \in Nodes /\ ~f.req
    BY DEF Places
  <2> HIDE DEF f
  <2> SUFFICES ASSUME NEW a \in Nodes, NEW b \in Nodes
               PROVE  /\ answered'[a][b] + Going(a, b)' <= asked'[a][b] + garbled'
                      /\ acked'[a][b] + Coming(a, b)' <= answered'[a][b] + garbled'
    BY <2>2 DEF Counted
  <2>8. /\ answered[a][b] + Going(a, b) <= asked[a][b] + garbled
        /\ acked[a][b] + Coming(a, b) <= answered[a][b] + garbled
    BY DEF Counted
  <2>9. /\ Going(a, b) \in Nat /\ Going(a, b)' \in Nat
        /\ Coming(a, b) \in Nat /\ Coming(a, b)' \in Nat
    BY DEF Going, Coming, One
  <2>10. CASE phase[n] = "spoilt"
    <3>1. Going(a, b)' <= Going(a, b) + 1
      BY <2>6, <2>10 DEF Going, One, OnAir
    <3>2. Coming(a, b)' <= Coming(a, b) + 1
      BY <2>6, <2>10 DEF Coming, One, OnAir
    <3>3. garbled' = garbled + 1
      BY <2>2, <2>10
    <3> QED BY <1>c, <2>2, <2>8, <2>9, <3>1, <3>2, <3>3
  <2>11. CASE phase[n] = "send"
    <3>1. f.src = n /\ f.type # "ACK"
      BY <2>7, <2>11
    <3>2. \A m \in S : /\ pktbuf'[m].src = n /\ pktbuf'[m].req = f.req
                       /\ pktbuf'[m].type = f.type
      BY <2>4, <2>7, <2>11
    <3>3. Going(a, b)' <= Going(a, b)
      BY <2>5, <2>6, <2>11, <3>1, <3>2 DEF Going, One, IsReq, f
    <3>4. Coming(a, b)' <= Coming(a, b)
      BY <2>6, <2>11, <3>1, <3>2 DEF Coming, One, IsReq
    <3>5. garbled' = garbled
      BY <2>2, <2>11
    <3> QED BY <1>c, <2>2, <2>8, <2>9, <3>3, <3>4, <3>5
  <2>12. CASE phase[n] = "answer"
    <3>1. f.src = n /\ ~f.req /\ f.dst \in Nodes /\ f.dst # BROADCAST
      BY <2>7, <2>12, NodesAssumption
    <3>2. \A m \in S : /\ pktbuf'[m].src = n /\ ~pktbuf'[m].req
                       /\ m = f.dst
      BY <2>4, <2>6, <2>7, <2>12, <3>1
    <3>3. Going(a, b)' <= Going(a, b)
      BY <2>6, <2>12, <3>1, <3>2 DEF Going, One, IsReq
    <3>4. Coming(a, b)' <= Coming(a, b)
      BY <2>6, <2>12, <3>1, <3>2 DEF Coming, One, IsReq, f
    <3>5. garbled' = garbled
      BY <2>2, <2>12
    <3> QED BY <1>c, <2>2, <2>8, <2>9, <3>3, <3>4, <3>5
  <2> QED BY <2>6, <2>10, <2>11, <2>12 DEF OnAir
<1>3. ASSUME NEW n \in Nodes, Delay(n) PROVE Counted'
  BY <1>3, <1>c DEF Delay, history, Counted, Going, Coming, One, IsReq, TypeOK
<1>4. ASSUME NEW n \in Nodes, Handle(n) PROVE Counted'
  <2> DEFINE f == pktbuf[n]
  <2>1. f \in Frames
    BY DEF TypeOK
  <2>2. f.src \in Nodes
    BY <2>1 DEF Frames
  <2>3. /\ phase[n] = "complete" /\ phase' = [phase EXCEPT ![n] = "handled"]
        /\ UNCHANGED <<pktbuf, entered, asked, garbled>>
    BY <1>4 DEF Handle
  <2>4. \A x, y \in Nodes :
            /\ answered'[x][y] = IF x = f.src /\ y = n /\ f.req /\ f.dst = n
                                 THEN answered[x][y] + 1 ELSE answered[x][y]
            /\ acked'[x][y] = IF x = n /\ y = f.src /\ f.type = "ACK"
                              THEN acked[x][y] + 1 ELSE acked[x][y]
    BY <1>4, HandleAnswers
  <2> SUFFICES ASSUME NEW a \in Nodes, NEW b \in Nodes
               PROVE  /\ asked'[a][b] <= entered'
                      /\ answered'[a][b] + Going(a, b)' <= asked'[a][b] + garbled'
                      /\ acked'[a][b] + Coming(a, b)' <= answered'[a][b] + garbled'
    BY DEF Counted
  <2>7. /\ asked[a][b] <= entered
        /\ answered[a][b] + Going(a, b) <= asked[a][b] + garbled
        /\ acked[a][b] + Coming(a, b) <= answered[a][b] + garbled
    BY DEF Counted
  <2>8. /\ phase'[a] = (IF a = n THEN "handled" ELSE phase[a])
        /\ phase'[b] = (IF b = n THEN "handled" ELSE phase[b])
    BY <2>3 DEF TypeOK
  <2>9. answered'[a][b] + Going(a, b)' <= asked'[a][b] + garbled'
    BY <1>c, <2>3, <2>4, <2>7, <2>8 DEF Going, One, IsReq
  <2>10. acked'[a][b] + Coming(a, b)' <= answered'[a][b] + garbled'
    BY <1>c, <2>2, <2>3, <2>4, <2>7, <2>8 DEF Coming, One, IsReq
  <2> QED BY <2>3, <2>7, <2>9, <2>10
<1>5. ASSUME NEW n \in Nodes, Autoack(n) PROVE Counted'
  <2>1. phase[n] = "handled" /\ UNCHANGED <<entered, asked, answered, acked, garbled>>
    BY <1>5 DEF Autoack, history
  <2>2. CASE WantsAck(pktbuf[n])
    <3>1. pktbuf[n].dst = n /\ pktbuf[n].req
      BY <1>5, <2>2 DEF Autoack, WantsAck, Places
    <3>2. pktbuf' = [pktbuf EXCEPT ![n] = Ack(n)] /\ phase' = [phase EXCEPT ![n] = "answer"]
      BY <1>5, <2>2 DEF Autoack
    <3>3. Ack(n).dst = pktbuf[n].src
      BY AckFrame
    <3> QED BY <1>c, <2>1, <3>1, <3>2, <3>3
        DEF Counted, Going, Coming, One, IsReq, TypeOK
  <2>3. CASE ~WantsAck(pktbuf[n])
    <3>1. phase' = [phase EXCEPT ![n] = "listen"] /\ pktbuf' = pktbuf
      BY <1>5, <2>3 DEF Autoack
    <3> QED BY <1>c, <2>1, <3>1 DEF Counted, Going, Coming, One, IsReq, TypeOK
  <2> QED BY <2>2, <2>3
<1>6. ASSUME NEW n \in Nodes, Overwrite(n) PROVE Counted'
  <2>1. /\ phase[n] = "send" /\ phase' = [phase EXCEPT ![n] = "spoilt"]
        /\ \A m \in Nodes \ {n} : pktbuf'[m] = pktbuf[m]
        /\ UNCHANGED <<entered, asked, answered, acked, garbled>>
    BY <1>6 DEF Overwrite, history, TypeOK
  <2> QED BY <1>c, <2>1 DEF Counted, Going, Coming, One, IsReq, TypeOK
<1>7. CASE UNCHANGED vars
  BY <1>7 DEF vars, history, Counted, Going, Coming
<1> QED BY <1>1, <1>2, <1>3, <1>4, <1>5, <1>6, <1>7 DEF Next, Main, Idle

---------------------------------------------------------------------------
(* The led *)

(* What a wants b's led to be after a command f of its. *)
LEMMA WantedBy ==
    ASSUME TypeOK, NEW f \in Frames, NEW a \in Nodes, NEW b \in Nodes
    PROVE  Wanted(f)[a][b] = IF a # f.src \/ f.type # "LED" \/ f.dst \notin {b, BROADCAST}
                             THEN want[a][b]
                             ELSE IF f.dst = BROADCAST \/ ~f.req \/ f.len = HEADER THEN "any"
                             ELSE IF f.arg THEN "on" ELSE "off"
<1>1. want \in [Nodes -> [Nodes -> Wants]]
  BY DEF TypeOK
<1> QED BY <1>1 DEF Wanted

LEMMA LedStep ==
    ASSUME TypeOK, Places, Made, Counted, LedInv, [Next]_vars
    PROVE  LedInv'
<1>c. /\ garbled \in Nat
      /\ \A a, b \in Nodes : /\ asked[a][b] \in Nat /\ answered[a][b] \in Nat
                             /\ acked[a][b] \in Nat
  BY Small
<1>1. ASSUME NEW n \in Console, Command(n) PROVE LedInv'
  <2>1. PICK f \in Frames : Commanded(n, f)
    BY <1>1, CommandStep
  <2>2. /\ n \in Nodes
        /\ phase[n] \in {"listen", "complete"} /\ phase' = [phase EXCEPT ![n] = "send"]
        /\ UNCHANGED <<answered, led, garbled>>
    BY <1>1, NodesAssumption DEF Command
  <2>3. \A x, y \in Nodes : asked'[x][y] = IF x = n /\ y = f.dst /\ f.req THEN asked[x][y] + 1
                                                                  ELSE asked[x][y]
    BY <2>1, <2>2, CommandAsks
  <2>4. /\ f.src = n /\ f.len >= HEADER
        /\ pktbuf' = [pktbuf EXCEPT ![n] = f] /\ want' = Wanted(f)
    BY <2>1 DEF Commanded
  <2>5. n # BROADCAST /\ f.len \in {HEADER, HEADER + 1} /\ f.arg \in BOOLEAN
    BY <2>2, <2>4, NodesAssumption DEF Frames, HEADER
  <2> SUFFICES ASSUME NEW a \in Nodes, NEW b \in Nodes, garbled = 0 PROVE LedPair(a, b)'
    BY <2>2 DEF LedInv
  <2>6. want'[a][b] = IF a # n \/ f.type # "LED" \/ f.dst \notin {b, BROADCAST}
                      THEN want[a][b]
                      ELSE IF f.dst = BROADCAST \/ ~f.req \/ f.len = HEADER THEN "any"
                      ELSE IF f.arg THEN "on" ELSE "off"
    BY <2>4, WantedBy
  <2>7. LedPair(a, b) /\ answered[a][b] + Going(a, b) <= asked[a][b]
    BY <1>c DEF LedInv, Counted
  <2>8. /\ phase'[a] = (IF a = n THEN "send" ELSE phase[a])
        /\ phase'[b] = (IF b = n THEN "send" ELSE phase[b])
        /\ pktbuf'[a] = (IF a = n THEN f ELSE pktbuf[a])
        /\ pktbuf'[b] = (IF b = n THEN f ELSE pktbuf[b])
    BY <2>2, <2>4 DEF TypeOK
  <2>9. CASE want'[a][b] = "any"
    BY <2>9 DEF LedPair
  <2>10. CASE a = n /\ f.type = "LED" /\ f.dst = b /\ f.req /\ b # BROADCAST /\ f.len = HEADER + 1
    <3>0. f.len # HEADER
      BY <2>10 DEF HEADER
    <3>1. Good(pktbuf[a], a, b)'
      BY <2>4, <2>6, <2>8, <2>10, <3>0 DEF Good
    <3>2. Stray(a, b)' <= Going(a, b)
      BY <2>2, <2>8, <2>10, <3>1 DEF Stray, Going, One, IsReq
    <3>3. Stray(a, b)' \in Nat /\ Going(a, b) \in Nat
      BY DEF Stray, Going, One
    <3>4. answered'[a][b] + Stray(a, b)' < asked'[a][b]
      BY <1>c, <2>2, <2>3, <2>4, <2>7, <2>10, <3>2, <3>3
    <3> QED BY <3>1, <3>4 DEF LedPair
  <2>11. CASE want'[a][b] = want[a][b] /\ ~(a = n /\ f.type = "LED" /\ f.dst = b)
    <3>1. ~(phase'[a] = "send" /\ IsReq(pktbuf[a], a, b)' /\ pktbuf'[a].type = "LED") \/ a # n
      BY <2>8, <2>11 DEF IsReq
    <3>2. Outdated(a, b)' => Outdated(a, b)
      BY <2>8, <2>11 DEF Outdated, Good, IsReq
    <3>3. Stray(a, b)' <= Stray(a, b) + asked'[a][b] - asked[a][b]
      BY <1>c, <2>2, <2>3, <2>4, <2>5, <2>8, <2>11 DEF Stray, Good, One, IsReq
    <3>4. Stray(a, b)' \in Nat /\ Stray(a, b) \in Nat /\ asked'[a][b] \in Nat
      BY <1>c, <2>3 DEF Stray, One
    <3>5. led'[b] = led[b] /\ answered'[a][b] = answered[a][b]
      BY <2>2
    <3>6. led'[b] # (want'[a][b] = "on") \/ Outdated(a, b)'
              => want[a][b] = "any" \/ answered[a][b] + Stray(a, b) < asked[a][b]
      BY <2>7, <2>11, <3>2, <3>5 DEF LedPair
    <3>7. phase'[a] = "send" /\ IsReq(pktbuf[a], a, b)' /\ pktbuf'[a].type = "LED"
              => want[a][b] = "any" \/ Good(pktbuf[a], a, b)'
      BY <2>7, <2>8, <2>11, <3>1 DEF LedPair, Good, IsReq
    <3> QED BY <1>c, <2>11, <3>3, <3>4, <3>5, <3>6, <3>7 DEF LedPair
  <2> QED BY <2>5, <2>6, <2>9, <2>10, <2>11
<1>2. ASSUME NEW n \in Nodes, Sent(n) PROVE LedInv'
  <2> DEFINE f == pktbuf[n]
  <2>1. PICK S \in SUBSET Nodes : Delivered(n, S)
    BY <1>2, SentStep
  <2>2. /\ UNCHANGED <<led, asked, answered, want>>
        /\ garbled' = IF phase[n] = "spoilt" THEN garbled + 1 ELSE garbled
    BY <1>2 DEF Sent
  <2>3. f \in Frames
    BY DEF TypeOK
  <2> SUFFICES ASSUME NEW a \in Nodes, NEW b \in Nodes, garbled' = 0 PROVE LedPair(a, b)'
    BY DEF LedInv
  <2>4. garbled = 0 /\ phase[n] \in {"send", "answer"}
    BY <1>c, <2>1, <2>2 DEF Delivered, OnAir
  <2>5. /\ f.src = n /\ f.len >= HEADER
        /\ phase[n] = "answer" => ~f.req
    BY <2>4 DEF Places
  <2>6. \A m \in S : /\ pktbuf'[m].src = n /\ pktbuf'[m].req = f.req /\ pktbuf'[m].type = f.type
                     /\ pktbuf'[m].dst = f.dst /\ pktbuf'[m].len = f.len
                     /\ f.len = HEADER + 1 => pktbuf'[m].arg = f.arg
    BY <2>1, <2>3, <2>5, ReceivedFrame DEF Delivered
  <2>7. LedPair(a, b)
    BY <2>4 DEF LedInv
  <2>8. /\ phase'[a] = "send" => phase[a] = "send" /\ pktbuf'[a] = pktbuf[a]
        /\ phase'[b] = "complete" => \/ phase[b] = "complete" /\ pktbuf'[b] = pktbuf[b] /\ b \notin S
                                     \/ b \in S
        /\ phase'[n] \in {"listen", "delay"}
        /\ \A m \in S : phase[m] = "listen"
    BY <2>1 DEF Delivered
  <2> HIDE DEF f
  (* Whoever receives a request of a to b receives what a sent. *)
  <2>9. ASSUME b \in S, IsReq(pktbuf[b], a, b)', ~Good(pktbuf[b], a, b)'
        PROVE  /\ a = n /\ phase[a] = "send" /\ IsReq(f, a, b) /\ ~Good(f, a, b)
               /\ pktbuf'[b].type = f.type
    BY <2>2, <2>4, <2>5, <2>6, <2>9 DEF IsReq, Good
  <2>10. Outdated(a, b)' => want[a][b] = "any" \/ Outdated(a, b)
    <3>1. CASE b \in S
      BY <2>7, <2>9, <3>1 DEF LedPair, Outdated, f
    <3>2. CASE b \notin S
      BY <2>2, <2>8, <3>2 DEF Outdated, Good, IsReq
    <3> QED BY <3>1, <3>2
  <2>11. Stray(a, b)' <= Stray(a, b)
    <3>1. CASE b \in S
      <4>1. ~(phase'[a] = "send" /\ a = n) /\ phase[b] # "complete"
        BY <2>8, <3>1
      <4> QED BY <2>2, <2>8, <2>9, <3>1, <4>1 DEF Stray, Good, One, IsReq, f
    <3>2. CASE b \notin S
      BY <2>2, <2>8, <3>2 DEF Stray, Good, One, IsReq
    <3> QED BY <3>1, <3>2
  <2>12. Stray(a, b)' \in Nat /\ Stray(a, b) \in Nat
    BY DEF Stray, One
  <2>13. phase'[a] = "send" /\ IsReq(pktbuf[a], a, b)' /\ pktbuf'[a].type = "LED"
             => want[a][b] = "any" \/ Good(pktbuf[a], a, b)'
    BY <2>2, <2>7, <2>8 DEF LedPair, Good, IsReq
  <2> QED BY <1>c, <2>2, <2>7, <2>10, <2>11, <2>12, <2>13 DEF LedPair
<1>3. ASSUME NEW n \in Nodes, Delay(n) \/ Autoack(n) \/ Overwrite(n) PROVE LedInv'
  <2>1. /\ UNCHANGED <<led, asked, answered, want, garbled>>
        /\ \A m \in Nodes \ {n} : phase'[m] = phase[m] /\ pktbuf'[m] = pktbuf[m]
        /\ phase'[n] \notin {"complete", "send"}
    BY <1>3 DEF Delay, Autoack, Overwrite, history, TypeOK
  <2> SUFFICES ASSUME NEW a \in Nodes, NEW b \in Nodes, garbled = 0 PROVE LedPair(a, b)'
    BY <2>1 DEF LedInv
  <2>3. LedPair(a, b)
    BY DEF LedInv
  <2>4. Outdated(a, b)' => Outdated(a, b)
    BY <2>1 DEF Outdated, Good, IsReq
  <2>5. Stray(a, b)' <= Stray(a, b)
    BY <2>1 DEF Stray, Good, One, IsReq
  <2>6. Stray(a, b)' \in Nat /\ Stray(a, b) \in Nat
    BY DEF Stray, One
  <2>7. phase'[a] = "send" /\ IsReq(pktbuf[a], a, b)' /\ pktbuf'[a].type = "LED"
            => want[a][b] = "any" \/ Good(pktbuf[a], a, b)'
    BY <2>1, <2>3 DEF LedPair, Good, IsReq
  <2> QED BY <1>c, <2>1, <2>3, <2>4, <2>5, <2>6, <2>7 DEF LedPair
<1>4. ASSUME NEW n \in Nodes, Handle(n) PROVE LedInv'
  <2> DEFINE f == pktbuf[n]
  <2>1. f \in Frames
    BY DEF TypeOK
  <2>2. f.src \in Nodes /\ f.arg \in BOOLEAN
    BY <2>1 DEF Frames
  <2>3. /\ phase[n] = "complete" /\ phase' = [phase EXCEPT ![n] = "handled"]
        /\ UNCHANGED <<pktbuf, asked, garbled>>
        /\ led' = IF f.type = "LED" THEN [led EXCEPT ![n] = f.arg] ELSE led
        /\ want' = IF f.type # "LED" THEN want
                   ELSE [x \in Nodes |-> IF x = f.src /\ f.req /\ f.dst = n THEN want[x]
                                         ELSE [want[x] EXCEPT ![n] = "any"]]
    BY <1>4 DEF Handle
  <2>4. \A x, y \in Nodes : answered'[x][y] = IF x = f.src /\ y = n /\ f.req /\ f.dst = n
                                             THEN answered[x][y] + 1 ELSE answered[x][y]
    BY <1>4, HandleAnswers
  <2> SUFFICES ASSUME NEW a \in Nodes, NEW b \in Nodes, want'[a][b] # "any", garbled = 0
               PROVE  LedPair(a, b)'
    BY <2>3 DEF LedInv, LedPair
  <2>5. want'[a][b] = want[a][b] /\ (b = n /\ f.type = "LED" => a = f.src /\ f.req /\ f.dst = n)
    BY <2>2, <2>3 DEF TypeOK
  <2>6. LedPair(a, b)
    BY DEF LedInv
  <2>7. Stray(a, b)' \in Nat /\ Stray(a, b) \in Nat
    BY DEF Stray, One
  <2>8. ~Outdated(a, b)' \/ (b # n /\ Outdated(a, b))
    BY <2>3, <2>5 DEF Outdated, Good, IsReq, TypeOK
  <2>9. phase'[a] = "send" /\ IsReq(pktbuf[a], a, b)' /\ pktbuf'[a].type = "LED"
            => Good(pktbuf[a], a, b)'
    BY <2>3, <2>5, <2>6 DEF LedPair, Good, IsReq, TypeOK
  <2>10. CASE b = n /\ f.type = "LED" /\ Good(f, a, b)
    <3>1. led'[b] = f.arg /\ want'[a][b] = (IF f.arg THEN "on" ELSE "off")
      BY <2>3, <2>5, <2>10 DEF Good, TypeOK
    <3>2. ~(led'[b] # (want'[a][b] = "on"))
      BY <2>2, <3>1
    <3> QED BY <2>8, <2>9, <2>10, <3>2 DEF LedPair
  <2>11. CASE b # n \/ f.type # "LED"
    <3>1. led'[b] = led[b]
      BY <2>3, <2>11 DEF TypeOK
    <3>2. answered'[a][b] + Stray(a, b)' <= answered[a][b] + Stray(a, b)
      BY <1>c, <2>3, <2>4, <2>5, <2>11 DEF Stray, Good, One, IsReq, TypeOK
    <3> QED BY <1>c, <2>3, <2>4, <2>5, <2>6, <2>7, <2>8, <2>9, <3>1, <3>2 DEF LedPair
  <2>12. CASE b = n /\ f.type = "LED" /\ ~Good(f, a, b)
    <3>1. Outdated(a, b)
      BY <2>3, <2>5, <2>12 DEF Outdated, IsReq
    <3>2. answered[a][b] + Stray(a, b) < asked[a][b]
      BY <2>5, <2>6, <3>1 DEF LedPair
    <3>3. answered'[a][b] + Stray(a, b)' <= answered[a][b] + Stray(a, b)
      BY <1>c, <2>3, <2>4, <2>5, <2>12 DEF Stray, Good, One, IsReq, TypeOK
    <3>4. answered'[a][b] \in Nat /\ asked'[a][b] = asked[a][b]
      BY <1>c, <2>3, <2>4
    <3> QED BY <1>c, <2>7, <2>9, <3>2, <3>3, <3>4 DEF LedPair
  <2> QED BY <2>10, <2>11, <2>12
<1>5. CASE UNCHANGED vars
  BY <1>5 DEF vars, history, LedInv, LedPair, Outdated, Stray, Good, IsReq
<1> QED BY <1>1, <1>2, <1>3, <1>4, <1>5 DEF Next, Main, Idle

---------------------------------------------------------------------------
(* The theorems.  If tx is used to send acknowledgements, nothing is earned. *)

LEMMA NetInit == Init => NetInv
<1> SUFFICES ASSUME Init PROVE NetInv
  OBVIOUS
<1>1. TypeOK
  BY TypeInit
<1>2. Places /\ LedInv
  BY DEF Init, Places, LedInv, LedPair
<1>3. Counted
  BY DEF Init, Zero, Counted, Going, Coming, One
<1>4. Made
  <2>1. Busy = {}
    BY DEF Init, Busy
  <2> QED BY <2>1, FS_EmptySet DEF Init, Made
<1> QED BY <1>1, <1>2, <1>3, <1>4 DEF NetInv

LEMMA NetAlways == ASSUME "ACK" \notin TxTypes PROVE Spec => []NetInv
<1>1. NetInv /\ [Next]_vars => NetInv'
  BY TypeStep, PlacesStep, MadeStep, CountedStep, LedStep DEF NetInv
<1> QED BY <1>1, NetInit, PTL DEF Spec

(* Every device's state, and every frame it ever holds, is well formed.    *)
THEOREM NetTyped == Spec => []TypeOK
<1>1. Init => TypeOK
  BY TypeInit
<1>2. TypeOK /\ [Next]_vars => TypeOK'
  BY TypeStep
<1> QED BY <1>1, <1>2, PTL DEF Spec

(* packet_autoack answers what was asked and nothing else: whatever is     *)
(* lost, and whatever the bytes that are stored over packets while         *)
(* packet_build and packet_send make them, no device hears more            *)
(* acknowledgements than were earned and packets were overwritten.         *)
THEOREM AcksAreEarned == ASSUME "ACK" \notin TxTypes PROVE Spec => []AckEarned
<1>1. NetInv => AckEarned
  <2> SUFFICES ASSUME NetInv, NEW a \in Nodes, NEW b \in Nodes
               PROVE  /\ acked[a][b] <= answered[a][b] + garbled
                      /\ answered[a][b] <= asked[a][b] + garbled
    BY DEF AckEarned
  <2>1. /\ asked[a][b] \in Nat /\ answered[a][b] \in Nat /\ acked[a][b] \in Nat
        /\ garbled \in Nat
    BY Small DEF NetInv
  <2>2. Going(a, b) \in Nat /\ Coming(a, b) \in Nat
    BY DEF Going, Coming, One
  <2> QED BY <2>1, <2>2 DEF NetInv, Counted
<1> QED BY <1>1, NetAlways, PTL

(* A device whose requests have all been acknowledged knows the other's    *)
(* led, though it cannot tell one acknowledgement of teleled from another, *)
(* as long as no packet was overwritten between packet_build and radio_tx. *)
THEOREM LedsAgree == ASSUME "ACK" \notin TxTypes PROVE Spec => []LedAgrees
<1>1. NetInv => LedAgrees
  <2> SUFFICES ASSUME NetInv, garbled = 0, NEW a \in Nodes, NEW b \in Nodes,
                      asked[a][b] = acked[a][b], want[a][b] # "any"
               PROVE  led[b] = (want[a][b] = "on")
    BY DEF LedAgrees
  <2>1. asked[a][b] \in Nat /\ answered[a][b] \in Nat /\ acked[a][b] \in Nat
    BY Small DEF NetInv
  <2>2. Going(a, b) \in Nat /\ Coming(a, b) \in Nat /\ Stray(a, b) \in Nat
    BY DEF Going, Coming, Stray, One
  <2>3. ~(answered[a][b] + Stray(a, b) < asked[a][b])
    BY <2>1, <2>2 DEF NetInv, Counted
  <2> QED BY <2>3 DEF NetInv, LedInv, LedPair
<1> QED BY <1>1, NetAlways, PTL
=============================================================================
