------------------------------ MODULE LinkProofs ------------------------------
(***************************************************************************)
(* Theorems about Link: its types, the receiver's ring of packet ids, for  *)
(* every length of the ring and every loss, doubling and reordering, and   *)
(* the count of tries of a packet that waits for its ack.                  *)
(***************************************************************************)
EXTENDS Link, Integers, TLAPS

-----------------------------------------------------------------------------
(* The ring.                                                                *)

\* The slot k places behind the newest id.
Back(k) == IF k <= offset THEN offset - k ELSE offset + W - k

\* The ring and the history of registrations, slot by slot.
RingHoldsLog ==
  \A k \in 0 .. (W - 1) :
    ring[Back(k)] = IF k < Len(log) THEN log[Len(log) - k].id ELSE Empty

\* Every slot is some places behind the newest, and the one that the search of
\* AlreadyReceivedPacket leaves out is W - 1 places behind.
LEMMA EverySlotBack ==
  ASSUME offset \in 0 .. (W - 1)
  PROVE  /\ \A k \in 0 .. (W - 1) : Back(k) \in 0 .. (W - 1)
         /\ \A i \in 0 .. (W - 1) : \E k \in 0 .. (W - 1) : i = Back(k)
         /\ \A k \in 0 .. (W - 1) : Back(k) = NextOffset <=> k = W - 1
<1>1. \A k \in 0 .. (W - 1) : Back(k) \in 0 .. (W - 1)
  BY LinkAssumption DEF Back
<1>2. ASSUME NEW i \in 0 .. (W - 1)
      PROVE  \E k \in 0 .. (W - 1) : i = Back(k)
  <2>1. CASE i <= offset
    <3>1. offset - i \in 0 .. (W - 1) /\ Back(offset - i) = i
      BY <2>1, LinkAssumption DEF Back
    <3> QED  BY <3>1
  <2>2. CASE i > offset
    <3>1. offset + W - i \in 0 .. (W - 1) /\ Back(offset + W - i) = i
      BY <2>2, LinkAssumption DEF Back
    <3> QED  BY <3>1
  <2> QED  BY <2>1, <2>2, LinkAssumption
<1>3. \A k \in 0 .. (W - 1) : Back(k) = NextOffset <=> k = W - 1
  BY LinkAssumption DEF Back, NextOffset
<1> QED  BY <1>1, <1>2, <1>3

\* A ring that holds the history answers for exactly the last W - 1 registrations.
LEMMA HeldMeansRemembered ==
  ASSUME TypeOK, RingHoldsLog
  PROVE  RemembersRecent
<1> SUFFICES ASSUME NEW id \in Id
             PROVE  AlreadyReceivedPacket(id) <=>
                      \E i \in DOMAIN log : i + W > Len(log) + 1 /\ log[i].id = id
  BY DEF RemembersRecent
<1>0. offset \in 0 .. (W - 1) /\ Len(log) \in Nat /\ DOMAIN log = 1 .. Len(log) /\ W \in Nat /\ W >= 2
  BY LinkAssumption DEF TypeOK
<1>1. id # Empty
  BY LinkAssumption DEF Id, Empty
<1>2. ASSUME AlreadyReceivedPacket(id)
      PROVE  \E i \in DOMAIN log : i + W > Len(log) + 1 /\ log[i].id = id
  <2>1. PICK k \in 0 .. (W - 1) : Back(k) # NextOffset /\ ring[Back(k)] = id
    BY <1>0, <1>2, EverySlotBack DEF AlreadyReceivedPacket
  <2>2. k < W - 1
    BY <1>0, <2>1, EverySlotBack
  <2>3. k < Len(log) /\ log[Len(log) - k].id = id
    BY <1>1, <2>1 DEF RingHoldsLog
  <2> QED  BY <1>0, <2>2, <2>3
<1>3. ASSUME NEW i \in DOMAIN log, i + W > Len(log) + 1, log[i].id = id
      PROVE  AlreadyReceivedPacket(id)
  <2>1. /\ Len(log) - i \in 0 .. (W - 1) /\ Len(log) - i < Len(log)
        /\ Len(log) - i # W - 1 /\ Len(log) - (Len(log) - i) = i
    BY <1>0, <1>3
  <2>2. ring[Back(Len(log) - i)] = id
    BY <1>3, <2>1 DEF RingHoldsLog
  <2> QED  BY <1>0, <2>1, <2>2, EverySlotBack DEF AlreadyReceivedPacket
<1> QED  BY <1>2, <1>3

-----------------------------------------------------------------------------
(* The inductive invariant.                                                 *)

\* No packet waits for an ack twice, and none before it was sent.
SentInOrder ==
  /\ \A m \in unsent : tries[m] = 0
  /\ sending.msg # NoMsg => tries[sending.msg] = 0 /\ sending.msg \notin unsent
  /\ \A i \in DOMAIN preSend :
       /\ tries[preSend[i].msg] = 0
       /\ preSend[i].msg \notin unsent /\ preSend[i].msg # sending.msg
       /\ \A j \in DOMAIN preSend : preSend[i].msg = preSend[j].msg => i = j
  /\ \A p \in wire : tries[p.msg] # 0
  /\ \A q, r \in pending : q.msg = r.msg => q = r

IInv == TypeOK /\ RingHoldsLog /\ SentInOrder /\ TriesCounted

LEMMA InitIInv == Init => IInv
<1> SUFFICES ASSUME Init PROVE IInv
  OBVIOUS
<1>1. FirstId \in Nat \ {0} /\ W \in Nat /\ W >= 2 /\ NoMsg \notin Msg
  BY LinkAssumption
<1>2. TypeOK
  <2>1. given \in [life : Nat, no : Nat] /\ tries \in [Msg -> Nat]
    BY DEF Init
  <2>2. born \in [Msg -> [life : Nat, no : Nat]]
    BY <2>1 DEF Init
  <2>3. sending \in [msg : Msg \cup {NoMsg}, stale : BOOLEAN] /\ preSend \in Seq(Packet) /\ log \in Seq(Packet)
    BY DEF Init, Idle
  <2>4. ring \in [0 .. (W - 1) -> Id \cup {Empty}] /\ offset \in 0 .. (W - 1)
    BY <1>1 DEF Init
  <2> QED  BY <2>1, <2>2, <2>3, <2>4 DEF Init, TypeOK
<1>3. RingHoldsLog
  <2>1. offset \in 0 .. (W - 1)
    BY <1>1 DEF Init
  <2>2. \A k \in 0 .. (W - 1) : Back(k) \in 0 .. (W - 1)
    BY <2>1, EverySlotBack
  <2> QED  BY <2>2, <1>1 DEF Init, RingHoldsLog
<1>4. SentInOrder /\ TriesCounted
  BY DEF Init, SentInOrder, TriesCounted, Idle
<1> QED  BY <1>2, <1>3, <1>4 DEF IInv

\* Steps that leave the receiver alone keep the ring.
LEMMA RingUnchanged ==
  ASSUME RingHoldsLog, UNCHANGED receiverVars
  PROVE  RingHoldsLog'
BY DEF RingHoldsLog, Back, receiverVars

LEMMA PreSendPackets ==
  ASSUME TypeOK, NEW i \in DOMAIN preSend
  PROVE  preSend[i] \in Packet /\ preSend[i].id \in Id /\ preSend[i].msg \in Msg /\ preSend[i].msg # NoMsg
<1>1. preSend \in Seq(Packet)
  BY DEF TypeOK
<1>2. preSend[i] \in Packet
  BY <1>1
<1> QED  BY <1>2, LinkAssumption DEF Packet

LEMMA NextIdType ==
  ASSUME NEW last \in Id \cup {0}
  PROVE  NextId(last) \in Id
BY LinkAssumption DEF NextId, Id

LEMMA BeginSendKeeps == ASSUME IInv, NEW m \in Msg, BeginSend(m) PROVE IInv'
<1>1. m \in unsent /\ tries[m] = 0 /\ NoMsg \notin Msg
  BY LinkAssumption DEF BeginSend, IInv, SentInOrder
<1>2. TypeOK'
  BY DEF BeginSend, IInv, TypeOK, receiverVars, history, Idle
<1>3. RingHoldsLog'
  BY RingUnchanged DEF BeginSend, IInv
<1>4. TriesCounted'
  BY DEF BeginSend, IInv, TriesCounted
<1>5. SentInOrder'
  <2>1. \A i \in DOMAIN preSend : preSend[i].msg # m /\ preSend[i].msg # NoMsg
    BY <1>1, PreSendPackets DEF IInv, SentInOrder
  <2>2. unsent' = unsent \ {m} /\ sending'.msg \in {m, NoMsg} /\ UNCHANGED <<preSend, pending, wire, tries>>
    BY DEF BeginSend, Idle
  <2>3. \A i \in DOMAIN preSend' :
          /\ tries'[preSend'[i].msg] = 0
          /\ preSend'[i].msg \notin unsent' /\ preSend'[i].msg # sending'.msg
          /\ \A j \in DOMAIN preSend' : preSend'[i].msg = preSend'[j].msg => i = j
    BY <2>1, <2>2 DEF IInv, SentInOrder
  <2> QED  BY <1>1, <2>2, <2>3 DEF IInv, SentInOrder
<1> QED  BY <1>2, <1>3, <1>4, <1>5 DEF IInv

LEMMA EndSendKeeps == ASSUME IInv, EndSend PROVE IInv'
<1>1. CASE sending.stale
  <2>1. UNCHANGED <<senderVars, wire, acks, inHand, receiverVars, tries, history>> /\ fault' = "freed"
    BY <1>1 DEF EndSend
  <2>2. TypeOK' /\ TriesCounted' /\ SentInOrder'
    BY <2>1 DEF IInv, TypeOK, TriesCounted, SentInOrder, senderVars, receiverVars, history
  <2> QED  BY <2>1, <2>2, RingUnchanged DEF IInv
<1>2. CASE ~sending.stale
  <2>1. PICK p : p = [id |-> NextId(lastId), msg |-> sending.msg]
    OBVIOUS
  <2>2. /\ lastId' = p.id /\ preSend' = Append(preSend, p) /\ sending' = Idle /\ sendLock' = FALSE
        /\ given' = [given EXCEPT !.no = @ + 1] /\ born' = [born EXCEPT ![sending.msg] = given']
        /\ UNCHANGED <<unsent, pending, fault, wire, acks, inHand, receiverVars, tries>>
    BY <1>2, <2>1 DEF EndSend
  <2>3. sending.msg \in Msg /\ sending.msg # NoMsg
    BY <1>2 DEF EndSend, IInv, TypeOK, Idle
  <2>4. p \in Packet /\ p.id \in Id
    BY <2>1, <2>3, NextIdType DEF Packet, IInv, TypeOK
  <2>5. TypeOK'
    <3>1. preSend' \in Seq(Packet)
      BY <2>2, <2>4 DEF IInv, TypeOK
    <3>2. sending' \in [msg : Msg \cup {NoMsg}, stale : BOOLEAN]
      BY <2>2 DEF Idle
    <3>3. given' \in [life : Nat, no : Nat] /\ born' \in [Msg -> [life : Nat, no : Nat]]
      <4>1. given \in [life : Nat, no : Nat] /\ born \in [Msg -> [life : Nat, no : Nat]]
        BY DEF IInv, TypeOK
      <4>2. given' \in [life : Nat, no : Nat]
        BY <2>2, <4>1
      <4> QED  BY <2>2, <4>1, <4>2
    <3> QED  BY <2>2, <2>4, <3>1, <3>2, <3>3 DEF IInv, TypeOK, receiverVars
  <2>6. RingHoldsLog' /\ TriesCounted'
    BY <2>2, RingUnchanged DEF IInv, TriesCounted
  <2>7. SentInOrder'
    <3>1. preSend \in Seq(Packet)
      BY DEF IInv, TypeOK
    <3>2. /\ DOMAIN preSend' = 1 .. (Len(preSend) + 1) /\ DOMAIN preSend = 1 .. Len(preSend)
          /\ \A i \in DOMAIN preSend : preSend'[i] = preSend[i]
          /\ preSend'[Len(preSend) + 1] = p
      BY <2>2, <2>4, <3>1
    <3>3. /\ tries[p.msg] = 0 /\ p.msg \notin unsent /\ p.msg = sending.msg
      BY <2>1, <2>3 DEF IInv, SentInOrder
    <3>4. \A i \in DOMAIN preSend' :
            /\ tries[preSend'[i].msg] = 0
            /\ preSend'[i].msg \notin unsent /\ preSend'[i].msg # NoMsg
            /\ \A j \in DOMAIN preSend' : preSend'[i].msg = preSend'[j].msg => i = j
      <4>1. \A i \in DOMAIN preSend : preSend[i].msg # p.msg /\ preSend[i].msg # NoMsg
        BY <3>3, PreSendPackets DEF IInv, SentInOrder
      <4> QED  BY <2>3, <3>1, <3>2, <3>3, <4>1 DEF IInv, SentInOrder
    <3> QED  BY <2>2, <3>4 DEF IInv, SentInOrder, Idle
  <2> QED  BY <2>5, <2>6, <2>7 DEF IInv
<1> QED  BY <1>1, <1>2

LEMMA PreSendKeeps == ASSUME IInv, PreSend PROVE IInv'
<1>1. PICK p : p = Head(preSend)
  OBVIOUS
<1>2. /\ preSend # <<>> /\ preSend \in Seq(Packet) /\ p \in Packet /\ p = preSend[1]
      /\ p.msg \in Msg /\ p.id \in Id
  <2>1. preSend # <<>> /\ preSend \in Seq(Packet)
    BY DEF PreSend, IInv, TypeOK
  <2>2. 1 \in DOMAIN preSend /\ p = preSend[1]
    BY <1>1, <2>1
  <2> QED  BY <2>1, <2>2, PreSendPackets DEF IInv
<1>3. /\ pending' = IF p.msg \in Safe THEN AddPending(p) ELSE pending
      /\ wire' = wire \cup {p} /\ tries' = [tries EXCEPT ![p.msg] = @ + 1]
      /\ preSend' = Tail(preSend)
      /\ UNCHANGED <<unsent, sendLock, sending, lastId, acks, inHand, receiverVars, history, fault>>
  BY <1>1 DEF PreSend
<1>4. tries[p.msg] = 0 /\ p.msg \notin unsent /\ p.msg # sending.msg /\ tries'[p.msg] = 1
  <2>1. 1 \in DOMAIN preSend
    BY <1>2
  <2> QED  BY <1>2, <1>3, <2>1 DEF IInv, SentInOrder, TypeOK
<1>5. \A q \in pending' : q \in pending \/ q = [id |-> p.id, msg |-> p.msg, left |-> MaxAck]
  BY <1>3 DEF AddPending
<1>6. \A q \in pending : q.msg # p.msg /\ q.msg \in Msg
  BY <1>4, LinkAssumption DEF IInv, TriesCounted, TypeOK, Pending
<1>7. TypeOK'
  <2>1. [id |-> p.id, msg |-> p.msg, left |-> MaxAck] \in Pending
    BY <1>2, LinkAssumption DEF Pending
  <2>2. pending' \subseteq Pending
    BY <1>5, <2>1 DEF IInv, TypeOK
  <2>3. Tail(preSend) \in Seq(Packet)
    BY <1>2
  <2>4. tries' \in [Msg -> Nat]
    <3>1. tries \in [Msg -> Nat]
      BY DEF IInv, TypeOK
    <3> QED  BY <1>2, <1>3, <3>1
  <2> QED  BY <1>2, <1>3, <2>2, <2>3, <2>4 DEF IInv, TypeOK, receiverVars, history
<1>8. TriesCounted'
  BY <1>2, <1>3, <1>4, <1>5, <1>6, LinkAssumption DEF IInv, TriesCounted, TypeOK
<1>9. SentInOrder'
  <2>1. /\ DOMAIN Tail(preSend) = 1 .. (Len(preSend) - 1) /\ DOMAIN preSend = 1 .. Len(preSend)
        /\ \A i \in DOMAIN Tail(preSend) : Tail(preSend)[i] = preSend[i + 1] /\ i + 1 \in DOMAIN preSend
    BY <1>2
  <2>2. \A i \in DOMAIN Tail(preSend) : Tail(preSend)[i].msg # p.msg /\ Tail(preSend)[i].msg \in Msg
    <3>1. 1 \in DOMAIN preSend
      BY <1>2
    <3> QED  BY <1>2, <2>1, <3>1, PreSendPackets DEF IInv, SentInOrder
  <2>3. \A m \in Msg \ {p.msg} : tries'[m] = tries[m]
    BY <1>3 DEF IInv, TypeOK
  <2>4. \A i \in DOMAIN preSend' :
          /\ tries'[preSend'[i].msg] = 0
          /\ preSend'[i].msg \notin unsent' /\ preSend'[i].msg # sending'.msg
          /\ \A j \in DOMAIN preSend' : preSend'[i].msg = preSend'[j].msg => i = j
    BY <1>2, <1>3, <2>1, <2>2, <2>3 DEF IInv, SentInOrder
  <2>5. \A m \in unsent' : tries'[m] = 0
    BY <1>3, <1>4, <2>3 DEF IInv, SentInOrder, TypeOK
  <2>6. sending'.msg # NoMsg => tries'[sending'.msg] = 0 /\ sending'.msg \notin unsent'
    BY <1>3, <1>4, <2>3 DEF IInv, SentInOrder, TypeOK
  <2>7. \A q, r \in pending' : q.msg = r.msg => q = r
    BY <1>5, <1>6 DEF IInv, SentInOrder
  <2>8. \A r \in wire' : tries'[r.msg] # 0
    BY <1>2, <1>3, <1>4, <2>3 DEF IInv, SentInOrder, TypeOK, Packet
  <2> QED  BY <2>4, <2>5, <2>6, <2>7, <2>8 DEF SentInOrder
<1> QED  BY <1>3, <1>7, <1>8, <1>9, RingUnchanged DEF IInv

\* A registration moves every other slot one place back and overwrites the oldest.
LEMMA RegisterKeepsRing ==
  ASSUME TypeOK, RingHoldsLog, NEW p \in Packet,
         offset' = NextOffset, ring' = [ring EXCEPT ![NextOffset] = p.id], log' = Append(log, p)
  PROVE  RingHoldsLog'
<1>0. /\ offset \in 0 .. (W - 1) /\ offset' \in 0 .. (W - 1) /\ W \in Nat /\ W >= 2
      /\ ring \in [0 .. (W - 1) -> Id \cup {Empty}] /\ log \in Seq(Packet)
  BY LinkAssumption DEF TypeOK, NextOffset
<1>1. /\ Len(log) \in Nat /\ Len(log') = Len(log) + 1 /\ log'[Len(log) + 1] = p
      /\ \A i \in 1 .. Len(log) : log'[i] = log[i]
  BY <1>0
<1> SUFFICES ASSUME NEW k \in 0 .. (W - 1)
             PROVE  ring'[Back(k)'] = IF k < Len(log') THEN log'[Len(log') - k].id ELSE Empty
  BY DEF RingHoldsLog
<1>2. CASE k = 0
  <2>1. Back(k)' = offset'
    BY <1>0, <1>2 DEF Back
  <2> QED  BY <1>0, <1>1, <1>2, <2>1
<1>3. CASE k # 0
  <2>1. k - 1 \in 0 .. (W - 1) /\ k - 1 # W - 1
    BY <1>0, <1>3
  <2>2. Back(k)' = Back(k - 1)
    BY <1>0, <1>3 DEF Back, NextOffset
  <2>3. Back(k - 1) \in 0 .. (W - 1) /\ Back(k - 1) # NextOffset
    BY <1>0, <2>1, EverySlotBack
  <2>4. ring'[Back(k)'] = ring[Back(k - 1)]
    BY <1>0, <2>2, <2>3
  <2>5. ring[Back(k - 1)] = IF k - 1 < Len(log) THEN log[Len(log) - (k - 1)].id ELSE Empty
    BY <2>1 DEF RingHoldsLog
  <2>6. /\ k < Len(log') <=> k - 1 < Len(log)
        /\ Len(log') - k = Len(log) - (k - 1)
        /\ k - 1 < Len(log) => Len(log') - k \in 1 .. Len(log)
    BY <1>0, <1>1, <1>3
  <2> QED  BY <1>1, <2>4, <2>5, <2>6
<1> QED  BY <1>2, <1>3

LEMMA ReceiveKeeps == ASSUME IInv, NEW p \in wire, Receive(p) PROVE IInv'
<1>1. /\ p \in Packet /\ p.id \in Id /\ inHand' = {p} /\ acks' \subseteq acks \cup {p.id}
      /\ UNCHANGED <<senderVars, wire, receiverVars, tries, history, fault>>
  BY DEF Receive, IInv, TypeOK, Packet
<1>2. TypeOK'
  BY <1>1 DEF IInv, TypeOK, senderVars, receiverVars, history
<1>3. SentInOrder' /\ TriesCounted'
  BY <1>1 DEF IInv, SentInOrder, TriesCounted, senderVars
<1> QED  BY <1>1, <1>2, <1>3, RingUnchanged DEF IInv

LEMMA AnalyzeKeeps == ASSUME IInv, NEW p \in inHand, Analyze(p) PROVE IInv'
<1>1. p \in Packet /\ p.id \in Id /\ p.msg \in Msg
  BY DEF IInv, TypeOK, Packet
<1>2. inHand' = {} /\ UNCHANGED <<senderVars, wire, acks, tries, history, fault>>
  BY DEF Analyze
<1>3. SentInOrder' /\ TriesCounted'
  BY <1>2 DEF IInv, SentInOrder, TriesCounted, senderVars
<1>5. CASE AlreadyReceivedPacket(p.id)
  <2>1. UNCHANGED receiverVars
    BY <1>5 DEF Analyze
  <2>2. TypeOK'
    BY <1>2, <2>1 DEF IInv, TypeOK, senderVars, receiverVars, history
  <2> QED  BY <1>3, <2>1, <2>2, RingUnchanged DEF IInv
<1>6. CASE ~AlreadyReceivedPacket(p.id)
  <2>1. /\ offset' = NextOffset /\ ring' = [ring EXCEPT ![NextOffset] = p.id]
        /\ analysed' = analysed \cup {p.msg} /\ log' = Append(log, p)
    BY <1>6 DEF Analyze
  <2>2. NextOffset \in 0 .. (W - 1)
    BY LinkAssumption DEF IInv, TypeOK, NextOffset
  <2>3. TypeOK'
    <3>1. ring' \in [0 .. (W - 1) -> Id \cup {Empty}]
      BY <1>1, <2>1, <2>2 DEF IInv, TypeOK
    <3>2. log' \in Seq(Packet)
      BY <1>1, <2>1 DEF IInv, TypeOK
    <3> QED  BY <1>1, <1>2, <2>1, <2>2, <3>1, <3>2 DEF IInv, TypeOK, senderVars, history
  <2>4. RingHoldsLog'
    BY <1>1, <2>1, RegisterKeepsRing DEF IInv
  <2> QED  BY <1>3, <2>3, <2>4 DEF IInv
<1> QED  BY <1>5, <1>6

LEMMA ReceiveAckKeeps == ASSUME IInv, NEW id \in acks, ReceiveAck(id) PROVE IInv'
<1>1. pending' \subseteq pending
  BY DEF ReceiveAck, DestroyPending
<1>2. UNCHANGED <<unsent, sendLock, sending, lastId, preSend, wire, acks, inHand, receiverVars, tries, history, fault>>
  BY DEF ReceiveAck
<1>3. TypeOK'
  BY <1>1, <1>2 DEF IInv, TypeOK, receiverVars, history
<1>4. SentInOrder'
  BY <1>1, <1>2 DEF IInv, SentInOrder
<1>5. TriesCounted'
  BY <1>1, <1>2 DEF IInv, TriesCounted
<1> QED  BY <1>2, <1>3, <1>4, <1>5, RingUnchanged DEF IInv

LEMMA MaintainSenderKeeps ==
  ASSUME IInv, NEW S \in SUBSET pending, NEW idle \in BOOLEAN, MaintainSender(S, idle)
  PROVE  IInv'
<1>1. /\ \A q \in pending : q \in Pending /\ q.id \in Id /\ q.msg \in Msg /\ q.left \in 1 .. MaxAck
      /\ MaxAck \in Nat
  BY LinkAssumption DEF IInv, TypeOK, Pending
<1>2. \A q \in pending' : \/ q \in pending /\ q \notin S
                          \/ \E r \in Resent(S) : q = [r EXCEPT !.left = @ - 1]
  BY DEF MaintainSender, TimedOut
<1>3. \A r \in Resent(S) : r \in pending /\ r \in S /\ r.left \in 2 .. MaxAck
  BY <1>1 DEF Resent
<1>4. \A r \in Resent(S) :
        LET q == [r EXCEPT !.left = @ - 1]
        IN  q \in Pending /\ q.msg = r.msg /\ q.left = r.left - 1
  BY <1>1, <1>3 DEF Pending
<1>5. \A r \in Resent(S) : [id |-> r.id, msg |-> r.msg] \in Packet
  BY <1>1, <1>3 DEF Packet
<1>6. /\ UNCHANGED <<unsent, sendLock, preSend, acks, inHand, receiverVars, born, fault>>
      /\ given' \in {given, [life |-> given.life + 1, no |-> 0]}
      /\ lastId' \in {0, lastId}
      /\ sending' \in {sending, [sending EXCEPT !.stale = sending # Idle]}
      /\ wire' = wire \cup {[id |-> q.id, msg |-> q.msg] : q \in Resent(S)}
      /\ tries' = [m \in Msg |-> IF \E q \in Resent(S) : q.msg = m THEN tries[m] + 1 ELSE tries[m]]
  BY DEF MaintainSender
<1>7. sending'.msg = sending.msg /\ sending' \in [msg : Msg \cup {NoMsg}, stale : BOOLEAN]
  BY <1>6 DEF IInv, TypeOK
<1>8. TypeOK'
  <2>1. pending' \subseteq Pending
    BY <1>1, <1>2, <1>4
  <2>2. wire' \subseteq Packet
    BY <1>5, <1>6 DEF IInv, TypeOK
  <2>3. tries' \in [Msg -> Nat]
    BY <1>6 DEF IInv, TypeOK
  <2>4. given' \in [life : Nat, no : Nat]
    BY <1>6 DEF IInv, TypeOK
  <2> QED  BY <1>6, <1>7, <2>1, <2>2, <2>3, <2>4 DEF IInv, TypeOK, receiverVars
<1>9. \A m \in Msg : (\A r \in Resent(S) : r.msg # m) => tries'[m] = tries[m]
  BY <1>6
<1>10. TriesCounted'
  <2> SUFFICES ASSUME NEW q \in pending'
               PROVE  tries'[q.msg] + q.left = MaxAck + 1
    BY DEF TriesCounted
  <2>1. CASE q \in pending /\ q \notin S
    <3>1. \A r \in Resent(S) : r.msg # q.msg
      BY <1>3, <2>1 DEF IInv, SentInOrder
    <3> QED  BY <1>1, <1>9, <2>1, <3>1 DEF IInv, TriesCounted
  <2>2. ASSUME NEW r \in Resent(S), q = [r EXCEPT !.left = @ - 1]
        PROVE  tries'[q.msg] + q.left = MaxAck + 1
    <3>1. q.msg = r.msg /\ q.left = r.left - 1 /\ r.msg \in Msg /\ r.left \in 2 .. MaxAck
      BY <1>1, <1>3, <1>4, <2>2
    <3>2. tries'[r.msg] = tries[r.msg] + 1 /\ tries[r.msg] + r.left = MaxAck + 1 /\ tries[r.msg] \in Nat
      BY <1>3, <1>6, <3>1 DEF IInv, TriesCounted, TypeOK
    <3> QED  BY <1>1, <3>1, <3>2
  <2> QED  BY <1>2, <2>1, <2>2
<1>11. SentInOrder'
  <2>1. \A r \in Resent(S) : tries[r.msg] # 0
    <3>1. \A r \in Resent(S) : r \in pending /\ r.msg \in Msg /\ r.left \in 1 .. MaxAck
      BY <1>1, <1>3
    <3>2. \A r \in Resent(S) : tries[r.msg] \in Nat /\ tries[r.msg] + r.left = MaxAck + 1
      BY <3>1 DEF IInv, TriesCounted, TypeOK
    <3> QED  BY <1>1, <3>1, <3>2
  <2>2. \A m \in Msg : tries[m] = 0 => tries'[m] = 0
    BY <1>9, <2>1
  <2>3. \A i \in DOMAIN preSend' :
          /\ tries'[preSend'[i].msg] = 0
          /\ preSend'[i].msg \notin unsent' /\ preSend'[i].msg # sending'.msg
          /\ \A j \in DOMAIN preSend' : preSend'[i].msg = preSend'[j].msg => i = j
    BY <1>6, <1>7, <2>2, PreSendPackets DEF IInv, SentInOrder
  <2>4. \A q, r \in pending' : q.msg = r.msg => q = r
    <3>1. \A q \in pending' : \E r \in pending :
            r.msg = q.msg /\ q = IF r \in Resent(S) THEN [r EXCEPT !.left = @ - 1] ELSE r
      BY <1>2, <1>3, <1>4
    <3> QED  BY <3>1 DEF IInv, SentInOrder
  <2>5. \A p \in wire' : tries'[p.msg] # 0
    <3>1. \A r \in Resent(S) : tries'[r.msg] # 0
      <4>1. \A r \in Resent(S) : r.msg \in Msg /\ tries[r.msg] \in Nat
        BY <1>1, <1>3 DEF IInv, TypeOK
      <4>2. \A r \in Resent(S) : tries'[r.msg] = tries[r.msg] + 1
        BY <1>6, <4>1
      <4> QED  BY <4>1, <4>2
    <3>2. \A m \in Msg : tries[m] # 0 => tries'[m] # 0
      <4>1. tries \in [Msg -> Nat]
        BY DEF IInv, TypeOK
      <4> SUFFICES ASSUME NEW m \in Msg, tries[m] # 0 PROVE tries'[m] # 0
        OBVIOUS
      <4>2. tries'[m] \in {tries[m], tries[m] + 1}
        BY <1>6
      <4> QED  BY <4>1, <4>2
    <3>3. \A p \in wire : p.msg \in Msg /\ tries[p.msg] # 0
      BY DEF IInv, SentInOrder, TypeOK, Packet
    <3>4. \A p \in wire' : p \in wire \/ \E r \in Resent(S) : p = [id |-> r.id, msg |-> r.msg]
      BY <1>6
    <3> SUFFICES ASSUME NEW p \in wire' PROVE tries'[p.msg] # 0
      OBVIOUS
    <3>5. CASE p \in wire
      BY <3>2, <3>3, <3>5
    <3>6. ASSUME NEW r \in Resent(S), p = [id |-> r.id, msg |-> r.msg] PROVE tries'[p.msg] # 0
      BY <3>1, <3>6
    <3> QED  BY <3>4, <3>5, <3>6
  <2>6. /\ \A m \in unsent' : tries'[m] = 0
        /\ sending'.msg # NoMsg => tries'[sending'.msg] = 0 /\ sending'.msg \notin unsent'
    BY <1>6, <1>7, <2>2 DEF IInv, SentInOrder, TypeOK
  <2> QED  BY <2>3, <2>4, <2>5, <2>6 DEF SentInOrder
<1> QED  BY <1>6, <1>8, <1>10, <1>11, RingUnchanged DEF IInv

LEMMA MaintainReceiverKeeps == ASSUME IInv, MaintainReceiver PROVE IInv'
<1>1. /\ ring' = [i \in 0 .. (W - 1) |-> Empty] /\ offset' = 0 /\ log' = <<>>
      /\ UNCHANGED <<senderVars, wire, acks, inHand, analysed, tries, history, fault>>
  BY DEF MaintainReceiver
<1>2. TypeOK'
  BY <1>1, LinkAssumption DEF IInv, TypeOK, senderVars, history
<1>3. RingHoldsLog'
  <2> SUFFICES ASSUME NEW k \in 0 .. (W - 1)
               PROVE  ring'[Back(k)'] = IF k < Len(log') THEN log'[Len(log') - k].id ELSE Empty
    BY DEF RingHoldsLog
  <2>1. Back(k)' \in 0 .. (W - 1)
    BY <1>1, LinkAssumption DEF Back
  <2> QED  BY <1>1, <2>1
<1>4. SentInOrder' /\ TriesCounted'
  BY <1>1 DEF IInv, SentInOrder, TriesCounted, senderVars
<1> QED  BY <1>2, <1>3, <1>4 DEF IInv

LEMMA NextKeeps == IInv /\ [Next]_vars => IInv'
<1> SUFFICES ASSUME IInv, [Next]_vars PROVE IInv'
  OBVIOUS
<1>1. ASSUME NEW m \in Msg, BeginSend(m) PROVE IInv'
  BY <1>1, BeginSendKeeps
<1>2. CASE EndSend
  BY <1>2, EndSendKeeps
<1>3. CASE PreSend
  BY <1>3, PreSendKeeps
<1>4. ASSUME NEW p \in wire, Receive(p) PROVE IInv'
  BY <1>4, ReceiveKeeps
<1>9. ASSUME NEW p \in inHand, Analyze(p) PROVE IInv'
  BY <1>9, AnalyzeKeeps
<1>5. ASSUME NEW id \in acks, ReceiveAck(id) PROVE IInv'
  BY <1>5, ReceiveAckKeeps
<1>6. ASSUME NEW S \in SUBSET pending, NEW idle \in BOOLEAN, MaintainSender(S, idle) PROVE IInv'
  BY <1>6, MaintainSenderKeeps
<1>7. CASE MaintainReceiver
  BY <1>7, MaintainReceiverKeeps
<1>8. CASE UNCHANGED vars
  <2>1. TypeOK' /\ SentInOrder' /\ TriesCounted'
    BY <1>8 DEF IInv, TypeOK, SentInOrder, TriesCounted, vars, senderVars, receiverVars, history
  <2> QED  BY <1>8, <2>1, RingUnchanged DEF IInv, vars
<1> QED  BY <1>1, <1>2, <1>3, <1>4, <1>5, <1>6, <1>7, <1>8, <1>9 DEF Next, Maintenance

-----------------------------------------------------------------------------
(* The theorems.                                                            *)

\* The inductive invariant holds throughout, with connections that are deleted
\* and ids that go round.
THEOREM Invariance == Spec => []IInv
<1> QED  BY InitIInv, NextKeeps, PTL DEF Spec

\* Every variable of the connection layer keeps its type.
THEOREM TypeCorrect == Spec => []TypeOK
<1>1. IInv => TypeOK
  BY DEF IInv
<1> QED  BY <1>1, Invariance, PTL

\* The search round the ring answers for exactly the last W - 1 packets that
\* the connection registered, whatever W is.
THEOREM RingRemembers == Spec => []RemembersRecent
<1>1. IInv => RemembersRecent
  BY HeldMeansRemembered DEF IInv
<1> QED  BY <1>1, Invariance, PTL

\* dwAckCount counts every sending of a packet that waits for its ack.
THEOREM TriesAreCounted == Spec => []TriesCounted
<1>1. IInv => TriesCounted
  BY DEF IInv
<1> QED  BY <1>1, Invariance, PTL

-----------------------------------------------------------------------------
(* What the two ends decide by ids.  An id tells a packet as long as less    *)
(* than a round of ids, and no deletion of the sender's connection, lies     *)
(* between it and another one that has it.                                   *)

\* How many ids there are.
N == EndId - FirstId

\* The id that was given d packets before the last one.
IdBack(d) == IF lastId - d >= FirstId THEN lastId - d ELSE lastId - d + N

\* The packets that have an id and may still be received.
Known(p) == p \in wire \/ \E i \in DOMAIN preSend : preSend[i] = p

\* p's id was given before now, by an earlier connection or at its place in the
\* round.
InRound(p) ==
  /\ born[p.msg].no >= 1 /\ born[p.msg].life <= given.life
  /\ born[p.msg].life = given.life =>
       /\ born[p.msg].no <= given.no
       /\ given.no - born[p.msg].no < N => p.id = IdBack(given.no - born[p.msg].no)

IdsInRounds ==
  /\ lastId = 0 <=> given.no = 0
  /\ \A p \in Packet : Known(p) => InRound(p)
  /\ \A p, r \in Packet :
       Known(p) /\ Known(r) /\ p.id = r.id => p.msg = r.msg \/ ~SameRound(p.msg, r.msg)

\* What either end remembers is about packets that were sent and, at the
\* receiver, analysed; an id that was acked is of one that was analysed or is in
\* hand.
MemoryTrue ==
  /\ \A q \in pending : [id |-> q.id, msg |-> q.msg] \in wire
  /\ \A i \in DOMAIN log : log[i] \in wire /\ log[i].msg \in analysed
  /\ inHand \subseteq wire /\ \A p, r \in inHand : p = r
  /\ \A id \in acks : \E p \in wire : p.id = id /\ (p.msg \in analysed \/ p \in inHand)

LEMMA InitRounds == Init => IdsInRounds /\ MemoryTrue
BY DEF Init, IdsInRounds, Known, MemoryTrue

\* A packet with an id is not the one SendPacket is about to give an id.
LEMMA KnownWasGiven ==
  ASSUME IInv, NEW p \in Packet, Known(p)
  PROVE  p.msg \in Msg /\ p.msg # sending.msg /\ p.msg \notin unsent
<1>1. p.msg \in Msg /\ p.msg # NoMsg
  BY LinkAssumption DEF Packet
<1>2. CASE p \in wire
  BY <1>1, <1>2 DEF IInv, SentInOrder
<1>3. CASE \E i \in DOMAIN preSend : preSend[i] = p
  BY <1>1, <1>3 DEF IInv, SentInOrder
<1> QED  BY <1>1, <1>2, <1>3 DEF Known

\* Steps that give no id keep the rounds.
LEMMA RoundsKept ==
  ASSUME IdsInRounds, UNCHANGED <<lastId, history>>, \A p \in Packet : Known(p)' => Known(p)
  PROVE  IdsInRounds'
<1>1. \A p \in Packet : InRound(p) => InRound(p)'
  BY DEF InRound, IdBack, N, history
<1>2. \A m, n : SameRound(m, n)' = SameRound(m, n)
  BY DEF SameRound, history
<1>3. (lastId = 0 <=> given.no = 0)'
  BY DEF IdsInRounds, history
<1> QED  BY <1>1, <1>2, <1>3 DEF IdsInRounds

LEMMA KnownUnchanged ==
  ASSUME UNCHANGED <<wire, preSend>>
  PROVE  \A p \in Packet : Known(p)' => Known(p)
BY DEF Known

\* The next id is the one after the last, round the end.
LEMMA NextIdIsNext ==
  ASSUME lastId \in Id, NEW d \in Nat, d + 1 < N
  PROVE  /\ IdBack(d) = IF NextId(lastId) - (d + 1) >= FirstId
                        THEN NextId(lastId) - (d + 1) ELSE NextId(lastId) - (d + 1) + N
         /\ IdBack(d) # NextId(lastId)
<1>1. /\ lastId \in Int /\ FirstId \in Nat \ {0} /\ EndId \in Nat /\ lastId >= FirstId /\ lastId < EndId
      /\ N = EndId - FirstId
  BY LinkAssumption DEF Id, N
<1>2. CASE lastId + 1 >= EndId
  BY <1>1, <1>2 DEF NextId, IdBack
<1>3. CASE lastId + 1 < EndId
  BY <1>1, <1>3 DEF NextId, IdBack
<1> QED  BY <1>1, <1>2, <1>3

LEMMA EndSendRounds == ASSUME IInv, IdsInRounds, EndSend PROVE IdsInRounds'
<1>1. CASE sending.stale
  BY <1>1, RoundsKept, KnownUnchanged DEF EndSend, senderVars
<1>2. CASE ~sending.stale
  <2>0. PICK p : p = [id |-> NextId(lastId), msg |-> sending.msg]
    OBVIOUS
  <2>1. /\ lastId' = NextId(lastId) /\ preSend' = Append(preSend, p) /\ UNCHANGED wire
        /\ given' = [given EXCEPT !.no = @ + 1] /\ born' = [born EXCEPT ![sending.msg] = given']
    BY <1>2, <2>0 DEF EndSend
  <2>2. sending.msg \in Msg
    BY <1>2 DEF EndSend, IInv, TypeOK, Idle
  <2>3. /\ given \in [life : Nat, no : Nat] /\ born \in [Msg -> [life : Nat, no : Nat]]
        /\ lastId \in Id \cup {0} /\ preSend \in Seq(Packet)
    BY DEF IInv, TypeOK
  <2>4. p \in Packet /\ p.id = NextId(lastId) /\ p.msg = sending.msg /\ NextId(lastId) \in Id
    BY <2>0, <2>2, <2>3, NextIdType DEF Packet
  <2>5. \A r \in Packet : Known(r)' => Known(r) \/ r = p
    <3>1. /\ DOMAIN preSend' = 1 .. (Len(preSend) + 1) /\ DOMAIN preSend = 1 .. Len(preSend)
          /\ Len(preSend) \in Nat
          /\ \A i \in DOMAIN preSend : preSend'[i] = preSend[i]
          /\ preSend'[Len(preSend) + 1] = p
      BY <2>1, <2>3, <2>4
    <3> QED  BY <2>1, <3>1 DEF Known
  <2>6. /\ given'.life = given.life /\ given'.no = given.no + 1 /\ given.life \in Nat /\ given.no \in Nat
        /\ born'[p.msg].life = given.life /\ born'[p.msg].no = given.no + 1
    BY <2>1, <2>2, <2>3, <2>4
  <2>7. \A r \in Packet : Known(r) =>
          /\ r.msg \in Msg /\ r.msg # p.msg /\ born'[r.msg] = born[r.msg]
          /\ born[r.msg].life \in Nat /\ born[r.msg].no \in Nat
    BY <2>1, <2>3, <2>4, KnownWasGiven
  <2>8. /\ N \in Nat \ {0} /\ FirstId \in Nat \ {0} /\ \A id \in Id : id \in Nat /\ id >= FirstId /\ id # 0
    BY LinkAssumption DEF N, Id
  <2>9. InRound(p)'
    <3>1. IdBack(0)' = lastId'
      BY <2>1, <2>4, <2>8 DEF IdBack
    <3>2. given'.no - born'[p.msg].no = 0
      BY <2>6
    <3>3. /\ born'[p.msg].no >= 1 /\ born'[p.msg].life <= given'.life /\ born'[p.msg].no <= given'.no
          /\ p.id = lastId'
      BY <2>1, <2>4, <2>6
    <3>4. lastId' \in Nat /\ lastId' >= FirstId
      BY <2>1, <2>4, <2>8
    <3> QED  BY <2>8, <3>2, <3>3, <3>4 DEF InRound, IdBack
  <2>10. ASSUME NEW r \in Packet, Known(r)
         PROVE  /\ InRound(r)'
                /\ born[r.msg].life = given.life /\ given.no + 1 < born[r.msg].no + N => r.id # p.id
    <3> DEFINE d == given.no - born[r.msg].no
    <3>1. InRound(r) /\ (given.no # 0 => lastId # 0)
      BY <2>10 DEF IdsInRounds
    <3>2. /\ born'[r.msg] = born[r.msg] /\ born[r.msg].life \in Nat /\ born[r.msg].no \in Nat
          /\ given'.no - born'[r.msg].no = d + 1
      BY <2>10, <2>6, <2>7
    <3> HIDE DEF d
    <3>3. CASE born[r.msg].life = given.life /\ d + 1 < N
      <4>1. /\ born[r.msg].no >= 1 /\ born[r.msg].no <= given.no /\ d \in Nat /\ d < N /\ r.id = IdBack(d)
        <5>1. born[r.msg].no >= 1 /\ born[r.msg].no <= given.no
          BY <3>1, <3>3 DEF InRound
        <5>2. d \in Nat /\ d < N
          BY <2>6, <2>8, <3>2, <3>3, <5>1 DEF d
        <5> QED  BY <3>1, <3>3, <5>1, <5>2 DEF InRound, d
      <4>2. lastId \in Id
        BY <2>3, <2>6, <3>1, <3>2, <4>1
      <4>3. /\ IdBack(d) = IF NextId(lastId) - (d + 1) >= FirstId
                           THEN NextId(lastId) - (d + 1) ELSE NextId(lastId) - (d + 1) + N
            /\ IdBack(d) # NextId(lastId)
        BY <3>3, <4>1, <4>2, NextIdIsNext
      <4>4. r.id = IF lastId' - (d + 1) >= FirstId THEN lastId' - (d + 1) ELSE lastId' - (d + 1) + N
        BY <2>1, <4>1, <4>3
      <4>5. r.id # p.id
        BY <2>4, <4>1, <4>3
      <4>6. InRound(r)'
        <5>1. given'.no - born'[r.msg].no = d + 1
          BY <3>2
        <5>2. /\ born'[r.msg].no >= 1 /\ born'[r.msg].life <= given'.life
              /\ born'[r.msg].no <= given'.no
          BY <2>6, <3>2, <3>3, <4>1
        <5> QED  BY <4>4, <5>1, <5>2 DEF InRound, IdBack, N
      <4> QED  BY <4>5, <4>6
    <3>4. CASE ~(born[r.msg].life = given.life /\ d + 1 < N)
      <4>1. ~(born[r.msg].life = given.life /\ given.no + 1 < born[r.msg].no + N)
        BY <2>6, <2>8, <3>2, <3>4 DEF d
      <4>2. InRound(r)'
        BY <2>6, <2>8, <3>1, <3>2, <3>4, <4>1 DEF InRound, N
      <4> QED  BY <4>1, <4>2
    <3> QED  BY <3>3, <3>4
  <2>11. ASSUME NEW r \in Packet, Known(r), r.id = p.id
         PROVE  ~SameRound(p.msg, r.msg)' /\ ~SameRound(r.msg, p.msg)'
    <3>1. ~(born[r.msg].life = given.life /\ given.no + 1 < born[r.msg].no + N)
      BY <2>10, <2>11
    <3>2. born'[r.msg].life = born[r.msg].life /\ born'[r.msg].no = born[r.msg].no
      BY <2>7, <2>11
    <3> QED  BY <2>6, <3>1, <3>2 DEF SameRound, N
  <2>12. ASSUME NEW r \in Packet, NEW s \in Packet, Known(r), Known(s), r.id = s.id
         PROVE  r.msg = s.msg \/ ~SameRound(r.msg, s.msg)'
    BY <2>7, <2>12 DEF IdsInRounds, SameRound
  <2>13. (lastId = 0 <=> given.no = 0)'
    BY <2>1, <2>4, <2>6, <2>8
  <2> QED  BY <2>5, <2>9, <2>10, <2>11, <2>12, <2>13 DEF IdsInRounds
<1> QED  BY <1>1, <1>2

LEMMA PreSendRounds == ASSUME IInv, IdsInRounds, MemoryTrue, PreSend PROVE IdsInRounds' /\ MemoryTrue'
<1>1. PICK p : p = Head(preSend)
  OBVIOUS
<1>2. preSend # <<>> /\ preSend \in Seq(Packet)
  BY DEF PreSend, IInv, TypeOK
<1>3. 1 \in DOMAIN preSend /\ p = preSend[1] /\ p \in Packet
  BY <1>1, <1>2
<1>4. /\ pending' = IF p.msg \in Safe THEN AddPending(p) ELSE pending
      /\ wire' = wire \cup {p} /\ preSend' = Tail(preSend)
      /\ UNCHANGED <<unsent, sending, lastId, acks, inHand, receiverVars, history>>
  BY <1>1 DEF PreSend
<1>5. \A r \in Packet : Known(r)' => Known(r)
  <2>1. /\ DOMAIN Tail(preSend) = 1 .. (Len(preSend) - 1) /\ DOMAIN preSend = 1 .. Len(preSend)
        /\ \A i \in DOMAIN Tail(preSend) : Tail(preSend)[i] = preSend[i + 1] /\ i + 1 \in DOMAIN preSend
    BY <1>2
  <2> QED  BY <1>3, <1>4, <2>1 DEF Known
<1>6. IdsInRounds'
  BY <1>4, <1>5, RoundsKept
<1>8. MemoryTrue'
  <2>1. p = [id |-> p.id, msg |-> p.msg]
    BY <1>3 DEF Packet
  <2>2. \A q \in pending' : q \in pending \/ (q.id = p.id /\ q.msg = p.msg)
    BY <1>4 DEF AddPending
  <2> QED  BY <1>4, <2>1, <2>2 DEF MemoryTrue, receiverVars
<1> QED  BY <1>6, <1>8

\* What the ring answers for an id, one packet on the wire was analysed under.
LEMMA HeldWasAnalysed ==
  ASSUME IInv, MemoryTrue, NEW id \in Id, AlreadyReceivedPacket(id)
  PROVE  \E r \in wire : r.id = id /\ r.msg \in analysed
<1>1. PICK i \in DOMAIN log : log[i].id = id
  BY HeldMeansRemembered DEF IInv, RemembersRecent
<1> QED  BY <1>1 DEF MemoryTrue

\* Two packets on the wire with one id stand for each other.
LEMMA SameIdStands ==
  ASSUME IInv, IdsInRounds, NEW p \in wire, NEW r \in wire, r.id = p.id
  PROVE  StandsFor(r, p)
<1>1. p \in Packet /\ r \in Packet
  BY DEF IInv, TypeOK
<1> QED  BY <1>1 DEF StandsFor, IdsInRounds, Known

LEMMA DropsDuplicates == ASSUME IInv, IdsInRounds, MemoryTrue PROVE DropsAreDuplicates
<1> SUFFICES ASSUME NEW p \in wire, AlreadyReceivedPacket(p.id)
             PROVE  \E r \in wire : StandsFor(r, p) /\ r.msg \in analysed
  BY DEF DropsAreDuplicates
<1>1. p.id \in Id
  BY DEF IInv, TypeOK, Packet
<1>2. PICK r \in wire : r.id = p.id /\ r.msg \in analysed
  BY <1>1, HeldWasAnalysed
<1> QED  BY <1>2, SameIdStands

LEMMA ReceiveMemory == ASSUME IInv, MemoryTrue, NEW p \in wire, Receive(p) PROVE MemoryTrue'
<1>1. inHand' = {p} /\ inHand = {} /\ acks' \subseteq acks \cup {p.id} /\ UNCHANGED <<senderVars, wire, receiverVars>>
  BY DEF Receive
<1>2. \A id \in acks' : \E r \in wire' : r.id = id /\ (r.msg \in analysed' \/ r \in inHand')
  BY <1>1 DEF MemoryTrue, receiverVars
<1> QED  BY <1>1, <1>2 DEF MemoryTrue, senderVars, receiverVars

LEMMA PendingStay ==
  ASSUME MemoryTrue, UNCHANGED <<pending, wire>>
  PROVE  \A q \in pending' : [id |-> q.id, msg |-> q.msg] \in wire'
BY Zenon DEF MemoryTrue

LEMMA AnalyzeMemory == ASSUME IInv, MemoryTrue, NEW p \in inHand, Analyze(p) PROVE MemoryTrue'
<1>1. inHand' = {} /\ UNCHANGED <<senderVars, wire, acks>>
  BY DEF Analyze
<1>2. p \in wire /\ p \in Packet /\ p.id \in Id /\ inHand \subseteq {p}
  BY DEF MemoryTrue, IInv, TypeOK, Packet
<1>3. analysed \subseteq analysed' /\ \E r \in wire : r.id = p.id /\ r.msg \in analysed'
  <2>1. CASE AlreadyReceivedPacket(p.id)
    BY <1>2, <2>1, HeldWasAnalysed DEF Analyze, receiverVars
  <2>2. CASE ~AlreadyReceivedPacket(p.id)
    BY <1>2, <2>2 DEF Analyze
  <2> QED  BY <2>1, <2>2
<1>4. \A i \in DOMAIN log' : log'[i] \in wire' /\ log'[i].msg \in analysed'
  <2>1. CASE UNCHANGED receiverVars
    BY <1>1, <2>1 DEF MemoryTrue, receiverVars
  <2>2. CASE log' = Append(log, p) /\ analysed' = analysed \cup {p.msg}
    <3>1. log \in Seq(Packet)
      BY DEF IInv, TypeOK
    <3>2. \A i \in DOMAIN log' : (i \in DOMAIN log /\ log'[i] = log[i]) \/ log'[i] = p
      BY <1>2, <2>2, <3>1
    <3> QED  BY <1>1, <1>2, <2>2, <3>2 DEF MemoryTrue
  <2> QED  BY <2>1, <2>2 DEF Analyze
<1>5. \A id \in acks' : \E r \in wire' : r.id = id /\ (r.msg \in analysed' \/ r \in inHand')
  <2> SUFFICES ASSUME NEW id \in acks PROVE \E r \in wire : r.id = id /\ r.msg \in analysed'
    BY <1>1
  <2>1. PICK r \in wire : r.id = id /\ (r.msg \in analysed \/ r \in inHand)
    BY DEF MemoryTrue
  <2> QED  BY <1>2, <1>3, <2>1
<1>6. \A q \in pending' : [id |-> q.id, msg |-> q.msg] \in wire'
  <2>1. UNCHANGED <<pending, wire>>
    BY <1>1 DEF senderVars
  <2> QED  BY <2>1, PendingStay, Zenon
<1> QED  BY <1>1, <1>4, <1>5, <1>6 DEF MemoryTrue

LEMMA MaintainSenderRounds ==
  ASSUME IInv, IdsInRounds, MemoryTrue, NEW S \in SUBSET pending, NEW idle \in BOOLEAN, MaintainSender(S, idle)
  PROVE  IdsInRounds' /\ MemoryTrue'
<1>1. UNCHANGED <<preSend, acks, inHand, receiverVars, born>>
  BY DEF MaintainSender
<1>2. wire' = wire
  BY DEF MaintainSender, Resent, MemoryTrue
<1>3. ASSUME UNCHANGED <<lastId, given>> PROVE IdsInRounds'
  BY <1>1, <1>2, <1>3, RoundsKept, KnownUnchanged DEF history
<1>4. ASSUME lastId' = 0, given' = IF given.no = 0 THEN given ELSE [life |-> given.life + 1, no |-> 0]
      PROVE  IdsInRounds'
  <2>1. given \in [life : Nat, no : Nat] /\ born \in [Msg -> [life : Nat, no : Nat]]
    BY DEF IInv, TypeOK
  <2>2. CASE given.no = 0
    <3>1. lastId = 0
      BY <2>2 DEF IdsInRounds
    <3>2. UNCHANGED <<lastId, history, wire, preSend>>
      BY <1>1, <1>2, <1>4, <2>2, <3>1 DEF history
    <3> QED  BY <3>2, RoundsKept, KnownUnchanged
  <2>3. CASE given.no # 0
    <3>1. given'.life = given.life + 1 /\ given'.no = 0 /\ given.life \in Nat
      BY <1>4, <2>1, <2>3
    <3>2. \A p \in Packet : p.msg \in Msg /\ born[p.msg].life \in Nat
      BY <2>1 DEF Packet
    <3>3. \A p \in Packet : InRound(p) => InRound(p)'
      BY <1>1, <3>1, <3>2 DEF InRound
    <3>4. \A p \in Packet : Known(p)' => Known(p)
      BY <1>1, <1>2, KnownUnchanged
    <3>5. \A m, n : SameRound(m, n)' = SameRound(m, n)
      BY <1>1 DEF SameRound
    <3> QED  BY <1>4, <3>1, <3>3, <3>4, <3>5 DEF IdsInRounds
  <2> QED  BY <2>2, <2>3
<1>5. \A q \in pending' : \E r \in pending : q.id = r.id /\ q.msg = r.msg
  <2>1. \A r \in pending : [r EXCEPT !.left = @ - 1].id = r.id /\ [r EXCEPT !.left = @ - 1].msg = r.msg
    BY DEF IInv, TypeOK, Pending
  <2> QED  BY <2>1 DEF MaintainSender, TimedOut, Resent
<1>6. MemoryTrue'
  BY <1>1, <1>2, <1>5 DEF MemoryTrue, receiverVars
<1>7. \/ UNCHANGED <<lastId, given>>
      \/ lastId' = 0 /\ given' = IF given.no = 0 THEN given ELSE [life |-> given.life + 1, no |-> 0]
  BY DEF MaintainSender
<1> QED  BY <1>3, <1>4, <1>6, <1>7

RInv == IInv /\ IdsInRounds /\ MemoryTrue

LEMMA NextRounds == RInv /\ [Next]_vars => RInv'
<1> SUFFICES ASSUME RInv, [Next]_vars PROVE IdsInRounds' /\ MemoryTrue'
  BY NextKeeps DEF RInv
<1> USE DEF RInv
<1>1. ASSUME NEW m \in Msg, BeginSend(m) PROVE IdsInRounds' /\ MemoryTrue'
  <2>1. UNCHANGED <<lastId, preSend, pending, wire, acks, inHand, receiverVars, history>>
    BY <1>1 DEF BeginSend
  <2> QED  BY <2>1, RoundsKept, KnownUnchanged DEF MemoryTrue, receiverVars
<1>2. CASE EndSend
  <2>1. UNCHANGED <<pending, wire, acks, inHand, receiverVars>>
    BY <1>2 DEF EndSend, senderVars
  <2> QED  BY <1>2, <2>1, EndSendRounds DEF MemoryTrue, receiverVars
<1>3. CASE PreSend
  BY <1>3, PreSendRounds
<1>4. ASSUME NEW p \in wire, Receive(p) PROVE IdsInRounds' /\ MemoryTrue'
  <2>1. UNCHANGED <<lastId, preSend, wire, history>>
    BY <1>4 DEF Receive, senderVars
  <2> QED  BY <1>4, <2>1, RoundsKept, KnownUnchanged, ReceiveMemory
<1>5. ASSUME NEW p \in inHand, Analyze(p) PROVE IdsInRounds' /\ MemoryTrue'
  <2>1. UNCHANGED <<lastId, preSend, wire, history>>
    BY <1>5 DEF Analyze, senderVars
  <2> QED  BY <1>5, <2>1, RoundsKept, KnownUnchanged, AnalyzeMemory
<1>6. ASSUME NEW id \in acks, ReceiveAck(id) PROVE IdsInRounds' /\ MemoryTrue'
  <2>1. /\ pending' \subseteq pending
        /\ UNCHANGED <<lastId, preSend, wire, acks, inHand, receiverVars, history>>
    BY <1>6 DEF ReceiveAck, DestroyPending
  <2> QED  BY <2>1, RoundsKept, KnownUnchanged DEF MemoryTrue, receiverVars
<1>7. ASSUME NEW S \in SUBSET pending, NEW idle \in BOOLEAN, MaintainSender(S, idle)
      PROVE  IdsInRounds' /\ MemoryTrue'
  BY <1>7, MaintainSenderRounds
<1>8. CASE MaintainReceiver
  <2>1. log' = <<>> /\ UNCHANGED <<lastId, preSend, pending, wire, acks, inHand, analysed, history>>
    BY <1>8 DEF MaintainReceiver, senderVars
  <2> QED  BY <2>1, RoundsKept, KnownUnchanged DEF MemoryTrue
<1>9. CASE UNCHANGED vars
  <2>1. UNCHANGED <<lastId, preSend, pending, wire, acks, inHand, receiverVars, history>>
    BY <1>9 DEF vars, senderVars
  <2> QED  BY <2>1, RoundsKept, KnownUnchanged DEF MemoryTrue, receiverVars
<1> QED  BY <1>1, <1>2, <1>3, <1>4, <1>5, <1>6, <1>7, <1>8, <1>9 DEF Next, Maintenance

LEMMA RoundsInvariant == Spec => []RInv
<1>1. Init => RInv
  BY InitIInv, InitRounds DEF RInv
<1> QED  BY <1>1, NextRounds, PTL DEF Spec

\* AnalyzeUPPData's "If this packet hasn't been already received, analyze it": a
\* packet is dropped only if it was analysed, or one whose id was given before the
\* connection was deleted or a whole round of ids away, whatever is lost, doubled
\* or late, and however many packets there are.
THEOREM NewPacketsAnalysed == Spec => []DropsAreDuplicates
<1>1. RInv => DropsAreDuplicates
  BY DropsDuplicates DEF RInv
<1> QED  BY <1>1, RoundsInvariant, PTL

\* What a step takes off the pending list was sent MaxAck times, or an ack came.
LEMMA LeavesSettled ==
  ASSUME RInv, Next, NEW q \in pending, ~InPending(q.msg)'
  PROVE  \/ tries[q.msg] = MaxAck
         \/ \E r \in wire : StandsFor(r, q) /\ (r.msg \in analysed \/ r \in inHand)
<1> DEFINE p == [id |-> q.id, msg |-> q.msg]
<1>2. \A r \in pending' : r.msg # q.msg
  BY DEF InPending
<1>3. q \in Pending /\ p \in wire
  BY DEF RInv, IInv, TypeOK, MemoryTrue
<1>4. ASSUME NEW id \in acks, ReceiveAck(id)
      PROVE  \E r \in wire : StandsFor(r, q) /\ (r.msg \in analysed \/ r \in inHand)
  <2>1. q.id = id
    BY <1>2, <1>4 DEF ReceiveAck, DestroyPending, RInv, IInv, SentInOrder
  <2>2. PICK r \in wire : r.id = id /\ (r.msg \in analysed \/ r \in inHand)
    BY DEF RInv, MemoryTrue
  <2>3. StandsFor(r, p)
    BY <1>3, <2>1, <2>2, SameIdStands DEF RInv
  <2> QED  BY <2>2, <2>3 DEF StandsFor
<1>5. ASSUME NEW S \in SUBSET pending, NEW idle \in BOOLEAN, MaintainSender(S, idle)
      PROVE  tries[q.msg] = MaxAck
  <2>1. q \in S /\ q \notin Resent(S)
    <3>1. /\ pending \ S \subseteq pending'
          /\ \A r \in Resent(S) : [r EXCEPT !.left = @ - 1] \in pending'
      BY <1>5 DEF MaintainSender, TimedOut
    <3>2. [q EXCEPT !.left = @ - 1].msg = q.msg
      BY <1>3 DEF Pending
    <3> QED  BY <1>2, <3>1, <3>2
  <2>2. q.left = 1
    BY <1>3, <2>1, LinkAssumption DEF Resent, Pending
  <2>3. tries[q.msg] \in Nat /\ tries[q.msg] + q.left = MaxAck + 1
    BY <1>3 DEF RInv, IInv, TriesCounted, TypeOK, Pending
  <2> QED  BY <2>2, <2>3, LinkAssumption
<1>6. ASSUME PreSend PROVE pending \subseteq pending'
  BY <1>6 DEF PreSend, AddPending
<1>7. ASSUME \/ EndSend \/ MaintainReceiver
             \/ \E n \in Msg : BeginSend(n)
             \/ \E r \in wire : Receive(r)
             \/ \E r \in inHand : Analyze(r)
      PROVE  pending' = pending
  BY <1>7 DEF EndSend, MaintainReceiver, BeginSend, Receive, Analyze, senderVars
<1> QED  BY <1>2, <1>4, <1>5, <1>6, <1>7 DEF Next, Maintenance

\* The sender forgets a safe packet only after MaxAck tries, or when it, or one
\* whose id was given a deletion or a round of ids away, was analysed or is in the
\* receiver's hand, though the ack leaves before the packet is registered.
THEOREM ForgetsOnlySettled == Spec => PendingUntilSettled
<1>1. RInv /\ [Next]_vars =>
        [\A q \in pending : ~InPending(q.msg)' =>
           \/ tries[q.msg] = MaxAck
           \/ \E r \in wire : StandsFor(r, q) /\ (r.msg \in analysed \/ r \in inHand)]_vars
  BY LeavesSettled
<1> QED  BY <1>1, RoundsInvariant, PTL DEF Spec, PendingUntilSettled
=============================================================================
