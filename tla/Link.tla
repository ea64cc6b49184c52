--------------------------------- MODULE Link ---------------------------------
(***************************************************************************)
(* The connection layer over UDP: class CNMConnection and the threads of   *)
(* CommCenter.cpp.  Client and server run this same code; the module       *)
(* follows the packets one of them sends, with the connection object of    *)
(* the sender (packet ids, pending list) and the one of the receiver (the  *)
(* ring of ids it remembers).  Only packets in one piece are followed.     *)
(*                                                                         *)
(* Threads of the sender: any thread calls SendPacket, which is two steps  *)
(* because it keeps the connection without cConnectionLock; one thread     *)
(* takes packets off the pre-send queue, one analyses what arrives, one    *)
(* retransmits and deletes idle connections.  The last three work under    *)
(* cConnectionLock, so each of their steps is one action; but a packet is  *)
(* acked before the lock is taken and looked up after.  A connection that  *)
(* was deleted is a fresh one: GetConnection creates it again.             *)
(***************************************************************************)
EXTENDS Naturals, Sequences, FiniteSets

CONSTANTS
  Msg,        \* the packets handed to SendPacket
  Safe,       \* those sent with dwMaxAck # 0, that want an ack
  Big,        \* those of more than MAX_FRAGMENTS_PER_PACKET pieces
  W,          \* MAX_RECEIVED_PACKET_QUEUE
  FirstId,    \* NONFRAGMENTED_PACKETS_IDOFFSET
  EndId,      \* MAX_PACKETS_IDOFFSET, itself never used
  MaxPending, \* MAX_PACKET_PENDING_LIST
  MaxAck,     \* dwMaxAck, how often a safe packet is sent at most
  MaxLog,     \* bound: what the receiver registers on one connection
  Expiring,   \* which ends' connections idle for PACKET_BACKLOG_TIMEOUT
  NoMsg

ASSUME LinkAssumption ==
  /\ Safe \subseteq Msg /\ Big \subseteq Msg /\ NoMsg \notin Msg
  /\ W \in Nat /\ W >= 2
  /\ FirstId \in Nat \ {0} /\ EndId \in Nat /\ FirstId < EndId
  /\ MaxPending \in Nat /\ MaxAck \in Nat \ {0} /\ MaxLog \in Nat
  /\ Expiring \subseteq {"sender", "receiver"}

VARIABLES
  unsent,    \* the packets no thread handed over yet
  sendLock,  \* whether m_SendLock is held
  sending,   \* the packet in SendPacket, and whether its connection is gone
  lastId,    \* m_UnfragmentedPacketID of the sender
  preSend,   \* the pre-send queue
  pending,   \* m_pendingPackets, with their dwAckCount
  wire,      \* the packets ever sent, each of which may still arrive, or never,
             \* or once more
  acks,      \* the ids ever acked, likewise
  inHand,    \* the packet that was acked, if need be, and not yet looked up
  ring,      \* m_wReceivedPacketIDs of the receiver
  offset,    \* m_wReceivedPacketOffset
  analysed,  \* the packets ever posted for analysis
  log,       \* history: the packets the receiver's connection registered
  tries,     \* history: how often each packet was put on the wire
  given,     \* history: how many ids the sender's connection gave, and how many
             \* such connections there were before
  born,      \* history: where each packet's id stands in that count
  fault      \* "freed" once a deleted connection was used

senderVars == <<unsent, sendLock, sending, lastId, preSend, pending>>
receiverVars == <<ring, offset, analysed, log>>
history == <<given, born>>
vars == <<senderVars, wire, acks, inHand, receiverVars, tries, history, fault>>

Id == FirstId .. (EndId - 1)
Empty == EndId \* the WORD -1 a slot of the ring starts with, no packet's id
Packet == [id : Id, msg : Msg]
Pending == [id : Id, msg : Msg, left : 1 .. MaxAck]
Idle == [msg |-> NoMsg, stale |-> FALSE]

Init ==
  /\ unsent = Msg
  /\ sendLock = FALSE
  /\ sending = Idle
  /\ lastId = 0
  /\ preSend = <<>>
  /\ pending = {}
  /\ wire = {} /\ acks = {} /\ inHand = {}
  /\ ring = [i \in 0 .. (W - 1) |-> Empty]
  /\ offset = 0
  /\ analysed = {}
  /\ log = <<>>
  /\ tries = [m \in Msg |-> 0]
  /\ given = [life |-> 0, no |-> 0]
  /\ born = [m \in Msg |-> given]
  /\ fault = "none"

Alive == fault = "none"

-----------------------------------------------------------------------------
(* Sending.                                                                 *)

\* SendPacket up to GetConnection; a packet that is too big returns from here.
BeginSend(m) ==
  /\ Alive
  /\ m \in unsent
  /\ ~sendLock
  /\ sendLock' = TRUE
  /\ unsent' = unsent \ {m}
  /\ sending' = IF m \in Big THEN Idle ELSE [msg |-> m, stale |-> FALSE]
  /\ UNCHANGED <<lastId, preSend, pending, wire, acks, inHand, receiverVars, tries, history, fault>>

\* Mutant: the counter goes round as soon as the receiver's ring would.
NextIdOfRing(last) ==
  IF last + 1 < FirstId \/ last + 1 >= FirstId + W - 1 THEN FirstId ELSE last + 1

\* GetUnfragmentedPacketID
NextId(last) ==
  IF last + 1 < FirstId \/ last + 1 >= EndId THEN FirstId ELSE last + 1

\* The rest of SendPacket: the id is taken from the connection found before.
EndSend ==
  /\ Alive /\ sending # Idle
  /\ IF sending.stale
     THEN fault' = "freed" /\ UNCHANGED <<senderVars, history>>
     ELSE /\ lastId' = NextId(lastId)
          /\ given' = [given EXCEPT !.no = @ + 1]
          /\ born' = [born EXCEPT ![sending.msg] = given']
          /\ preSend' = Append(preSend, [id |-> NextId(lastId), msg |-> sending.msg])
          /\ sendLock' = FALSE
          /\ sending' = Idle
          /\ UNCHANGED <<unsent, pending, fault>>
  /\ UNCHANGED <<wire, acks, inHand, receiverVars, tries>>

\* Mutant: a full list is emptied for the newcomer.
AddPendingDropping(p) ==
  (IF Cardinality(pending) < MaxPending THEN pending ELSE {})
  \cup {[id |-> p.id, msg |-> p.msg, left |-> MaxAck]}

\* AddPending: a full list takes no more, and the packet is sent just once.
AddPending(p) ==
  IF Cardinality(pending) < MaxPending
  THEN pending \cup {[id |-> p.id, msg |-> p.msg, left |-> MaxAck]} ELSE pending

\* UDPSendPacketThread: the next packet goes out, a safe one is remembered.
PreSend ==
  /\ Alive /\ preSend # <<>>
  /\ LET p == Head(preSend)
     IN  /\ pending' = IF p.msg \in Safe THEN AddPending(p) ELSE pending
         /\ wire' = wire \cup {p}
         /\ tries' = [tries EXCEPT ![p.msg] = @ + 1]
  /\ preSend' = Tail(preSend)
  /\ UNCHANGED <<unsent, sendLock, sending, lastId, acks, inHand, receiverVars, history, fault>>

-----------------------------------------------------------------------------
(* Receiving.                                                               *)

\* The slot after offset, round the ring.
NextOffset == IF offset + 1 >= W THEN 0 ELSE offset + 1

\* Mutant: the search starts one slot late.
AlreadyReceivedShort(id) == \E i \in 0 .. (W - 1) : i # offset /\ i # NextOffset /\ ring[i] = id

\* Every slot but the oldest, which is the one after offset.
AlreadyReceivedPacket(id) == \E i \in 0 .. (W - 1) : i # NextOffset /\ ring[i] = id

\* AnalyzeUPPData for a packet, without the lock: a safe one is acked, also when
\* it is a duplicate.
Receive(p) ==
  /\ Alive /\ inHand = {} /\ p \in wire
  /\ AlreadyReceivedPacket(p.id) \/ Len(log) < MaxLog
  /\ acks' = IF p.msg \in Safe THEN acks \cup {p.id} ELSE acks
  /\ inHand' = {p}
  /\ UNCHANGED <<senderVars, wire, receiverVars, tries, history, fault>>

\* The rest, under it: a new packet is registered and posted.
Analyze(p) ==
  /\ Alive /\ p \in inHand
  /\ IF AlreadyReceivedPacket(p.id) THEN UNCHANGED receiverVars
     ELSE /\ offset' = NextOffset
          /\ ring' = [ring EXCEPT ![NextOffset] = p.id]
          /\ analysed' = analysed \cup {p.msg}
          /\ log' = Append(log, p)
  /\ inHand' = {}
  /\ UNCHANGED <<senderVars, wire, acks, tries, history, fault>>

\* DestroyPending: one packet with this id, if there is any, leaves the list.
DestroyPending(id) ==
  LET match == {q \in pending : q.id = id}
  IN  IF match = {} THEN {pending} ELSE {pending \ {q} : q \in match}

\* AnalyzeUPPData for an ack.
ReceiveAck(id) ==
  /\ Alive /\ id \in acks
  /\ pending' \in DestroyPending(id)
  /\ UNCHANGED <<unsent, sendLock, sending, lastId, preSend, wire, acks, inHand, receiverVars, tries, history, fault>>

-----------------------------------------------------------------------------
(* Maintenance, every 125 ms.                                               *)

\* Mutants: a packet that used up its tries stays, with none or with its last; a
\* retransmission is not counted.
TimedOutKept(S) == (pending \ S) \cup {[q EXCEPT !.left = @ - 1] : q \in S}
TimedOutAgain(S) ==
  (pending \ S) \cup {[q EXCEPT !.left = IF @ > 1 THEN @ - 1 ELSE 1] : q \in S}
TimedOutUncounted(S) == pending \ {q \in S : q.left = 1}

Resent(S) == {q \in S : q.left > 1}

\* VerifyTimedoutPending when the packets in S timed out: each loses a try, and
\* leaves with its last one.
TimedOut(S) == (pending \ S) \cup {[q EXCEPT !.left = @ - 1] : q \in Resent(S)}

\* ConnectionHasTimedout: nothing is pending, and nothing was registered for long.
Expires(end, list) == end \in Expiring /\ list = {}

MaintainSender(S, idle) ==
  /\ Alive
  /\ pending' = TimedOut(S)
  /\ wire' = wire \cup {[id |-> q.id, msg |-> q.msg] : q \in Resent(S)}
  /\ tries' = [m \in Msg |-> IF \E q \in Resent(S) : q.msg = m THEN tries[m] + 1 ELSE tries[m]]
  /\ IF idle /\ Expires("sender", pending')
     THEN /\ lastId' = 0 /\ sending' = [sending EXCEPT !.stale = sending # Idle]
          /\ given' = IF given.no = 0 THEN given ELSE [life |-> given.life + 1, no |-> 0]
     ELSE UNCHANGED <<lastId, sending, given>>
  /\ UNCHANGED <<unsent, sendLock, preSend, acks, inHand, receiverVars, born, fault>>

\* The receiver's pass, where nothing is pending: its connection may be deleted.
MaintainReceiver ==
  /\ Alive /\ Expires("receiver", {})
  /\ ring' = [i \in 0 .. (W - 1) |-> Empty]
  /\ offset' = 0
  /\ log' = <<>>
  /\ UNCHANGED <<senderVars, wire, acks, inHand, analysed, tries, history, fault>>

Maintenance ==
  \/ MaintainReceiver
  \/ \E S \in SUBSET pending : \E idle \in BOOLEAN : MaintainSender(S, idle)

-----------------------------------------------------------------------------
Next ==
  \/ \E m \in Msg : BeginSend(m)
  \/ EndSend \/ PreSend
  \/ \E p \in wire : Receive(p)
  \/ \E p \in inHand : Analyze(p)
  \/ \E id \in acks : ReceiveAck(id)
  \/ Maintenance

Spec == Init /\ [][Next]_vars

\* The maintenance pass of packet m's time-out.
TimesOut(m) ==
  \E S \in SUBSET pending : \E idle \in BOOLEAN :
    (\E q \in S : q.msg = m) /\ MaintainSender(S, idle)

\* The threads of the sender go on, and every packet's time-out comes; the
\* network promises nothing.
Fairness ==
  /\ WF_vars(EndSend) /\ WF_vars(PreSend)
  /\ \A m \in Safe : WF_vars(TimesOut(m))

FairSpec == Spec /\ Fairness

-----------------------------------------------------------------------------
(* Properties.                                                              *)

TypeOK ==
  /\ unsent \subseteq Msg /\ sendLock \in BOOLEAN
  /\ sending \in [msg : Msg \cup {NoMsg}, stale : BOOLEAN]
  /\ lastId \in Id \cup {0}
  /\ preSend \in Seq(Packet) /\ pending \subseteq Pending
  /\ wire \subseteq Packet /\ acks \subseteq Id /\ inHand \subseteq Packet
  /\ ring \in [0 .. (W - 1) -> Id \cup {Empty}] /\ offset \in 0 .. (W - 1)
  /\ analysed \subseteq Msg /\ log \in Seq(Packet)
  /\ tries \in [Msg -> Nat]
  /\ given \in [life : Nat, no : Nat] /\ born \in [Msg -> [life : Nat, no : Nat]]
  /\ fault \in {"none", "freed"}

\* The receiver takes a packet for a duplicate exactly when its id is among the
\* last W - 1 it registered: round the ring's end, before it is full and after
\* the connection was deleted as well.
RemembersRecent ==
  \A id \in Id :
    AlreadyReceivedPacket(id) <=> \E i \in DOMAIN log : i + W > Len(log) + 1 /\ log[i].id = id

InPending(m) == \E q \in pending : q.msg = m

\* The ids of m and n come from one connection of the sender, less than a full
\* round of ids apart.
SameRound(m, n) ==
  /\ born[m].life = born[n].life
  /\ born[m].no < born[n].no + (EndId - FirstId)
  /\ born[n].no < born[m].no + (EndId - FirstId)

\* r stands for p where both ends go by ids: it is p, or shares its id because the
\* ids started over, or went all the way round, between the two.
StandsFor(r, p) == r.id = p.id /\ (r.msg = p.msg \/ ~SameRound(r.msg, p.msg))

\* The sender forgets a safe packet only after it was sent MaxAck times, or once
\* the receiver analysed it or has it in hand, however late, doubled or reordered
\* the acks are; if not that packet, then one under the same id from another round
\* of ids.
PendingUntilSettled ==
  [][\A q \in pending : ~InPending(q.msg)' =>
       \/ tries[q.msg] = MaxAck
       \/ \E r \in wire : StandsFor(r, q) /\ (r.msg \in analysed \/ r \in inHand)]_vars

\* A packet on the list was sent as often as its count of tries went down, so no
\* time-out is lost or counted twice.
TriesCounted == \A q \in pending : tries[q.msg] + q.left = MaxAck + 1

\* "If this packet hasn't been already received, analyze it": no packet on its way
\* that was never analysed would be taken for a duplicate.
NewIsAnalysed == \A p \in wire : p.msg \in analysed \/ ~AlreadyReceivedPacket(p.id)

\* A packet is taken for a duplicate only if it was analysed, or one under the same
\* id from another round of ids was.
DropsAreDuplicates ==
  \A p \in wire : AlreadyReceivedPacket(p.id) =>
    \E r \in wire : StandsFor(r, p) /\ r.msg \in analysed

\* The pending list empties again, with no answer at all, so that an idle
\* connection can be deleted and later safe packets find room.
PendingDrains == \A m \in Safe : InPending(m) ~> ~InPending(m) \/ ~Alive
=============================================================================
