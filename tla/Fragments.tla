------------------------------ MODULE Fragments ------------------------------
(***************************************************************************)
(* Large packets: SendPacket cuts them into pieces, and FragmentedPackets, *)
(* a list of FragmentsList in the receiver's CNMConnection, puts them      *)
(* together again.  A piece's id is that of its packet, a multiple of      *)
(* MAX_FRAGMENTS_PER_PACKET, plus its number.                              *)
(*                                                                         *)
(* Everything here runs under cConnectionLock, on the analysis and the     *)
(* maintenance thread.  Acks and retransmission are in Link; all that they *)
(* change for a piece is how often it arrives.                             *)
(***************************************************************************)
EXTENDS Naturals, SequencesExt, FiniteSets

CONSTANTS
  Msg,       \* the large packets handed to SendPacket
  Size,      \* [Msg -> in how many pieces]
  MaxPieces, \* MAX_FRAGMENTS_PER_PACKET
  Bases,     \* how many ids large packets have: 5760 \div MaxPieces in the code
  MaxLists,  \* MAX_INCOMPLETE_FRAGMENTED_LIST
  W,         \* MAX_RECEIVED_PACKET_QUEUE
  NoMsg

ASSUME FragmentsAssumption ==
  /\ MaxPieces \in Nat /\ MaxPieces >= 2
  /\ Size \in [Msg -> 2 .. MaxPieces]
  /\ NoMsg \notin Msg
  /\ Bases \in Nat \ {0} /\ MaxLists \in Nat \ {0} /\ W \in Nat \ {0, 1}

VARIABLES
  unsent,    \* the packets not yet handed over
  base,      \* m_FragmentedPacketID of the sender, in units of MaxPieces
  wire,      \* the pieces ever sent: each may arrive, once more, or never
  recent,    \* the ids the receiver's ring answers for, see RemembersRecent of Link
  lists,     \* fragPackets
  completed, \* what RegisterFragment just returned, to be posted for analysis
  fault      \* "null" once BuildCompletedPacket met a piece that is not there

vars == <<unsent, base, wire, recent, lists, completed, fault>>

Slot == 0 .. (MaxPieces - 1)
Base == 0 .. (Bases - 1)
PieceId == Base \X Slot
Piece == [id : PieceId, msg : Msg, last : BOOLEAN]
FragmentsList ==
  [id : Base, frag : [Slot -> Msg \cup {NoMsg}], nOfPieces : 0 .. MaxPieces, receivedPieces : Nat]
Completed == [id : Base, frag : [Slot -> Msg \cup {NoMsg}], nOfPieces : 0 .. MaxPieces]

Init ==
  /\ unsent = Msg
  /\ base = 0
  /\ wire = {}
  /\ recent = <<>>
  /\ lists = <<>>
  /\ completed = {}
  /\ fault = "none"

Alive == fault = "none"

-----------------------------------------------------------------------------
\* Mutant: the counter runs one id too far.
NextBaseLate == IF base + 1 > Bases THEN 0 ELSE base + 1

\* GetFragmentedPacketID
NextBase == IF base + 1 >= Bases THEN 0 ELSE base + 1

\* SendPacket of a packet larger than MAX_DATA_SIZE.
SendPacket(m) ==
  /\ Alive /\ m \in unsent
  /\ unsent' = unsent \ {m}
  /\ base' = NextBase
  /\ wire' = wire \cup {[id |-> <<NextBase, i>>, msg |-> m, last |-> i = Size[m] - 1] :
                          i \in 0 .. (Size[m] - 1)}
  /\ completed' = {}
  /\ UNCHANGED <<recent, lists, fault>>

-----------------------------------------------------------------------------
\* RegisterReceivedPacketID, as far as AlreadyReceivedPacket tells.
Register(id) ==
  recent' = IF Len(recent) < W - 1 THEN Append(recent, id) ELSE Append(Tail(recent), id)

AlreadyReceivedPacket(id) == \E k \in DOMAIN recent : recent[k] = id

NewList(id) ==
  [id |-> id, frag |-> [i \in Slot |-> NoMsg], nOfPieces |-> 0, receivedPieces |-> 0]

Filled(f, S) == {i \in S : f[i] # NoMsg}

\* Mutants: the count just goes on when the last piece arrives, or starts over.
CountAnyhow(l, p) == l.receivedPieces + 1
CountAfresh(l, p) == IF l.nOfPieces = 0 /\ p.last THEN 1 ELSE l.receivedPieces + 1

\* The last piece tells how many there are; what came before it is counted
\* again, because pieces beyond the last do not belong.
CountPieces(l, p) ==
  IF l.nOfPieces = 0 /\ p.last
  THEN 1 + Cardinality(Filled(l.frag, 0 .. (p.id[2] - 1))) ELSE l.receivedPieces + 1

\* AddPiece up to the test whether the packet is complete.
Holds(l, p) ==
  /\ l.nOfPieces = 0 \/ p.id[2] < l.nOfPieces
  /\ l.frag[p.id[2]] = NoMsg

AddPiece(l, p) ==
  IF Holds(l, p)
  THEN [l EXCEPT !.frag[p.id[2]] = p.msg,
                 !.nOfPieces = IF @ = 0 /\ p.last THEN p.id[2] + 1 ELSE @,
                 !.receivedPieces = CountPieces(l, p)]
  ELSE l

IsComplete(l) == l.receivedPieces = l.nOfPieces /\ l.nOfPieces > 1

\* Mutant: the newcomer is let in first.
RoomShort == IF Len(lists) > MaxLists THEN Tail(lists) ELSE lists

\* AlreadyReceivedPiecesFromThisPacket: a full list loses its first.
Room == IF Len(lists) >= MaxLists THEN Tail(lists) ELSE lists

\* Mutant: the list of whatever packet came last is taken.
IsListOfLast(l, p) == l = lists[Len(lists)]

IsListOf(l, p) == l.id = p.id[1]

\* RegisterFragment of the first piece of a packet: its list is not asked whether
\* it is complete.
FirstPiece(p) ==
  /\ \A k \in DOMAIN lists : ~IsListOf(lists[k], p)
  /\ lists' = Append(Room, AddPiece(NewList(p.id[1]), p))
  /\ completed' = {}
  /\ UNCHANGED fault

\* RegisterFragment of a later piece; a packet that is complete is built, and its
\* list erased.
LaterPiece(p) ==
  \E k \in DOMAIN lists :
    /\ IsListOf(lists[k], p)
    /\ \A j \in 1 .. (k - 1) : ~IsListOf(lists[j], p)
    /\ LET l == AddPiece(lists[k], p)
       IN  IF Holds(lists[k], p) /\ IsComplete(l)
           THEN /\ lists' = RemoveAt(lists, k)
                /\ completed' = {[id |-> l.id, frag |-> l.frag, nOfPieces |-> l.nOfPieces]}
                /\ fault' = IF \E i \in 0 .. (l.nOfPieces - 1) : l.frag[i] = NoMsg
                            THEN "null" ELSE fault
           ELSE lists' = [lists EXCEPT ![k] = l] /\ completed' = {} /\ UNCHANGED fault

\* AnalyzeUPPData for a piece.
Receive(p) ==
  /\ Alive /\ p \in wire
  /\ ~AlreadyReceivedPacket(p.id)
  /\ Register(p.id)
  /\ FirstPiece(p) \/ LaterPiece(p)
  /\ UNCHANGED <<unsent, base, wire>>

\* VerifyTimedoutFragments when list k timed out.
TimeOut(k) ==
  /\ Alive
  /\ lists' = RemoveAt(lists, k)
  /\ completed' = {}
  /\ UNCHANGED <<unsent, base, wire, recent, fault>>

Next ==
  \/ \E m \in Msg : SendPacket(m)
  \/ \E p \in wire : Receive(p)
  \/ \E k \in DOMAIN lists : TimeOut(k)

Spec == Init /\ [][Next]_vars

-----------------------------------------------------------------------------
(* Properties.                                                              *)

TypeOK ==
  /\ unsent \subseteq Msg
  /\ base \in Base
  /\ wire \subseteq Piece
  /\ recent \in Seq(PieceId)
  /\ lists \in Seq(FragmentsList)
  /\ completed \subseteq Completed
  /\ fault \in {"none", "null"}

\* BuildCompletedPacket copies every piece without a test: when the count says the
\* packet is complete no piece is missing, though ids are reused, pieces of two
\* packets meet in one list, and the last piece may come first.
NoHoles == fault # "null"

\* The other way round, a packet whose pieces are all there does not wait for more.
NoneWaitsComplete ==
  \A k \in DOMAIN lists :
    lists[k].nOfPieces > 1 => \E i \in 0 .. (lists[k].nOfPieces - 1) : lists[k].frag[i] = NoMsg

\* The receiver holds at most MaxLists incomplete packets, no two under one id.
ListsBounded ==
  /\ Len(lists) <= MaxLists
  /\ \A j, k \in DOMAIN lists : j # k => lists[j].id # lists[k].id

SentAs(id) == {p.msg : p \in {q \in wire : q.id[1] = id}}

\* A packet built under an id that only one packet had is that packet, whole:
\* losses, repetitions, time-outs and evictions never mix or cut packets.
BuiltAsSent ==
  \A c \in completed : \A m \in Msg :
    SentAs(c.id) = {m} =>
      /\ c.nOfPieces = Size[m]
      /\ \A i \in 0 .. (c.nOfPieces - 1) : c.frag[i] = m
=============================================================================
