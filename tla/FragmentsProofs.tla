--------------------------- MODULE FragmentsProofs ---------------------------
(***************************************************************************)
(* Theorems about Fragments, for any packets, any lengths, any number of   *)
(* ids and any limit on incomplete packets: the count of pieces is exact,  *)
(* and a packet under an id of its own is built as it was sent.            *)
(***************************************************************************)
EXTENDS Fragments, FiniteSetTheorems, TLAPS

-----------------------------------------------------------------------------
(* The inductive invariant.                                                 *)

\* Once the number of pieces is known, the count is that of the slots in use
\* below it; pieces beyond the last are not counted.
Counted(l) ==
  l.nOfPieces # 0 =>
    l.receivedPieces = Cardinality(Filled(l.frag, 0 .. (l.nOfPieces - 1)))

\* A packet that is complete has been built.
Waiting(l) == l.nOfPieces > 1 => l.receivedPieces # l.nOfPieces

\* What a list holds was sent under its id, and so was the piece that told how
\* many there are.
Traced(l, w) ==
  /\ \A i \in Slot : l.frag[i] # NoMsg => \E q \in w : q.id = <<l.id, i>> /\ q.msg = l.frag[i]
  /\ l.nOfPieces # 0 => \E q \in w : q.last /\ q.id = <<l.id, l.nOfPieces - 1>>

\* The lists s of a receiver, when the pieces w have been sent.
ListsInv(s, w) ==
  /\ s \in Seq(FragmentsList) /\ Len(s) <= MaxLists
  /\ \A j, k \in DOMAIN s : j # k => s[j].id # s[k].id
  /\ \A k \in DOMAIN s : Counted(s[k]) /\ Waiting(s[k]) /\ Traced(s[k], w)

\* The piece marked as the last is the last of its packet.
LastIsLast == \A q \in wire : q.last => q.id[2] = Size[q.msg] - 1

IInv ==
  /\ TypeOK
  /\ LastIsLast
  /\ ListsInv(lists, wire)
  /\ NoHoles
  /\ BuiltAsSent

-----------------------------------------------------------------------------
(* Lists of pieces.                                                         *)

LEMMA Removed ==
  ASSUME NEW S, NEW s \in Seq(S), NEW k \in DOMAIN s
  PROVE  /\ RemoveAt(s, k) \in Seq(S)
         /\ Len(RemoveAt(s, k)) = Len(s) - 1
         /\ \A j \in 1 .. (Len(s) - 1) :
              RemoveAt(s, k)[j] = IF j < k THEN s[j] ELSE s[j + 1]
<1> DEFINE u == SubSeq(s, 1, k - 1)
           v == SubSeq(s, k + 1, Len(s))
<1>1. Len(s) \in Nat /\ k \in 1 .. Len(s)
  OBVIOUS
<1>2. u \in Seq(S) /\ Len(u) = k - 1 /\ \A j \in 1 .. (k - 1) : u[j] = s[j]
  BY <1>1
<1>3. /\ v \in Seq(S) /\ Len(v) = Len(s) - k
      /\ \A j \in 1 .. (Len(s) - k) : v[j] = s[j + k]
  BY <1>1
<1> HIDE DEF u, v
<1>4. RemoveAt(s, k) = u \o v
  BY DEF RemoveAt, u, v
<1>5. u \o v \in Seq(S) /\ Len(u \o v) = Len(s) - 1
  BY <1>1, <1>2, <1>3
<1>6. ASSUME NEW j \in 1 .. (Len(s) - 1)
      PROVE  (u \o v)[j] = IF j < k THEN s[j] ELSE s[j + 1]
  <2>1. CASE j < k
    <3>1. (u \o v)[j] = u[j]
      BY <1>1, <1>2, <1>3, <2>1
    <3> QED  BY <3>1, <1>1, <1>2, <2>1
  <2>2. CASE j >= k
    <3>1. (u \o v)[j] = v[j - (k - 1)]
      BY <1>1, <1>2, <1>3, <2>2
    <3>2. j - (k - 1) \in 1 .. (Len(s) - k) /\ (j - (k - 1)) + k = j + 1
      BY <1>1, <2>2
    <3> QED  BY <3>1, <3>2, <1>1, <1>3, <2>2
  <2>3. j < k \/ j >= k
    BY <1>1
  <2> QED  BY <2>1, <2>2, <2>3
<1> QED  BY <1>4, <1>5, <1>6

LEMMA FilledCount ==
  ASSUME NEW f, NEW n \in Nat
  PROVE  /\ IsFiniteSet(Filled(f, 0 .. (n - 1)))
         /\ Cardinality(Filled(f, 0 .. (n - 1))) \in Nat
         /\ Cardinality(Filled(f, 0 .. (n - 1))) = n <=> \A i \in 0 .. (n - 1) : f[i] # NoMsg
<1> DEFINE S == 0 .. (n - 1)
           T == Filled(f, S)
<1>1. T \in SUBSET S /\ (T = S <=> \A i \in S : f[i] # NoMsg)
  BY DEF Filled
<1>2. IsFiniteSet(S) /\ Cardinality(S) = n
  BY FS_Interval
<1> HIDE DEF S, T
<1>3. IsFiniteSet(T) /\ (Cardinality(S) = Cardinality(T) => S = T)
  BY <1>1, <1>2, FS_Subset
<1>4. Cardinality(T) \in Nat
  BY <1>3, FS_CardinalityType
<1> QED  BY <1>1, <1>2, <1>3, <1>4 DEF S, T

\* Complete by the count is complete.
LEMMA CompleteIsWhole ==
  ASSUME NEW l \in FragmentsList, Counted(l), l.nOfPieces > 1
  PROVE  l.receivedPieces = l.nOfPieces <=> \A i \in 0 .. (l.nOfPieces - 1) : l.frag[i] # NoMsg
<1>1. l.nOfPieces \in Nat
  BY FragmentsAssumption DEF FragmentsList
<1>2. Cardinality(Filled(l.frag, 0 .. (l.nOfPieces - 1))) = l.nOfPieces
        <=> \A i \in 0 .. (l.nOfPieces - 1) : l.frag[i] # NoMsg
  BY <1>1, FilledCount
<1>3. l.receivedPieces = Cardinality(Filled(l.frag, 0 .. (l.nOfPieces - 1)))
  BY <1>1 DEF Counted
<1> QED  BY <1>2, <1>3

\* Putting one more piece into a free slot adds one.
LEMMA OneMore ==
  ASSUME NEW f, NEW n \in Nat, NEW i \in 0 .. (n - 1), NEW g, g[i] # NoMsg, f[i] = NoMsg,
         \A j \in 0 .. (n - 1) : j # i => g[j] = f[j]
  PROVE  Cardinality(Filled(g, 0 .. (n - 1))) = Cardinality(Filled(f, 0 .. (n - 1))) + 1
<1>1. Filled(g, 0 .. (n - 1)) = Filled(f, 0 .. (n - 1)) \cup {i} /\ i \notin Filled(f, 0 .. (n - 1))
  BY DEF Filled
<1>2. IsFiniteSet(Filled(f, 0 .. (n - 1)))
  BY FilledCount
<1> QED  BY <1>1, <1>2, FS_AddElement

LEMMA NewListEmpty ==
  ASSUME NEW id \in Base, NEW w
  PROVE  /\ NewList(id) \in FragmentsList /\ NewList(id).id = id
         /\ Counted(NewList(id)) /\ Traced(NewList(id), w)
BY FragmentsAssumption DEF NewList, FragmentsList, Counted, Traced

\* AddPiece keeps the count exact and the pieces traced.
LEMMA PieceAdded ==
  ASSUME NEW l \in FragmentsList, NEW w \in SUBSET Piece, NEW p \in w,
         Counted(l), Traced(l, w), p.id[1] = l.id, Holds(l, p)
  PROVE  /\ AddPiece(l, p) \in FragmentsList /\ AddPiece(l, p).id = l.id
         /\ Counted(AddPiece(l, p)) /\ Traced(AddPiece(l, p), w)
<1> DEFINE n == AddPiece(l, p)
           i == p.id[2]
<1>1. /\ p.id \in Base \X Slot /\ p.id = <<l.id, i>> /\ i \in Slot /\ i \in Nat /\ i < MaxPieces
      /\ p.msg \in Msg /\ p.msg # NoMsg /\ p.last \in BOOLEAN /\ MaxPieces \in Nat
  BY FragmentsAssumption DEF Piece, PieceId, Slot
<1>2. /\ l.id \in Base /\ l.frag \in [Slot -> Msg \cup {NoMsg}] /\ l.nOfPieces \in 0 .. MaxPieces
      /\ l.receivedPieces \in Nat
  BY DEF FragmentsList
<1>3. /\ n.id = l.id
      /\ n.frag = [l.frag EXCEPT ![i] = p.msg]
      /\ n.nOfPieces = IF l.nOfPieces = 0 /\ p.last THEN i + 1 ELSE l.nOfPieces
      /\ n.receivedPieces = CountPieces(l, p)
      /\ n = [id |-> n.id, frag |-> n.frag, nOfPieces |-> n.nOfPieces,
              receivedPieces |-> n.receivedPieces]
  BY DEF AddPiece, FragmentsList
<1>4. CountPieces(l, p) \in Nat
  <2>1. Cardinality(Filled(l.frag, 0 .. (i - 1))) \in Nat
    BY <1>1, FilledCount
  <2> QED  BY <2>1, <1>2 DEF CountPieces
<1> HIDE DEF n
<1>5. n \in FragmentsList
  <2>1. n.frag \in [Slot -> Msg \cup {NoMsg}]
    BY <1>1, <1>2, <1>3
  <2>2. n.nOfPieces \in 0 .. MaxPieces
    BY <1>1, <1>2, <1>3
  <2> QED  BY <1>2, <1>3, <1>4, <2>1, <2>2 DEF FragmentsList
<1>6. n.frag[i] = p.msg /\ (\A j \in Slot : j # i => n.frag[j] = l.frag[j]) /\ l.frag[i] = NoMsg
  BY <1>1, <1>2, <1>3 DEF Holds
<1>7. Counted(n)
  <2>1. CASE l.nOfPieces = 0 /\ p.last
    <3>1. n.nOfPieces = i + 1 /\ (i + 1) - 1 = i
      BY <1>1, <1>3, <2>1
    <3>2. /\ Filled(n.frag, 0 .. i) = Filled(l.frag, 0 .. (i - 1)) \cup {i}
          /\ i \notin Filled(l.frag, 0 .. (i - 1))
      BY <1>1, <1>6 DEF Filled, Slot
    <3>3. IsFiniteSet(Filled(l.frag, 0 .. (i - 1))) /\ Cardinality(Filled(l.frag, 0 .. (i - 1))) \in Nat
      BY <1>1, FilledCount
    <3>4. Cardinality(Filled(n.frag, 0 .. i)) = Cardinality(Filled(l.frag, 0 .. (i - 1))) + 1
      BY <3>2, <3>3, FS_AddElement
    <3>5. n.receivedPieces = 1 + Cardinality(Filled(l.frag, 0 .. (i - 1)))
      BY <1>3, <2>1 DEF CountPieces
    <3> QED  BY <3>1, <3>3, <3>4, <3>5 DEF Counted
  <2>2. CASE l.nOfPieces = 0 /\ ~p.last
    BY <1>3, <2>2 DEF Counted
  <2>3. CASE l.nOfPieces # 0
    <3>1. n.nOfPieces = l.nOfPieces /\ n.receivedPieces = l.receivedPieces + 1
      BY <1>3, <2>3 DEF CountPieces
    <3>2. i \in 0 .. (l.nOfPieces - 1) /\ l.nOfPieces \in Nat
      BY <1>1, <1>2, <2>3 DEF Holds
    <3>3. \A j \in 0 .. (l.nOfPieces - 1) : j # i => n.frag[j] = l.frag[j]
      BY <1>1, <1>2, <1>6 DEF Slot
    <3>4. Cardinality(Filled(n.frag, 0 .. (l.nOfPieces - 1)))
            = Cardinality(Filled(l.frag, 0 .. (l.nOfPieces - 1))) + 1
      BY <1>1, <1>6, <3>2, <3>3, OneMore
    <3> QED  BY <2>3, <3>1, <3>4 DEF Counted
  <2> QED  BY <2>1, <2>2, <2>3
<1>8. Traced(n, w)
  <2>1. ASSUME NEW j \in Slot, n.frag[j] # NoMsg
        PROVE  \E q \in w : q.id = <<n.id, j>> /\ q.msg = n.frag[j]
    <3>1. CASE j = i
      BY <1>1, <1>3, <1>6, <3>1
    <3>2. CASE j # i
      <4>1. n.frag[j] = l.frag[j] /\ l.frag[j] # NoMsg
        BY <1>6, <2>1, <3>2
      <4>2. PICK q \in w : q.id = <<l.id, j>> /\ q.msg = l.frag[j]
        BY <4>1 DEF Traced
      <4> QED  BY <1>3, <4>1, <4>2
    <3> QED  BY <3>1, <3>2
  <2>2. ASSUME n.nOfPieces # 0
        PROVE  \E q \in w : q.last /\ q.id = <<n.id, n.nOfPieces - 1>>
    <3>1. CASE l.nOfPieces = 0 /\ p.last
      <4>1. n.nOfPieces - 1 = i
        BY <1>1, <1>3, <3>1
      <4> QED  BY <1>1, <1>3, <3>1, <4>1
    <3>2. CASE ~(l.nOfPieces = 0 /\ p.last)
      BY <1>3, <2>2, <3>2 DEF Traced
    <3> QED  BY <3>1, <3>2
  <2> QED  BY <2>1, <2>2 DEF Traced
<1> QED  BY <1>3, <1>5, <1>7, <1>8 DEF n

LEMMA TracedOn ==
  ASSUME NEW l, NEW w, NEW x, w \subseteq x, Traced(l, w)
  PROVE  Traced(l, x)
BY DEF Traced

-----------------------------------------------------------------------------
(* What happens to the lists of a receiver.                                 *)

LEMMA ListsRemoved ==
  ASSUME NEW s, NEW w, ListsInv(s, w), NEW k \in DOMAIN s
  PROVE  ListsInv(RemoveAt(s, k), w)
<1> DEFINE t == RemoveAt(s, k)
<1>1. s \in Seq(FragmentsList) /\ Len(s) \in Nat /\ DOMAIN s = 1 .. Len(s) /\ k \in 1 .. Len(s)
  BY DEF ListsInv
<1>2. /\ t \in Seq(FragmentsList) /\ Len(t) = Len(s) - 1
      /\ \A j \in 1 .. (Len(s) - 1) : t[j] = IF j < k THEN s[j] ELSE s[j + 1]
  BY <1>1, Removed
<1> HIDE DEF t
<1>3. DOMAIN t = 1 .. (Len(s) - 1)
  BY <1>2
<1>4. ASSUME NEW i \in DOMAIN t, NEW j \in DOMAIN t, i # j
      PROVE  t[i].id # t[j].id
  <2> DEFINE from(x) == IF x < k THEN x ELSE x + 1
  <2>1. from(i) \in DOMAIN s /\ from(j) \in DOMAIN s /\ from(i) # from(j)
    BY <1>1, <1>3, <1>4
  <2>2. t[i] = s[from(i)] /\ t[j] = s[from(j)]
    BY <1>2, <1>3
  <2> HIDE DEF from
  <2> QED  BY <2>1, <2>2 DEF ListsInv
<1>5. ASSUME NEW j \in DOMAIN t
      PROVE  Counted(t[j]) /\ Waiting(t[j]) /\ Traced(t[j], w)
  <2>1. PICK i \in DOMAIN s : t[j] = s[i]
    BY <1>1, <1>2, <1>3
  <2> QED  BY <2>1 DEF ListsInv
<1>6. Len(t) <= MaxLists
  BY <1>1, <1>2, FragmentsAssumption DEF ListsInv
<1> QED  BY <1>2, <1>4, <1>5, <1>6 DEF ListsInv, t

LEMMA ListAdded ==
  ASSUME NEW s, NEW w, ListsInv(s, w), Len(s) < MaxLists,
         NEW l \in FragmentsList, Counted(l), Waiting(l), Traced(l, w),
         \A k \in DOMAIN s : s[k].id # l.id
  PROVE  ListsInv(Append(s, l), w)
<1> DEFINE t == Append(s, l)
<1>1. s \in Seq(FragmentsList) /\ Len(s) \in Nat /\ DOMAIN s = 1 .. Len(s)
  BY DEF ListsInv
<1>2. /\ t \in Seq(FragmentsList) /\ Len(t) = Len(s) + 1 /\ DOMAIN t = 1 .. (Len(s) + 1)
      /\ t[Len(s) + 1] = l /\ \A j \in 1 .. Len(s) : t[j] = s[j]
  BY <1>1
<1> HIDE DEF t
<1>3. ASSUME NEW i \in DOMAIN t, NEW j \in DOMAIN t, i # j
      PROVE  t[i].id # t[j].id
  BY <1>1, <1>2, <1>3 DEF ListsInv
<1>4. ASSUME NEW j \in DOMAIN t
      PROVE  Counted(t[j]) /\ Waiting(t[j]) /\ Traced(t[j], w)
  <2>1. CASE j = Len(s) + 1
    BY <1>2, <2>1
  <2>2. CASE j # Len(s) + 1
    <3>1. j \in DOMAIN s /\ t[j] = s[j]
      BY <1>1, <1>2, <2>2
    <3> QED  BY <3>1 DEF ListsInv
  <2> QED  BY <2>1, <2>2
<1>5. Len(t) <= MaxLists
  BY <1>1, <1>2, FragmentsAssumption
<1> QED  BY <1>2, <1>3, <1>4, <1>5 DEF ListsInv, t

LEMMA ListChanged ==
  ASSUME NEW s, NEW w, ListsInv(s, w), NEW k \in DOMAIN s,
         NEW l \in FragmentsList, Counted(l), Waiting(l), Traced(l, w), l.id = s[k].id
  PROVE  ListsInv([s EXCEPT ![k] = l], w)
<1> DEFINE t == [s EXCEPT ![k] = l]
<1>1. s \in Seq(FragmentsList)
  BY DEF ListsInv
<1>2. /\ t \in Seq(FragmentsList) /\ Len(t) = Len(s) /\ DOMAIN t = DOMAIN s
      /\ t[k] = l /\ \A j \in DOMAIN s : j # k => t[j] = s[j]
  BY <1>1
<1> HIDE DEF t
<1>3. \A j \in DOMAIN s : t[j].id = s[j].id
  BY <1>2
<1>4. ASSUME NEW j \in DOMAIN t
      PROVE  Counted(t[j]) /\ Waiting(t[j]) /\ Traced(t[j], w)
  <2>1. CASE j = k
    BY <1>2, <2>1
  <2>2. CASE j # k
    <3>1. t[j] = s[j] /\ j \in DOMAIN s
      BY <1>2, <2>2
    <3> QED  BY <3>1 DEF ListsInv
  <2> QED  BY <2>1, <2>2
<1> QED  BY <1>2, <1>3, <1>4 DEF ListsInv, t

LEMMA RoomMade ==
  ASSUME NEW w, ListsInv(lists, w)
  PROVE  /\ ListsInv(Room, w) /\ Len(Room) < MaxLists
         /\ \A j \in DOMAIN Room : \E k \in DOMAIN lists : Room[j] = lists[k]
<1>1. lists \in Seq(FragmentsList) /\ Len(lists) \in Nat /\ Len(lists) <= MaxLists /\ MaxLists \in Nat \ {0}
  BY FragmentsAssumption DEF ListsInv
<1>2. CASE Len(lists) >= MaxLists
  <2>1. Room = Tail(lists)
    BY <1>2 DEF Room
  <2>2. /\ Room \in Seq(FragmentsList) /\ Len(Room) = Len(lists) - 1 /\ DOMAIN Room = 1 .. (Len(lists) - 1)
        /\ \A j \in 1 .. (Len(lists) - 1) : Room[j] = lists[j + 1] /\ j + 1 \in DOMAIN lists
    BY <1>1, <1>2, <2>1
  <2>3. ASSUME NEW i \in DOMAIN Room, NEW j \in DOMAIN Room, i # j
        PROVE  Room[i].id # Room[j].id
    <3>1. i + 1 \in DOMAIN lists /\ j + 1 \in DOMAIN lists /\ i + 1 # j + 1
      BY <1>1, <2>2, <2>3
    <3>2. Room[i] = lists[i + 1] /\ Room[j] = lists[j + 1]
      BY <2>2
    <3> QED  BY <3>1, <3>2 DEF ListsInv
  <2>4. ASSUME NEW j \in DOMAIN Room
        PROVE  Counted(Room[j]) /\ Waiting(Room[j]) /\ Traced(Room[j], w)
    <3>1. PICK k \in DOMAIN lists : Room[j] = lists[k]
      BY <2>2
    <3> QED  BY <3>1 DEF ListsInv
  <2>5. Len(Room) < MaxLists /\ Len(Room) <= MaxLists
    BY <1>1, <2>2
  <2>6. ListsInv(Room, w)
    BY <2>2, <2>3, <2>4, <2>5 DEF ListsInv
  <2> QED  BY <2>2, <2>5, <2>6
<1>3. CASE ~(Len(lists) >= MaxLists)
  <2>1. Room = lists
    BY <1>3 DEF Room
  <2> QED  BY <1>1, <1>3, <2>1
<1> QED  BY <1>2, <1>3

\* More pieces on the wire do not hurt.
LEMMA ListsOn ==
  ASSUME NEW s, NEW w, NEW x, w \subseteq x, ListsInv(s, w)
  PROVE  ListsInv(s, x)
BY TracedOn DEF ListsInv

-----------------------------------------------------------------------------
(* The steps.                                                               *)

LEMMA InitIInv == Init => IInv
<1> SUFFICES ASSUME Init PROVE IInv
  OBVIOUS
<1>1. TypeOK
  BY FragmentsAssumption DEF Init, TypeOK, Base
<1>2. ListsInv(lists, wire)
  BY FragmentsAssumption DEF Init, ListsInv
<1> QED  BY <1>1, <1>2 DEF Init, IInv, LastIsLast, NoHoles, BuiltAsSent

LEMMA SendPacketKeeps ==
  ASSUME IInv, NEW m \in Msg, SendPacket(m)
  PROVE  IInv'
<1> DEFINE new == {[id |-> <<NextBase, i>>, msg |-> m, last |-> i = Size[m] - 1] :
                     i \in 0 .. (Size[m] - 1)}
<1>1. NextBase \in Base
  BY FragmentsAssumption DEF NextBase, Base, IInv, TypeOK
<1>2. Size[m] \in Nat /\ Size[m] >= 2 /\ Size[m] <= MaxPieces /\ MaxPieces \in Nat
  BY FragmentsAssumption
<1>3. new \subseteq Piece /\ \A q \in new : q.last => q.id[2] = Size[q.msg] - 1
  <2>1. ASSUME NEW q \in new
        PROVE  q \in Piece /\ (q.last => q.id[2] = Size[q.msg] - 1)
    <3>1. PICK i \in 0 .. (Size[m] - 1) :
            q = [id |-> <<NextBase, i>>, msg |-> m, last |-> i = Size[m] - 1]
      OBVIOUS
    <3>2. i \in Slot /\ <<NextBase, i>> \in PieceId
      BY <1>1, <1>2 DEF PieceId, Slot
    <3>3. q.id = <<NextBase, i>> /\ q.msg = m /\ q.last = (i = Size[m] - 1) /\ q.id[2] = i
      BY <3>1
    <3>4. q \in Piece
      BY <3>1, <3>2 DEF Piece
    <3> QED  BY <3>3, <3>4
  <2> QED  BY <2>1
<1>4. wire' = wire \cup new /\ lists' = lists /\ fault' = fault /\ completed' = {}
      /\ unsent' \subseteq unsent /\ base' = NextBase /\ recent' = recent
  BY DEF SendPacket
<1> HIDE DEF new
<1>5. TypeOK'
  BY <1>1, <1>3, <1>4 DEF IInv, TypeOK
<1>6. LastIsLast'
  BY <1>3, <1>4 DEF IInv, LastIsLast
<1>7. ListsInv(lists', wire')
  BY <1>4, ListsOn DEF IInv
<1>8. NoHoles' /\ BuiltAsSent'
  BY <1>4 DEF IInv, NoHoles, BuiltAsSent
<1> QED  BY <1>5, <1>6, <1>7, <1>8 DEF IInv

\* A piece that may be received is one that was sent.
LEMMA WirePiece ==
  ASSUME TypeOK, NEW p \in wire
  PROVE  p \in Piece /\ p.id \in PieceId /\ p.id[1] \in Base /\ p.id[2] \in Slot
BY DEF TypeOK, Piece, PieceId

LEMMA Registered ==
  ASSUME TypeOK, NEW id \in PieceId, Register(id)
  PROVE  recent' \in Seq(PieceId)
<1>1. recent \in Seq(PieceId) /\ W \in Nat \ {0, 1}
  BY FragmentsAssumption DEF TypeOK
<1>2. CASE Len(recent) < W - 1
  BY <1>1, <1>2 DEF Register
<1>3. CASE ~(Len(recent) < W - 1)
  <2>1. recent # <<>>
    BY <1>1, <1>3
  <2>2. Tail(recent) \in Seq(PieceId)
    BY <1>1, <2>1
  <2> QED  BY <1>3, <2>2 DEF Register
<1> QED  BY <1>2, <1>3

LEMMA FirstPieceKeeps ==
  ASSUME IInv, NEW p \in wire, Receive(p), FirstPiece(p)
  PROVE  IInv'
<1> DEFINE e == NewList(p.id[1])
           l == AddPiece(e, p)
<1>1. p \in Piece /\ p.id \in PieceId /\ p.id[1] \in Base /\ p.id[2] \in Slot
  BY WirePiece DEF IInv
<1>2. /\ e \in FragmentsList /\ e.id = p.id[1] /\ Counted(e) /\ Traced(e, wire)
      /\ e.nOfPieces = 0 /\ e.frag = [i \in Slot |-> NoMsg] /\ e.receivedPieces = 0
  BY <1>1, NewListEmpty DEF NewList
<1>3. Holds(e, p)
  BY <1>1, <1>2 DEF Holds
<1> HIDE DEF e
<1>4. l \in FragmentsList /\ l.id = p.id[1] /\ Counted(l) /\ Traced(l, wire)
  BY <1>1, <1>2, <1>3, PieceAdded DEF IInv, TypeOK
<1>5. Waiting(l)
  <2>1. CountPieces(e, p) = 1
    <3>1. Filled(e.frag, 0 .. (p.id[2] - 1)) = {}
      BY <1>1, <1>2, FragmentsAssumption DEF Filled, Slot
    <3>2. Cardinality(Filled(e.frag, 0 .. (p.id[2] - 1))) = 0
      BY <3>1, FS_EmptySet
    <3> QED  BY <1>2, <3>2 DEF CountPieces
  <2>2. l.receivedPieces = 1
    BY <1>2, <1>3, <2>1 DEF AddPiece, FragmentsList
  <2> QED  BY <2>2 DEF Waiting
<1> HIDE DEF l
<1>6. /\ lists' = Append(Room, l) /\ completed' = {} /\ fault' = fault
      /\ \A k \in DOMAIN lists : lists[k].id # p.id[1]
      /\ UNCHANGED <<unsent, base, wire>> /\ Register(p.id)
  BY DEF FirstPiece, Receive, IsListOf, l, e
<1>7. /\ ListsInv(Room, wire) /\ Len(Room) < MaxLists
      /\ \A j \in DOMAIN Room : Room[j].id # p.id[1]
  BY <1>6, RoomMade DEF IInv
<1>8. ListsInv(lists', wire')
  BY <1>4, <1>5, <1>6, <1>7, ListAdded
<1>9. TypeOK'
  BY <1>1, <1>6, <1>8, Registered DEF IInv, TypeOK, ListsInv
<1>10. LastIsLast' /\ NoHoles' /\ BuiltAsSent'
  BY <1>6 DEF IInv, LastIsLast, NoHoles, BuiltAsSent
<1> QED  BY <1>8, <1>9, <1>10 DEF IInv

\* What is built has no holes, and holds what was sent under its id.
LEMMA Built ==
  ASSUME IInv, NEW l \in FragmentsList, Counted(l), Traced(l, wire), IsComplete(l)
  PROVE  /\ \A i \in 0 .. (l.nOfPieces - 1) : l.frag[i] # NoMsg
         /\ \A m \in Msg : SentAs(l.id) = {m} =>
              l.nOfPieces = Size[m] /\ \A i \in 0 .. (l.nOfPieces - 1) : l.frag[i] = m
<1>1. l.nOfPieces \in 0 .. MaxPieces /\ l.nOfPieces > 1 /\ l.nOfPieces \in Nat /\ MaxPieces \in Nat
  BY FragmentsAssumption DEF IsComplete, FragmentsList
<1>2. \A i \in 0 .. (l.nOfPieces - 1) : l.frag[i] # NoMsg
  BY <1>1, CompleteIsWhole DEF IsComplete
<1>3. ASSUME NEW m \in Msg, SentAs(l.id) = {m}
      PROVE  l.nOfPieces = Size[m] /\ \A i \in 0 .. (l.nOfPieces - 1) : l.frag[i] = m
  <2>1. \A q \in wire : q.id[1] = l.id => q.msg = m
    BY <1>3 DEF SentAs
  <2>2. ASSUME NEW i \in 0 .. (l.nOfPieces - 1)
        PROVE  l.frag[i] = m
    <3>1. i \in Slot
      BY <1>1 DEF Slot
    <3>2. PICK q \in wire : q.id = <<l.id, i>> /\ q.msg = l.frag[i]
      BY <1>2, <3>1 DEF Traced
    <3> QED  BY <2>1, <3>2
  <2>3. PICK q \in wire : q.last /\ q.id = <<l.id, l.nOfPieces - 1>>
    BY <1>1 DEF Traced
  <2>4. q.msg = m /\ q.id[2] = l.nOfPieces - 1
    BY <2>1, <2>3
  <2>5. l.nOfPieces - 1 = Size[m] - 1 /\ Size[m] \in Nat
    BY <2>3, <2>4, FragmentsAssumption DEF IInv, LastIsLast
  <2> QED  BY <1>1, <2>2, <2>5
<1> QED  BY <1>2, <1>3

LEMMA LaterPieceKeeps ==
  ASSUME IInv, NEW p \in wire, Receive(p), LaterPiece(p)
  PROVE  IInv'
<1>1. p \in Piece /\ p.id \in PieceId /\ p.id[1] \in Base /\ p.id[2] \in Slot
  BY WirePiece DEF IInv
<1>2. UNCHANGED <<unsent, base, wire>> /\ Register(p.id)
  BY DEF Receive
<1>3. recent' \in Seq(PieceId)
  BY <1>1, <1>2, Registered DEF IInv
<1>4. PICK k \in DOMAIN lists :
        /\ IsListOf(lists[k], p)
        /\ IF Holds(lists[k], p) /\ IsComplete(AddPiece(lists[k], p))
           THEN LET l == AddPiece(lists[k], p)
                IN  /\ lists' = RemoveAt(lists, k)
                    /\ completed' = {[id |-> l.id, frag |-> l.frag, nOfPieces |-> l.nOfPieces]}
                    /\ fault' = IF \E i \in 0 .. (l.nOfPieces - 1) : l.frag[i] = NoMsg
                                THEN "null" ELSE fault
           ELSE /\ lists' = [lists EXCEPT ![k] = AddPiece(lists[k], p)]
                /\ completed' = {} /\ UNCHANGED fault
  BY DEF LaterPiece
<1> DEFINE o == lists[k]
           l == AddPiece(o, p)
<1>5. /\ o \in FragmentsList /\ Counted(o) /\ Waiting(o) /\ Traced(o, wire) /\ o.id = p.id[1]
      /\ wire \in SUBSET Piece
  BY <1>4 DEF IInv, ListsInv, TypeOK, IsListOf
<1>6. Holds(o, p) => l \in FragmentsList /\ l.id = o.id /\ Counted(l) /\ Traced(l, wire)
  BY <1>5, PieceAdded
<1>7. CASE Holds(o, p) /\ IsComplete(l)
  <2> DEFINE c == [id |-> l.id, frag |-> l.frag, nOfPieces |-> l.nOfPieces]
  <2>1. /\ lists' = RemoveAt(lists, k) /\ completed' = {c}
        /\ fault' = IF \E i \in 0 .. (l.nOfPieces - 1) : l.frag[i] = NoMsg THEN "null" ELSE fault
    BY <1>4, <1>7
  <2>2. /\ \A i \in 0 .. (l.nOfPieces - 1) : l.frag[i] # NoMsg
        /\ \A m \in Msg : SentAs(l.id) = {m} =>
             l.nOfPieces = Size[m] /\ \A i \in 0 .. (l.nOfPieces - 1) : l.frag[i] = m
    BY <1>6, <1>7, Built
  <2>3. c \in Completed
    BY <1>6, <1>7 DEF FragmentsList, Completed
  <2> HIDE DEF l
  <2>4. ListsInv(lists', wire')
    BY <1>2, <2>1, ListsRemoved DEF IInv
  <2>5. fault' = fault
    BY <2>1, <2>2
  <2>6. TypeOK'
    BY <1>2, <1>3, <2>1, <2>3, <2>4, <2>5 DEF IInv, TypeOK, ListsInv
  <2>7. LastIsLast' /\ NoHoles'
    BY <1>2, <2>5 DEF IInv, LastIsLast, NoHoles
  <2>8. BuiltAsSent'
    BY <1>2, <2>1, <2>2 DEF BuiltAsSent, SentAs
  <2> QED  BY <2>4, <2>6, <2>7, <2>8 DEF IInv
<1>8. CASE ~(Holds(o, p) /\ IsComplete(l))
  <2>1. lists' = [lists EXCEPT ![k] = l] /\ completed' = {} /\ fault' = fault
    BY <1>4, <1>8
  <2>2. /\ l \in FragmentsList /\ l.id = o.id /\ Counted(l) /\ Waiting(l) /\ Traced(l, wire)
    <3>1. CASE Holds(o, p)
      BY <1>6, <1>8, <3>1 DEF Waiting, IsComplete
    <3>2. CASE ~Holds(o, p)
      <4>1. l = o
        BY <3>2 DEF AddPiece
      <4> QED  BY <1>5, <4>1
    <3> QED  BY <3>1, <3>2
  <2> HIDE DEF l
  <2>3. ListsInv(lists', wire')
    BY <1>2, <2>1, <2>2, ListChanged DEF IInv
  <2>4. TypeOK'
    BY <1>2, <1>3, <2>1, <2>3 DEF IInv, TypeOK, ListsInv
  <2>5. LastIsLast' /\ NoHoles' /\ BuiltAsSent'
    BY <1>2, <2>1 DEF IInv, LastIsLast, NoHoles, BuiltAsSent
  <2> QED  BY <2>3, <2>4, <2>5 DEF IInv
<1> QED  BY <1>7, <1>8

LEMMA TimeOutKeeps ==
  ASSUME IInv, NEW k \in DOMAIN lists, TimeOut(k)
  PROVE  IInv'
<1>1. lists' = RemoveAt(lists, k) /\ completed' = {} /\ UNCHANGED <<unsent, base, wire, recent, fault>>
  BY DEF TimeOut
<1>2. ListsInv(lists', wire')
  BY <1>1, ListsRemoved DEF IInv
<1>3. TypeOK'
  BY <1>1, <1>2 DEF IInv, TypeOK, ListsInv
<1>4. LastIsLast' /\ NoHoles' /\ BuiltAsSent'
  BY <1>1 DEF IInv, LastIsLast, NoHoles, BuiltAsSent
<1> QED  BY <1>2, <1>3, <1>4 DEF IInv

LEMMA NextIInv == IInv /\ [Next]_vars => IInv'
<1> SUFFICES ASSUME IInv, [Next]_vars PROVE IInv'
  OBVIOUS
<1>1. ASSUME NEW m \in Msg, SendPacket(m) PROVE IInv'
  BY <1>1, SendPacketKeeps
<1>2. ASSUME NEW p \in wire, Receive(p) PROVE IInv'
  BY <1>2, FirstPieceKeeps, LaterPieceKeeps DEF Receive
<1>3. ASSUME NEW k \in DOMAIN lists, TimeOut(k) PROVE IInv'
  BY <1>3, TimeOutKeeps
<1>4. CASE UNCHANGED vars
  BY <1>4 DEF vars, IInv, TypeOK, LastIsLast, NoHoles, BuiltAsSent, SentAs
<1> QED  BY <1>1, <1>2, <1>3, <1>4 DEF Next

-----------------------------------------------------------------------------
(* The theorems.                                                            *)

\* The inductive invariant holds in every reachable state, for any packets, lengths,
\* ids and limits, whatever is lost, doubled, reordered, evicted or timed out.
THEOREM Invariance == Spec => []IInv
<1>1. Init => IInv
  BY InitIInv
<1>2. IInv /\ [Next]_vars => IInv'
  BY NextIInv
<1> QED  BY <1>1, <1>2, PTL DEF Spec

\* Every variable keeps its type; in particular the id of large packets stays below
\* the ids of small ones (GetFragmentedPacketID).
THEOREM TypeCorrect == Spec => []TypeOK
<1>1. IInv => TypeOK
  BY DEF IInv
<1> QED  BY <1>1, Invariance, PTL

\* BuildCompletedPacket never meets a piece that is not there.
THEOREM NothingMissing == Spec => []NoHoles
<1>1. IInv => NoHoles
  BY DEF IInv
<1> QED  BY <1>1, Invariance, PTL

\* A list in FragmentedPackets whose pieces have all come does not stay there.
THEOREM CompleteIsBuilt == Spec => []NoneWaitsComplete
<1>1. IInv => NoneWaitsComplete
  <2> SUFFICES ASSUME IInv, NEW k \in DOMAIN lists, lists[k].nOfPieces > 1
               PROVE  \E i \in 0 .. (lists[k].nOfPieces - 1) : lists[k].frag[i] = NoMsg
    BY DEF NoneWaitsComplete
  <2>1. lists[k] \in FragmentsList /\ Counted(lists[k]) /\ Waiting(lists[k])
    BY DEF IInv, ListsInv
  <2> QED  BY <2>1, CompleteIsWhole DEF Waiting
<1> QED  BY <1>1, Invariance, PTL

\* The receiver keeps at most MAX_INCOMPLETE_FRAGMENTED_LIST packets, each once.
THEOREM FewLists == Spec => []ListsBounded
<1>1. IInv => ListsBounded
  BY DEF IInv, ListsInv, ListsBounded
<1> QED  BY <1>1, Invariance, PTL

\* What is built under an id that one packet had is that packet.
THEOREM BuiltWhole == Spec => []BuiltAsSent
<1>1. IInv => BuiltAsSent
  BY DEF IInv
<1> QED  BY <1>1, Invariance, PTL
=============================================================================
