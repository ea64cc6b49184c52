----------------------------- MODULE TradeProofs -----------------------------
(***************************************************************************)
(* Proofs about Trade for any number of characters and any goods: the two  *)
(* sides of a running trade agree about it, and goods are conserved.       *)
(***************************************************************************)
EXTENDS Trade, FiniteSetTheorems, TLAPS

\* Whoever invites or trades is in the game and points at somebody else.
EndsAlive ==
  \A c \in Char : status[c] # "Invalid" =>
    /\ otherTrade[c] \in Char \ {c}
    /\ phase[c] \in {"ingame", "leaving"}

\* A trade only ever runs where the lock lets its holder in again.
TradesNeedRecursion == \A c \in Char : status[c] = "Trading" => Recursive

Links == EndsAlive /\ PartnersAgree /\ TradesNeedRecursion /\ GoodsOnlyInTrades

\* The inductive invariant.
IInv == TypeOK /\ Links /\ GoodsConserved

\* The free weight is a number because backpacks are finite.
LEMMA FreeWeightType ==
  ASSUME TypeOK, NEW c \in Char
  PROVE  GetFreeWeight(c) \in Nat
<1>1. IsFiniteSet(backpack[c])
  <2>1. backpack[c] \subseteq Item
    BY DEF TypeOK
  <2>. QED
    BY <2>1, FS_Subset, GoodsAssumption
<1>2. Cardinality(backpack[c]) \in Nat
  BY <1>1, FS_CardinalityType
<1>. QED
  BY <1>2, GoodsAssumption DEF GetFreeWeight

LEMMA InitIInv == Init => IInv
<1>. SUFFICES ASSUME Init PROVE IInv
  OBVIOUS
<1>1. TypeOK
  BY DEF Init, TypeOK, Phases, TradeStatus, CharacterStatus, Faults
<1>2. Links
  BY DEF Init, Links, EndsAlive, PartnersAgree, TradesNeedRecursion, GoodsOnlyInTrades
<1>3. GoodsConserved
  BY CharAssumption DEF Init, GoodsConserved, Owns, InHand, Alive
<1>. QED
  BY <1>1, <1>2, <1>3 DEF IInv

\* Resetting all the sides of c's trade, whatever becomes of c's session.
LEMMA ResetKeepsLinks ==
  ASSUME TypeOK, Links, NEW c \in Char, ResetTradeData(TradeEnds(c)),
         NEW p \in Phases, phase' = phase \/ phase' = [phase EXCEPT ![c] = p]
  PROVE  Links'
<1>4. /\ status'[c] = "Invalid"
      /\ status[c] = "Trading" => status'[otherTrade[c]] = "Invalid"
  BY DEF TypeOK, TradeStatus, ResetTradeData, TradeEnds, Links, EndsAlive
<1>5. \A x \in Char : status'[x] # "Invalid" =>
         /\ x # c /\ x \notin TradeEnds(c)
         /\ status'[x] = status[x] /\ otherTrade'[x] = otherTrade[x]
         /\ container'[x] = container[x] /\ phase'[x] = phase[x]
  BY <1>4 DEF TypeOK, ResetTradeData
<1>6. Links'
  <2>1. EndsAlive' /\ TradesNeedRecursion'
    BY <1>5 DEF Links, EndsAlive, TradesNeedRecursion
  <2>2. GoodsOnlyInTrades'
    BY DEF TypeOK, Links, GoodsOnlyInTrades, ResetTradeData
  <2>3. PartnersAgree'
    <3>. SUFFICES ASSUME NEW x \in Char, status'[x] = "Trading"
                  PROVE  /\ otherTrade'[x] \in Char \ {x}
                         /\ status'[otherTrade'[x]] = "Trading"
                         /\ otherTrade'[otherTrade'[x]] = x
                         /\ phase'[x] \in {"ingame", "leaving"}
      BY DEF PartnersAgree
    <3>1. /\ x # c /\ x \notin TradeEnds(c)
          /\ status[x] = "Trading" /\ otherTrade'[x] = otherTrade[x] /\ phase'[x] = phase[x]
      BY <1>5
    <3>2. /\ otherTrade[x] \in Char \ {x} /\ status[otherTrade[x]] = "Trading"
          /\ otherTrade[otherTrade[x]] = x /\ phase[x] \in {"ingame", "leaving"}
      BY <3>1 DEF Links, PartnersAgree
    <3>3. otherTrade[x] \notin TradeEnds(c)
      <4>1. CASE status[c] = "Trading"
        BY <3>1, <3>2, <4>1 DEF TradeEnds, Links, PartnersAgree
      <4>2. CASE status[c] # "Trading"
        BY <3>2, <4>2 DEF TypeOK, TradeStatus, TradeEnds
      <4>. QED
        BY <4>1, <4>2
    <3>4. /\ status'[otherTrade[x]] = status[otherTrade[x]]
          /\ otherTrade'[otherTrade[x]] = otherTrade[otherTrade[x]]
      BY <3>2, <3>3 DEF ResetTradeData
    <3>. QED
      BY <3>1, <3>2, <3>4
  <2>. QED
    BY <2>1, <2>2, <2>3 DEF Links
<1>. QED
  BY <1>6

\* Cancelling moves each side's container to its own backpack.
LEMMA CancelledGoods ==
  ASSUME IInv, Alive, NEW c \in Char, ResetTradeData(TradeEnds(c))
  PROVE  \A x \in Char :
           /\ BackpacksAfterCancel(c)[x] \cup container'[x] = backpack[x] \cup container[x]
           /\ BackpacksAfterCancel(c)[x] \cap container'[x] = {}
BY DEF IInv, TypeOK, TradeStatus, Links, EndsAlive, PartnersAgree, GoodsOnlyInTrades,
       GoodsConserved, Alive, ResetTradeData, TradeEnds, BackpacksAfterCancel

LEMMA BackpacksAfterCancelType ==
  ASSUME TypeOK, NEW c \in Char
  PROVE  BackpacksAfterCancel(c) \in [Char -> SUBSET Item]
BY DEF TypeOK, BackpacksAfterCancel

LEMMA ResetTradeDataType ==
  ASSUME TypeOK, NEW S, ResetTradeData(S)
  PROVE  /\ status' \in [Char -> TradeStatus]
         /\ statusCharacter' \in [Char -> CharacterStatus]
         /\ otherTrade' \in [Char -> Char \cup {None}]
         /\ container' \in [Char -> SUBSET Item]
         /\ maxWeight' \in [Char -> Nat]
         /\ gained' \in SUBSET Char
BY DEF TypeOK, ResetTradeData, TradeStatus, CharacterStatus

-----------------------------------------------------------------------------
(* A step that leaves who trades with whom as it is, and moves goods only   *)
(* between the backpack, the container of a trade, the hand and the world.  *)

LinksUnchanged ==
  /\ UNCHANGED <<status, otherTrade, phase>>
  /\ \A x \in Char : container'[x] # {} => container[x] # {} \/ status[x] = "Trading"

LEMMA LinksKept ==
  ASSUME Links, LinksUnchanged
  PROVE  Links'
BY DEF Links, LinksUnchanged, EndsAlive, PartnersAgree, TradesNeedRecursion, GoodsOnlyInTrades

\* The condition under which goods stay where they are counted.
PlacesUnchanged == UNCHANGED <<container, backpack, ground, hand>>

LEMMA GoodsKept ==
  ASSUME GoodsConserved, Alive, PlacesUnchanged
  PROVE  GoodsConserved'
BY DEF GoodsConserved, PlacesUnchanged, Owns, InHand, Alive

\* A thread that a lock stops for ever changes nothing but the fault.
LEMMA HangKeeps ==
  ASSUME IInv, Alive, NEW how \in Faults, Stops(how), phase' = phase,
         adding' \in Char \cup {None}, disturbing' \in Char \cup {None}
  PROVE  IInv'
<1>. USE DEF Stops
<1>1. TypeOK'
  BY DEF IInv, TypeOK, tradeVars
<1>2. Links'
  BY LinksKept DEF IInv, LinksUnchanged, tradeVars
<1>3. GoodsConserved'
  BY GoodsKept DEF IInv, PlacesUnchanged, tradeVars
<1>. QED
  BY <1>1, <1>2, <1>3 DEF IInv

LEMMA CancelKeeps ==
  ASSUME IInv, NEW c \in Char, Cancel(c),
         NEW p \in Phases, phase' = phase \/ GoesTo(c, p),
         adding' \in Char \cup {None}, disturbing' \in Char \cup {None}, Alive
  PROVE  IInv'
<1>. USE DEF IInv
<1>0. CASE Entangled(c)
  <2>1. Stops("deadlock") /\ phase' = phase
    BY <1>0 DEF Cancel, Entangled, GoesTo
  <2>. QED
    BY <2>1, HangKeeps DEF Faults
<1>. SUFFICES ASSUME ~Entangled(c) PROVE IInv'
  BY <1>0
<1>1. status[c] = "Trading" => Recursive
  BY DEF Links, TradesNeedRecursion
<1>2. /\ backpack' = BackpacksAfterCancel(c)
      /\ ResetTradeData(TradeEnds(c))
      /\ UNCHANGED <<ground, hand, fault>>
  BY <1>1 DEF Cancel, Relock
<1>3. TypeOK'
  <2>1. phase' \in [Char -> Phases]
    BY DEF TypeOK, GoesTo
  <2>. QED
    BY <1>2, <2>1, BackpacksAfterCancelType, ResetTradeDataType DEF TypeOK
<1>4. Links'
  BY <1>2, ResetKeepsLinks DEF GoesTo
<1>5. GoodsConserved'
  <2>1. \A x \in Char : /\ backpack'[x] \cup container'[x] = backpack[x] \cup container[x]
                       /\ backpack'[x] \cap container'[x] = {}
    BY <1>2, CancelledGoods
  <2>2. \A x \in Char : Owns(x)' = Owns(x) /\ InHand(x)' = InHand(x)
    BY <1>2, <2>1 DEF Owns, InHand
  <2>. QED
    BY <1>2, <2>1, <2>2 DEF GoodsConserved, Alive
<1>. QED
  BY <1>3, <1>4, <1>5

-----------------------------------------------------------------------------
(* Sessions.                                                                *)

LEMMA LoginKeeps == ASSUME IInv, NEW c \in Char, Login(c) PROVE IInv'
<1>. USE DEF Login, IInv, threads
<1>0. /\ status[c] = "Invalid" /\ container[c] = {}
      /\ \A x \in Char : otherTrade[x] = c => status[x] # "Trading"
  BY DEF Links, EndsAlive, PartnersAgree, GoodsOnlyInTrades, TypeOK
<1>1. TypeOK'
  BY DEF TypeOK, Phases, TradeStatus, CharacterStatus
<1>2. Links'
  BY <1>0 DEF Links, EndsAlive, PartnersAgree, TradesNeedRecursion, GoodsOnlyInTrades, TypeOK
<1>3. GoodsConserved'
  <2>1. container' = container
    BY <1>0 DEF TypeOK
  <2>. QED
    BY <2>1, GoodsKept DEF PlacesUnchanged
<1>. QED
  BY <1>1, <1>2, <1>3

LEMMA LeaveKeeps == ASSUME IInv, NEW c \in Char, Leave(c) PROVE IInv'
<1>. USE DEF Leave, IInv, tradeVars, threads
<1>1. TypeOK'
  BY DEF TypeOK, Phases
<1>2. Links'
  BY DEF Links, EndsAlive, PartnersAgree, TradesNeedRecursion, GoodsOnlyInTrades, TypeOK
<1>3. GoodsConserved'
  BY GoodsKept DEF PlacesUnchanged
<1>. QED
  BY <1>1, <1>2, <1>3

LEMMA LogoffKeeps == ASSUME IInv, NEW c \in Char, Logoff(c) PROVE IInv'
BY CancelKeeps DEF threads, Logoff, IInv, TypeOK, Phases

LEMMA DestroyKeeps == ASSUME IInv, NEW c \in Char, Destroy(c) PROVE IInv'
BY CancelKeeps DEF threads, Destroy, IInv, TypeOK, Phases

LEMMA TradeCancelKeeps == ASSUME IInv, NEW c \in Char, TradeCancel(c) PROVE IInv'
BY CancelKeeps DEF threads, TradeCancel, Handling, IInv, TypeOK, Phases

LEMMA DisturbCheckKeeps == ASSUME IInv, NEW c \in Char, DisturbCheck(c) PROVE IInv'
<1>. USE DEF DisturbCheck, IInv, tradeVars, threads
<1>1. TypeOK'
  BY DEF TypeOK
<1>2. Links'
  BY LinksKept DEF LinksUnchanged
<1>3. GoodsConserved'
  BY GoodsKept DEF PlacesUnchanged
<1>. QED
  BY <1>1, <1>2, <1>3

LEMMA DisturbCancelKeeps == ASSUME IInv, NEW c \in Char, DisturbCancel(c) PROVE IInv'
BY CancelKeeps DEF threads, DisturbCancel, IInv, TypeOK, Phases
-----------------------------------------------------------------------------
(* Requests and statuses.                                                   *)

LEMMA StartTradeKeeps ==
  ASSUME IInv, Recursive, Alive, NEW c \in Char, NEW d \in Char, c # d, phase[c] = "ingame",
         status[c] # "Trading", WaitsFor(d, c), StartTrade(c, d), UNCHANGED <<phase, threads>>
  PROVE  IInv'
<1>. USE DEF IInv, StartTrade, WaitsFor, threads
<1>1. /\ container[c] = {} /\ container[d] = {}
      /\ container' = container
  BY DEF TypeOK, Links, GoodsOnlyInTrades
<1>2. TypeOK'
  <2>1. maxWeight' \in [Char -> Nat]
    BY FreeWeightType DEF TypeOK
  <2>. QED
    BY <2>1 DEF TypeOK, TradeStatus, CharacterStatus
<1>3. /\ status' = [status EXCEPT ![c] = "Trading", ![d] = "Trading"]
      /\ otherTrade'[c] = d /\ otherTrade'[d] = c
      /\ \A x \in Char \ {c} : otherTrade'[x] = otherTrade[x]
      /\ phase[d] \in {"ingame", "leaving"}
  BY DEF TypeOK, Links, EndsAlive
<1>4. EndsAlive'
  BY <1>3 DEF TypeOK, Links, EndsAlive
<1>5. PartnersAgree'
  <2>1. \A x \in Char \ {c, d} : status[x] = "Trading" =>
           otherTrade[x] \in Char \ {c, d, x}
    BY DEF Links, PartnersAgree
  <2>. QED
    BY <1>3, <2>1 DEF TypeOK, Links, PartnersAgree
<1>6. Links'
  BY <1>1, <1>3, <1>4, <1>5 DEF TypeOK, Links, TradesNeedRecursion, GoodsOnlyInTrades
<1>7. GoodsConserved'
  BY <1>1, GoodsKept DEF PlacesUnchanged
<1>. QED
  BY <1>2, <1>6, <1>7

LEMMA InviteKeeps ==
  ASSUME IInv, Alive, NEW c \in Char, NEW d \in Char, c # d, phase[c] = "ingame",
         status[c] # "Trading", Invite(c, d), UNCHANGED <<phase, threads>>
  PROVE  IInv'
<1>. USE DEF IInv, Invite, threads
<1>1. container[c] = {} /\ container' = container
  BY DEF TypeOK, Links, GoodsOnlyInTrades
<1>2. TypeOK'
  BY DEF TypeOK, TradeStatus, CharacterStatus
<1>3. /\ \A x \in Char \ {c} : status'[x] = status[x] /\ otherTrade'[x] = otherTrade[x]
      /\ status'[c] = "Inviting" /\ otherTrade'[c] = d
      /\ \A x \in Char : status[x] = "Trading" => otherTrade[x] \in Char \ {c}
  BY DEF TypeOK, Links, PartnersAgree
<1>4. Links'
  BY <1>1, <1>3 DEF Links, EndsAlive, PartnersAgree, TradesNeedRecursion, GoodsOnlyInTrades
<1>5. GoodsConserved'
  BY <1>1, GoodsKept DEF PlacesUnchanged
<1>. QED
  BY <1>2, <1>4, <1>5

LEMMA RequestKeeps == ASSUME IInv, NEW c \in Char, NEW d \in Char, Request(c, d) PROVE IInv'
<1>. USE DEF Request, Handling, IInv
<1>1. CASE Stops("relock")
  BY <1>1, HangKeeps DEF TypeOK, Faults, threads
<1>2. CASE Recursive /\ WaitsFor(d, c) /\ StartTrade(c, d)
  BY <1>2, StartTradeKeeps
<1>3. CASE Invite(c, d)
  BY <1>3, InviteKeeps
<1>. QED
  BY <1>1, <1>2, <1>3 DEF Relock

\* Finishing: the containers change sides and end up in the backpacks.
LEMMA ExchangeKeeps ==
  ASSUME IInv, Alive, NEW c \in Char, status[c] = "Trading", Exchange(c),
         UNCHANGED <<phase, threads>>
  PROVE  IInv'
<1>. USE DEF IInv, threads
<1>1. PICK d \in Char \ {c} :
        d = otherTrade[c] /\ status[d] = "Trading" /\ otherTrade[d] = c
  BY DEF Links, PartnersAgree
<1>2. /\ backpack' = [backpack EXCEPT ![c] = @ \cup container[d], ![d] = @ \cup container[c]]
      /\ ResetTradeData({c, d})
      /\ UNCHANGED <<ground, hand, fault>>
  BY <1>1 DEF Exchange
<1>3. TypeOK'
  BY <1>1, <1>2 DEF TypeOK, ResetTradeData, TradeStatus, CharacterStatus
<1>4. \A x \in Char : status[x] = "Trading" /\ x \notin {c, d} => otherTrade[x] \notin {c, d}
  BY <1>1 DEF Links, PartnersAgree
<1>5. Links'
  BY <1>1, <1>2, <1>4 DEF TypeOK, Links, EndsAlive, PartnersAgree, TradesNeedRecursion,
                          GoodsOnlyInTrades, ResetTradeData
<1>6. GoodsConserved'
  <2>0. /\ backpack'[c] = backpack[c] \cup container[d]
        /\ backpack'[d] = backpack[d] \cup container[c]
        /\ container'[c] = {} /\ container'[d] = {}
        /\ \A x \in Char \ {c, d} : backpack'[x] = backpack[x] /\ container'[x] = container[x]
        /\ ground' = ground /\ hand' = hand
    BY <1>1, <1>2 DEF TypeOK, ResetTradeData
  <2>1. /\ Owns(c)' = backpack[c] \cup container[d] \cup InHand(c)
        /\ Owns(d)' = backpack[d] \cup container[c] \cup InHand(d)
    BY <1>1, <2>0 DEF Owns, InHand
  <2>2. /\ \A x \in Char \ {c, d} : Owns(x)' = Owns(x)
        /\ \A x \in Char : InHand(x)' = InHand(x)
    BY <2>0 DEF Owns, InHand
  <2>3. /\ \A i \in Item : i \in ground \/ \E x \in Char : i \in Owns(x)
        /\ \A x \in Char : /\ backpack[x] \cap container[x] = {}
                           /\ InHand(x) \cap (backpack[x] \cup container[x]) = {}
                           /\ ground \cap Owns(x) = {}
                           /\ \A y \in Char \ {x} : Owns(x) \cap Owns(y) = {}
        /\ \A x \in Char : Owns(x) = backpack[x] \cup container[x] \cup InHand(x)
    BY DEF GoodsConserved, Owns
  <2>4. /\ Owns(c)' \cup Owns(d)' = Owns(c) \cup Owns(d)
        /\ Owns(c)' \cap Owns(d)' = {}
    BY <1>1, <2>1, <2>3
  <2>5. \A i \in Item : i \in ground' \/ \E x \in Char : i \in Owns(x)'
    BY <1>1, <2>0, <2>2, <2>3, <2>4
  <2>6. \A x \in Char : ground' \cap Owns(x)' = {}
    BY <1>1, <2>0, <2>2, <2>3, <2>4
  <2>7. \A x \in Char : \A y \in Char \ {x} : Owns(x)' \cap Owns(y)' = {}
    BY <1>1, <2>2, <2>3, <2>4
  <2>8. \A x \in Char : backpack'[x] \cap container'[x] = {}
    BY <1>1, <2>0, <2>3
  <2>9. \A x \in Char : InHand(x)' \cap (backpack'[x] \cup container'[x]) = {}
    BY <1>1, <2>0, <2>2, <2>3
  <2>. QED
    BY <2>5, <2>6, <2>7, <2>8, <2>9 DEF GoodsConserved
<1>. QED
  BY <1>3, <1>5, <1>6

LEMMA StatusAfterType ==
  ASSUME TypeOK, NEW c \in Char, NEW new \in CharacterStatus
  PROVE  StatusAfter(c, new) \in [Char -> CharacterStatus]
BY DEF TypeOK, StatusAfter, StatusAllowed

LEMMA SetStatusKeeps ==
  ASSUME IInv, NEW c \in Char, NEW new \in CharacterStatus, SetStatus(c, new)
  PROVE  IInv'
<1>. USE DEF SetStatus, Handling, IInv, threads
<1>1. CASE Stops("relock")
  BY <1>1, HangKeeps DEF TypeOK, Faults, threads
<1>2. CASE status[c] = "Trading" /\ Exchange(c)
  BY <1>2, ExchangeKeeps
<1>3. CASE \/ ConfirmInvitation(c)
           \/ /\ fault' = StatusFault(c, new)
              /\ statusCharacter' = StatusAfter(c, new)
              /\ UNCHANGED <<status, otherTrade, container, maxWeight, gained, backpack, ground, hand>>
  <2>1. /\ statusCharacter' \in [Char -> CharacterStatus]
        /\ fault' \in Faults
        /\ UNCHANGED <<status, otherTrade, container, maxWeight, gained, backpack, ground, hand>>
    BY <1>3, StatusAfterType
       DEF ConfirmInvitation, TypeOK, CharacterStatus, Faults, StatusFault
  <2>2. TypeOK'
    BY <2>1 DEF TypeOK
  <2>3. Links' /\ GoodsConserved'
    BY <2>1, LinksKept, GoodsKept DEF LinksUnchanged, PlacesUnchanged
  <2>. QED
    BY <2>2, <2>3
<1>. QED
  BY <1>1, <1>2, <1>3 DEF Relock
-----------------------------------------------------------------------------
(* Moving goods.                                                            *)

\* Goods S of c move between its backpack, its container and the hand, which is
\* empty before or holds goods of c.
LEMMA MovesKeepGoods ==
  ASSUME TypeOK, GoodsConserved, Alive, NEW c \in Char, ground' = ground,
         \A x \in Char \ {c} : /\ backpack'[x] = backpack[x] /\ container'[x] = container[x]
                              /\ InHand(x)' = InHand(x),
         backpack'[c] \cup container'[c] \cup InHand(c)' = Owns(c),
         backpack'[c] \cap container'[c] = {},
         InHand(c)' \cap (backpack'[c] \cup container'[c]) = {}
  PROVE  GoodsConserved'
<1>1. \A x \in Char : Owns(x)' = backpack'[x] \cup container'[x] \cup InHand(x)'
  BY DEF Owns
<1>2. \A x \in Char : Owns(x)' = Owns(x)
  BY <1>1 DEF Owns
<1>3. /\ \A i \in Item : i \in ground' \/ \E x \in Char : i \in Owns(x)'
      /\ \A x \in Char : /\ ground' \cap Owns(x)' = {}
                         /\ \A y \in Char \ {x} : Owns(x)' \cap Owns(y)' = {}
  BY <1>2 DEF GoodsConserved
<1>4. \A x \in Char : /\ backpack'[x] \cap container'[x] = {}
                     /\ InHand(x)' \cap (backpack'[x] \cup container'[x]) = {}
  BY DEF GoodsConserved
<1>. QED
  BY <1>3, <1>4 DEF GoodsConserved

LEMMA BeginAddKeeps == ASSUME IInv, NEW c \in Char, BeginAdd(c) PROVE IInv'
<1>. USE DEF BeginAdd, Handling, IInv, tradeVars
<1>1. TypeOK'
  BY DEF TypeOK
<1>2. Links'
  BY LinksKept DEF LinksUnchanged
<1>3. GoodsConserved'
  BY GoodsKept DEF PlacesUnchanged
<1>. QED
  BY <1>1, <1>2, <1>3

LEMMA AddItemKeeps ==
  ASSUME IInv, NEW c \in Char, NEW S \in SUBSET Item, AddItem(c, S)
  PROVE  IInv'
<1>. USE DEF IInv
<1>0. Alive /\ adding' = None /\ UNCHANGED <<phase, disturbing>>
  BY DEF AddItem
<1>1. CASE Stops("relock")
  BY <1>0, <1>1, HangKeeps DEF TypeOK, Faults
<1>2. CASE UNCHANGED <<tradeVars, backpack, ground, hand, fault>>
  <2>1. TypeOK'
    BY <1>0, <1>2 DEF TypeOK, tradeVars
  <2>2. Links' /\ GoodsConserved'
    BY <1>0, <1>2, LinksKept, GoodsKept DEF LinksUnchanged, PlacesUnchanged, tradeVars
  <2>. QED
    BY <2>1, <2>2
<1>3. ASSUME status[c] = "Trading", NEW T \in Stakes(c, S),
             statusCharacter' = StatusAfter(c, "EditingItems"),
             backpack' = [backpack EXCEPT ![c] = @ \ T],
             container' = [container EXCEPT ![c] = @ \cup T],
             UNCHANGED <<status, otherTrade, maxWeight, gained, ground, hand, fault>>
      PROVE  IInv'
  <2>0. T \subseteq S /\ S \subseteq backpack[c]
    BY DEF Stakes, AddItem
  <2>1. statusCharacter' \in [Char -> CharacterStatus]
    BY <1>3, StatusAfterType DEF CharacterStatus
  <2>2. TypeOK'
    BY <1>0, <1>3, <2>0, <2>1 DEF TypeOK
  <2>3. Links'
    BY <1>0, <1>3, LinksKept DEF LinksUnchanged, TypeOK
  <2>4. GoodsConserved'
    <3>1. /\ backpack'[c] = backpack[c] \ T /\ container'[c] = container[c] \cup T
          /\ \A x \in Char : InHand(x)' = InHand(x)
          /\ \A x \in Char \ {c} : backpack'[x] = backpack[x] /\ container'[x] = container[x]
      BY <1>3 DEF TypeOK, InHand
    <3>2. /\ backpack[c] \cap container[c] = {}
          /\ InHand(c) \cap (backpack[c] \cup container[c]) = {}
      BY <1>0 DEF GoodsConserved
    <3>. QED
      BY <1>0, <1>3, <2>0, <3>1, <3>2, MovesKeepGoods DEF Owns
  <2>. QED
    BY <2>2, <2>3, <2>4
<1>. QED
  BY <1>1, <1>2, <1>3 DEF AddItem, Relock, IsTrading

LEMMA RemoveItemKeeps ==
  ASSUME IInv, NEW c \in Char, NEW S \in SUBSET Item, RemoveItem(c, S)
  PROVE  IInv'
<1>. USE DEF RemoveItem, Handling, IInv, threads
<1>1. CASE Stops("relock")
  BY <1>1, HangKeeps DEF TypeOK, Faults, threads
<1>2. CASE /\ statusCharacter' = StatusAfter(c, "EditingItems")
           /\ container' = [container EXCEPT ![c] = @ \ S]
           /\ hand' = IF S = {} THEN hand ELSE [who |-> c, goods |-> S]
           /\ UNCHANGED <<status, otherTrade, maxWeight, gained, backpack, ground, fault>>
  <2>1. statusCharacter' \in [Char -> CharacterStatus]
    BY <1>2, StatusAfterType DEF CharacterStatus
  <2>2. TypeOK'
    BY <1>2, <2>1 DEF TypeOK
  <2>3. Links'
    BY <1>2, LinksKept DEF LinksUnchanged, TypeOK
  <2>4. GoodsConserved'
    <3>1. \A x \in Char : InHand(x) = {}
      BY CharAssumption DEF InHand, PacketThreadIdle
    <3>2. /\ backpack'[c] = backpack[c] /\ container'[c] = container[c] \ S
          /\ InHand(c)' = S
          /\ \A x \in Char \ {c} : /\ backpack'[x] = backpack[x] /\ container'[x] = container[x]
                                 /\ InHand(x)' = {}
      BY <1>2, CharAssumption DEF TypeOK, InHand, PacketThreadIdle
    <3>3. backpack[c] \cap container[c] = {}
      BY DEF GoodsConserved
    <3>. QED
      BY <1>2, <3>1, <3>2, <3>3, MovesKeepGoods DEF Owns
  <2>. QED
    BY <2>2, <2>3, <2>4
<1>. QED
  BY <1>1, <1>2 DEF Relock

LEMMA PutInBackpackKeeps == ASSUME IInv, PutInBackpack PROVE IInv'
<1>. USE DEF PutInBackpack, IInv, threads
<1>1. PICK c \in Char : c = hand.who
  BY DEF TypeOK
<1>2. TypeOK'
  BY DEF TypeOK, tradeVars
<1>3. Links'
  BY LinksKept DEF LinksUnchanged, tradeVars
<1>4. GoodsConserved'
  <2>1. /\ backpack'[c] = backpack[c] \cup InHand(c) /\ container' = container
        /\ \A x \in Char : InHand(x)' = {}
        /\ \A x \in Char \ {c} : backpack'[x] = backpack[x] /\ InHand(x) = {}
    BY <1>1, CharAssumption DEF TypeOK, InHand, tradeVars
  <2>2. /\ backpack[c] \cap container[c] = {}
        /\ InHand(c) \cap (backpack[c] \cup container[c]) = {}
    BY DEF GoodsConserved
  <2>. QED
    BY <2>1, <2>2, MovesKeepGoods DEF Owns
<1>. QED
  BY <1>2, <1>3, <1>4

LEMMA ClearItemsKeeps == ASSUME IInv, NEW c \in Char, ClearItems(c) PROVE IInv'
<1>. USE DEF ClearItems, Handling, IInv, threads
<1>1. CASE Stops("relock")
  BY <1>1, HangKeeps DEF TypeOK, Faults, threads
<1>2. CASE /\ statusCharacter' = StatusAfter(c, "EditingItems")
           /\ backpack' = [backpack EXCEPT ![c] = @ \cup container[c]]
           /\ container' = [container EXCEPT ![c] = {}]
           /\ fault' \in Faults
           /\ UNCHANGED <<status, otherTrade, maxWeight, gained, ground, hand>>
  <2>1. statusCharacter' \in [Char -> CharacterStatus]
    BY <1>2, StatusAfterType DEF CharacterStatus
  <2>2. TypeOK'
    BY <1>2, <2>1 DEF TypeOK
  <2>3. Links'
    BY <1>2, LinksKept DEF LinksUnchanged, TypeOK
  <2>4. GoodsConserved'
    <3>1. /\ backpack'[c] = backpack[c] \cup container[c] /\ container'[c] = {}
          /\ \A x \in Char : InHand(x)' = InHand(x)
          /\ \A x \in Char \ {c} : backpack'[x] = backpack[x] /\ container'[x] = container[x]
      BY <1>2 DEF TypeOK, InHand
    <3>2. InHand(c) \cap (backpack[c] \cup container[c]) = {}
      BY DEF GoodsConserved
    <3>. QED
      BY <1>2, <3>1, <3>2, MovesKeepGoods DEF Owns
  <2>. QED
    BY <2>2, <2>3, <2>4
<1>3. (IF Freed(otherTrade[c]) THEN "dangling" ELSE StatusFault(c, "EditingItems")) \in Faults
  BY DEF Faults, StatusFault
<1>. QED
  BY <1>1, <1>2, <1>3 DEF Relock
-----------------------------------------------------------------------------
(* The world.                                                               *)

\* Goods come from the world to c, whatever moved between a container and the
\* backpack of the same character before.
LEMMA ReceivedGoods ==
  ASSUME GoodsConserved, Alive, NEW c \in Char, NEW i \in ground,
         NEW packs \in [Char -> SUBSET Item],
         \A x \in Char : /\ packs[x] \cup container'[x] = backpack[x] \cup container[x]
                        /\ packs[x] \cap container'[x] = {},
         ground' = ground \ {i}, backpack' = [packs EXCEPT ![c] = @ \cup {i}], hand' = hand
  PROVE  GoodsConserved'
<1>3. /\ backpack'[c] = packs[c] \cup {i}
      /\ \A x \in Char \ {c} : backpack'[x] = packs[x]
  OBVIOUS
<1>4. /\ \A x \in Char : InHand(x)' = InHand(x)
      /\ Owns(c)' = Owns(c) \cup {i}
      /\ \A x \in Char \ {c} : Owns(x)' = Owns(x)
  BY <1>3 DEF Owns, InHand
<1>5. \A x \in Char : i \notin Owns(x)
  BY DEF GoodsConserved
<1>6. /\ \A y \in Item : y \in ground' \/ \E x \in Char : y \in Owns(x)'
      /\ \A x \in Char : /\ ground' \cap Owns(x)' = {}
                         /\ \A y \in Char \ {x} : Owns(x)' \cap Owns(y)' = {}
  BY <1>4, <1>5 DEF GoodsConserved
<1>7. \A x \in Char : /\ backpack'[x] \cap container'[x] = {}
                     /\ InHand(x)' \cap (backpack'[x] \cup container'[x]) = {}
  <2>1. \A x \in Char : /\ i \notin backpack[x] \cup container[x] \cup InHand(x)
                       /\ InHand(x) \cap (backpack[x] \cup container[x]) = {}
    BY <1>5 DEF GoodsConserved, Owns
  <2>. QED
    BY <1>3, <1>4, <2>1
<1>. QED
  BY <1>6, <1>7 DEF GoodsConserved

LEMMA PickUpKeeps ==
  ASSUME IInv, NEW c \in Char, NEW i \in Item, PickUp(c, i)
  PROVE  IInv'
<1>. USE DEF PickUp, Handling, IInv, threads
<1>. DEFINE trading == status[c] = "Trading"
            packs == BackpacksAfterCancel(c)
<1>0. Alive /\ i \in ground
  OBVIOUS
<1>1. trading => Recursive
  BY DEF Links, TradesNeedRecursion
<1>9. CASE Stops("relock")
  BY <1>9, HangKeeps DEF TypeOK, Faults, threads
<1>. SUFFICES ASSUME ~Stops("relock") PROVE IInv'
  BY <1>9
<1>2. /\ ground' = ground \ {i}
      /\ ResetTradeData(IF trading THEN TradeEnds(c) ELSE {})
      /\ \/ backpack' = [packs EXCEPT ![c] = @ \cup {i}] /\ fault' = fault
         \/ backpack' = packs /\ fault' = "assert"
      /\ UNCHANGED <<hand, phase, threads>>
  <2>1. CASE trading
    BY <1>1, <2>1 DEF Relock
  <2>2. CASE ~trading
    BY <2>2 DEF AddToBackpack, Relock
  <2>. QED
    BY <2>1, <2>2
<1>. HIDE DEF PickUp
<1>3. TypeOK'
  <2>1. backpack' \in [Char -> SUBSET Item]
    BY <1>2, BackpacksAfterCancelType
  <2>. QED
    BY <1>2, <2>1, ResetTradeDataType DEF TypeOK, Faults
<1>4. Links'
  <2>1. CASE trading
    BY <1>2, <2>1, ResetKeepsLinks DEF TypeOK
  <2>2. CASE ~trading
    BY <1>2, <2>2, LinksKept DEF LinksUnchanged, ResetTradeData, TypeOK
  <2>. QED
    BY <2>1, <2>2
<1>5. GoodsConserved'
  <2>1. CASE fault' = "assert"
    BY <2>1 DEF GoodsConserved, Alive
  <2>2. CASE backpack' = [packs EXCEPT ![c] = @ \cup {i}] /\ fault' = fault
    <3>1. \A x \in Char : /\ packs[x] \cup container'[x] = backpack[x] \cup container[x]
                         /\ packs[x] \cap container'[x] = {}
      <4>1. CASE trading
        BY <1>0, <1>2, <4>1, CancelledGoods
      <4>2. CASE ~trading
        BY <1>0, <1>2, <4>2 DEF ResetTradeData, TypeOK, BackpacksAfterCancel, GoodsConserved
      <4>. QED
        BY <4>1, <4>2
    <3>2. packs \in [Char -> SUBSET Item]
      BY BackpacksAfterCancelType
    <3>. HIDE DEF packs
    <3>. QED
      BY <1>0, <1>2, <2>2, <3>1, <3>2, ReceivedGoods
  <2>. QED
    BY <1>2, <2>1, <2>2
<1>. QED
  BY <1>3, <1>4, <1>5

LEMMA GivenKeeps == ASSUME IInv, NEW c \in Char, NEW i \in Item, Given(c, i) PROVE IInv'
<1>. USE DEF Given, Handling, IInv, threads
<1>1. CASE Stops("relock")
  BY <1>1, HangKeeps DEF TypeOK, Faults
<1>2. CASE /\ ground' = ground \ {i}
           /\ backpack' = [backpack EXCEPT ![c] = @ \cup {i}]
           /\ Gains(c)
           /\ UNCHANGED <<status, statusCharacter, otherTrade, container, maxWeight, hand, fault>>
  <2>1. TypeOK'
    BY <1>2 DEF TypeOK, Gains
  <2>2. Links'
    BY <1>2, LinksKept DEF LinksUnchanged
  <2>3. GoodsConserved'
    <3>1. backpack \in [Char -> SUBSET Item]
      BY DEF TypeOK
    <3>2. \A x \in Char : /\ backpack[x] \cup container'[x] = backpack[x] \cup container[x]
                         /\ backpack[x] \cap container'[x] = {}
      BY <1>2 DEF GoodsConserved
    <3>. QED
      BY <1>2, <3>1, <3>2, ReceivedGoods
  <2>. QED
    BY <2>1, <2>2, <2>3
<1>. QED
  BY <1>1, <1>2 DEF AddToBackpack, Relock

LEMMA RobKeeps ==
  ASSUME IInv, NEW c \in Char, NEW d \in Char, NEW S \in SUBSET Item, Rob(c, d, S)
  PROVE  IInv'
<1>. USE DEF Rob, Handling, IInv, threads
<1>1. CASE Stops("relock")
  BY <1>1, HangKeeps DEF TypeOK, Faults
<1>2. CASE /\ backpack' = [backpack EXCEPT ![c] = @ \cup S, ![d] = @ \ S]
           /\ Gains(c)
           /\ UNCHANGED <<status, statusCharacter, otherTrade, container, maxWeight,
                          ground, hand, fault>>
  <2>1. TypeOK'
    BY <1>2 DEF TypeOK, Gains
  <2>2. Links'
    BY <1>2, LinksKept DEF LinksUnchanged
  <2>3. GoodsConserved'
    <3>1. /\ backpack'[c] = backpack[c] \cup S /\ backpack'[d] = backpack[d] \ S
          /\ \A x \in Char \ {c, d} : backpack'[x] = backpack[x]
          /\ container' = container /\ ground' = ground
          /\ \A x \in Char : InHand(x)' = InHand(x)
      BY <1>2 DEF TypeOK, InHand
    <3>2. /\ \A i \in Item : i \in ground \/ \E x \in Char : i \in Owns(x)
          /\ \A x \in Char : /\ backpack[x] \cap container[x] = {}
                             /\ InHand(x) \cap (backpack[x] \cup container[x]) = {}
                             /\ ground \cap Owns(x) = {}
                             /\ \A y \in Char \ {x} : Owns(x) \cap Owns(y) = {}
      BY DEF GoodsConserved
    <3>3. S \subseteq backpack[d] /\ S \subseteq Owns(d) /\ c # d
      BY DEF Owns
    <3>4. /\ Owns(c)' = Owns(c) \cup S
          /\ Owns(d)' = Owns(d) \ S
          /\ \A x \in Char \ {c, d} : Owns(x)' = Owns(x)
      <4>1. \A x \in Char : Owns(x)' = backpack'[x] \cup container[x] \cup InHand(x)
        BY <3>1 DEF Owns
      <4>2. S \cap (container[d] \cup InHand(d)) = {}
        BY <3>2, <3>3
      <4>. QED
        BY <3>1, <3>3, <4>1, <4>2 DEF Owns
    <3>5. /\ \A i \in Item : i \in ground' \/ \E x \in Char : i \in Owns(x)'
          /\ \A x \in Char : ground' \cap Owns(x)' = {}
      BY <3>1, <3>2, <3>3, <3>4
    <3>6. \A x \in Char : \A y \in Char \ {x} : Owns(x)' \cap Owns(y)' = {}
      BY <3>2, <3>3, <3>4
    <3>7. \A x \in Char : /\ backpack'[x] \cap container'[x] = {}
                         /\ InHand(x)' \cap (backpack'[x] \cup container'[x]) = {}
      <4>1. (container[c] \cup InHand(c)) \cap S = {}
        BY <3>2, <3>3 DEF Owns
      <4>. QED
        BY <3>1, <3>2, <4>1
    <3>. QED
      BY <3>5, <3>6, <3>7 DEF GoodsConserved
  <2>. QED
    BY <2>1, <2>2, <2>3
<1>. QED
  BY <1>1, <1>2 DEF Relock

LEMMA DropKeeps == ASSUME IInv, NEW c \in Char, NEW i \in Item, Drop(c, i) PROVE IInv'
<1>. USE DEF Drop, Handling, IInv, tradeVars, threads
<1>1. TypeOK'
  BY DEF TypeOK
<1>2. Links'
  BY LinksKept DEF LinksUnchanged
<1>3. GoodsConserved'
  <2>1. /\ backpack'[c] = backpack[c] \ {i} /\ container' = container
        /\ \A x \in Char \ {c} : backpack'[x] = backpack[x]
        /\ \A x \in Char : InHand(x)' = InHand(x)
    BY DEF TypeOK, InHand
  <2>2. /\ backpack[c] \cap container[c] = {}
        /\ InHand(c) \cap (backpack[c] \cup container[c]) = {}
    BY DEF GoodsConserved
  <2>3. /\ Owns(c)' = Owns(c) \ {i}
        /\ \A x \in Char \ {c} : Owns(x)' = Owns(x)
        /\ \A x \in Char \ {c} : i \notin Owns(x)
    BY <2>1, <2>2 DEF Owns, GoodsConserved
  <2>4. /\ \A y \in Item : y \in ground' \/ \E x \in Char : y \in Owns(x)'
        /\ \A x \in Char : /\ ground' \cap Owns(x)' = {}
                           /\ \A y \in Char \ {x} : Owns(x)' \cap Owns(y)' = {}
    BY <2>3 DEF GoodsConserved
  <2>5. \A x \in Char : /\ backpack'[x] \cap container'[x] = {}
                       /\ InHand(x)' \cap (backpack'[x] \cup container'[x]) = {}
    BY <2>1 DEF GoodsConserved
  <2>. QED
    BY <2>4, <2>5 DEF GoodsConserved
<1>. QED
  BY <1>1, <1>2, <1>3

-----------------------------------------------------------------------------
(* The theorems.                                                            *)

LEMMA StutterKeeps == ASSUME IInv, UNCHANGED vars PROVE IInv'
BY DEF vars, tradeVars, threads, IInv, TypeOK, Links, EndsAlive, PartnersAgree, TradesNeedRecursion,
       GoodsOnlyInTrades, GoodsConserved, Alive, Owns, InHand

LEMMA HandlersKeep == ASSUME IInv, NEW c \in Char, Handlers(c) PROVE IInv'
<1>1. CASE TradeCancel(c) \/ ClearItems(c) \/ BeginAdd(c)
  BY <1>1, TradeCancelKeeps, ClearItemsKeeps, BeginAddKeeps
<1>2. CASE \E d \in Char : Request(c, d)
  BY <1>2, RequestKeeps
<1>3. CASE \E new \in CharacterStatus : SetStatus(c, new)
  BY <1>3, SetStatusKeeps
<1>4. CASE \E s \in Stacks : \E S \in SUBSET s :
              AddItem(c, S) \/ RemoveItem(c, S) \/ \E d \in Char : Rob(c, d, S)
  BY <1>4, AddItemKeeps, RemoveItemKeeps, RobKeeps, GoodsAssumption
<1>5. CASE \E i \in Item : PickUp(c, i) \/ Drop(c, i) \/ Given(c, i)
                            \/ MoveObjectFromChestToBackpack2(c, i)
  BY <1>5, PickUpKeeps, DropKeeps, GivenKeeps DEF MoveObjectFromChestToBackpack2
<1>. QED
  BY <1>1, <1>2, <1>3, <1>4, <1>5 DEF Handlers

LEMMA NextKeeps == IInv /\ [Next]_vars => IInv'
<1>. SUFFICES ASSUME IInv, [Next]_vars PROVE IInv'
  OBVIOUS
<1>1. CASE PutInBackpack
  BY <1>1, PutInBackpackKeeps
<1>2. ASSUME NEW c \in Char,
             \/ Login(c) \/ Leave(c) \/ Logoff(c) \/ Destroy(c)
             \/ DisturbCheck(c) \/ DisturbCancel(c) \/ Handlers(c)
      PROVE  IInv'
  BY <1>2, LoginKeeps, LeaveKeeps, LogoffKeeps, DestroyKeeps, DisturbCheckKeeps,
     DisturbCancelKeeps, HandlersKeep
<1>3. CASE UNCHANGED vars
  BY <1>3, StutterKeeps
<1>. QED
  BY <1>1, <1>2, <1>3 DEF Next

THEOREM Invariance == Spec => []IInv
BY InitIInv, NextKeeps, PTL DEF Spec

\* Every variable of the trade keeps its type: Trade.cpp's default branches, which
\* throw on an unknown status, are never taken.
THEOREM TypeCorrect == Spec => []TypeOK
BY Invariance, PTL DEF IInv

\* The two sides of a running trade point at each other and are both still in
\* the game, whoever leaves, cancels or disturbs: mOtherTrade is never followed
\* from a running trade to a manager that is gone.
THEOREM SidesAgree == Spec => []PartnersAgree
BY Invariance, PTL DEF IInv, Links

\* Trading neither loses nor duplicates goods, on any interleaving of the packet,
\* deletion and NPC threads.
THEOREM NothingLost == Spec => []GoodsConserved
BY Invariance, PTL DEF IInv

\* Goods lie in a container only while a trade runs, where SavePlayer sees them.
THEOREM NoStrayGoods == Spec => []GoodsOnlyInTrades
BY Invariance, PTL DEF IInv, Links

\* On the plain mutex of Lock.h no trade ever runs.
THEOREM PlainMutexStopsTrades == Spec => []TradesNeedRecursion
BY Invariance, PTL DEF IInv, Links
=============================================================================
