----------------------------- MODULE BarterProofs -----------------------------
(***************************************************************************)
(* What TLAPS proves about Trade beyond TradeProofs: two characters never  *)
(* wait for each other's answer, what is offered fits, goods change hands  *)
(* only by Finish, and a trade between two characters implements Barter.   *)
(***************************************************************************)
EXTENDS TradeProofs

-----------------------------------------------------------------------------
(* Invitations.                                                             *)

LEMMA NoMutualStep ==
  ASSUME IInv, NoMutualInvites, [Next]_vars
  PROVE  NoMutualInvites'
<1>1. ASSUME NEW x \in Char, status'[x] = "Inviting" PROVE
        \/ status[x] = "Inviting" /\ otherTrade'[x] = otherTrade[x]
        \/ \E d \in Char : Request(x, d) /\ Invite(x, d) /\ ~WaitsFor(d, x)
  <2>. USE <1>1 DEF IInv, TypeOK
  <2>1. CASE PutInBackpack \/ UNCHANGED vars
    BY <2>1 DEF PutInBackpack, vars, tradeVars
  <2>2. ASSUME NEW c \in Char, Login(c) \/ Leave(c) \/ DisturbCheck(c) \/ BeginAdd(c)
        PROVE  status[x] = "Inviting" /\ otherTrade'[x] = otherTrade[x]
    BY <2>2 DEF Login, Leave, DisturbCheck, BeginAdd, tradeVars
  <2>3. ASSUME NEW c \in Char, Logoff(c) \/ Destroy(c) \/ DisturbCancel(c) \/ TradeCancel(c)
        PROVE  status[x] = "Inviting" /\ otherTrade'[x] = otherTrade[x]
    BY <2>3 DEF Logoff, Destroy, DisturbCancel, TradeCancel, Cancel, Stops, Relock, ResetTradeData, tradeVars
  <2>4. ASSUME NEW c \in Char, NEW d \in Char, Request(c, d)
        PROVE  \/ status[x] = "Inviting" /\ otherTrade'[x] = otherTrade[x]
               \/ x = c /\ Invite(x, d) /\ ~WaitsFor(d, x)
    BY <2>4 DEF Request, Stops, Relock, StartTrade, Invite, tradeVars
  <2>5. ASSUME NEW c \in Char, NEW new \in CharacterStatus, SetStatus(c, new)
        PROVE  status[x] = "Inviting" /\ otherTrade'[x] = otherTrade[x]
    BY <2>5 DEF SetStatus, Stops, Relock, Exchange, ConfirmInvitation, ResetTradeData, tradeVars
  <2>6. ASSUME NEW c \in Char, NEW S, AddItem(c, S) \/ RemoveItem(c, S) \/ ClearItems(c)
        PROVE  status[x] = "Inviting" /\ otherTrade'[x] = otherTrade[x]
    BY <2>6 DEF AddItem, RemoveItem, ClearItems, Stops, Relock, tradeVars
  <2>7. ASSUME NEW c \in Char, NEW i \in Item, PickUp(c, i) \/ Drop(c, i) \/ Given(c, i)
        PROVE  status[x] = "Inviting" /\ otherTrade'[x] = otherTrade[x]
    BY <2>7 DEF PickUp, Drop, Given, AddToBackpack, Stops, Relock, ResetTradeData, tradeVars
  <2>8. ASSUME NEW c \in Char, NEW d \in Char, NEW S, Rob(c, d, S)
        PROVE  status[x] = "Inviting" /\ otherTrade'[x] = otherTrade[x]
    BY <2>8 DEF Rob, Stops, Relock, tradeVars
  <2> QED  BY <2>1, <2>2, <2>3, <2>4, <2>5, <2>6, <2>7, <2>8
             DEF Next, Handlers, MoveObjectFromChestToBackpack2
<1>2. SUFFICES ASSUME NEW c \in Char, NEW d \in Char,
                      status'[c] = "Inviting", otherTrade'[c] = d,
                      status'[d] = "Inviting", otherTrade'[d] = c
               PROVE  FALSE
  BY DEF NoMutualInvites
<1>3. c # d
  <2>1. ASSUME NEW x \in Char, status'[x] = "Inviting" PROVE otherTrade'[x] # x
    BY <2>1, NextKeeps DEF IInv, Links, EndsAlive
  <2> QED  BY <1>2, <2>1
<1>4. ASSUME NEW x \in Char, NEW y \in Char, x # y, Invite(x, y), ~WaitsFor(y, x),
             status'[y] = "Inviting", otherTrade'[y] = x
      PROVE  FALSE
  BY <1>4 DEF Invite, WaitsFor, IInv, TypeOK
<1>5. ASSUME NEW x \in Char, NEW y \in Char, x # y, NEW z \in Char, Invite(x, z), otherTrade'[x] = y
      PROVE  z = y
  BY <1>5 DEF Invite, IInv, TypeOK
<1> QED  BY <1>1, <1>2, <1>3, <1>4, <1>5 DEF NoMutualInvites

\* Of two characters that ask each other one starts the trade, whatever comes between.
THEOREM NobodyWaitsTwice == Spec => []NoMutualInvites
<1>1. Init => NoMutualInvites
  BY DEF Init, NoMutualInvites
<1>2. IInv /\ NoMutualInvites /\ [Next]_vars => NoMutualInvites'
  BY NoMutualStep
<1> QED  BY <1>1, <1>2, Invariance, PTL DEF Spec

-----------------------------------------------------------------------------
(* What a step can be, told by what it does to the goods and to the trades. *)

SameOwners == \A x \in Char : Owns(x)' = Owns(x)

\* Nothing becomes of any running trade.
TradesIdle ==
  /\ container' = container
  /\ \A x \in Char :
       /\ status'[x] = "Trading" <=> status[x] = "Trading"
       /\ status[x] = "Trading" => /\ otherTrade'[x] = otherTrade[x]
                                  /\ statusCharacter'[x] = statusCharacter[x]
                                  /\ maxWeight'[x] = maxWeight[x]
                                  /\ (x \in gained => x \in gained')

TradeOver(c) == status[c] = "Trading" /\ ResetTradeData({c, otherTrade[c]})

Starts(c, d) ==
  /\ c # d /\ status[c] # "Trading" /\ WaitsFor(d, c) /\ hand.who = None
  /\ StartTrade(c, d)

\* c changes its offer, to goods of its own that its container has room for.
Revises(c) ==
  /\ status[c] = "Trading"
  /\ \E T \in SUBSET Owns(c) :
       /\ container' = [container EXCEPT ![c] = T]
       /\ T \subseteq container[c] \/ Cardinality(T) <= maxWeight[c]
  /\ statusCharacter' = StatusAfter(c, "EditingItems")
  /\ UNCHANGED <<status, otherTrade, maxWeight, gained>>

\* c sets its status, in a trade or while it invites.
Rates(c, new) ==
  /\ status[c] # "Invalid"
  /\ \/ statusCharacter' = StatusAfter(c, new)
     \/ status[c] # "Trading" /\ statusCharacter' = [statusCharacter EXCEPT ![c] = new]
  /\ UNCHANGED <<status, otherTrade, container, maxWeight, gained>>

Swaps(c) ==
  /\ status[c] = "Trading" /\ statusCharacter[c] = "Ready"
  /\ statusCharacter[otherTrade[c]] = "Confirmed"
  /\ Exchange(c)

Finds(c, i) ==
  /\ i \in ground /\ Owns(c)' = Owns(c) \cup {i}
  /\ \A x \in Char \ {c} : Owns(x)' = Owns(x)

\* Every trade goes on, and that c got goods meanwhile is noted.
Beside(c) == TradesIdle /\ (status[c] = "Trading" => c \in gained')

Robs(c, d, S) ==
  /\ c # d /\ S \subseteq backpack[d] \ NoDrop
  /\ Owns(c)' = Owns(c) \cup S /\ Owns(d)' = Owns(d) \ S
  /\ \A x \in Char \ {c, d} : Owns(x)' = Owns(x)
  /\ UNCHANGED <<status, statusCharacter, otherTrade, container>>
  /\ Beside(c)

Loses(c, i) ==
  /\ i \in backpack[c] /\ Owns(c)' = Owns(c) \ {i}
  /\ \A x \in Char \ {c} : Owns(x)' = Owns(x)

LEMMA HangIdles ==
  ASSUME IInv, UNCHANGED <<tradeVars, backpack, hand>>
  PROVE  SameOwners /\ TradesIdle
BY DEF tradeVars, SameOwners, Owns, InHand, TradesIdle

LEMMA SessionKinds ==
  ASSUME IInv, PutInBackpack \/ \E c \in Char : Login(c) \/ Leave(c) \/ DisturbCheck(c) \/ BeginAdd(c)
  PROVE  SameOwners /\ TradesIdle
<1>. USE DEF IInv
<1>1. CASE PutInBackpack
  <2>1. PICK c \in Char : c = hand.who
    BY <1>1 DEF TypeOK, PutInBackpack
  <2>2. \A x \in Char : InHand(x)' = {} /\ (x # c => InHand(x) = {})
    BY <1>1, <2>1, CharAssumption DEF TypeOK, InHand, PutInBackpack
  <2>. QED
    BY <1>1, <2>1, <2>2 DEF TypeOK, PutInBackpack, tradeVars, SameOwners, Owns, InHand, TradesIdle
<1>2. ASSUME NEW c \in Char, Leave(c) \/ DisturbCheck(c) \/ BeginAdd(c)
      PROVE  SameOwners /\ TradesIdle
  BY <1>2, HangIdles DEF Leave, DisturbCheck, BeginAdd
<1>3. ASSUME NEW c \in Char, Login(c)
      PROVE  SameOwners /\ TradesIdle
  <2>1. container[c] = {} /\ status[c] # "Trading"
    BY <1>3 DEF Login, TypeOK, Links, EndsAlive, GoodsOnlyInTrades
  <2>2. container' = container
    BY <1>3, <2>1 DEF Login, TypeOK
  <2>. QED
    BY <1>3, <2>1, <2>2 DEF Login, TypeOK, SameOwners, Owns, InHand, TradesIdle
<1>. QED
  BY <1>1, <1>2, <1>3

LEMMA CancelKinds ==
  ASSUME IInv, Alive, NEW c \in Char, Cancel(c)
  PROVE  SameOwners /\ (TradesIdle \/ TradeOver(c))
<1>. USE DEF IInv
<1>0. CASE Entangled(c)
  BY <1>0, HangIdles DEF Cancel, Entangled, Stops
<1>. SUFFICES ASSUME ~Entangled(c) PROVE SameOwners /\ (TradesIdle \/ TradeOver(c))
  BY <1>0
<1>1. /\ backpack' = BackpacksAfterCancel(c)
      /\ ResetTradeData(TradeEnds(c))
      /\ UNCHANGED hand
  BY DEF Cancel, Relock, Links, TradesNeedRecursion
<1>2. SameOwners
  BY <1>1, CancelledGoods DEF SameOwners, Owns, InHand
<1>3. CASE status[c] = "Trading"
  BY <1>1, <1>2, <1>3 DEF TradeOver, TradeEnds
<1>4. CASE status[c] # "Trading"
  <2>1. TradeEnds(c) \subseteq {c} /\ container[c] = {}
    BY <1>4 DEF TradeEnds, TypeOK, TradeStatus, Links, GoodsOnlyInTrades
  <2>2. container' = container
    BY <1>1, <2>1 DEF ResetTradeData, TypeOK
  <2>. QED
    BY <1>1, <1>2, <1>4, <2>1, <2>2 DEF ResetTradeData, TypeOK, TradesIdle
<1>. QED
  BY <1>3, <1>4

LEMMA RequestKinds ==
  ASSUME IInv, NEW c \in Char, NEW d \in Char, Request(c, d)
  PROVE  SameOwners /\ (TradesIdle \/ Starts(c, d))
<1>. USE DEF IInv, Request, Handling, PacketThreadIdle
<1>0. status[c] # "Trading" /\ container[c] = {}
  BY DEF TypeOK, Links, GoodsOnlyInTrades
<1>1. CASE UNCHANGED <<tradeVars, backpack, hand>>
  BY <1>1, HangIdles
<1>2. CASE WaitsFor(d, c) /\ StartTrade(c, d)
  <2>1. container[d] = {} /\ container' = container
    BY <1>0, <1>2 DEF WaitsFor, StartTrade, TypeOK, Links, GoodsOnlyInTrades
  <2>. QED
    BY <1>0, <1>2, <2>1 DEF WaitsFor, StartTrade, Starts, SameOwners, Owns, InHand
<1>3. CASE Invite(c, d)
  <2>1. container' = container
    BY <1>0, <1>3 DEF Invite, TypeOK
  <2>. QED
    BY <1>0, <1>3, <2>1 DEF Invite, TypeOK, SameOwners, Owns, InHand, TradesIdle
<1>. QED
  BY <1>1, <1>2, <1>3 DEF Relock, Stops

LEMMA SetStatusKinds ==
  ASSUME IInv, NEW c \in Char, NEW new \in CharacterStatus, SetStatus(c, new)
  PROVE  \/ SameOwners /\ TradesIdle
         \/ SameOwners /\ Rates(c, new)
         \/ Swaps(c)
<1>1. CASE UNCHANGED <<tradeVars, backpack, hand>>
  BY <1>1, HangIdles
<1>2. CASE Finishes(c, new) /\ status[c] = "Trading" /\ Exchange(c)
  BY <1>2 DEF Finishes, Swaps
<1>3. CASE Finishes(c, new) /\ status[c] # "Trading" /\ ConfirmInvitation(c)
  <2>1. new = "Confirmed"
    BY <1>3 DEF Finishes
  <2>. QED
    BY <1>3, <2>1 DEF ConfirmInvitation, Rates, SameOwners, Owns, InHand, Finishes
<1>4. CASE statusCharacter' = StatusAfter(c, new)
           /\ UNCHANGED <<status, otherTrade, container, maxWeight, gained, backpack, ground, hand>>
  BY <1>4 DEF SetStatus, Rates, SameOwners, Owns, InHand
<1>. QED
  BY <1>1, <1>2, <1>3, <1>4 DEF SetStatus, Relock, Stops, tradeVars

LEMMA ItemKinds ==
  ASSUME IInv, NEW c \in Char, NEW S \in SUBSET Item,
         AddItem(c, S) \/ RemoveItem(c, S) \/ ClearItems(c)
  PROVE  SameOwners /\ (TradesIdle \/ Revises(c) \/ Rates(c, "EditingItems"))
<1>. USE DEF IInv
<1>0. /\ Alive /\ \A x \in Char : Owns(x) = backpack[x] \cup container[x] \cup InHand(x)
      /\ RemoveItem(c, S) \/ ClearItems(c) => hand.who = None /\ \A x \in Char : InHand(x) = {}
  BY CharAssumption
     DEF AddItem, RemoveItem, ClearItems, Handling, PacketThreadIdle, InHand, Owns
<1>1. CASE UNCHANGED <<tradeVars, backpack, hand>>
  BY <1>1, HangIdles
<1>2. ASSUME AddItem(c, S), ~ UNCHANGED <<tradeVars, backpack, hand>>
      PROVE  SameOwners /\ Revises(c)
  <2>1. PICK T \in Stakes(c, S) :
          /\ statusCharacter' = StatusAfter(c, "EditingItems")
          /\ backpack' = [backpack EXCEPT ![c] = @ \ T]
          /\ container' = [container EXCEPT ![c] = @ \cup T]
          /\ UNCHANGED <<status, otherTrade, maxWeight, gained, ground, hand, fault>>
    BY <1>2 DEF AddItem, Relock, Stops, tradeVars
  <2>2. T \subseteq S /\ S \subseteq backpack[c] /\ status[c] = "Trading" /\ backpack[c] \subseteq Item
    BY <1>2, <2>1 DEF AddItem, IsTrading, Stops, Relock, Stakes, TypeOK, tradeVars
  <2>3. SameOwners
    BY <1>0, <2>1, <2>2 DEF TypeOK, SameOwners, Owns, InHand
  <2>4. (container[c] \cup T) \in SUBSET Owns(c)
    BY <1>0, <2>2
  <2>5. \/ container[c] \cup T \subseteq container[c]
        \/ Cardinality(container[c] \cup T) <= maxWeight[c]
    <3>1. IsFiniteSet(container[c]) /\ IsFiniteSet(T) /\ maxWeight[c] \in Nat
      BY <2>2, FS_Subset, GoodsAssumption DEF TypeOK
    <3>2. Cardinality(container[c]) \in Nat /\ Cardinality(T) \in Nat
      BY <3>1, FS_CardinalityType
    <3>3. Cardinality(container[c] \cup T) <= Cardinality(container[c]) + Cardinality(T)
      <4>1. /\ Cardinality(container[c] \cap T) \in Nat
            /\ Cardinality(container[c] \cup T) =
                 Cardinality(container[c]) + Cardinality(T) - Cardinality(container[c] \cap T)
        BY <3>1, FS_Union, FS_Intersection, FS_CardinalityType
      <4>. QED
        BY <3>2, <4>1
    <3>4. CASE T = {}
      BY <3>4
    <3>5. CASE T # {}
      <4>1. Cardinality(T) <= ContainerRoom(c) /\ Cardinality(T) # 0
        BY <2>1, <3>1, <3>5, FS_EmptySet DEF Stakes
      <4>2. Cardinality(container[c]) + Cardinality(T) <= maxWeight[c]
        BY <3>1, <3>2, <4>1 DEF ContainerRoom
      <4>3. Cardinality(container[c] \cup T) \in Nat
        BY <3>1, FS_Union, FS_CardinalityType
      <4>. QED
        BY <3>1, <3>2, <3>3, <4>2, <4>3
    <3>. QED
      BY <3>4, <3>5
  <2>6. container' = [container EXCEPT ![c] = container[c] \cup T]
    BY <2>1
  <2>. QED
    BY <2>1, <2>2, <2>3, <2>4, <2>5, <2>6 DEF Revises
<1>3. ASSUME RemoveItem(c, S), ~ UNCHANGED <<tradeVars, backpack, hand>>
      PROVE  SameOwners /\ Revises(c)
  <2>1. /\ statusCharacter' = StatusAfter(c, "EditingItems")
        /\ container' = [container EXCEPT ![c] = @ \ S]
        /\ hand' = IF S = {} THEN hand ELSE [who |-> c, goods |-> S]
        /\ UNCHANGED <<status, otherTrade, maxWeight, gained, backpack, ground, fault>>
        /\ S \subseteq container[c] /\ status[c] = "Trading"
    BY <1>3 DEF RemoveItem, Relock, Stops
  <2>2. \A x \in Char : InHand(x)' = IF x = c THEN S ELSE {}
    BY <1>0, <1>3, <2>1, CharAssumption DEF InHand
  <2>3. SameOwners
    BY <1>0, <1>3, <2>1, <2>2 DEF TypeOK, SameOwners, Owns
  <2>4. (container[c] \ S) \in SUBSET Owns(c) /\ container[c] \ S \subseteq container[c]
    BY <1>0
  <2>. QED
    BY <2>1, <2>3, <2>4 DEF Revises
<1>4. ASSUME ClearItems(c), ~ UNCHANGED <<tradeVars, backpack, hand>>
      PROVE  SameOwners /\ (Revises(c) \/ Rates(c, "EditingItems"))
  <2>1. /\ status[c] # "Invalid"
        /\ statusCharacter' = StatusAfter(c, "EditingItems")
        /\ backpack' = [backpack EXCEPT ![c] = @ \cup container[c]]
        /\ container' = [container EXCEPT ![c] = {}]
        /\ UNCHANGED <<status, otherTrade, maxWeight, gained, ground, hand>>
    BY <1>4 DEF ClearItems, Relock, Stops
  <2>2. SameOwners
    BY <1>0, <2>1 DEF TypeOK, SameOwners, Owns, InHand
  <2>3. CASE status[c] = "Trading"
    <3>1. {} \in SUBSET Owns(c) /\ {} \subseteq container[c]
      OBVIOUS
    <3>. QED
      BY <2>1, <2>2, <2>3, <3>1 DEF Revises
  <2>4. CASE status[c] # "Trading"
    <3>1. container' = container
      BY <2>1, <2>4 DEF TypeOK, Links, GoodsOnlyInTrades
    <3>. QED
      BY <2>1, <2>2, <3>1 DEF Rates
  <2>. QED
    BY <2>3, <2>4
<1>. QED
  BY <1>1, <1>2, <1>3, <1>4

LEMMA PickUpKinds ==
  ASSUME IInv, NEW c \in Char, NEW i \in Item, PickUp(c, i)
  PROVE  \/ SameOwners /\ (TradesIdle \/ TradeOver(c))
         \/ Finds(c, i) /\ (TradeOver(c) \/ Beside(c))
<1>9. CASE Stops("relock")
  BY <1>9, HangIdles DEF Stops
<1>. SUFFICES ASSUME ~Stops("relock")
              PROVE  /\ SameOwners \/ Finds(c, i)
                     /\ IF status[c] = "Trading" THEN TradeOver(c) ELSE TradesIdle
  BY <1>9 DEF Beside
<1>. DEFINE trading == status[c] = "Trading"
            packs == BackpacksAfterCancel(c)
<1>0. i \in ground /\ Alive
  BY DEF PickUp, Handling
<1>1. /\ ResetTradeData(IF trading THEN TradeEnds(c) ELSE {})
      /\ \/ backpack' = [packs EXCEPT ![c] = @ \cup {i}]
         \/ backpack' = packs
      /\ hand' = hand
  BY DEF PickUp, AddToBackpack, Relock, IInv, Links, TradesNeedRecursion
<1>2. \A x \in Char : packs[x] \cup container'[x] = backpack[x] \cup container[x]
  <2>1. CASE trading
    BY <1>0, <1>1, <2>1, CancelledGoods
  <2>2. CASE ~trading
    <3>1. packs = backpack
      BY <2>2 DEF BackpacksAfterCancel
    <3>2. container' = container
      BY <1>1, <2>2 DEF ResetTradeData, IInv, TypeOK
    <3>. QED
      BY <3>1, <3>2
  <2>. QED
    BY <2>1, <2>2
<1>3. packs \in [Char -> SUBSET Item]
  BY BackpacksAfterCancelType DEF IInv
<1>4. IF trading THEN TradeOver(c) ELSE TradesIdle
  <2>1. CASE trading
    BY <1>1, <2>1 DEF TradeOver, TradeEnds
  <2>2. CASE ~trading
    <3>1. UNCHANGED <<status, statusCharacter, otherTrade, container, maxWeight, gained>>
      BY <1>1, <2>2 DEF ResetTradeData, IInv, TypeOK
    <3>2. TradesIdle
      BY <3>1 DEF TradesIdle
    <3>. QED
      BY <2>2, <3>2
  <2>. QED
    BY <2>1, <2>2
<1>. HIDE DEF packs
<1>5. CASE backpack' = packs
  BY <1>1, <1>2, <1>4, <1>5 DEF SameOwners, Owns, InHand
<1>6. CASE backpack' = [packs EXCEPT ![c] = @ \cup {i}]
  <2>1. /\ backpack'[c] = packs[c] \cup {i}
        /\ \A x \in Char \ {c} : backpack'[x] = packs[x]
    BY <1>3, <1>6
  <2>. QED
    BY <1>0, <1>1, <1>2, <1>4, <2>1 DEF Finds, Owns, InHand
<1>. QED
  BY <1>1, <1>5, <1>6

LEMMA DropKinds ==
  ASSUME IInv, NEW c \in Char, NEW i \in Item, Drop(c, i)
  PROVE  Loses(c, i) /\ TradesIdle
<1>1. /\ i \in backpack[c] /\ UNCHANGED <<tradeVars, hand>>
      /\ backpack'[c] = backpack[c] \ {i}
      /\ \A x \in Char \ {c} : backpack'[x] = backpack[x]
  BY DEF Drop, IInv, TypeOK
<1>2. i \notin container[c] /\ i \notin InHand(c)
  BY <1>1 DEF Drop, Handling, IInv, GoodsConserved
<1>. QED
  BY <1>1, <1>2 DEF tradeVars, Loses, TradesIdle, Owns, InHand

LEMMA GivenKinds ==
  ASSUME IInv, NEW c \in Char, NEW i \in Item, Given(c, i)
  PROVE  (SameOwners /\ TradesIdle) \/ (Finds(c, i) /\ Beside(c))
<1>1. CASE Stops("relock")
  BY <1>1, HangIdles DEF Stops
<1>2. CASE /\ backpack' = [backpack EXCEPT ![c] = @ \cup {i}] /\ Gains(c)
           /\ UNCHANGED <<status, statusCharacter, otherTrade, container, maxWeight, hand>>
  <2>1. /\ backpack'[c] = backpack[c] \cup {i}
        /\ \A x \in Char \ {c} : backpack'[x] = backpack[x]
        /\ i \in ground
    BY <1>2 DEF Given, IInv, TypeOK
  <2>2. Finds(c, i)
    BY <1>2, <2>1 DEF Finds, Owns, InHand
  <2>3. Beside(c)
    BY <1>2 DEF Beside, TradesIdle, Gains
  <2>. QED
    BY <2>2, <2>3
<1>. QED
  BY <1>1, <1>2 DEF Given, AddToBackpack, Relock

LEMMA RobKinds ==
  ASSUME IInv, NEW c \in Char, NEW d \in Char, NEW S \in SUBSET Item, Rob(c, d, S)
  PROVE  (SameOwners /\ TradesIdle) \/ Robs(c, d, S)
<1>1. CASE Stops("relock")
  BY <1>1, HangIdles DEF Stops
<1>2. CASE /\ backpack' = [backpack EXCEPT ![c] = @ \cup S, ![d] = @ \ S] /\ Gains(c)
           /\ UNCHANGED <<status, statusCharacter, otherTrade, container, maxWeight, hand>>
  <2>1. /\ c # d /\ Alive /\ S \subseteq backpack[d] \ NoDrop
        /\ backpack'[c] = backpack[c] \cup S /\ backpack'[d] = backpack[d] \ S
        /\ \A x \in Char \ {c, d} : backpack'[x] = backpack[x]
    BY <1>2 DEF Rob, Handling, IInv, TypeOK
  <2>2. S \cap (container[d] \cup InHand(d)) = {}
    BY <2>1 DEF IInv, GoodsConserved
  <2>3. Owns(d)' = Owns(d) \ S
    BY <1>2, <2>1, <2>2 DEF Owns, InHand
  <2>4. Owns(c)' = Owns(c) \cup S /\ \A x \in Char \ {c, d} : Owns(x)' = Owns(x)
    BY <1>2, <2>1 DEF Owns, InHand
  <2>5. Beside(c)
    BY <1>2 DEF Beside, TradesIdle, Gains
  <2>. QED
    BY <1>2, <2>1, <2>3, <2>4, <2>5 DEF Robs
<1>. QED
  BY <1>1, <1>2 DEF Rob, Relock

\* Every step of Trade is of one of these kinds.
StepKinds ==
  \/ SameOwners /\ TradesIdle
  \/ \E c \in Char : SameOwners /\ TradeOver(c)
  \/ \E c, d \in Char : SameOwners /\ Starts(c, d)
  \/ \E c \in Char : SameOwners /\ Revises(c)
  \/ \E c \in Char, new \in CharacterStatus : SameOwners /\ Rates(c, new)
  \/ \E c \in Char : Swaps(c)
  \/ \E c \in Char, i \in Item : Finds(c, i) /\ (TradeOver(c) \/ Beside(c))
  \/ \E c, d \in Char, S \in SUBSET Item : Robs(c, d, S)
  \/ \E c \in Char, i \in Item : Loses(c, i) /\ TradesIdle

LEMMA AllKinds ==
  ASSUME IInv, [Next]_vars
  PROVE  (Alive \/ UNCHANGED vars) /\ StepKinds
<1>1. CASE UNCHANGED vars
  BY <1>1, HangIdles DEF vars, StepKinds
<1>2. CASE PutInBackpack
  BY <1>2, SessionKinds DEF PutInBackpack, StepKinds
<1>3. ASSUME NEW c \in Char, Login(c) \/ Leave(c) \/ DisturbCheck(c) \/ BeginAdd(c)
      PROVE  Alive /\ StepKinds
  BY <1>3, SessionKinds DEF Login, Leave, DisturbCheck, BeginAdd, Handling, StepKinds
<1>4. ASSUME NEW c \in Char, Logoff(c) \/ Destroy(c) \/ DisturbCancel(c) \/ TradeCancel(c)
      PROVE  Alive /\ StepKinds
  BY <1>4, CancelKinds DEF Logoff, Destroy, DisturbCancel, TradeCancel, Handling, StepKinds
<1>5. ASSUME NEW c \in Char, NEW d \in Char, Request(c, d)
      PROVE  Alive /\ StepKinds
  BY <1>5, RequestKinds DEF Request, Handling, StepKinds
<1>6. ASSUME NEW c \in Char, NEW new \in CharacterStatus, SetStatus(c, new)
      PROVE  Alive /\ StepKinds
  BY <1>6, SetStatusKinds DEF SetStatus, Handling, StepKinds
<1>7. ASSUME NEW c \in Char, NEW S \in SUBSET Item, AddItem(c, S) \/ RemoveItem(c, S) \/ ClearItems(c)
      PROVE  Alive /\ StepKinds
  <2>1. "EditingItems" \in CharacterStatus
    BY DEF CharacterStatus
  <2>. QED
    BY <1>7, <2>1, ItemKinds DEF AddItem, RemoveItem, ClearItems, Handling, StepKinds
<1>8. ASSUME NEW c \in Char, NEW i \in Item, PickUp(c, i)
      PROVE  Alive /\ StepKinds
  BY <1>8, PickUpKinds DEF PickUp, Handling, StepKinds
<1>9. ASSUME NEW c \in Char, NEW i \in Item, Drop(c, i)
      PROVE  Alive /\ StepKinds
  BY <1>9, DropKinds DEF Drop, Handling, StepKinds
<1>11. ASSUME NEW c \in Char, NEW i \in Item, Given(c, i)
       PROVE  Alive /\ StepKinds
  BY <1>11, GivenKinds DEF Given, Handling, StepKinds
<1>12. ASSUME NEW c \in Char, NEW d \in Char, NEW S \in SUBSET Item, Rob(c, d, S)
       PROVE  Alive /\ StepKinds
  BY <1>12, RobKinds DEF Rob, Handling, StepKinds
<1>10. ASSUME NEW c \in Char, Handlers(c)
       PROVE  Alive /\ StepKinds
  <2>1. CASE ClearItems(c) \/ BeginAdd(c)
    BY <1>3, <1>7, <2>1
  <2>2. CASE \E s \in Stacks : \E S \in SUBSET s :
               AddItem(c, S) \/ RemoveItem(c, S) \/ \E d \in Char : Rob(c, d, S)
    BY <1>7, <1>12, <2>2, GoodsAssumption
  <2>3. CASE \E i \in Item : PickUp(c, i) \/ Drop(c, i) \/ Given(c, i)
                            \/ MoveObjectFromChestToBackpack2(c, i)
    BY <1>8, <1>9, <1>11, <2>3 DEF MoveObjectFromChestToBackpack2
  <2>. QED
    BY <1>4, <1>5, <1>6, <1>10, <2>1, <2>2, <2>3 DEF Handlers
<1>. QED
  BY <1>1, <1>2, <1>3, <1>4, <1>10 DEF Next, PutInBackpack

-----------------------------------------------------------------------------
(* Goods change hands by Finish, or by robbery of what is on no table.       *)

\* What GoodsPassByFinish says of a step.
Passed(c, d) ==
  c # d /\ Owns(c)' \cap Owns(d) # {} =>
    \/ /\ status[c] = "Trading" /\ otherTrade[c] = d
       /\ {statusCharacter[c], statusCharacter[d]} = {"Ready", "Confirmed"}
       /\ Owns(c)' \cap Owns(d) = container[d]
       /\ Owns(d)' \cap Owns(c) = container[c]
    \/ /\ Owns(c)' \cap Owns(d) \subseteq backpack[d] \ NoDrop
       /\ Owns(d)' \subseteq Owns(d)
       /\ UNCHANGED <<status, statusCharacter, otherTrade, container>>

LEMMA PassedInStep ==
  ASSUME IInv, Alive, StepKinds, NEW c \in Char, NEW d \in Char
  PROVE  Passed(c, d)
<1>1. \A x, y \in Char : x # y => Owns(x) \cap Owns(y) = {}
  BY DEF IInv, GoodsConserved
<1>2. \A x \in Char : ground \cap Owns(x) = {}
  BY DEF IInv, GoodsConserved
<1>3. CASE \A x \in Char : Owns(x)' \subseteq Owns(x) \cup ground
  <2>1. c # d => Owns(c)' \cap Owns(d) = {}
    BY <1>1, <1>2, <1>3
  <2>. QED
    BY <2>1 DEF Passed
<1>4. ASSUME NEW a \in Char, Swaps(a)
      PROVE  Passed(c, d)
  <2>1. PICK b \in Char : b = otherTrade[a] /\ b # a /\ status[b] = "Trading" /\ otherTrade[b] = a
    BY <1>4 DEF Swaps, IInv, Links, PartnersAgree
  <2>2. /\ backpack' = [backpack EXCEPT ![a] = @ \cup container[b], ![b] = @ \cup container[a]]
        /\ ResetTradeData({a, b}) /\ hand' = hand
    BY <1>4, <2>1 DEF Swaps, Exchange
  <2>3. /\ status[a] = "Trading"
        /\ statusCharacter[a] = "Ready" /\ statusCharacter[b] = "Confirmed"
    BY <1>4, <2>1 DEF Swaps
  <2>4. /\ Owns(a)' = backpack[a] \cup container[b] \cup InHand(a)
        /\ Owns(b)' = backpack[b] \cup container[a] \cup InHand(b)
        /\ \A x \in Char \ {a, b} : Owns(x)' = Owns(x)
    BY <2>1, <2>2 DEF IInv, TypeOK, ResetTradeData, Owns, InHand
  <2>5. \A x \in Char : Owns(x) = backpack[x] \cup container[x] \cup InHand(x)
    BY DEF Owns
  <2>6. Owns(a)' \cap Owns(b) = container[b] /\ Owns(b)' \cap Owns(a) = container[a]
    BY <1>1, <2>1, <2>4, <2>5
  <2>7. CASE c \notin {a, b} \/ d \notin {a, b}
    <3>2. CASE c \notin {a, b}
      BY <1>1, <2>4, <3>2 DEF Passed
    <3>3. CASE c \in {a, b} /\ d \notin {a, b}
      <4>1. Owns(c)' \subseteq Owns(a) \cup Owns(b)
        BY <2>4, <2>5, <3>3
      <4>. QED
        BY <1>1, <2>1, <3>3, <4>1 DEF Passed
    <3>. QED
      BY <2>7, <3>2, <3>3
  <2>8. CASE c = a /\ d = b
    BY <2>1, <2>3, <2>6, <2>8 DEF Passed
  <2>9. CASE c = b /\ d = a
    BY <2>1, <2>3, <2>6, <2>9 DEF Passed
  <2>. QED
    BY <2>7, <2>8, <2>9 DEF Passed
<1>6. ASSUME NEW a \in Char, NEW b \in Char, NEW S \in SUBSET Item, Robs(a, b, S)
      PROVE  Passed(c, d)
  <2>1. /\ a # b /\ S \subseteq backpack[b] \ NoDrop /\ S \subseteq Owns(b)
        /\ Owns(a)' = Owns(a) \cup S /\ Owns(b)' = Owns(b) \ S
        /\ \A x \in Char \ {a, b} : Owns(x)' = Owns(x)
        /\ UNCHANGED <<status, statusCharacter, otherTrade, container>>
    BY <1>6 DEF Robs, Owns
  <2>2. CASE c = a /\ d = b
    <3>1. Owns(c)' \cap Owns(d) = S
      BY <1>1, <2>1, <2>2
    <3>. QED
      BY <2>1, <2>2, <3>1 DEF Passed
  <2>3. CASE c # d /\ ~(c = a /\ d = b)
    <3>1. Owns(c)' \cap Owns(d) = {}
      BY <1>1, <2>1, <2>3
    <3>. QED
      BY <3>1 DEF Passed
  <2>. QED
    BY <2>2, <2>3 DEF Passed
<1>5. \/ \A x \in Char : Owns(x)' \subseteq Owns(x) \cup ground
      \/ \E a \in Char : Swaps(a)
      \/ \E a, b \in Char, S \in SUBSET Item : Robs(a, b, S)
  BY DEF StepKinds, SameOwners, Finds, Loses
<1>. QED
  BY <1>3, <1>4, <1>5, <1>6

\* Units pass from one character to another only by Finish, between a side that is
\* Ready and one that is Confirmed, whoever else leaves, disturbs or cancels, or by
\* a robbery, which leaves every table and every trade as it is.
THEOREM GoodsPassOnlyByFinish == Spec => GoodsPassByFinish
<1>1. IInv /\ [Next]_vars => [\A c, d \in Char : Passed(c, d)]_vars
  BY AllKinds, PassedInStep
<1>. QED
  BY <1>1, Invariance, PTL DEF Spec, GoodsPassByFinish, Passed

-----------------------------------------------------------------------------
(* What is offered fits.                                                    *)

\* The room a container was given is still free at the other side, whatever that
\* side has taken back, dropped or staked meanwhile, unless it got goods beside the
\* trade.
RoomKept ==
  \A c \in Char : status[c] = "Trading" =>
    /\ Cardinality(container[c]) <= maxWeight[c]
    /\ \/ maxWeight[c] = 0 \/ otherTrade[c] \in gained
       \/ Cardinality(Owns(otherTrade[c])) + maxWeight[c] <= CarryMax

LEMMA FiniteGoods ==
  ASSUME TypeOK
  PROVE  \A c \in Char : /\ IsFiniteSet(Owns(c)) /\ Cardinality(Owns(c)) \in Nat
                         /\ IsFiniteSet(container[c]) /\ Cardinality(container[c]) \in Nat
<1>1. \A c \in Char : Owns(c) \subseteq Item /\ container[c] \subseteq Item
  BY DEF TypeOK, Owns, InHand
<1>. QED
  BY <1>1, FS_Subset, FS_CardinalityType, GoodsAssumption

\* A container only gets fuller, and the other side's goods only fewer, where there
\* is room.
LEMMA RoomStays ==
  ASSUME TypeOK, NEW c \in Char, status[c] = "Trading", otherTrade[c] \in Char, RoomKept,
         otherTrade'[c] = otherTrade[c], maxWeight'[c] = maxWeight[c],
         otherTrade[c] \in gained => otherTrade[c] \in gained',
         Owns(otherTrade[c])' \subseteq Owns(otherTrade[c]) \/ otherTrade[c] \in gained',
         container'[c] \subseteq container[c] \/ Cardinality(container'[c]) <= maxWeight[c]
  PROVE  /\ Cardinality(container'[c]) <= maxWeight'[c]
         /\ \/ maxWeight'[c] = 0 \/ otherTrade[c] \in gained'
            \/ Cardinality(Owns(otherTrade[c])') + maxWeight'[c] <= CarryMax
<1>. DEFINE d == otherTrade[c]
<1>1. /\ IsFiniteSet(Owns(d)) /\ Cardinality(Owns(d)) \in Nat
      /\ IsFiniteSet(container[c]) /\ Cardinality(container[c]) \in Nat
      /\ maxWeight[c] \in Nat /\ CarryMax \in Nat
  BY FiniteGoods, GoodsAssumption DEF TypeOK
<1>2. d \notin gained' =>
        Cardinality(Owns(d)') \in Nat /\ Cardinality(Owns(d)') <= Cardinality(Owns(d))
  BY <1>1, FS_Subset, FS_CardinalityType
<1>3. Cardinality(container'[c]) <= maxWeight[c]
  <2>1. CASE container'[c] \subseteq container[c]
    <3>1. /\ Cardinality(container'[c]) \in Nat
          /\ Cardinality(container'[c]) <= Cardinality(container[c])
      BY <1>1, <2>1, FS_Subset, FS_CardinalityType
    <3>. QED
      BY <1>1, <3>1 DEF RoomKept
  <2>. QED
    BY <2>1
<1>4. \/ maxWeight[c] = 0 \/ d \in gained'
      \/ Cardinality(Owns(d)) + maxWeight[c] <= CarryMax
  BY DEF RoomKept
<1>. HIDE DEF d
<1>5. \/ maxWeight[c] = 0 \/ d \in gained'
      \/ Cardinality(Owns(d)') + maxWeight[c] <= CarryMax
  BY <1>1, <1>2, <1>4
<1>. QED
  BY <1>3, <1>5 DEF d

LEMMA RoomStep ==
  ASSUME IInv, RoomKept, Alive, StepKinds
  PROVE  RoomKept'
<1>1. SUFFICES ASSUME NEW c \in Char, status'[c] = "Trading"
               PROVE  /\ Cardinality(container'[c]) <= maxWeight'[c]
                      /\ \/ maxWeight'[c] = 0 \/ otherTrade'[c] \in gained'
                         \/ Cardinality(Owns(otherTrade[c])') + maxWeight'[c] <= CarryMax
  BY DEF RoomKept
<1>2. CASE /\ status[c] = "Trading" /\ otherTrade[c] \in Char
           /\ otherTrade'[c] = otherTrade[c] /\ maxWeight'[c] = maxWeight[c]
           /\ otherTrade[c] \in gained => otherTrade[c] \in gained'
           /\ Owns(otherTrade[c])' \subseteq Owns(otherTrade[c]) \/ otherTrade[c] \in gained'
           /\ container'[c] \subseteq container[c] \/ Cardinality(container'[c]) <= maxWeight[c]
  BY <1>2, RoomStays DEF IInv
<1>3. CASE \E a, b \in Char : SameOwners /\ Starts(a, b) /\ c \in {a, b}
  <2>1. PICK d \in Char : /\ otherTrade'[c] = d /\ maxWeight'[c] = GetFreeWeight(d)
                          /\ container'[c] = {} /\ container[d] = {} /\ Owns(d)' = Owns(d)
                          /\ hand.who = None
    <3>1. PICK a \in Char, b \in Char : SameOwners /\ Starts(a, b) /\ c \in {a, b}
      BY <1>3
    <3>2. container[a] = {} /\ container[b] = {}
      BY <3>1 DEF Starts, WaitsFor, IInv, TypeOK, Links, GoodsOnlyInTrades
    <3>3. otherTrade[b] = a
      BY <3>1 DEF Starts, WaitsFor
    <3>. QED
      BY <3>1, <3>2, <3>3 DEF Starts, StartTrade, SameOwners, IInv, TypeOK
  <2>2. Owns(d) = backpack[d]
    BY <2>1, CharAssumption DEF Owns, InHand
  <2>3. Cardinality(backpack[d]) \in Nat /\ CarryMax \in Nat
    BY <2>2, FiniteGoods, GoodsAssumption DEF IInv
  <2>4. maxWeight'[c] = 0 \/ Cardinality(backpack[d]) + maxWeight'[c] <= CarryMax
    BY <2>1, <2>3 DEF GetFreeWeight
  <2>5. maxWeight'[c] \in Nat /\ Cardinality(container'[c]) = 0
    BY <2>1, FreeWeightType, FS_EmptySet DEF IInv
  <2>. QED
    BY <2>1, <2>2, <2>4, <2>5
<1>4. CASE status[c] = "Trading"
  <2>1. PICK d \in Char : /\ d = otherTrade[c] /\ status[d] = "Trading" /\ otherTrade[d] = c
    BY <1>4 DEF IInv, Links, PartnersAgree
  <2>2. /\ otherTrade'[c] = d /\ maxWeight'[c] = maxWeight[c]
        /\ d \in gained => d \in gained'
        /\ Owns(d)' \subseteq Owns(d) \/ d \in gained'
        /\ container'[c] \subseteq container[c] \/ Cardinality(container'[c]) <= maxWeight[c]
    <3>1. CASE SameOwners /\ TradesIdle
      BY <1>4, <2>1, <3>1 DEF SameOwners, TradesIdle
    <3>2. ASSUME NEW a \in Char, TradeOver(a), \A x \in Char \ {a} : Owns(x)' = Owns(x)
          PROVE  <2>2!:
      <4>1. c \notin {a, otherTrade[a]} /\ d \notin {a, otherTrade[a]}
        BY <1>1, <2>1, <3>2 DEF TradeOver, ResetTradeData, IInv, Links, PartnersAgree
      <4>. QED
        BY <1>1, <1>4, <2>1, <3>2, <4>1 DEF TradeOver, ResetTradeData
    <3>3. ASSUME NEW a \in Char, NEW b \in Char, SameOwners, Starts(a, b)
          PROVE  <2>2!:
      BY <1>4, <2>1, <3>3 DEF SameOwners, Starts, StartTrade, WaitsFor, IInv, TypeOK
    <3>4. ASSUME NEW a \in Char, SameOwners, Revises(a)
          PROVE  <2>2!:
      BY <1>4, <2>1, <3>4 DEF SameOwners, Revises, IInv, TypeOK
    <3>5. ASSUME NEW a \in Char, NEW new \in CharacterStatus, SameOwners, Rates(a, new)
          PROVE  <2>2!:
      BY <1>4, <2>1, <3>5 DEF SameOwners, Rates
    <3>6. ASSUME NEW a \in Char, Swaps(a)
          PROVE  <2>2!:
      <4>1. PICK b \in Char : b = otherTrade[a] /\ b # a /\ otherTrade[b] = a
        BY <3>6 DEF Swaps, IInv, Links, PartnersAgree
      <4>2. /\ ResetTradeData({a, b}) /\ hand' = hand
            /\ backpack' = [backpack EXCEPT ![a] = @ \cup container[b], ![b] = @ \cup container[a]]
        BY <3>6, <4>1 DEF Swaps, Exchange
      <4>3. c \notin {a, b} /\ d \notin {a, b}
        BY <1>1, <2>1, <4>1, <4>2 DEF ResetTradeData
      <4>. QED
        BY <2>1, <4>1, <4>2, <4>3 DEF ResetTradeData, Owns, InHand, IInv, TypeOK
    <3>7. ASSUME NEW a \in Char, NEW i \in Item, Finds(a, i), Beside(a)
          PROVE  <2>2!:
      BY <1>4, <2>1, <3>7 DEF Finds, Beside, TradesIdle
    <3>9. ASSUME NEW a \in Char, NEW b \in Char, NEW S \in SUBSET Item, Robs(a, b, S)
          PROVE  <2>2!:
      BY <1>4, <2>1, <3>9 DEF Robs, Beside, TradesIdle
    <3>8. ASSUME NEW a \in Char, NEW i \in Item, Loses(a, i), TradesIdle
          PROVE  <2>2!:
      BY <1>4, <2>1, <3>8 DEF Loses, TradesIdle
    <3>. QED
      BY <3>1, <3>2, <3>3, <3>4, <3>5, <3>6, <3>7, <3>8, <3>9 DEF StepKinds, SameOwners, Finds
  <2>. QED
    BY <1>2, <1>4, <2>1, <2>2
<1>5. CASE status[c] # "Trading"
  <2>1. CASE SameOwners /\ TradesIdle
    BY <1>1, <1>5, <2>1 DEF TradesIdle
  <2>2. ASSUME NEW a \in Char, TradeOver(a) \/ TradesIdle \/ Revises(a) \/ Swaps(a)
        PROVE  FALSE
    BY <1>1, <1>5, <2>2 DEF TradeOver, ResetTradeData, TradesIdle, Revises, Swaps, Exchange
  <2>3. ASSUME NEW a \in Char, NEW new \in CharacterStatus, Rates(a, new)
        PROVE  FALSE
    BY <1>1, <1>5, <2>3 DEF Rates
  <2>4. ASSUME NEW a \in Char, NEW b \in Char, Starts(a, b)
        PROVE  c \in {a, b}
    BY <1>1, <1>5, <2>4 DEF Starts, StartTrade, IInv, TypeOK
  <2>. QED
    BY <1>3, <2>2, <2>3, <2>4 DEF StepKinds, Beside, Robs
<1>. QED
  BY <1>4, <1>5

\* Whatever c offers, the other side can carry it when the trade finishes, unless
\* that side got goods out of a chest, as a gift or by robbery while the trade ran.
THEOREM OffersFit == Spec => []OfferFits
<1>1. Init => RoomKept
  BY DEF Init, RoomKept
<1>2. IInv /\ RoomKept /\ [Next]_vars => RoomKept'
  <2>1. ASSUME RoomKept, UNCHANGED vars
        PROVE  RoomKept'
    BY <2>1 DEF RoomKept, vars, tradeVars, Owns, InHand
  <2>. QED
    BY <2>1, AllKinds, RoomStep
<1>3. IInv /\ RoomKept => OfferFits
  <2>. SUFFICES ASSUME IInv, RoomKept, NEW c \in Char, status[c] = "Trading", container[c] # {}
                PROVE  \/ otherTrade[c] \in gained
                       \/ Cardinality(Owns(otherTrade[c])) + Cardinality(container[c]) <= CarryMax
    BY DEF OfferFits
  <2>1. /\ Cardinality(container[c]) \in Nat /\ Cardinality(container[c]) # 0
        /\ otherTrade[c] \in Char /\ maxWeight[c] \in Nat
    BY FiniteGoods, FS_EmptySet DEF IInv, TypeOK, Links, PartnersAgree
  <2>2. Cardinality(Owns(otherTrade[c])) \in Nat /\ CarryMax \in Nat
    BY <2>1, FiniteGoods, GoodsAssumption DEF IInv
  <2>. QED
    BY <2>1, <2>2 DEF RoomKept
<1>. QED
  BY <1>1, <1>2, <1>3, Invariance, PTL DEF Spec

-----------------------------------------------------------------------------
(* Between two characters a trade implements Barter.                        *)

\* The instance of the theorem: no third character interferes.
Two == \A x, y, z \in Char : x = y \/ y = z \/ x = z

\* Whoever goes back to EditingItems voids the agreement of the other side.
NoLoneEditor ==
  \A c \in Char : status[c] = "Trading" /\ statusCharacter[c] = "EditingItems" =>
    statusCharacter[otherTrade[c]] # "Confirmed"

Disjoint == \A c, d \in Char : c # d => Owns(c) \cap Owns(d) = {}

LEMMA OwnerNow ==
  ASSUME Disjoint, NEW i
  PROVE  /\ \A c \in Char : i \in Owns(c) <=> OwnerOf(i) = c
         /\ (\A c \in Char : i \notin Owns(c)) <=> OwnerOf(i) = None
         /\ OwnerOf(i) \in Char \cup {None}
<1>1. CASE \E c \in Char : i \in Owns(c)
  <2>1. OwnerOf(i) \in Char /\ i \in Owns(OwnerOf(i))
    BY <1>1 DEF OwnerOf
  <2>. QED
    BY <2>1, CharAssumption DEF Disjoint
<1>2. CASE ~ \E c \in Char : i \in Owns(c)
  BY <1>2, CharAssumption DEF OwnerOf
<1>. QED
  BY <1>1, <1>2

LEMMA OwnerNext ==
  ASSUME Disjoint', NEW CONSTANT i
  PROVE  /\ \A c \in Char : i \in Owns(c)' <=> OwnerOf(i)' = c
         /\ (\A c \in Char : i \notin Owns(c)') <=> OwnerOf(i)' = None
<1>1. CASE \E c \in Char : i \in Owns(c)'
  <2>1. OwnerOf(i)' \in Char /\ i \in Owns(OwnerOf(i))'
    BY <1>1 DEF OwnerOf
  <2>. QED
    BY <2>1, CharAssumption DEF Disjoint
<1>2. CASE ~ \E c \in Char : i \in Owns(c)'
  BY <1>2, CharAssumption DEF OwnerOf
<1>. QED
  BY <1>1, <1>2

LEMMA DisjointNow == ASSUME IInv, Alive PROVE Disjoint
BY DEF IInv, GoodsConserved, Disjoint

\* Everything on both tables changes sides.
LEMMA SwapMoves ==
  ASSUME IInv, Alive, NEW a \in Char, NEW b \in Char, b = otherTrade[a], Swaps(a)
  PROVE  /\ b # a /\ status[b] = "Trading" /\ otherTrade[b] = a
         /\ ResetTradeData({a, b})
         /\ Owns(a)' = (Owns(a) \ container[a]) \cup container[b]
         /\ Owns(b)' = (Owns(b) \ container[b]) \cup container[a]
         /\ \A x \in Char \ {a, b} : Owns(x)' = Owns(x)
<1>1. b # a /\ status[b] = "Trading" /\ otherTrade[b] = a
  BY DEF Swaps, IInv, Links, PartnersAgree
<1>2. /\ backpack' = [backpack EXCEPT ![a] = @ \cup container[b], ![b] = @ \cup container[a]]
      /\ ResetTradeData({a, b}) /\ hand' = hand
  BY DEF Swaps, Exchange
<1>3. /\ backpack'[a] = backpack[a] \cup container[b] /\ container'[a] = {}
      /\ backpack'[b] = backpack[b] \cup container[a] /\ container'[b] = {}
      /\ \A x \in Char \ {a, b} : backpack'[x] = backpack[x] /\ container'[x] = container[x]
  BY <1>1, <1>2 DEF ResetTradeData, IInv, TypeOK
<1>4. \A x \in Char : InHand(x)' = InHand(x)
  BY <1>2 DEF InHand
<1>5. \A x \in Char : container[x] \cap (backpack[x] \cup InHand(x)) = {}
  BY DEF IInv, GoodsConserved
<1>6. Owns(a)' = (Owns(a) \ container[a]) \cup container[b]
  BY <1>3, <1>4, <1>5 DEF Owns
<1>7. Owns(b)' = (Owns(b) \ container[b]) \cup container[a]
  BY <1>3, <1>4, <1>5 DEF Owns
<1>8. \A x \in Char \ {a, b} : Owns(x)' = Owns(x)
  BY <1>3, <1>4 DEF Owns
<1>. QED
  BY <1>1, <1>2, <1>6, <1>7, <1>8

LEMMA DisjointStep ==
  ASSUME IInv, Alive, StepKinds
  PROVE  Disjoint'
<1>. USE DisjointNow DEF Disjoint
<1>1. CASE SameOwners
  BY <1>1 DEF SameOwners
<1>2. ASSUME NEW a \in Char, NEW i \in Item, Finds(a, i) PROVE Disjoint'
  <2>1. \A x \in Char : i \notin Owns(x)
    BY <1>2 DEF Finds, IInv, GoodsConserved
  <2>. QED
    BY <1>2, <2>1 DEF Finds
<1>3. ASSUME NEW a \in Char, NEW i \in Item, Loses(a, i) PROVE Disjoint'
  BY <1>3 DEF Loses
<1>4. ASSUME NEW a \in Char, Swaps(a) PROVE Disjoint'
  <2>1. PICK b \in Char : b = otherTrade[a]
    BY <1>4 DEF Swaps, IInv, Links, PartnersAgree
  <2>2. container[a] \subseteq Owns(a) /\ container[b] \subseteq Owns(b) /\ a # b
    BY <1>4, <2>1, SwapMoves DEF Owns
  <2>3. \A x \in Char \ {a, b} : Owns(x)' = Owns(x)
    BY <1>4, <2>1, SwapMoves
  <2>4. /\ Owns(a)' = (Owns(a) \ container[a]) \cup container[b]
        /\ Owns(b)' = (Owns(b) \ container[b]) \cup container[a]
    BY <1>4, <2>1, SwapMoves
  <2>5. Owns(a)' \cap Owns(b)' = {}
    BY <2>2, <2>4
  <2>6. \A x \in Char \ {a, b} : Owns(x) \cap Owns(a)' = {} /\ Owns(x) \cap Owns(b)' = {}
    BY <2>2, <2>4
  <2>7. ASSUME NEW x \in Char, NEW y \in Char, x # y
        PROVE  Owns(x)' \cap Owns(y)' = {}
    BY <2>3, <2>5, <2>6, <2>7
  <2>. QED
    BY <2>7
<1>5. ASSUME NEW a \in Char, NEW b \in Char, NEW S \in SUBSET Item, Robs(a, b, S)
      PROVE  Disjoint'
  <2>1. /\ S \subseteq Owns(b) /\ a # b
        /\ Owns(a)' = Owns(a) \cup S /\ Owns(b)' = Owns(b) \ S
        /\ \A x \in Char \ {a, b} : Owns(x)' = Owns(x)
    BY <1>5 DEF Robs, Owns
  <2>2. ASSUME NEW x \in Char, NEW y \in Char, x # y
        PROVE  Owns(x)' \cap Owns(y)' = {}
    BY <2>1, <2>2
  <2>. QED
    BY <2>2
<1>. QED
  BY <1>1, <1>2, <1>3, <1>4, <1>5 DEF StepKinds

LEMMA EditorStep ==
  ASSUME Two, IInv, IInv', NoLoneEditor, Alive, StepKinds
  PROVE  NoLoneEditor'
<1>1. SUFFICES ASSUME NEW c \in Char, NEW d \in Char,
                      status'[c] = "Trading", statusCharacter'[c] = "EditingItems",
                      d = otherTrade'[c], status'[d] = "Trading",
                      statusCharacter'[d] = "Confirmed"
               PROVE  FALSE
  BY DEF NoLoneEditor, IInv, Links, PartnersAgree
<1>2. c # d /\ \A x \in Char : x \in {c, d}
  BY <1>1 DEF Two, IInv, Links, PartnersAgree
<1>3. ASSUME NEW a \in Char, TradeOver(a) \/ Swaps(a) PROVE FALSE
  <2>1. status'[a] = "Invalid"
    BY <1>3 DEF TradeOver, Swaps, Exchange, ResetTradeData
  <2>. QED
    BY <1>1, <1>2, <2>1
<1>4. ASSUME TradesIdle PROVE FALSE
  BY <1>1, <1>4 DEF TradesIdle, NoLoneEditor
<1>5. ASSUME NEW a \in Char, NEW b \in Char, Starts(a, b) PROVE FALSE
  BY <1>1, <1>2, <1>5 DEF Starts, StartTrade, IInv, TypeOK
<1>6. ASSUME NEW a \in Char, NEW new \in CharacterStatus, UNCHANGED <<status, otherTrade>>,
             statusCharacter' = StatusAfter(a, new)
      PROVE  FALSE
  <2>1. /\ status[c] = "Trading" /\ otherTrade[c] = d
        /\ status[d] = "Trading" /\ otherTrade[d] = c
    BY <1>1, <1>6 DEF IInv, Links, PartnersAgree
  <2>2. ~ (statusCharacter[c] = "EditingItems" /\ statusCharacter[d] = "Confirmed")
    BY <2>1 DEF NoLoneEditor
  <2>3. StatusAllowed(a, new)
    BY <1>1, <1>6, <2>2 DEF StatusAfter
  <2>. QED
    BY <1>1, <1>2, <1>6, <2>1, <2>2, <2>3 DEF StatusAfter, StatusAllowed
<1>7. ASSUME NEW a \in Char, NEW new \in CharacterStatus, Rates(a, new) PROVE FALSE
  <2>1. status[a] = "Trading"
    BY <1>1, <1>2, <1>7 DEF Rates
  <2>. QED
    BY <1>6, <1>7, <2>1 DEF Rates
<1>8. ASSUME NEW a \in Char, Revises(a) PROVE FALSE
  BY <1>6, <1>8 DEF Revises, CharacterStatus
<1>. QED
  BY <1>3, <1>4, <1>5, <1>7, <1>8 DEF StepKinds, Beside, Robs

\* How the parts of the mapping follow a step.
LEMMA OwnersKept ==
  ASSUME IInv, Alive, StepKinds, SameOwners
  PROVE  [i \in Item |-> OwnerOf(i)]' = [i \in Item |-> OwnerOf(i)]
<1>1. ASSUME NEW CONSTANT i \in Item PROVE OwnerOf(i)' = OwnerOf(i)
  BY DisjointNow, DisjointStep, OwnerNow, OwnerNext DEF SameOwners
<1>. QED
  BY <1>1

LEMMA PartnersKept ==
  ASSUME \A x \in Char : /\ status'[x] = "Trading" <=> status[x] = "Trading"
                         /\ status[x] = "Trading" => otherTrade'[x] = otherTrade[x]
  PROVE  [c \in Char |-> PartnerOf(c)]' = [c \in Char |-> PartnerOf(c)]
BY DEF PartnerOf

LEMMA PartnersType ==
  ASSUME IInv, NEW c \in Char
  PROVE  /\ status[c] = "Trading" => PartnerOf(c) = otherTrade[c] /\ PartnerOf(c) \in Char \ {c}
         /\ status[c] # "Trading" => PartnerOf(c) = None
         /\ PartnerOf(c) # None <=> status[c] = "Trading"
BY CharAssumption DEF PartnerOf, IInv, Links, PartnersAgree

\* A trade that ends.
LEMMA ResetMaps ==
  ASSUME IInv, NEW a \in Char, NEW b \in Char, ResetTradeData({a, b})
  PROVE  Deal!Apart({a, b})
<1>1. [c \in Char |-> PartnerOf(c)]' =
        [c \in Char |-> IF c \in {a, b} THEN None ELSE [x \in Char |-> PartnerOf(x)][c]]
  BY DEF ResetTradeData, PartnerOf
<1>2. container' = [c \in Char |-> IF c \in {a, b} THEN {} ELSE container[c]]
  BY DEF ResetTradeData
<1>3. Agreeing' = Agreeing \ {a, b}
  BY DEF ResetTradeData, Agreeing
<1>. QED
  BY <1>1, <1>2, <1>3 DEF Deal!Apart

LEMMA TradeOverMaps ==
  ASSUME IInv, NEW a \in Char, TradeOver(a)
  PROVE  /\ Deal!Apart(Deal!Pair(a))
         /\ [c \in Char |-> PartnerOf(c)][a] # None
<1>1. PICK b \in Char : b = otherTrade[a]
  BY DEF TradeOver, IInv, Links, PartnersAgree
<1>2. Deal!Pair(a) = {a, b} /\ [c \in Char |-> PartnerOf(c)][a] # None
  BY <1>1, PartnersType DEF TradeOver, Deal!Pair
<1>3. Deal!Apart({a, b})
  BY <1>1, ResetMaps DEF TradeOver
<1>. QED
  BY <1>2, <1>3

LEMMA IdleMaps ==
  ASSUME TradesIdle
  PROVE  /\ [c \in Char |-> PartnerOf(c)]' = [c \in Char |-> PartnerOf(c)]
         /\ container' = container /\ Agreeing' = Agreeing
BY PartnersKept DEF TradesIdle, Agreeing

LEMMA StartMaps ==
  ASSUME IInv, Alive, StepKinds, NEW a \in Char, NEW b \in Char, SameOwners, Starts(a, b)
  PROVE  Deal!Meet(a, b)
<1>1. /\ a # b /\ status[a] # "Trading" /\ status[b] # "Trading" /\ otherTrade[b] = a
      /\ container[a] = {} /\ container[b] = {}
  BY DEF Starts, WaitsFor, IInv, Links, GoodsOnlyInTrades
<1>2. container' = container
  BY <1>1 DEF Starts, StartTrade, IInv, TypeOK
<1>3. Agreeing' = Agreeing
  BY <1>1 DEF Starts, StartTrade, IInv, TypeOK, Agreeing
<1>4. [c \in Char |-> PartnerOf(c)]' = [[c \in Char |-> PartnerOf(c)] EXCEPT ![a] = b, ![b] = a]
  BY <1>1 DEF Starts, StartTrade, IInv, TypeOK, PartnerOf
<1>. QED
  BY <1>1, <1>2, <1>3, <1>4, OwnersKept, PartnersType DEF Deal!Meet

LEMMA ReviseMaps ==
  ASSUME IInv, Alive, NoLoneEditor, StepKinds, NEW a \in Char, SameOwners, Revises(a)
  PROVE  Deal!Revise(a)
<1>1. PICK T \in SUBSET Owns(a) : container' = [container EXCEPT ![a] = T]
  BY DEF Revises
<1>2. T \in SUBSET {i \in Item : [j \in Item |-> OwnerOf(j)][i] = a}
  BY DisjointNow, OwnerNow DEF Owns, InHand, IInv, TypeOK
<1>3. PICK b \in Char : /\ b = otherTrade[a] /\ b # a /\ Deal!Pair(a) = {a, b}
                        /\ status[b] = "Trading" /\ otherTrade[b] = a
  BY PartnersType DEF Revises, IInv, Links, PartnersAgree, Deal!Pair
<1>4. Agreeing' = Agreeing \ {a, b}
  <2>1. CASE statusCharacter[a] = "EditingItems"
    BY <1>3, <2>1 DEF Revises, StatusAfter, StatusAllowed, NoLoneEditor, Agreeing
  <2>2. CASE statusCharacter[a] # "EditingItems"
    BY <1>3, <2>2 DEF Revises, StatusAfter, StatusAllowed, Agreeing
  <2>. QED
    BY <2>1, <2>2
<1>5. [c \in Char |-> PartnerOf(c)]' = [c \in Char |-> PartnerOf(c)]
  BY PartnersKept DEF Revises
<1>. QED
  BY <1>1, <1>2, <1>3, <1>4, <1>5, OwnersKept, PartnersType DEF Deal!Revise, Revises

LEMMA RateMaps ==
  ASSUME Two, IInv, Alive, StepKinds, SameOwners,
         NEW a \in Char, NEW new \in CharacterStatus, Rates(a, new)
  PROVE  Deal!Agree(a) \/ Deal!Hesitate(a) \/ UNCHANGED Deal!vars
<1>1. /\ [c \in Char |-> PartnerOf(c)]' = [c \in Char |-> PartnerOf(c)]
      /\ container' = container
      /\ [i \in Item |-> OwnerOf(i)]' = [i \in Item |-> OwnerOf(i)]
  BY PartnersKept, OwnersKept DEF Rates
<1>2. PICK b \in Char : b = otherTrade[a] /\ b # a
  BY DEF Rates, IInv, Links, EndsAlive
<1>3. CASE Agreeing' = Agreeing
  BY <1>1, <1>3 DEF Deal!vars
<1>4. CASE status[a] # "Trading"
  <2>1. \A c \in Char : status[c] # "Trading"
    BY <1>2, <1>4 DEF Two, IInv, Links, PartnersAgree
  <2>2. Agreeing' = Agreeing
    BY <2>1 DEF Rates, Agreeing
  <2>. QED
    BY <1>3, <2>2
<1>5. CASE status[a] = "Trading" /\ statusCharacter' = StatusAfter(a, new) /\ StatusAllowed(a, new)
  <2>1. Deal!Pair(a) = {a, b} /\ [c \in Char |-> PartnerOf(c)][a] # None /\ status[b] = "Trading"
    BY <1>2, <1>5, PartnersType DEF Deal!Pair, IInv, Links, PartnersAgree
  <2>2. CASE new = "Confirmed"
    <3>1. Agreeing' = Agreeing \cup {a}
      BY <1>5, <2>2 DEF Rates, StatusAfter, Agreeing
    <3>. QED
      BY <1>1, <2>1, <3>1 DEF Deal!Agree
  <2>3. CASE new = "Ready"
    <3>1. Agreeing' = Agreeing \ {a}
      BY <1>5, <2>3 DEF Rates, StatusAfter, Agreeing
    <3>2. {a} \in SUBSET Deal!Pair(a)
      BY <2>1
    <3>. QED
      BY <1>1, <3>1, <3>2 DEF Deal!Hesitate
  <2>4. CASE new = "EditingItems"
    <3>1. Agreeing' = Agreeing \ {a, b}
      BY <1>2, <1>5, <2>4 DEF Rates, StatusAfter, Agreeing
    <3>2. {a, b} \in SUBSET Deal!Pair(a)
      BY <2>1
    <3>. QED
      BY <1>1, <3>1, <3>2 DEF Deal!Hesitate
  <2>. QED
    BY <2>2, <2>3, <2>4 DEF CharacterStatus
<1>6. CASE status[a] = "Trading" /\ ~StatusAllowed(a, new)
  <2>1. Agreeing' = Agreeing
    BY <1>6 DEF Rates, StatusAfter, Agreeing
  <2>. QED
    BY <1>3, <2>1
<1>. QED
  BY <1>4, <1>5, <1>6 DEF Rates

LEMMA SwapMaps ==
  ASSUME IInv, Alive, StepKinds, NEW a \in Char, Swaps(a)
  PROVE  [c \in Char |-> PartnerOf(c)][a] # None /\ Deal!Swap(a)
<1>1. PICK b \in Char : b = otherTrade[a]
  BY DEF Swaps, IInv, Links, PartnersAgree
<1>2. /\ b # a /\ status[b] = "Trading" /\ b \in Agreeing
      /\ [c \in Char |-> PartnerOf(c)][a] = b
  BY <1>1, SwapMoves, PartnersType DEF Swaps, Agreeing
<1>3. Deal!Apart({a, b})
  BY <1>1, SwapMoves, ResetMaps
<1>4. ASSUME NEW CONSTANT i \in Item
      PROVE  OwnerOf(i)' = IF i \in container[a] THEN b
                           ELSE IF i \in container[b] THEN a ELSE OwnerOf(i)
  <2>1. Disjoint /\ Disjoint'
    BY DisjointNow, DisjointStep
  <2>2. container[a] \subseteq Owns(a) /\ container[b] \subseteq Owns(b)
    BY DEF Owns
  <2>3. CASE i \in container[a]
    <3>0. Owns(b)' = (Owns(b) \ container[b]) \cup container[a]
      BY <1>1, SwapMoves
    <3>1. i \in Owns(b)'
      BY <2>3, <3>0
    <3>. QED
      BY <2>1, <2>3, <3>1, OwnerNext
  <2>4. CASE i \notin container[a] /\ i \in container[b]
    <3>1. i \in Owns(a)'
      BY <1>1, <2>4, SwapMoves
    <3>. QED
      BY <2>1, <2>4, <3>1, OwnerNext
  <2>5. CASE i \notin container[a] /\ i \notin container[b]
    <3>0. /\ Owns(a)' = (Owns(a) \ container[a]) \cup container[b]
          /\ Owns(b)' = (Owns(b) \ container[b]) \cup container[a]
      BY <1>1, SwapMoves
    <3>1. /\ i \in Owns(a)' <=> i \in Owns(a)
          /\ i \in Owns(b)' <=> i \in Owns(b)
      BY <2>5, <3>0
    <3>2. \A x \in Char \ {a, b} : Owns(x)' = Owns(x)
      BY <1>1, SwapMoves
    <3>3. \A x \in Char : i \in Owns(x)' <=> i \in Owns(x)
      BY <3>1, <3>2
    <3>. QED
      BY <2>1, <2>5, <3>3, OwnerNow, OwnerNext
  <2>. QED
    BY <2>3, <2>4, <2>5
<1>5. [i \in Item |-> OwnerOf(i)]' =
        [i \in Item |-> IF i \in container[a] THEN b
                        ELSE IF i \in container[b] THEN a ELSE [j \in Item |-> OwnerOf(j)][i]]
  BY <1>4
<1>. QED
  BY <1>2, <1>3, <1>5, CharAssumption DEF Deal!Swap

LEMMA FindMaps ==
  ASSUME IInv, Alive, StepKinds, NEW a \in Char, NEW i \in Item,
         Finds(a, i), TradeOver(a) \/ Beside(a)
  PROVE  Deal!Find(a, i)
<1>1. \A c \in Char : i \notin Owns(c)
  BY DEF Finds, IInv, GoodsConserved
<1>2. OwnerOf(i) = None
  BY <1>1, DisjointNow, OwnerNow
<1>3. ASSUME NEW CONSTANT j \in Item
      PROVE  OwnerOf(j)' = IF j = i THEN a ELSE OwnerOf(j)
  BY <1>1, DisjointNow, DisjointStep, OwnerNow, OwnerNext DEF Finds
<1>4. [j \in Item |-> OwnerOf(j)]' = [[j \in Item |-> OwnerOf(j)] EXCEPT ![i] = a]
  BY <1>3
<1>5. \/ Deal!Apart(Deal!Pair(a))
      \/ /\ [c \in Char |-> PartnerOf(c)]' = [c \in Char |-> PartnerOf(c)]
         /\ container' = container /\ Agreeing' = Agreeing
  BY IdleMaps, TradeOverMaps DEF Beside
<1>. QED
  BY <1>2, <1>4, <1>5 DEF Deal!Find

LEMMA StealMaps ==
  ASSUME IInv, Alive, StepKinds, NEW a \in Char, NEW b \in Char, NEW S \in SUBSET Item,
         Robs(a, b, S)
  PROVE  Deal!Steal(a, b, S)
<1>1. /\ a # b /\ S \subseteq Owns(b) /\ S \cap container[b] = {}
      /\ Owns(a)' = Owns(a) \cup S /\ Owns(b)' = Owns(b) \ S
      /\ \A x \in Char \ {a, b} : Owns(x)' = Owns(x)
  BY DEF Robs, Owns, IInv, GoodsConserved
<1>2. S \subseteq {i \in Item : [j \in Item |-> OwnerOf(j)][i] = b} \ container[b]
  BY <1>1, DisjointNow, OwnerNow
<1>3. ASSUME NEW CONSTANT j \in Item
      PROVE  OwnerOf(j)' = IF j \in S THEN a ELSE OwnerOf(j)
  <2>1. \A x \in Char : j \in Owns(x)' <=> IF j \in S THEN x = a ELSE j \in Owns(x)
    BY <1>1, DisjointNow DEF Disjoint
  <2>. QED
    BY <2>1, DisjointNow, DisjointStep, OwnerNow, OwnerNext
<1>4. [j \in Item |-> OwnerOf(j)]' =
        [j \in Item |-> IF j \in S THEN a ELSE [i \in Item |-> OwnerOf(i)][j]]
  BY <1>3
<1>. QED
  BY <1>2, <1>4, IdleMaps DEF Deal!Steal, Robs, Beside

LEMMA LoseMaps ==
  ASSUME IInv, Alive, StepKinds, NEW a \in Char, NEW i \in Item, Loses(a, i), TradesIdle
  PROVE  Deal!Lose(a, i)
<1>1. i \in Owns(a) /\ i \notin container[a]
  BY DEF Loses, IInv, GoodsConserved, Owns
<1>2. OwnerOf(i) = a
  BY <1>1, DisjointNow, OwnerNow
<1>3. ASSUME NEW CONSTANT j \in Item
      PROVE  OwnerOf(j)' = IF j = i THEN None ELSE OwnerOf(j)
  <2>1. \A c \in Char : j \in Owns(c)' <=> j # i /\ j \in Owns(c)
    BY <1>1, DisjointNow DEF Loses, Disjoint
  <2>. QED
    BY <2>1, DisjointNow, DisjointStep, OwnerNow, OwnerNext
<1>4. [j \in Item |-> OwnerOf(j)]' = [[j \in Item |-> OwnerOf(j)] EXCEPT ![i] = None]
  BY <1>3
<1>. QED
  BY <1>1, <1>2, <1>4, IdleMaps DEF Deal!Lose

LEMMA StepMaps ==
  ASSUME Two, IInv, NoLoneEditor, Alive, StepKinds
  PROVE  Deal!Next \/ UNCHANGED Deal!vars
<1>1. CASE SameOwners /\ TradesIdle
  BY <1>1, OwnersKept, IdleMaps DEF Deal!vars
<1>2. ASSUME NEW a \in Char, SameOwners, TradeOver(a) PROVE Deal!Next
  BY <1>2, OwnersKept, TradeOverMaps DEF Deal!Part, Deal!Next
<1>3. ASSUME NEW a \in Char, NEW b \in Char, SameOwners, Starts(a, b) PROVE Deal!Next
  BY <1>3, StartMaps DEF Deal!Next
<1>4. ASSUME NEW a \in Char, SameOwners, Revises(a) PROVE Deal!Next
  BY <1>4, ReviseMaps DEF Deal!Next
<1>5. ASSUME NEW a \in Char, NEW new \in CharacterStatus, SameOwners, Rates(a, new)
      PROVE  Deal!Next \/ UNCHANGED Deal!vars
  BY <1>5, RateMaps DEF Deal!Next
<1>6. ASSUME NEW a \in Char, Swaps(a) PROVE Deal!Next
  BY <1>6, SwapMaps DEF Deal!Next
<1>7. ASSUME NEW a \in Char, NEW i \in Item,
             Finds(a, i), TradeOver(a) \/ Beside(a)
      PROVE  Deal!Next
  BY <1>7, FindMaps DEF Deal!Next
<1>8. ASSUME NEW a \in Char, NEW i \in Item, Loses(a, i), TradesIdle
      PROVE  Deal!Next
  BY <1>8, LoseMaps DEF Deal!Next
<1>9. ASSUME NEW a \in Char, NEW b \in Char, NEW S \in SUBSET Item, Robs(a, b, S)
      PROVE  Deal!Next
  BY <1>9, StealMaps DEF Deal!Next
<1>. QED
  BY <1>1, <1>2, <1>3, <1>4, <1>5, <1>6, <1>7, <1>8, <1>9 DEF StepKinds

LEMMA NoEditorAlone == ASSUME Two PROVE Spec => []NoLoneEditor
<1>1. Init => NoLoneEditor
  BY DEF Init, NoLoneEditor
<1>2. IInv /\ IInv' /\ NoLoneEditor /\ [Next]_vars => NoLoneEditor'
  <2>1. ASSUME NoLoneEditor, UNCHANGED vars PROVE NoLoneEditor'
    BY <2>1 DEF NoLoneEditor, vars, tradeVars
  <2>. QED
    BY <2>1, AllKinds, EditorStep
<1>. QED
  BY <1>1, <1>2, Invariance, PTL DEF Spec

\* Of two characters, whoever stays Confirmed sees an unchanged offer.
THEOREM ConfirmedIsSafe == ASSUME Two PROVE Spec => ConfirmedSeesContents
<1>. DEFINE Same == \A c \in Char :
                      /\ status[c] = "Trading" /\ statusCharacter[c] = "Confirmed"
                      /\ status'[c] = "Trading" /\ statusCharacter'[c] = "Confirmed"
                      => container'[otherTrade[c]] = container[otherTrade[c]]
<1>1. ASSUME IInv, NoLoneEditor, StepKinds PROVE Same
  <2>. SUFFICES ASSUME NEW c \in Char, NEW d \in Char, d = otherTrade[c],
                       status[c] = "Trading", statusCharacter[c] = "Confirmed",
                       status'[c] = "Trading", statusCharacter'[c] = "Confirmed"
                PROVE  container'[d] = container[d]
    BY <1>1 DEF IInv, Links, PartnersAgree
  <2>1. c # d /\ otherTrade[d] = c /\ \A x \in Char : x \in {c, d}
    BY <1>1 DEF Two, IInv, Links, PartnersAgree
  <2>2. ASSUME NEW a \in Char, TradeOver(a) \/ Swaps(a) PROVE FALSE
    <3>1. status'[a] = "Invalid" /\ status'[otherTrade[a]] = "Invalid"
      BY <1>1, <2>2 DEF TradeOver, Swaps, Exchange, ResetTradeData, IInv, Links, PartnersAgree
    <3>. QED
      BY <2>1, <3>1
  <2>3. ASSUME NEW a \in Char, NEW b \in Char, Starts(a, b) PROVE FALSE
    BY <1>1, <2>1, <2>3 DEF Starts, WaitsFor, IInv, Links, PartnersAgree
  <2>4. ASSUME NEW a \in Char, Revises(a) PROVE container'[d] = container[d]
    <3>1. CASE a = d
      BY <1>1, <2>1, <2>4, <3>1 DEF Revises, StatusAfter, StatusAllowed, NoLoneEditor
    <3>2. CASE a # d
      BY <1>1, <2>4, <3>2 DEF Revises, IInv, TypeOK
    <3>. QED
      BY <3>1, <3>2
  <2>5. CASE container' = container
    BY <2>5
  <2>. QED
    BY <1>1, <2>2, <2>3, <2>4, <2>5 DEF StepKinds, TradesIdle, Rates, Beside, Robs
<1>2. ASSUME UNCHANGED vars PROVE Same
  BY <1>2 DEF vars, tradeVars
<1>3. IInv /\ NoLoneEditor /\ [Next]_vars => [Same]_vars
  BY <1>1, <1>2, AllKinds
<1>4. Spec => []NoLoneEditor
  BY NoEditorAlone
<1>. QED
  BY <1>3, <1>4, Invariance, PTL DEF Spec, ConfirmedSeesContents

\* A trade between two characters keeps the promise of Barter, whatever goods
\* there are: a swap needs the other side's agreement to what is on offer.
THEOREM TradeImplementsBarter == ASSUME Two PROVE Spec => IsBarter
<1>1. Init => Deal!Init
  <2>. SUFFICES ASSUME Init PROVE Deal!Init
    OBVIOUS
  <2>1. Disjoint
    BY CharAssumption DEF Init, Disjoint, Owns, InHand
  <2>2. [i \in Item |-> OwnerOf(i)] \in [Item -> Char \cup {None}]
    BY <2>1, OwnerNow
  <2>3. /\ [c \in Char |-> PartnerOf(c)] = [c \in Char |-> None]
        /\ Agreeing = {}
    BY DEF Init, PartnerOf, Agreeing
  <2>. QED
    BY <2>2, <2>3 DEF Init, Deal!Init
<1>2. Spec => []NoLoneEditor
  BY NoEditorAlone
<1>3. IInv /\ NoLoneEditor /\ [Next]_vars => [Deal!Next]_(Deal!vars)
  <2>1. ASSUME UNCHANGED vars PROVE UNCHANGED Deal!vars
    BY <2>1 DEF vars, tradeVars, Deal!vars, OwnerOf, PartnerOf, Agreeing, Owns, InHand
  <2>. QED
    BY <2>1, AllKinds, StepMaps
<1>. QED
  BY <1>1, <1>2, <1>3, Invariance, PTL DEF Spec, IsBarter, Deal!Spec

=============================================================================
