-------------------------------- MODULE Trade --------------------------------
(***************************************************************************)
(* The item trade between two characters: TradeMgr2 (Trade.cpp) with the   *)
(* Character methods, packet handlers and logoff steps that drive it.      *)
(*                                                                         *)
(* Every character owns one trade manager.  A request either invites the   *)
(* other character or, when that one is already inviting the requester,    *)
(* starts the trade.  Both sides then move goods from their backpack into  *)
(* their container, set themselves Ready and Confirmed, and the second     *)
(* confirmation exchanges the containers.                                  *)
(*                                                                         *)
(* Threads: all handlers run on the packet thread, one after the other;    *)
(* a player is taken off line by the deletion thread; monsters disturb a   *)
(* character, and dead characters are destroyed, on the NPC thread.  A     *)
(* handler that takes the static m_TradeLock first and holds it to its end *)
(* is one action; the three that do not (adding an item, which takes the   *)
(* backpack before it, taking one back, the disturbance) are two.          *)
(***************************************************************************)
EXTENDS Naturals, FiniteSets

CONSTANTS
  Char,      \* characters; one that logs in again may reuse its old address
  Item,      \* units of goods; every unit weighs one
  Stacks,    \* sets of units of one static reference: what a request can name
  Gold,      \* the units of the gold stack
  NoDrop,    \* units flagged CANNOT_DROP_ITEM
  CarryMax,  \* what a character can carry (GetMaxWeight)
  None,      \* the NULL pointer
  Recursive  \* TRUE: CLock may be taken again by its holder, as the callers
             \* assume; FALSE: the std::mutex that Lock.h wraps

ASSUME CharAssumption == None \notin Char
ASSUME GoodsAssumption == /\ IsFiniteSet(Item)
                          /\ Stacks \subseteq SUBSET Item
                          /\ CarryMax \in Nat
ASSUME LockAssumption == Recursive \in BOOLEAN

VARIABLES
  phase,           \* [Char -> where the player is in its session]
  status,          \* m_Status
  statusCharacter, \* m_StatusCharacter
  otherTrade,      \* mOtherTrade
  container,       \* the goods in m_Container
  maxWeight,       \* the room m_Container was given
  gained,          \* history: who got goods beside the trade that it is in
  backpack,        \* the goods in the backpack, the gold among them
  ground,          \* the goods elsewhere: in the world, in chests, to be given
  hand,            \* goods taken off a trade, not yet in the backpack
  adding,          \* whose backpack a request to add holds, before m_TradeLock
  disturbing,      \* whom the NPC thread found trading, before Cancel
  fault            \* how the process died or stopped, if it did

tradeVars == <<status, statusCharacter, otherTrade, container, maxWeight, gained>>
threads == <<adding, disturbing>>
vars == <<phase, tradeVars, backpack, ground, hand, threads, fault>>

Phases == {"offline", "ingame", "leaving", "departed"}
TradeStatus == {"Invalid", "Inviting", "Trading"}
CharacterStatus == {"EditingItems", "Ready", "Confirmed"}
Faults == {"none", "null", "dangling", "assert", "relock", "deadlock"}

Init ==
  /\ phase = [c \in Char |-> "offline"]
  /\ status = [c \in Char |-> "Invalid"]
  /\ statusCharacter = [c \in Char |-> "EditingItems"]
  /\ otherTrade = [c \in Char |-> None]
  /\ container = [c \in Char |-> {}]
  /\ maxWeight = [c \in Char |-> 0]
  /\ gained = {}
  /\ backpack \in [Char -> SUBSET Item]
  /\ \A c, d \in Char : c # d => backpack[c] \cap backpack[d] = {}
  /\ ground = Item \ UNION {backpack[c] : c \in Char}
  /\ hand = [who |-> None, goods |-> {}]
  /\ adding = None /\ disturbing = None
  /\ fault = "none"

-----------------------------------------------------------------------------
Alive == fault = "none"

\* The packet thread is free to run a handler of character c.
PacketThreadIdle == hand.who = None /\ adding = None

Handling(c) == Alive /\ PacketThreadIdle /\ phase[c] = "ingame"

Stops(how) == fault' = how /\ UNCHANGED <<tradeVars, backpack, ground, hand>>

\* Taking a lock, m_TradeLock or a backpack, while holding it: the rest of the
\* handler runs only if CLock lets its holder in again.
Relock(step) == IF Recursive THEN step ELSE Stops("relock")

\* AddToBackpack asks for the weight under the lock of the backpack, which locks
\* it again, where S finds no stack of its kind there to be merged with.
AddToBackpack(c, S, step) ==
  IF \/ S \subseteq Gold
     \/ \E s \in Stacks : S \subseteq s /\ backpack[c] \cap s # {}
  THEN step ELSE Relock(step)

Freed(c) == phase[c] = "offline"

\* Mutants: the weight carried is not clipped at the limit, or not counted.
GetFreeWeightUnclipped(c) == CarryMax - Cardinality(backpack[c])
GetFreeWeightOfAll(c) == CarryMax

GetFreeWeight(c) ==
  IF Cardinality(backpack[c]) >= CarryMax THEN 0 ELSE CarryMax - Cardinality(backpack[c])

ContainerRoom(c) ==
  IF Cardinality(container[c]) >= maxWeight[c] THEN 0 ELSE maxWeight[c] - Cardinality(container[c])

\* ResetTradeData on the trade managers in S.
ResetTradeData(S) ==
  /\ status' = [c \in Char |-> IF c \in S THEN "Invalid" ELSE status[c]]
  /\ statusCharacter' = [c \in Char |-> IF c \in S THEN "EditingItems" ELSE statusCharacter[c]]
  /\ otherTrade' = [c \in Char |-> IF c \in S THEN None ELSE otherTrade[c]]
  /\ container' = [c \in Char |-> IF c \in S THEN {} ELSE container[c]]
  /\ gained' = gained \ S
  /\ UNCHANGED maxWeight

\* Mutant: a cancelled trade forgets to reset the other side.
TradeEndsAlone(c) == IF status[c] = "Invalid" THEN {} ELSE {c}

\* Cancel: an invitation is dropped, a running trade gives both their goods back.
TradeEnds(c) ==
  CASE status[c] = "Invalid" -> {}
    [] status[c] = "Inviting" -> {c}
    [] status[c] = "Trading" -> {c, otherTrade[c]}

\* Mutants: only the canceller gets its goods back; each gets the other's.
BackpacksAfterOwnCancel(c) == [backpack EXCEPT ![c] = @ \cup container[c]]
BackpacksAfterSwap(c) ==
  IF status[c] # "Trading" THEN backpack
  ELSE [a \in Char |-> IF a \in TradeEnds(c) THEN backpack[a] \cup container[otherTrade[a]] ELSE backpack[a]]

BackpacksAfterCancel(c) ==
  IF status[c] # "Trading" THEN backpack
  ELSE [a \in Char |-> IF a \in TradeEnds(c) THEN backpack[a] \cup container[a] ELSE backpack[a]]

\* A request to add holds the backpack of a side of c's trade.
Entangled(c) == status[c] = "Trading" /\ adding \in TradeEnds(c)

\* Cancel as the callers reach it: under m_TradeLock it locks the backpacks of
\* both sides, and the packets about the returned goods are written by functions
\* that lock again.  A request to add that holds one of those backpacks waits for
\* m_TradeLock: neither thread gets on.
Cancel(c) ==
  LET step == /\ backpack' = BackpacksAfterCancel(c)
              /\ ResetTradeData(TradeEnds(c))
              /\ UNCHANGED <<ground, hand, fault>>
  IN  IF status[c] # "Trading" THEN step
      ELSE IF Entangled(c) THEN Stops("deadlock")
      ELSE Relock(step)

-----------------------------------------------------------------------------
(* Sessions: the packet thread creates a character, DeletePlayer queues it  *)
(* for the deletion thread, whose Logoff cancels its trade; the NPC thread  *)
(* destroys the object later.                                               *)

Login(c) ==
  /\ Alive /\ PacketThreadIdle
  /\ phase[c] = "offline"
  /\ phase' = [phase EXCEPT ![c] = "ingame"]
  /\ status' = [status EXCEPT ![c] = "Invalid"]
  /\ statusCharacter' = [statusCharacter EXCEPT ![c] = "EditingItems"]
  /\ otherTrade' = [otherTrade EXCEPT ![c] = None]
  /\ container' = [container EXCEPT ![c] = {}]
  /\ UNCHANGED <<maxWeight, gained, backpack, ground, hand, threads, fault>>

Leave(c) ==
  /\ Alive
  /\ phase[c] = "ingame"
  /\ phase' = [phase EXCEPT ![c] = "leaving"]
  /\ UNCHANGED <<tradeVars, backpack, ground, hand, threads, fault>>

\* Mutant: the logoff leaves the trade to the destructor.
LogoffOnly(c) ==
  /\ Alive /\ c \notin {hand.who, adding}
  /\ phase[c] = "leaving"
  /\ phase' = [phase EXCEPT ![c] = "departed"]
  /\ UNCHANGED <<tradeVars, backpack, ground, hand, threads, fault>>

\* c goes on to p, unless its thread stops in Cancel.
GoesTo(c, p) == phase' = IF Entangled(c) THEN phase ELSE [phase EXCEPT ![c] = p]

\* UseDeathLock waits for the handler that still uses the player.
Logoff(c) ==
  /\ Alive /\ c \notin {hand.who, adding}
  /\ phase[c] = "leaving"
  /\ GoesTo(c, "departed")
  /\ Cancel(c)
  /\ UNCHANGED threads

\* Runs on the NPC thread, hence never while that thread disturbs someone.
Destroy(c) ==
  /\ Alive /\ disturbing = None
  /\ phase[c] = "departed"
  /\ GoesTo(c, "offline")
  /\ Cancel(c)
  /\ UNCHANGED threads

-----------------------------------------------------------------------------
\* Accepting d's invitation: both sides start editing with clean containers as
\* large as what the other side can still carry.
StartTrade(c, d) ==
  /\ status' = [status EXCEPT ![c] = "Trading", ![d] = "Trading"]
  /\ statusCharacter' = [statusCharacter EXCEPT ![c] = "EditingItems", ![d] = "EditingItems"]
  /\ otherTrade' = [otherTrade EXCEPT ![c] = d]
  /\ container' = [container EXCEPT ![c] = {}, ![d] = {}]
  /\ gained' = gained \ {c, d}
  /\ maxWeight' = [maxWeight EXCEPT ![c] = GetFreeWeight(d), ![d] = GetFreeWeight(c)]
  /\ UNCHANGED <<backpack, ground, hand, fault>>

\* Mutant: an invitation is answered only once the trade runs.
WaitsInTrade(d, c) == status[d] = "Trading" /\ otherTrade[d] = c

\* TargetIsWaitingAcceptance: d has invited c.
WaitsFor(d, c) == status[d] = "Inviting" /\ otherTrade[d] = c

\* Inviting d; an invitation to somebody else is cancelled first.
Invite(c, d) ==
  /\ status' = [status EXCEPT ![c] = "Inviting"]
  /\ statusCharacter' = [statusCharacter EXCEPT ![c] = IF status[c] = "Inviting" THEN "EditingItems" ELSE @]
  /\ otherTrade' = [otherTrade EXCEPT ![c] = d]
  /\ container' = [container EXCEPT ![c] = IF status[c] = "Inviting" THEN {} ELSE @]
  /\ UNCHANGED <<maxWeight, gained, backpack, ground, hand, fault>>

\* d is found in the world until it has left it, which is after its Logoff.
Request(c, d) ==
  /\ Handling(c)
  /\ d # c /\ ~Freed(d)
  /\ status[c] # "Trading" /\ status[d] # "Trading"
  /\ ~(status[c] = "Inviting" /\ otherTrade[c] = d)
  /\ IF WaitsFor(d, c)
     THEN Relock(StartTrade(c, d))
     ELSE IF status[c] = "Inviting" THEN Relock(Invite(c, d)) ELSE Invite(c, d)
  /\ UNCHANGED <<phase, threads>>

TradeCancel(c) ==
  /\ Handling(c)
  /\ status[c] # "Invalid"
  /\ Cancel(c)
  /\ UNCHANGED <<phase, threads>>

-----------------------------------------------------------------------------
(* The status of a character within the trade.                              *)

\* The test of SetCharacterStatus that lets c's status become new.
StatusAllowed(c, new) ==
  /\ status[c] # "Invalid"
  /\ statusCharacter[c] # new
  /\ statusCharacter[c] = "EditingItems" => new = "Ready"
  /\ new = "Confirmed" => statusCharacter[otherTrade[c]] = "Ready"

\* Mutant: confirming finishes the trade whatever the other side's status.
FinishesEarly(c, new) ==
  status[c] # "Invalid" /\ statusCharacter[c] = "Ready" /\ new = "Confirmed"

\* Confirming after the other side did finishes the trade.
Finishes(c, new) ==
  /\ status[c] # "Invalid"
  /\ statusCharacter[c] = "Ready" /\ new = "Confirmed"
  /\ statusCharacter[otherTrade[c]] = "Confirmed"

\* Mutant: the other side keeps its status.
StatusAfterAlone(c, new) ==
  IF StatusAllowed(c, new) THEN [statusCharacter EXCEPT ![c] = new] ELSE statusCharacter

\* Going back to EditingItems takes the other side along.
StatusAfter(c, new) ==
  IF ~StatusAllowed(c, new) THEN statusCharacter
  ELSE [a \in Char |-> IF a = c THEN new
                       ELSE IF a = otherTrade[c] /\ new = "EditingItems" THEN new
                       ELSE statusCharacter[a]]

\* The pointers SetCharacterStatus follows: mOtherTrade to compare, then, to
\* notify the other side, that side's own mOtherTrade.
StatusFault(c, new) ==
  LET d == otherTrade[c]
      follows == /\ status[c] # "Invalid" /\ statusCharacter[c] # new
                 /\ statusCharacter[c] = "EditingItems" => new = "Ready"
  IN  IF ~follows THEN "none"
      ELSE IF Freed(d) THEN "dangling"
      ELSE IF ~StatusAllowed(c, new) THEN "none"
      ELSE IF otherTrade[d] = None THEN "null"
      ELSE IF Freed(otherTrade[d]) THEN "dangling"
      ELSE "none"

\* Finish under both confirmations: each side receives the other's container.
Exchange(c) ==
  LET d == otherTrade[c]
  IN  /\ backpack' = [backpack EXCEPT ![c] = @ \cup container[d], ![d] = @ \cup container[c]]
      /\ ResetTradeData({c, d})
      /\ UNCHANGED <<ground, hand, fault>>

\* Finish refuses an invitation; its status stays Confirmed.
ConfirmInvitation(c) ==
  /\ statusCharacter' = [statusCharacter EXCEPT ![c] = "Confirmed"]
  /\ UNCHANGED <<status, otherTrade, container, maxWeight, gained, backpack, ground, hand, fault>>

SetStatus(c, new) ==
  /\ Handling(c)
  /\ status[c] # "Invalid" /\ statusCharacter[c] # new
  /\ IF Finishes(c, new) /\ ~Freed(otherTrade[c])
     THEN Relock(IF status[c] = "Trading" THEN Exchange(c) ELSE ConfirmInvitation(c))
     ELSE /\ fault' = StatusFault(c, new)
          /\ statusCharacter' = StatusAfter(c, new)
          /\ UNCHANGED <<status, otherTrade, container, maxWeight, gained, backpack, ground, hand>>
  /\ UNCHANGED <<phase, threads>>

-----------------------------------------------------------------------------
(* Moving goods in and out of a container, always back to EditingItems.     *)

\* What a request to stake S can come to: gold goes in whole or, where it does
\* not fit, not at all; another stack is cut down to the room there is.
Stakes(c, S) ==
  IF S \subseteq Gold
  THEN {IF Cardinality(S) <= ContainerRoom(c) THEN S ELSE {}}
  ELSE {T \in SUBSET S : /\ T # {} /\ Cardinality(T) <= ContainerRoom(c)
                         /\ T = S \/ Cardinality(T) = ContainerRoom(c)}

\* Mutant: goods may be staked on an invitation.
IsTradingOrInviting(c) == status[c] # "Invalid"

\* IsTradeValid answers IsTrading.
IsTrading(c) == status[c] = "Trading"

\* The handler that adds goods takes the lock of the backpack first.  Outside a
\* trade the request comes to nothing, if the locks after it let it through.
BeginAdd(c) ==
  /\ Handling(c)
  /\ Recursive => IsTrading(c)
  /\ adding' = c
  /\ UNCHANGED <<phase, tradeVars, backpack, ground, hand, disturbing, fault>>

\* Then it takes m_TradeLock, takes it again to ask whether c trades and again to
\* add; nothing is added (S empty) of what is not there or may not be dropped.
AddItem(c, S) ==
  /\ Alive /\ adding = c /\ adding' = None
  /\ S \subseteq backpack[c] \ NoDrop
  /\ IF ~IsTrading(c) \/ S = {}
     THEN Relock(UNCHANGED <<tradeVars, backpack, ground, hand, fault>>)
     ELSE \E T \in Stakes(c, S) :
            Relock(/\ statusCharacter' = StatusAfter(c, "EditingItems")
                   /\ backpack' = [backpack EXCEPT ![c] = @ \ T]
                   /\ container' = [container EXCEPT ![c] = @ \cup T]
                   /\ UNCHANGED <<status, otherTrade, maxWeight, gained, ground, hand, fault>>)
  /\ UNCHANGED <<phase, disturbing>>

\* Taking S off the table; an item that is not there still resets the status.
RemoveItem(c, S) ==
  /\ Handling(c)
  /\ status[c] = "Trading"
  /\ S \subseteq container[c]
  /\ Relock(/\ statusCharacter' = StatusAfter(c, "EditingItems")
            /\ container' = [container EXCEPT ![c] = @ \ S]
            /\ hand' = IF S = {} THEN hand ELSE [who |-> c, goods |-> S]
            /\ UNCHANGED <<status, otherTrade, maxWeight, gained, backpack, ground, fault>>)
  /\ UNCHANGED <<phase, threads>>


\* The rest of TradeRemoveItemToBackpack, after m_TradeLock was released.
PutInBackpack ==
  /\ Alive /\ hand.who # None
  /\ backpack' = [backpack EXCEPT ![hand.who] = @ \cup hand.goods]
  /\ hand' = [who |-> None, goods |-> {}]
  /\ UNCHANGED <<phase, tradeVars, ground, threads, fault>>

\* Also reached while only inviting, where it touches the invited side.
ClearItems(c) ==
  /\ Handling(c)
  /\ status[c] # "Invalid"
  /\ Relock(/\ statusCharacter' = StatusAfter(c, "EditingItems")
            /\ backpack' = [backpack EXCEPT ![c] = @ \cup container[c]]
            /\ container' = [container EXCEPT ![c] = {}]
            /\ fault' = IF Freed(otherTrade[c]) THEN "dangling" ELSE StatusFault(c, "EditingItems")
            /\ UNCHANGED <<status, otherTrade, maxWeight, gained, ground, hand>>)
  /\ UNCHANGED <<phase, threads>>

-----------------------------------------------------------------------------
(* The world around a trade.                                                *)

\* can_get looks at the free weight, the item leaves the world, and only then
\* does GetUnit cancel the trade, whose goods come back to the backpack.
PickUp(c, i) ==
  /\ Handling(c)
  /\ i \in ground
  /\ GetFreeWeight(c) >= 1
  /\ LET trading == status[c] = "Trading"
         packs == BackpacksAfterCancel(c)
         step == /\ ground' = ground \ {i}
                 /\ ResetTradeData(IF trading THEN TradeEnds(c) ELSE {})
                 /\ IF i \in Gold \/ Cardinality(packs[c]) # CarryMax
                    THEN backpack' = [packs EXCEPT ![c] = @ \cup {i}] /\ UNCHANGED fault
                    ELSE backpack' = packs /\ fault' = "assert"
                 /\ UNCHANGED hand
     IN  IF trading THEN Relock(step) ELSE AddToBackpack(c, {i}, step)
  /\ UNCHANGED <<phase, threads>>

\* DropUnit disturbs without closing the trade.
Drop(c, i) ==
  /\ Handling(c)
  /\ i \in backpack[c] \ NoDrop
  /\ backpack' = [backpack EXCEPT ![c] = @ \ {i}]
  /\ ground' = ground \cup {i}
  /\ UNCHANGED <<phase, tradeVars, hand, threads, fault>>

\* c gets goods, perhaps while its trade runs.
Gains(c) == gained' = IF status[c] = "Trading" THEN gained \cup {c} ELSE gained

\* Goods that reach the backpack and leave a running trade as it is: given by an
\* NPC or conjured, whatever they weigh,
Given(c, i) ==
  /\ Handling(c)
  /\ i \in ground
  /\ AddToBackpack(c, {i},
       /\ ground' = ground \ {i}
       /\ backpack' = [backpack EXCEPT ![c] = @ \cup {i}]
       /\ Gains(c)
       /\ UNCHANGED <<status, statusCharacter, otherTrade, container, maxWeight, hand, fault>>)
  /\ UNCHANGED <<phase, threads>>

\* taken out of a chest, as far as c can carry them,
MoveObjectFromChestToBackpack2(c, i) == GetFreeWeight(c) >= 1 /\ Given(c, i)

\* or robbed of another character: one unit, or some of the gold.  Both backpacks
\* are locked, and locked again for the weight of the thief.
Rob(c, d, S) ==
  /\ Handling(c)
  /\ d # c /\ ~Freed(d)
  /\ S # {} /\ S \subseteq backpack[d] \ NoDrop
  /\ S \subseteq Gold \/ \E i \in Item : S = {i}
  /\ Cardinality(backpack[c]) + 1 < CarryMax
  /\ Relock(/\ backpack' = [backpack EXCEPT ![c] = @ \cup S, ![d] = @ \ S]
            /\ Gains(c)
            /\ UNCHANGED <<status, statusCharacter, otherTrade, container, maxWeight, ground, hand, fault>>)
  /\ UNCHANGED <<phase, threads>>

\* An attack on the NPC thread: CancelDisturbed reads the status without the
\* lock and then calls Cancel.
DisturbCheck(c) ==
  /\ Alive /\ disturbing = None
  /\ ~Freed(c) /\ status[c] = "Trading"
  /\ disturbing' = c
  /\ UNCHANGED <<phase, tradeVars, backpack, ground, hand, adding, fault>>

DisturbCancel(c) ==
  /\ Alive
  /\ disturbing = c
  /\ disturbing' = None
  /\ Cancel(c)
  /\ UNCHANGED <<phase, adding>>

-----------------------------------------------------------------------------
Handlers(c) ==
  \/ TradeCancel(c) \/ ClearItems(c) \/ BeginAdd(c)
  \/ \E d \in Char : Request(c, d)
  \/ \E new \in CharacterStatus : SetStatus(c, new)
  \/ \E s \in Stacks : \E S \in SUBSET s :
       AddItem(c, S) \/ RemoveItem(c, S) \/ \E d \in Char : Rob(c, d, S)
  \/ \E i \in Item :
       PickUp(c, i) \/ Drop(c, i) \/ Given(c, i) \/ MoveObjectFromChestToBackpack2(c, i)

Next ==
  \/ PutInBackpack
  \/ \E c \in Char : \/ Login(c) \/ Leave(c) \/ Logoff(c) \/ Destroy(c)
                     \/ DisturbCheck(c) \/ DisturbCancel(c)
                     \/ Handlers(c)

Spec == Init /\ [][Next]_vars

\* The deletion thread keeps taking players off its queue and a handler that
\* runs comes to its end; nothing obliges a player or a monster to act.
Fairness ==
  /\ WF_vars(PutInBackpack)
  /\ WF_vars(\E c \in Char, s \in Stacks : \E S \in SUBSET s : AddItem(c, S))
  /\ \A c \in Char : WF_vars(Logoff(c))

FairSpec == Spec /\ Fairness
-----------------------------------------------------------------------------
(* Properties.                                                              *)

TypeOK ==
  /\ phase \in [Char -> Phases]
  /\ status \in [Char -> TradeStatus]
  /\ statusCharacter \in [Char -> CharacterStatus]
  /\ otherTrade \in [Char -> Char \cup {None}]
  /\ container \in [Char -> SUBSET Item]
  /\ maxWeight \in [Char -> Nat]
  /\ gained \in SUBSET Char
  /\ backpack \in [Char -> SUBSET Item]
  /\ ground \in SUBSET Item
  /\ hand \in [who : Char \cup {None}, goods : SUBSET Item]
  /\ adding \in Char \cup {None}
  /\ disturbing \in Char \cup {None}
  /\ fault \in Faults

\* A running trade has two sides that point at each other, and both characters
\* still exist: mOtherTrade is followed without a test all over Trade.cpp.
PartnersAgree ==
  \A c \in Char : status[c] = "Trading" =>
    /\ otherTrade[c] \in Char \ {c}
    /\ status[otherTrade[c]] = "Trading"
    /\ otherTrade[otherTrade[c]] = c
    /\ phase[c] \in {"ingame", "leaving"}

InHand(c) == IF hand.who = c THEN hand.goods ELSE {}

Owns(c) == backpack[c] \cup container[c] \cup InHand(c)

\* Whatever trades are cancelled, finished, disturbed or cut off by a logoff,
\* every unit stays in exactly one place: no unit is lost with a container that
\* is reset, none is in a backpack and a container at once.
GoodsConserved ==
  Alive =>
    /\ \A i \in Item : i \in ground \/ \E c \in Char : i \in Owns(c)
    /\ \A c \in Char : /\ backpack[c] \cap container[c] = {}
                       /\ InHand(c) \cap (backpack[c] \cup container[c]) = {}
                       /\ ground \cap Owns(c) = {}
                       /\ \A d \in Char \ {c} : Owns(c) \cap Owns(d) = {}

\* Goods are in a container only while its owner trades, so that SavePlayer,
\* which looks at the container of a running trade only, misses none.
GoodsOnlyInTrades ==
  \A c \in Char : container[c] # {} => status[c] = "Trading"

\* Accepting never crosses an invitation with its counterpart: of two
\* characters that ask each other, one starts the trade.
NoMutualInvites ==
  \A c, d \in Char : ~ /\ status[c] = "Inviting" /\ otherTrade[c] = d
                       /\ status[d] = "Inviting" /\ otherTrade[d] = c

\* What c offers fits beside the goods of the other side whenever the trade
\* finishes, those it takes back meanwhile included: the room is measured once,
\* when the trade starts.  The exception is a side that got goods beside the trade,
\* out of a chest, as a gift or by robbery: that neither cancels the trade nor has
\* the room measured again.
OfferFits ==
  \A c \in Char : status[c] = "Trading" /\ container[c] # {} =>
    \/ otherTrade[c] \in gained
    \/ Cardinality(Owns(otherTrade[c])) + Cardinality(container[c]) <= CarryMax

\* Units pass from one character to another in two ways.  By Finish, between the
\* sides of a running trade, one Confirmed and the other Ready: all of both
\* containers at once and nothing else.  By robbery: never what is on a table, and
\* without a change of anybody's trade.
GoodsPassByFinish ==
  [][\A c, d \in Char : c # d /\ Owns(c)' \cap Owns(d) # {} =>
       \/ /\ status[c] = "Trading" /\ otherTrade[c] = d
          /\ {statusCharacter[c], statusCharacter[d]} = {"Ready", "Confirmed"}
          /\ Owns(c)' \cap Owns(d) = container[d]
          /\ Owns(d)' \cap Owns(c) = container[c]
       \/ /\ Owns(c)' \cap Owns(d) \subseteq backpack[d] \ NoDrop
          /\ Owns(d)' \subseteq Owns(d)
          /\ UNCHANGED <<status, statusCharacter, otherTrade, container>>]_vars

\* The comment in SetCharacterStatus: a side that goes back to EditingItems takes
\* the other along, so that whoever stays Confirmed sees an unchanged offer.
ConfirmedSeesContents ==
  [][\A c \in Char :
       /\ status[c] = "Trading" /\ statusCharacter[c] = "Confirmed"
       /\ status'[c] = "Trading" /\ statusCharacter'[c] = "Confirmed"
       => container'[otherTrade[c]] = container[otherTrade[c]]]_vars

OwnerOf(i) ==
  IF \E c \in Char : i \in Owns(c) THEN CHOOSE c \in Char : i \in Owns(c) ELSE None

PartnerOf(c) == IF status[c] = "Trading" THEN otherTrade[c] ELSE None

Agreeing == {c \in Char : status[c] = "Trading" /\ statusCharacter[c] = "Confirmed"}

\* What the two sides of a trade may rely on.
Deal == INSTANCE Barter WITH
  owner <- [i \in Item |-> OwnerOf(i)],
  partner <- [c \in Char |-> PartnerOf(c)],
  offer <- container,
  agreed <- Agreeing

\* The code implements that promise, between two characters.
IsBarter == Deal!Spec

\* A player that leaves in the middle of a trade does not keep the other side
\* waiting: its trade ends and the goods on the table are given back.  Two things
\* prevent it: the process dies, or a thread that cancels a trade meets a request of
\* one of the sides to add goods, and each waits for the lock that the other holds.
LeaverSettles ==
  \A c, d \in Char :
    Alive /\ phase[c] = "leaving" /\ status[d] = "Trading" /\ otherTrade[d] = c
      ~> \/ otherTrade[d] # c
         \/ fault = "deadlock" /\ adding \in {c, d}
         \/ fault \in {"null", "dangling", "assert", "relock"}

=============================================================================
