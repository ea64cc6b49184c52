-------------------------------- MODULE Barter --------------------------------
(***************************************************************************)
(* What the trade of T4C promises to the two who trade: goods have one     *)
(* owner; what is on offer changes hands only by a swap of everything both *)
(* have on offer (the rest can be stolen); and a swap needs the agreement  *)
(* of the other side to exactly what is on offer, because whoever revises  *)
(* an offer voids both agreements.                                         *)
(***************************************************************************)
CONSTANTS Char, Item, None

VARIABLES
  owner,   \* [Item -> the character it belongs to, None in the world]
  partner, \* [Char -> the character it bargains with]
  offer,   \* [Char -> the goods it has on offer]
  agreed   \* those who agree to what is on offer

vars == <<owner, partner, offer, agreed>>

Init ==
  /\ owner \in [Item -> Char \cup {None}]
  /\ partner = [c \in Char |-> None]
  /\ offer = [c \in Char |-> {}]
  /\ agreed = {}

Apart(S) ==
  /\ partner' = [c \in Char |-> IF c \in S THEN None ELSE partner[c]]
  /\ offer' = [c \in Char |-> IF c \in S THEN {} ELSE offer[c]]
  /\ agreed' = agreed \ S

Pair(a) == {a, partner[a]}

Meet(a, b) ==
  /\ a # b /\ partner[a] = None /\ partner[b] = None
  /\ partner' = [partner EXCEPT ![a] = b, ![b] = a]
  /\ UNCHANGED <<owner, offer, agreed>>

Part(a) ==
  /\ partner[a] # None
  /\ Apart(Pair(a))
  /\ UNCHANGED owner

Revise(a) ==
  /\ partner[a] # None
  /\ \E S \in SUBSET {i \in Item : owner[i] = a} : offer' = [offer EXCEPT ![a] = S]
  /\ agreed' = agreed \ Pair(a)
  /\ UNCHANGED <<owner, partner>>

Agree(a) ==
  /\ partner[a] # None
  /\ agreed' = agreed \cup {a}
  /\ UNCHANGED <<owner, partner, offer>>

Hesitate(a) ==
  /\ \E S \in SUBSET Pair(a) : agreed' = agreed \ S
  /\ UNCHANGED <<owner, partner, offer>>

Swap(a) ==
  LET other == partner[a]
  IN  /\ other \in agreed
      /\ owner' = [i \in Item |-> IF i \in offer[a] THEN other
                                  ELSE IF i \in offer[other] THEN a ELSE owner[i]]
      /\ Apart({a, other})

\* Goods come from the world and go back to it; nobody gives away what is on offer.
Find(a, i) ==
  /\ owner[i] = None
  /\ owner' = [owner EXCEPT ![i] = a]
  /\ Apart(Pair(a)) \/ UNCHANGED <<partner, offer, agreed>>

Lose(a, i) ==
  /\ owner[i] = a /\ i \notin offer[a]
  /\ owner' = [owner EXCEPT ![i] = None]
  /\ UNCHANGED <<partner, offer, agreed>>

Steal(a, b, S) ==
  /\ S \subseteq {i \in Item : owner[i] = b} \ offer[b]
  /\ owner' = [i \in Item |-> IF i \in S THEN a ELSE owner[i]]
  /\ UNCHANGED <<partner, offer, agreed>>

Next ==
  \E a \in Char :
    \/ Part(a) \/ Revise(a) \/ Agree(a) \/ Hesitate(a)
    \/ partner[a] # None /\ Swap(a)
    \/ \E b \in Char : Meet(a, b) \/ \E S \in SUBSET Item : Steal(a, b, S)
    \/ \E i \in Item : Find(a, i) \/ Lose(a, i)

Spec == Init /\ [][Next]_vars
=============================================================================
