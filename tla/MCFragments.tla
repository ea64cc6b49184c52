----------------------------- MODULE MCFragments -----------------------------
(* A small instance of Fragments for TLC. *)
EXTENDS Fragments, TLC

CONSTANTS a, b, c, d \* packets

FourMsgs == {a, b, c, d}
\* Packets of different lengths, so that pieces of one lie beyond the end of another.
Sizes == a :> 4 @@ b :> 3 @@ c :> 2 @@ d :> 2
Alike == Permutations({c, d})
=============================================================================
