------------------------------- MODULE MCGroup -------------------------------
(* A small instance of Group for TLC. *)
EXTENDS Group, TLC

CONSTANTS a, b, e, \* characters
          x, y     \* the addresses of two groups

ThreeChars == {a, b, e}
TwoGroups == {x, y}

\* Characters are alike, and so are addresses: Heirs lets the first of a set that
\* is ordered by address be any of its elements.
Alike == Permutations(Char) \cup Permutations(GroupId)
=============================================================================
