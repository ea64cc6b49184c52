------------------------------- MODULE MCTrade -------------------------------
(* Small instances of Trade for TLC. *)
EXTENDS Trade, TLC

CONSTANTS a, b, e,   \* characters
          g, s, t    \* units: g is gold

TwoChars == {a, b}
ThreeChars == {a, b, e}

\* A stack of two units; one unit, an object or gold.
TwoUnits == {s, t}
OneStack == {{s, t}}
OneUnit == {s}
OneUnitStack == {{s}}
OneGold == {g}
OneGoldStack == {{g}}
Nothing == {}

\* The three characters are interchangeable where no liveness is checked.
CharSymmetry == Permutations(Char)
=============================================================================
