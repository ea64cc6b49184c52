------------------------------ MODULE MCPlayers ------------------------------
(* Small instances of PlayerManager for TLC. *)
EXTENDS PlayerManager, TLC

CONSTANTS u, v,    \* Players objects
          a, b,    \* addresses
          c        \* an account

TwoPlayers == {u, v}
OneAddr == {a}
OtherAddr == {b}
TwoAddrs == {a, b}
OneAccount == {c}
=============================================================================
