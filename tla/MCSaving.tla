------------------------------- MODULE MCSaving -------------------------------
(* Small instances of Saving for TLC. *)
EXTENDS Saving, TLC

CONSTANTS x, \* the session
          a  \* its character

OneSession == {x}
OneCharacter == {a}
ItsCharacter == [s \in Session |-> a]
=============================================================================
