-------------------------------- MODULE MCLink --------------------------------
(* Small instances of Link for TLC. *)
EXTENDS Link, TLC

CONSTANTS a, b, c \* packets

TwoMsgs == {a, b}
ThreeMsgs == {a, b, c}
Nobody == {}
Sender == {"sender"}
Both == {"sender", "receiver"}
=============================================================================
