-------------------------- MODULE MCConfigureBuffer --------------------------
(* Small instances of ConfigureBuffer for TLC. *)
EXTENDS ConfigureBuffer

CONSTANTS l1, l2, l3, v1, v2

TwoLocks   == {l1, l2}
ThreeLocks == {l1, l2, l3}

(* The frame holds back its position and the client its stacking; with     *)
(* these two targets and fields both sides of Immediate occur.             *)
FrameAndClient   == {"frame", "client"}
PositionAndStack == {"position", "stack"}
EveryTarget      == {"frame", "wrapper", "client"}

TwoValues == {v1, v2}
==============================================================================
