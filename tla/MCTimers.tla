------------------------------ MODULE MCTimers ------------------------------
(* Small instances of Timers for TLC. *)
EXTENDS Timers

CONSTANTS t1, t2, t3

TwoTimers   == {t1, t2}
ThreeTimers == {t1, t2, t3}
Permuted    == Permutations(ThreeTimers)

(* With the <<0, 0>> of a new timer: due at once, due with a slack in      *)
(* which to wait for another timer, and due without one inside that slack. *)
ShortTimes == {<<1, 4>>, <<2, 2>>}

(* One timeout a word can hold in units of time, and one it cannot.        *)
LongTimes == {<<1, 1>>, <<5, 5>>}
==============================================================================
