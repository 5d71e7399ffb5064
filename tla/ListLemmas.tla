----------------------------- MODULE ListLemmas -----------------------------
(***************************************************************************)
(* What the proofs need to know of the operators the models take lists     *)
(* apart with: the first of some positions, a property of all numbers up   *)
(* to one, and a list one member of which was erased or to which one was   *)
(* added.                                                                  *)
(***************************************************************************)
EXTENDS Naturals, Sequences, SequencesExt, FiniteSetsExt, WellFoundedInduction,
        SequenceTheorems, TLAPS

(* The first of some positions is one of them.                             *)
LEMMA MinIsFirst ==
  ASSUME NEW S \in SUBSET Nat, S # {}
  PROVE  Min(S) \in S /\ \A y \in S : Min(S) =< y
<1>1. PICK x \in S : \A y \in S : ~ (<<y, x>> \in OpToRel(<, Nat))
  BY NatLessThanWellFounded, WFMin
<1>2. ASSUME NEW y \in S
      PROVE  x =< y
  <2>1. ~ (<<y, x>> \in OpToRel(<, Nat))
    BY <1>1
  <2>2. y < x => <<y, x>> \in OpToRel(<, Nat)
    BY DEF OpToRel
  <2>3. ~ (y < x)
    BY <2>1, <2>2
  <2>4. x \in Nat /\ y \in Nat
    OBVIOUS
  <2> QED
    BY <2>3, <2>4
<1> QED
  BY <1>2 DEF Min

(* A set of numbers that has 0 and, with every n, its successor, up to m.  *)
LEMMA CountingUp ==
  ASSUME NEW m \in Nat, NEW J, 0 \in J, \A n \in 1 .. m : n - 1 \in J => n \in J
  PROVE  \A n \in 0 .. m : n \in J
<1> DEFINE S == {n \in 0 .. m : n \notin J}
<1>1. SUFFICES ASSUME S # {}
               PROVE  FALSE
  OBVIOUS
<1>2. S \in SUBSET Nat
  OBVIOUS
<1>3. PICK n : n \in S /\ \A y \in S : n =< y
  BY <1>1, <1>2, MinIsFirst
<1>4. n \in 1 .. m
  BY <1>3
<1>5. n - 1 \in 0 .. m /\ ~ (n =< n - 1)
  BY <1>4
<1>6. n - 1 \in J
  BY <1>3, <1>5
<1> QED
  BY <1>3, <1>4, <1>6

(* Where position i of the list is after position p was erased, and back.  *)
Closed(i, p) == IF i < p THEN i ELSE i - 1
Opened(i, p) == IF i < p THEN i ELSE i + 1

LEMMA ErasedPlaces ==
  ASSUME NEW S, NEW list \in Seq(S), NEW p \in 1 .. Len(list)
  PROVE  /\ RemoveAt(list, p) \in Seq(S)
         /\ Len(RemoveAt(list, p)) = Len(list) - 1
         /\ \A i \in 1 .. Len(list) - 1 :
               RemoveAt(list, p)[i] = list[Opened(i, p)]
<1> DEFINE front == SubSeq(list, 1, p - 1)
           back  == SubSeq(list, p + 1, Len(list))
<1>1. /\ front \in Seq(S) /\ Len(front) = p - 1
      /\ \A i \in 1 .. p - 1 : front[i] = list[i]
  BY SubSeqProperties
<1>2. /\ back \in Seq(S) /\ Len(back) = Len(list) - p
      /\ \A i \in 1 .. Len(list) - p : back[i] = list[i + p]
  OBVIOUS
<1>3. RemoveAt(list, p) = front \o back
  BY DEF RemoveAt
<1> HIDE DEF front, back
<1>4. /\ front \o back \in Seq(S)
      /\ Len(front \o back) = Len(front) + Len(back)
      /\ \A i \in 1 .. Len(front) + Len(back) :
            (front \o back)[i] = IF i =< Len(front) THEN front[i]
                                 ELSE back[i - Len(front)]
  BY <1>1, <1>2, ConcatProperties
<1>5. ASSUME NEW i \in 1 .. Len(list) - 1
      PROVE  (front \o back)[i] = list[Opened(i, p)]
  <2>1. CASE i < p
    BY <1>1, <1>2, <1>4, <2>1 DEF Opened
  <2>2. CASE ~ (i < p)
    <3>1. (front \o back)[i] = back[i - (p - 1)]
      BY <1>1, <1>2, <1>4, <2>2
    <3>2. i - (p - 1) \in 1 .. Len(list) - p
      BY <2>2
    <3>3. back[i - (p - 1)] = list[i - (p - 1) + p]
      BY <1>2, <3>2
    <3> QED
      BY <2>2, <3>1, <3>3 DEF Opened
  <2> QED
    BY <2>1, <2>2
<1>6. Len(front) + Len(back) = Len(list) - 1
  BY <1>1, <1>2
<1> QED
  BY <1>3, <1>4, <1>5, <1>6

(* registerWrap and pushGrab: the others keep their order.                 *)
LEMMA PutInFront ==
  ASSUME NEW S, NEW list \in Seq(S), NEW x \in S
  PROVE  /\ <<x>> \o list \in Seq(S)
         /\ Len(<<x>> \o list) = Len(list) + 1
         /\ (<<x>> \o list)[1] = x
         /\ \A i \in 2 .. Len(list) + 1 : (<<x>> \o list)[i] = list[i - 1]
OBVIOUS

(* addTimer: what is before the new member stays, the rest moves up.       *)
LEMMA InsertedPlaces ==
  ASSUME NEW S, NEW list \in Seq(S), NEW p \in 1 .. Len(list) + 1, NEW x \in S
  PROVE  /\ InsertAt(list, p, x) \in Seq(S)
         /\ Len(InsertAt(list, p, x)) = Len(list) + 1
         /\ InsertAt(list, p, x)[p] = x
         /\ \A i \in 1 .. Len(list) :
               InsertAt(list, p, x)[Opened(i, p)] = list[i]
<1> DEFINE front == SubSeq(list, 1, p - 1)
           back  == SubSeq(list, p, Len(list))
           start == front \o <<x>>
<1>1. /\ front \in Seq(S) /\ Len(front) = p - 1
      /\ \A i \in 1 .. p - 1 : front[i] = list[i]
  BY SubSeqProperties
<1>2. /\ back \in Seq(S) /\ Len(back) = Len(list) + 1 - p
      /\ \A i \in 1 .. Len(list) + 1 - p : back[i] = list[i + p - 1]
  OBVIOUS
<1>3. InsertAt(list, p, x) = start \o back
  BY DEF InsertAt
<1> HIDE DEF front, back
<1>4. /\ start \in Seq(S) /\ Len(start) = p /\ start[p] = x
      /\ \A i \in 1 .. p - 1 : start[i] = list[i]
  BY <1>1
<1> HIDE DEF start
<1>5. /\ start \o back \in Seq(S)
      /\ Len(start \o back) = Len(start) + Len(back)
      /\ \A i \in 1 .. Len(start) + Len(back) :
            (start \o back)[i] = IF i =< Len(start) THEN start[i]
                                 ELSE back[i - Len(start)]
  BY <1>2, <1>4, ConcatProperties
<1>6. Len(start) + Len(back) = Len(list) + 1
  BY <1>2, <1>4
<1>7. (start \o back)[p] = x
  BY <1>4, <1>5, <1>6
<1>8. ASSUME NEW i \in 1 .. Len(list)
      PROVE  (start \o back)[Opened(i, p)] = list[i]
  <2>1. CASE i < p
    <3>1. (start \o back)[i] = start[i]
      BY <1>4, <1>5, <1>6, <2>1
    <3>2. start[i] = list[i]
      BY <1>4, <2>1
    <3> QED
      BY <2>1, <3>1, <3>2 DEF Opened
  <2>2. CASE ~ (i < p)
    <3>1. (start \o back)[i + 1] = back[i + 1 - p]
      BY <1>4, <1>5, <1>6, <2>2
    <3>2. i + 1 - p \in 1 .. Len(list) + 1 - p
      BY <2>2
    <3>3. back[i + 1 - p] = list[(i + 1 - p) + p - 1]
      BY <1>2, <3>2
    <3>4. (i + 1 - p) + p - 1 = i
      OBVIOUS
    <3> QED
      BY <2>2, <3>1, <3>3, <3>4 DEF Opened
  <2> QED
    BY <2>1, <2>2
<1> QED
  BY <1>3, <1>5, <1>6, <1>7, <1>8

=============================================================================
