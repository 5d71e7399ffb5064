---------------------------- MODULE TimersProofs ----------------------------
(***************************************************************************)
(* Theorems about Timers for any timers, times, clock and word.            *)
(*                                                                         *)
(* That the active timers are those in the list and that a dispatch runs   *)
(* each once holds whatever the times are.  That the list is sorted and    *)
(* that the source does not sleep too long is proved for times whose       *)
(* microseconds fit a word: with longer ones the cast in InMilliseconds    *)
(* cuts them, and the run MCTimers_wrap shows what follows.                *)
(***************************************************************************)
EXTENDS Timers, ListLemmas

-----------------------------------------------------------------------------
(* What the two operations on the list do to the timers in it              *)

TimersOf(q) == {q[i].timer : i \in DOMAIN q}

EachOnce(q) == \A i, j \in DOMAIN q : q[i].timer = q[j].timer => i = j

EntryOf(t, times) ==
    [timer   |-> t,
     minLeft |-> times[1] * Tick,
     maxLeft |-> Larger(times[1], times[2]) * Tick]

LEMMA EntryIsEntry ==
  ASSUME NEW t \in Timer, NEW times \in Nat \X Nat
  PROVE  EntryOf(t, times) \in Entry
<1>1. /\ times[1] * Tick \in Nat /\ times[2] * Tick \in Nat
  BY ClockAssumption
<1> QED
  BY <1>1 DEF EntryOf, Entry, Larger

(* removeTimer takes one entry out, if there is one; the others keep their *)
(* order.                                                                  *)
LEMMA RemovedPlaces ==
  ASSUME NEW q \in Seq(Entry), NEW t
  PROVE  \/ t \notin TimersOf(q) /\ Removed(t, q) = q
         \/ \E p \in 1 .. Len(q) : q[p].timer = t /\ Removed(t, q) = RemoveAt(q, p)
<1> DEFINE places == {i \in DOMAIN q : q[i].timer = t}
<1>1. CASE places = {}
  BY <1>1 DEF Removed, TimersOf
<1>2. CASE places # {}
  <2>1. places \in SUBSET Nat /\ DOMAIN q = 1 .. Len(q)
    OBVIOUS
  <2>2. Min(places) \in places
    BY <1>2, <2>1, MinIsFirst
  <2>3. Removed(t, q) = RemoveAt(q, Min(places))
    BY <1>2 DEF Removed
  <2> QED
    BY <2>1, <2>2, <2>3
<1> QED
  BY <1>1, <1>2

LEMMA RemovedTimers ==
  ASSUME NEW q \in Seq(Entry), NEW t, EachOnce(q)
  PROVE  /\ Removed(t, q) \in Seq(Entry)
         /\ EachOnce(Removed(t, q))
         /\ TimersOf(Removed(t, q)) = TimersOf(q) \ {t}
<1>1. CASE t \notin TimersOf(q) /\ Removed(t, q) = q
  BY <1>1
<1>2. ASSUME NEW p \in 1 .. Len(q), q[p].timer = t, Removed(t, q) = RemoveAt(q, p)
      PROVE  /\ Removed(t, q) \in Seq(Entry)
             /\ EachOnce(Removed(t, q))
             /\ TimersOf(Removed(t, q)) = TimersOf(q) \ {t}
  <2> DEFINE rest == RemoveAt(q, p)
  <2>1. /\ rest \in Seq(Entry) /\ Len(rest) = Len(q) - 1
        /\ \A i \in 1 .. Len(q) - 1 : rest[i] = q[Opened(i, p)]
    BY ErasedPlaces
  <2> HIDE DEF rest
  <2>2. DOMAIN rest = 1 .. Len(q) - 1 /\ DOMAIN q = 1 .. Len(q)
    BY <2>1
  <2>3. \A i \in 1 .. Len(q) - 1 : Opened(i, p) \in 1 .. Len(q) /\ Opened(i, p) # p
    BY DEF Opened
  <2>4. \A i, j \in 1 .. Len(q) - 1 : Opened(i, p) = Opened(j, p) => i = j
    BY DEF Opened
  <2>5. EachOnce(rest)
    BY <2>1, <2>2, <2>3, <2>4 DEF EachOnce
  <2>6. ASSUME NEW i \in 1 .. Len(q) - 1
        PROVE  rest[i].timer \in TimersOf(q) \ {t}
    <3>1. rest[i] = q[Opened(i, p)] /\ Opened(i, p) \in 1 .. Len(q) /\ Opened(i, p) # p
      BY <2>1, <2>3
    <3>2. q[Opened(i, p)].timer # t
      BY <1>2, <2>2, <3>1 DEF EachOnce
    <3> QED
      BY <2>2, <3>1, <3>2 DEF TimersOf
  <2>7. ASSUME NEW x \in TimersOf(q) \ {t}
        PROVE  x \in TimersOf(rest)
    <3>1. PICK k \in 1 .. Len(q) : q[k].timer = x
      BY <2>2 DEF TimersOf
    <3>2. k # p
      BY <1>2, <3>1
    <3>3. Closed(k, p) \in 1 .. Len(q) - 1 /\ Opened(Closed(k, p), p) = k
      BY <3>2 DEF Opened, Closed
    <3> QED
      BY <2>1, <2>2, <3>1, <3>3 DEF TimersOf
  <2>8. \A x \in TimersOf(rest) : x \in TimersOf(q) \ {t}
    BY <2>2, <2>6 DEF TimersOf
  <2>9. TimersOf(rest) = TimersOf(q) \ {t}
    BY <2>7, <2>8
  <2> QED
    BY <1>2, <2>1, <2>5, <2>9 DEF rest
<1> QED
  BY <1>1, <1>2, RemovedPlaces

(* The place addTimer finds is in the list or just behind it, behind every *)
(* entry that is due as soon and before the first that is due later.       *)
LEMMA PlaceFits ==
  ASSUME NEW q \in Seq(Entry), NEW min
  PROVE  /\ Place(q, min) \in 1 .. Len(q) + 1
         /\ \A i \in DOMAIN q : i < Place(q, min) => ~ (min < MinLeft(q[i]))
         /\ Place(q, min) \in DOMAIN q => min < MinLeft(q[Place(q, min)])
<1> DEFINE S == {i \in DOMAIN q : min < MinLeft(q[i])} \union {Len(q) + 1}
<1>1. S \in SUBSET Nat /\ S # {} /\ DOMAIN q = 1 .. Len(q) /\ Len(q) \in Nat
  OBVIOUS
<1>2. Min(S) \in S /\ \A y \in S : Min(S) =< y
  BY <1>1, MinIsFirst
<1>3. Place(q, min) = Min(S)
  BY DEF Place
<1> DEFINE p == Min(S)
<1> HIDE DEF p
<1>4. p \in S /\ (\A y \in S : p =< y) /\ Place(q, min) = p
  BY <1>2, <1>3 DEF p
<1>5. p \in 1 .. Len(q) + 1 /\ (p \in DOMAIN q => min < MinLeft(q[p]))
  BY <1>1, <1>4
<1>6. ASSUME NEW i \in DOMAIN q, i < p
      PROVE  ~ (min < MinLeft(q[i]))
  <2>1. i \notin S
    BY <1>1, <1>4, <1>5, <1>6
  <2> QED
    BY <2>1
<1> QED
  BY <1>4, <1>5, <1>6

LEMMA AddedTimers ==
  ASSUME NEW q \in Seq(Entry), NEW t \in Timer, NEW times \in Nat \X Nat, EachOnce(q)
  PROVE  /\ Added(t, q, times) \in Seq(Entry)
         /\ EachOnce(Added(t, q, times))
         /\ TimersOf(Added(t, q, times)) = TimersOf(q) \union {t}
<1>1. CASE t \in TimersOf(q)
  <2>1. Added(t, q, times) = q
    BY <1>1 DEF Added, TimersOf
  <2> QED
    BY <1>1, <2>1
<1>2. CASE t \notin TimersOf(q)
  <2> DEFINE p == Place(q, times[1])
             e == EntryOf(t, times)
             more == InsertAt(q, p, e)
  <2>1. Added(t, q, times) = more
    BY <1>2 DEF Added, TimersOf, EntryOf
  <2>2. p \in 1 .. Len(q) + 1
    BY PlaceFits
  <2>3. e \in Entry /\ e.timer = t
    BY EntryIsEntry DEF EntryOf
  <2> HIDE DEF p, e
  <2>4. /\ more \in Seq(Entry) /\ Len(more) = Len(q) + 1 /\ more[p] = e
        /\ \A i \in 1 .. Len(q) : more[Opened(i, p)] = q[i]
    BY <2>2, <2>3, InsertedPlaces
  <2> HIDE DEF more
  <2>5. DOMAIN more = 1 .. Len(q) + 1 /\ DOMAIN q = 1 .. Len(q) /\ Len(q) \in Nat
    BY <2>4
  <2>6. \A i \in 1 .. Len(q) + 1 : i # p =>
           Closed(i, p) \in 1 .. Len(q) /\ Opened(Closed(i, p), p) = i
    BY <2>2 DEF Opened, Closed
  <2>7. \A i \in 1 .. Len(q) + 1 : i # p => more[i].timer = q[Closed(i, p)].timer
    BY <2>4, <2>6
  <2>8. \A i \in 1 .. Len(q) : q[i].timer # t
    BY <1>2, <2>5 DEF TimersOf
  <2>9. EachOnce(more)
    <3> SUFFICES ASSUME NEW i \in 1 .. Len(q) + 1, NEW j \in 1 .. Len(q) + 1,
                        more[i].timer = more[j].timer
                 PROVE  i = j
      BY <2>5 DEF EachOnce
    <3>1. CASE i # p /\ j # p
      BY <2>5, <2>6, <2>7, <3>1 DEF EachOnce
    <3>2. CASE i = p \/ j = p
      BY <2>3, <2>4, <2>6, <2>7, <2>8, <3>2
    <3> QED
      BY <3>1, <3>2
  <2>10. \A x \in TimersOf(more) : x \in TimersOf(q) \union {t}
    BY <2>3, <2>4, <2>5, <2>6, <2>7 DEF TimersOf
  <2>11. \A x \in TimersOf(q) : x \in TimersOf(more)
    <3> SUFFICES ASSUME NEW i \in 1 .. Len(q)
                 PROVE  q[i].timer \in TimersOf(more)
      BY <2>5 DEF TimersOf
    <3>1. Opened(i, p) \in 1 .. Len(q) + 1
      BY <2>2 DEF Opened
    <3> QED
      BY <2>4, <2>5, <3>1 DEF TimersOf
  <2>12. t \in TimersOf(more)
    BY <2>2, <2>3, <2>4, <2>5 DEF TimersOf
  <2> QED
    BY <2>1, <2>4, <2>9, <2>10, <2>11, <2>12
<1> QED
  BY <1>1, <1>2

-----------------------------------------------------------------------------
(* The invariant                                                           *)

(* QueueExact and OncePerDispatch need each other and this: a timer whose  *)
(* callback runs, or that waits to be put back, still has its callback,    *)
(* since its owner does not delete it then; and between two dispatches no  *)
(* timer counts as run.                                                    *)
TimersInv ==
    /\ TypeOK /\ QueueExact /\ OncePerDispatch
    /\ pc = "poll" => spent = {}
    /\ ToSet(requeue) \subseteq mCallBack
    /\ current \in mCallBack \union {NoTimer}

(* What an operation on the list has to leave for the invariant to hold.   *)
ListFits(q, active, ran, halted) ==
    /\ q \in Seq(Entry) /\ EachOnce(q)
    /\ active = TimersOf(q)
    /\ ran \subseteq Timer /\ ran \intersect TimersOf(q) = {}
    /\ halted \subseteq Timer

LEMMA InvListFits == TimersInv => ListFits(timers, mActive, spent, stopped)
<1> SUFFICES ASSUME TimersInv
             PROVE  ListFits(timers, mActive, spent, stopped)
  OBVIOUS
<1>1. Queued = TimersOf(timers)
  BY DEF Queued, TimersOf
<1> QED
  BY <1>1 DEF TimersInv, TypeOK, QueueExact, OncePerDispatch, ListFits, EachOnce

LEMMA ListFitsInv ==
  ASSUME ListFits(timers', mActive', spent', stopped'),
         alive' \subseteq Timer, mActive' \subseteq mCallBack',
         mCallBack' \subseteq alive',
         mTimes' \in [Timer -> Nat \X Nat],
         pc' \in {"poll", "loop", "call", "requeue"},
         current' \in Timer \union {NoTimer},
         (current' = NoTimer) <=> (pc' # "call"),
         requeue' \in Seq(Timer),
         pc' = "poll" => spent' = {},
         ToSet(requeue') \subseteq mCallBack',
         current' \in mCallBack' \union {NoTimer}
  PROVE  TimersInv'
<1>1. Queued' = TimersOf(timers')
  BY DEF Queued, TimersOf
<1> QED
  BY <1>1 DEF TimersInv, TypeOK, QueueExact, OncePerDispatch, ListFits, EachOnce

LEMMA RestartFits ==
  ASSUME ListFits(timers, mActive, spent, stopped), NEW t \in Timer,
         NEW times \in Nat \X Nat, NEW mayRun,
         Restart(t, times, t \in mayRun)
  PROVE  /\ ListFits(timers', mActive', spent', stopped')
         /\ mActive' \subseteq IF t \in mayRun THEN mActive \union {t} ELSE mActive
         /\ spent' \subseteq spent
<1> DEFINE rest == Removed(t, timers)
<1>1. /\ rest \in Seq(Entry) /\ EachOnce(rest)
      /\ TimersOf(rest) = mActive \ {t}
  BY RemovedTimers DEF ListFits
<1> HIDE DEF rest
<1>2. CASE t \in mayRun
  <2>1. /\ timers' = Added(t, rest, times)
        /\ mActive' = mActive \union {t}
        /\ spent' = spent \ {t} /\ stopped' = stopped \ {t}
    BY <1>2 DEF Restart, rest
  <2>2. /\ timers' \in Seq(Entry) /\ EachOnce(timers')
        /\ TimersOf(timers') = TimersOf(rest) \union {t}
    BY <1>1, <2>1, AddedTimers
  <2> QED
    BY <1>1, <1>2, <2>1, <2>2 DEF ListFits
<1>3. CASE t \notin mayRun
  <2>1. /\ timers' = rest /\ mActive' = mActive \ {t}
        /\ spent' = spent /\ stopped' = stopped
    BY <1>3 DEF Restart, rest
  <2> QED
    BY <1>1, <1>3, <2>1 DEF ListFits
<1> QED
  BY <1>2, <1>3

LEMMA TimersInitially == Init => TimersInv
<1> SUFFICES ASSUME Init
             PROVE  TimersInv
  OBVIOUS
<1>1. /\ timers \in Seq(Entry) /\ DOMAIN timers = {}
      /\ requeue \in Seq(Timer) /\ ToSet(requeue) = {}
  BY DEF Init, ToSet
<1>2. Queued = {}
  BY <1>1 DEF Queued
<1> QED
  BY <1>1, <1>2 DEF Init, TimersInv, TypeOK, QueueExact, OncePerDispatch

(* A call of a timer's function that starts it, from anywhere.             *)
LEMMA StartsKeepInv ==
  ASSUME TimersInv, NEW t \in Timer, Starts(t)
  PROVE  TimersInv'
<1> USE DEF TimersInv, TypeOK
<1>1. ListFits(timers, mActive, spent, stopped) /\ mActive \subseteq mCallBack
  BY InvListFits DEF QueueExact
<1>2. mTimes[t] \in Nat \X Nat
  OBVIOUS
<1>3. \A times \in Times :
         /\ <<times[1], Larger(times[1], times[2])>> \in Nat \X Nat
         /\ [mTimes EXCEPT ![t] = <<times[1], Larger(times[1], times[2])>>]
               \in [Timer -> Nat \X Nat]
         /\ [mTimes EXCEPT ![t] = <<times[1], Larger(times[1], times[2])>>][t]
               \in Nat \X Nat
  <2> SUFFICES ASSUME NEW times \in Times
               PROVE  <<times[1], Larger(times[1], times[2])>> \in Nat \X Nat
    OBVIOUS
  <2>1. times[1] \in Nat /\ times[2] \in Nat
    BY TimesAssumption
  <2> QED
    BY <2>1 DEF Larger
<1>4. CASE Start(t)
  <2>1. Restart(t, mTimes[t], t \in mCallBack) /\ t \in alive
    BY <1>4 DEF Start
  <2>2. /\ ListFits(timers', mActive', spent', stopped')
        /\ mActive' \subseteq mCallBack /\ spent' \subseteq spent
    BY <1>1, <1>2, <2>1, RestartFits
  <2> QED
    BY <1>4, <2>2, ListFitsInv DEF Start, dispatch
<1>5. CASE SetCallback(t)
  <2>1. /\ ListFits(timers', mActive', spent', stopped')
        /\ mActive' \subseteq mCallBack' /\ spent' \subseteq spent
    <3>1. CASE t \in mActive
      <4>1. Restart(t, mTimes[t], t \in mCallBack')
        BY <1>5, <3>1 DEF SetCallback, Restart
      <4> QED
        BY <1>1, <1>2, <1>5, <4>1, RestartFits DEF SetCallback
    <3>2. CASE t \notin mActive
      BY <1>1, <1>5, <3>2 DEF SetCallback, history
    <3> QED
      BY <3>1, <3>2
  <2> QED
    BY <1>5, <2>1, ListFitsInv DEF SetCallback, dispatch
<1>6. ASSUME NEW times \in Times, SetTimes(t, times)
      PROVE  TimersInv'
  <2>1. mTimes' \in [Timer -> Nat \X Nat] /\ mTimes'[t] \in Nat \X Nat
    BY <1>3, <1>6 DEF SetTimes
  <2>2. /\ ListFits(timers', mActive', spent', stopped')
        /\ mActive' \subseteq mCallBack /\ spent' \subseteq spent
    <3>1. CASE t \in mActive
      <4>1. Restart(t, mTimes'[t], t \in mCallBack)
        BY <1>6, <3>1 DEF SetTimes
      <4> QED
        BY <1>1, <2>1, <4>1, RestartFits
    <3>2. CASE t \notin mActive
      BY <1>1, <1>6, <3>2 DEF SetTimes, history
    <3> QED
      BY <3>1, <3>2
  <2> QED
    BY <1>6, <2>1, <2>2, ListFitsInv DEF SetTimes, dispatch
<1>7. ASSUME NEW times \in Times, NEW newCallBack \in BOOLEAN,
             StartWith(t, times, newCallBack)
      PROVE  TimersInv'
  <2>1. mTimes' \in [Timer -> Nat \X Nat] /\ mTimes'[t] \in Nat \X Nat
    BY <1>3, <1>7 DEF StartWith
  <2>2. Restart(t, mTimes'[t], t \in mCallBack')
    BY <1>7 DEF StartWith
  <2>3. /\ ListFits(timers', mActive', spent', stopped')
        /\ mActive' \subseteq IF t \in mCallBack' THEN mActive \union {t} ELSE mActive
        /\ spent' \subseteq spent
    BY <1>1, <2>1, <2>2, RestartFits
  <2>4. mCallBack \subseteq mCallBack' /\ mCallBack' \subseteq alive
    BY <1>7 DEF StartWith
  <2> QED
    BY <1>1, <1>7, <2>1, <2>3, <2>4, ListFitsInv DEF StartWith, dispatch
<1> QED
  BY <1>4, <1>5, <1>6, <1>7 DEF Starts

(* new, delete and stop ().                                                *)
LEMMA StopsKeepInv ==
  ASSUME TimersInv, NEW t \in Timer, Create(t) \/ Destroy(t) \/ Stop(t)
  PROVE  TimersInv'
<1> USE DEF TimersInv, TypeOK
<1>1. ListFits(timers, mActive, spent, stopped) /\ mActive \subseteq mCallBack
  BY InvListFits DEF QueueExact
<1> DEFINE rest == Removed(t, timers)
<1>2. /\ rest \in Seq(Entry) /\ EachOnce(rest)
      /\ TimersOf(rest) = mActive \ {t}
  BY <1>1, RemovedTimers DEF ListFits
<1> HIDE DEF rest
<1>3. CASE Create(t)
  BY <1>1, <1>3, ListFitsInv DEF Create, dispatch, history
<1>4. CASE Destroy(t)
  <2>1. /\ timers' = rest /\ mActive' = mActive \ {t}
        /\ spent' = spent \ {t} /\ stopped' = stopped \ {t}
        /\ mCallBack' = mCallBack \ {t} /\ alive' = alive \ {t}
        /\ t # current /\ t \notin ToSet(requeue)
        /\ UNCHANGED <<pc, current, requeue>>
    BY <1>4 DEF Destroy, dispatch, rest
  <2>2. mTimes' \in [Timer -> Nat \X Nat]
    BY <1>4 DEF Destroy
  <2>3. ListFits(timers', mActive', spent', stopped')
    BY <1>1, <1>2, <2>1 DEF ListFits
  <2> QED
    BY <1>1, <2>1, <2>2, <2>3, ListFitsInv
<1>5. CASE Stop(t)
  <2>1. /\ timers' = rest /\ mActive' = mActive \ {t}
        /\ spent' = spent /\ stopped' \subseteq stopped \union {t}
        /\ UNCHANGED <<mTimes, mCallBack, alive, pc, current, requeue>>
    BY <1>5 DEF Stop, dispatch, rest
  <2>2. ListFits(timers', mActive', spent', stopped')
    BY <1>1, <1>2, <2>1 DEF ListFits
  <2> QED
    BY <1>1, <2>1, <2>2, ListFitsInv
<1> QED
  BY <1>3, <1>4, <1>5

LEMMA TailTimers ==
  ASSUME NEW q \in Seq(Entry), q # << >>, EachOnce(q)
  PROVE  /\ q[1].timer \in Timer
         /\ Tail(q) \in Seq(Entry) /\ EachOnce(Tail(q))
         /\ TimersOf(Tail(q)) = TimersOf(q) \ {q[1].timer}
<1>1. /\ Tail(q) \in Seq(Entry) /\ Len(q) \in Nat \ {0} /\ DOMAIN q = 1 .. Len(q)
      /\ DOMAIN Tail(q) = 1 .. Len(q) - 1
      /\ \A i \in 1 .. Len(q) - 1 : Tail(q)[i] = q[i + 1]
  OBVIOUS
<1> DEFINE rest == Tail(q)
<1> HIDE DEF rest
<1>2. /\ rest \in Seq(Entry) /\ DOMAIN rest = 1 .. Len(q) - 1
      /\ \A i \in 1 .. Len(q) - 1 : rest[i] = q[i + 1]
  BY <1>1 DEF rest
<1>3. q[1].timer \in Timer
  <2>1. q[1] \in Entry
    BY <1>1
  <2> QED
    BY <2>1 DEF Entry
<1>4. EachOnce(rest)
  <2> SUFFICES ASSUME NEW i \in 1 .. Len(q) - 1, NEW j \in 1 .. Len(q) - 1,
                      rest[i].timer = rest[j].timer
               PROVE  i = j
    BY <1>2 DEF EachOnce
  <2>1. q[i + 1].timer = q[j + 1].timer
    BY <1>2
  <2>2. i + 1 \in DOMAIN q /\ j + 1 \in DOMAIN q
    BY <1>1
  <2>3. i + 1 = j + 1
    BY <2>1, <2>2 DEF EachOnce
  <2> QED
    BY <2>3
<1>5. \A x \in TimersOf(rest) : x \in TimersOf(q) \ {q[1].timer}
  <2> SUFFICES ASSUME NEW i \in 1 .. Len(q) - 1
               PROVE  rest[i].timer \in TimersOf(q) \ {q[1].timer}
    BY <1>2 DEF TimersOf
  <2>1. i + 1 \in 1 .. Len(q) /\ i + 1 # 1 /\ 1 \in 1 .. Len(q)
    BY <1>1
  <2>2. q[i + 1].timer # q[1].timer
    BY <1>1, <2>1 DEF EachOnce
  <2> QED
    BY <1>1, <1>2, <2>1, <2>2 DEF TimersOf
<1>6. \A x \in TimersOf(q) \ {q[1].timer} : x \in TimersOf(rest)
  <2> SUFFICES ASSUME NEW i \in 1 .. Len(q), q[i].timer # q[1].timer
               PROVE  q[i].timer \in TimersOf(rest)
    BY <1>1 DEF TimersOf
  <2>1. i - 1 \in 1 .. Len(q) - 1 /\ (i - 1) + 1 = i
    BY <1>1
  <2> QED
    BY <1>2, <2>1 DEF TimersOf
<1> QED
  BY <1>2, <1>3, <1>4, <1>5, <1>6 DEF rest

(* The dispatch.                                                           *)
LEMMA SourceKeepsInv ==
  ASSUME TimersInv,
         Wake \/ Call \/ LeaveLoop \/ Requeue \/ EndDispatch
         \/ \E again \in BOOLEAN : Return(again)
  PROVE  TimersInv'
<1> USE DEF TimersInv, TypeOK
<1>1. ListFits(timers, mActive, spent, stopped) /\ mActive \subseteq mCallBack
  BY InvListFits DEF QueueExact
<1>2. CASE Wake
  BY <1>1, <1>2, ListFitsInv DEF Wake, history
<1>3. CASE Call
  <2>1. /\ timers # << >> /\ current' = timers[1].timer /\ timers' = Tail(timers)
        /\ mActive' = mActive \ {current'} /\ spent' = spent \union {current'}
        /\ pc' = "call" /\ UNCHANGED <<mTimes, mCallBack, alive, requeue, stopped>>
    BY <1>3 DEF Call
  <2>2. /\ current' \in Timer /\ timers' \in Seq(Entry) /\ EachOnce(timers')
        /\ TimersOf(timers') = TimersOf(timers) \ {current'}
    BY <1>1, <2>1, TailTimers DEF ListFits
  <2>3. ListFits(timers', mActive', spent', stopped')
    BY <1>1, <2>1, <2>2 DEF ListFits
  <2>4. current' \in mActive
    <3>1. 1 \in DOMAIN timers
      BY <2>1
    <3> QED
      BY <1>1, <2>1, <3>1 DEF ListFits, TimersOf
  <2>5. current' # NoTimer
    BY <2>2, TimerAssumption
  <2> QED
    BY <1>1, <2>1, <2>2, <2>3, <2>4, <2>5, ListFitsInv
<1>4. CASE LeaveLoop
  BY <1>1, <1>4, ListFitsInv DEF LeaveLoop, history
<1>5. CASE Requeue
  <2> DEFINE t == requeue[1]
  <2>1. /\ requeue # << >> /\ t \in Timer /\ t \in ToSet(requeue)
        /\ requeue' = Tail(requeue) /\ requeue' \in Seq(Timer)
        /\ ToSet(requeue') \subseteq ToSet(requeue)
    BY <1>5 DEF Requeue, ToSet
  <2>2. /\ timers' = Added(t, timers, mTimes[t])
        /\ mActive' = mActive \union {t} /\ spent' = spent \ {t}
        /\ UNCHANGED <<mTimes, mCallBack, alive, pc, current, stopped>>
        /\ pc = "requeue"
    BY <1>5 DEF Requeue
  <2> HIDE DEF t
  <2>3. /\ timers' \in Seq(Entry) /\ EachOnce(timers')
        /\ TimersOf(timers') = TimersOf(timers) \union {t}
    BY <1>1, <2>1, <2>2, AddedTimers DEF ListFits
  <2>4. ListFits(timers', mActive', spent', stopped')
    BY <1>1, <2>2, <2>3 DEF ListFits
  <2> QED
    BY <1>1, <2>1, <2>2, <2>4, ListFitsInv
<1>6. CASE EndDispatch
  <2>1. ListFits(timers', mActive', spent', stopped')
    BY <1>1, <1>6 DEF EndDispatch, ListFits
  <2> QED
    BY <1>1, <1>6, <2>1, ListFitsInv DEF EndDispatch
<1>7. ASSUME NEW again \in BOOLEAN, Return(again)
      PROVE  TimersInv'
  <2>1. /\ pc = "call" /\ pc' = "loop" /\ current' = NoTimer
        /\ UNCHANGED <<timers, mActive, mTimes, mCallBack, alive, spent, stopped>>
    BY <1>7 DEF Return, history
  <2>2. current \in Timer /\ current \in mCallBack
    BY <2>1
  <2>3. requeue' \in Seq(Timer) /\ ToSet(requeue') \subseteq ToSet(requeue) \union {current}
    BY <1>7, <2>2 DEF Return, ToSet
  <2> QED
    BY <1>1, <2>1, <2>2, <2>3, ListFitsInv
<1> QED
  BY <1>2, <1>3, <1>4, <1>5, <1>6, <1>7

(* What is left of an entry after a unit of time.                          *)
Aged(e) == [timer |-> e.timer, minLeft |-> Less(e.minLeft), maxLeft |-> Less(e.maxLeft)]

LEMMA PassAges ==
  ASSUME timers \in Seq(Entry), Pass
  PROVE  /\ timers' \in Seq(Entry) /\ Len(timers') = Len(timers)
         /\ \A i \in 1 .. Len(timers) : timers'[i] = Aged(timers[i])
<1>1. \A e \in Entry :
         [e EXCEPT !.minLeft = Less(@), !.maxLeft = Less(@)] = Aged(e)
  <2> SUFFICES ASSUME NEW e \in Entry
               PROVE  [e EXCEPT !.minLeft = Less(@), !.maxLeft = Less(@)] = Aged(e)
    OBVIOUS
  <2>1. \A a, b : [e EXCEPT !.minLeft = a, !.maxLeft = b] =
                     [timer |-> e.timer, minLeft |-> a, maxLeft |-> b]
    <3> SUFFICES ASSUME NEW a, NEW b
                 PROVE  [e EXCEPT !.minLeft = a, !.maxLeft = b] =
                           [timer |-> e.timer, minLeft |-> a, maxLeft |-> b]
      OBVIOUS
    <3> DEFINE fields == {"timer", "minLeft", "maxLeft"}
               value(f) == IF f = "timer" THEN e.timer
                           ELSE IF f = "minLeft" THEN a ELSE b
    <3>1. DOMAIN e = fields
      BY DEF Entry
    <3>2. [e EXCEPT !.minLeft = a, !.maxLeft = b] = [f \in fields |-> value(f)]
      BY <3>1
    <3>3. [timer |-> e.timer, minLeft |-> a, maxLeft |-> b] = [f \in fields |-> value(f)]
      OBVIOUS
    <3> QED
      BY <3>2, <3>3
  <2> QED
    BY <2>1 DEF Aged
<1>2. \A e \in Entry : Aged(e) \in Entry
  BY DEF Entry, Aged, Less
<1>3. /\ DOMAIN timers = 1 .. Len(timers) /\ Len(timers) \in Nat
      /\ \A i \in 1 .. Len(timers) : timers[i] \in Entry
  OBVIOUS
<1>4. timers' = [i \in 1 .. Len(timers) |-> Aged(timers[i])]
  BY <1>1, <1>3 DEF Pass
<1> QED
  BY <1>2, <1>3, <1>4

LEMMA PassKeepsInv ==
  ASSUME TimersInv, Pass
  PROVE  TimersInv'
<1>1. ListFits(timers, mActive, spent, stopped) /\ mActive \subseteq mCallBack
  BY InvListFits DEF TimersInv, QueueExact
<1>2. /\ timers' \in Seq(Entry) /\ Len(timers') = Len(timers)
      /\ \A i \in 1 .. Len(timers) : timers'[i] = Aged(timers[i])
  BY PassAges DEF TimersInv, TypeOK
<1>3. /\ DOMAIN timers' = DOMAIN timers
      /\ \A i \in DOMAIN timers : timers'[i].timer = timers[i].timer
  <2>1. DOMAIN timers' = 1 .. Len(timers) /\ DOMAIN timers = 1 .. Len(timers)
    BY <1>1, <1>2 DEF ListFits
  <2>2. \A e : Aged(e).timer = e.timer
    BY DEF Aged
  <2> QED
    BY <1>2, <2>1, <2>2
<1>4. TimersOf(timers') = TimersOf(timers) /\ EachOnce(timers')
  BY <1>1, <1>3 DEF TimersOf, EachOnce, ListFits
<1>5. ListFits(timers', mActive', spent', stopped')
  BY <1>1, <1>2, <1>4 DEF ListFits, Pass, history
<1> QED
  BY <1>1, <1>5, ListFitsInv DEF Pass, dispatch, history, TimersInv, TypeOK

LEMMA TimersStep == TimersInv /\ [Next]_vars => TimersInv'
<1> SUFFICES ASSUME TimersInv, [Next]_vars
             PROVE  TimersInv'
  OBVIOUS
<1>1. CASE UNCHANGED vars
  <2>1. ListFits(timers, mActive, spent, stopped) /\ mActive \subseteq mCallBack
    BY InvListFits DEF TimersInv, QueueExact
  <2> QED
    BY <1>1, <2>1, ListFitsInv DEF vars, history, TimersInv, TypeOK
<1> QED
  BY <1>1, StartsKeepInv, StopsKeepInv, SourceKeepsInv, PassKeepsInv DEF Next

THEOREM TimersInvariant == Spec => []TimersInv
<1>1. Init => TimersInv
  BY TimersInitially
<1>2. TimersInv /\ [Next]_vars => TimersInv'
  BY TimersStep
<1> QED
  BY <1>1, <1>2, PTL DEF Spec

(* Timers, lists and the dispatch stay of their types.                     *)
THEOREM TimersAreTyped == Spec => []TypeOK
<1>1. TimersInv => TypeOK
  BY DEF TimersInv
<1> QED
  BY <1>1, TimersInvariant, PTL

(* The list holds the active timers and nothing else, each once, whatever  *)
(* the callbacks do to timers while the list is run: active () is exact    *)
(* and no timer is called twice for one start.                             *)
THEOREM ListIsExact == Spec => []QueueExact
<1>1. TimersInv => QueueExact
  BY DEF TimersInv
<1> QED
  BY <1>1, TimersInvariant, PTL

(* A dispatch runs a timer once for each start, also one that asks to be   *)
(* run again at once: the loop returns to the X events.                    *)
THEOREM TimersRunOnce == Spec => []OncePerDispatch
<1>1. TimersInv => OncePerDispatch
  BY DEF TimersInv
<1> QED
  BY <1>1, TimersInvariant, PTL

-----------------------------------------------------------------------------
(* The order of the list and the length of the sleep                       *)

(* A time in milliseconds whose units, rounded, fit a word.                *)
Fits(ms) == ms * Tick + Tick \div 2 < Word

(* Up to 71 minutes: 2^32 microseconds.                                    *)
TimesFit == Fits(0) /\ \A times \in Times : Fits(times[1]) /\ Fits(times[2])

Sorted(q) ==
    \A i, j \in DOMAIN q : i < j => 2 * q[i].minLeft <= 2 * q[j].minLeft + Tick

Bounded(q) ==
    \A i \in DOMAIN q : /\ q[i].minLeft <= q[i].maxLeft
                        /\ q[i].maxLeft + Tick \div 2 < Word

(* SortedUpToRounding is kept by addTimer only if what is left of every    *)
(* entry is not cut by the cast, hence the bounds.                         *)
OrderInv ==
    /\ \A t \in Timer : mTimes[t][1] <= mTimes[t][2] /\ Fits(mTimes[t][2])
    /\ Bounded(timers) /\ Sorted(timers)

(* What rounding to milliseconds says of what is left.                     *)
LEMMA Rounding ==
  ASSUME NEW left \in Nat, left + Tick \div 2 < Word
  PROVE  /\ InMilliseconds(left) \in Nat
         /\ InMilliseconds(left) * Tick <= left + Tick \div 2
         /\ left + Tick \div 2 < (InMilliseconds(left) + 1) * Tick
<1>1. Tick \in Nat \ {0} /\ Word \in Nat \ {0} /\ Tick \div 2 \in Nat
  BY ClockAssumption
<1> DEFINE x == left + Tick \div 2
<1>2. x \in Nat /\ x < Word
  BY <1>1
<1> HIDE DEF x
<1>3. x % Word = x
  BY <1>1, <1>2
<1>4. x \div Tick \in Nat /\ (x \div Tick) * Tick <= x /\ x < (x \div Tick + 1) * Tick
  BY <1>1, <1>2
<1>5. InMilliseconds(left) = x \div Tick
  BY <1>3 DEF InMilliseconds, x
<1> QED
  BY <1>4, <1>5 DEF x

LEMMA LaterIsMore ==
  ASSUME NEW a \in Nat, NEW b \in Nat
  PROVE  /\ a * Tick \in Nat /\ (a + 1) * Tick = a * Tick + Tick
         /\ a < b => a * Tick + Tick <= b * Tick
         /\ ~ (b < a) => a * Tick <= b * Tick
  BY ClockAssumption

LEMMA HalfATick == 2 * (Tick \div 2) \in {Tick, Tick - 1}
  BY ClockAssumption

LEMMA RemovedKeepsOrder ==
  ASSUME NEW q \in Seq(Entry), NEW t, Sorted(q), Bounded(q)
  PROVE  Sorted(Removed(t, q)) /\ Bounded(Removed(t, q))
<1>1. ASSUME NEW p \in 1 .. Len(q), Removed(t, q) = RemoveAt(q, p)
      PROVE  Sorted(Removed(t, q)) /\ Bounded(Removed(t, q))
  <2> DEFINE rest == RemoveAt(q, p)
  <2>1. /\ rest \in Seq(Entry) /\ Len(rest) = Len(q) - 1
        /\ \A i \in 1 .. Len(q) - 1 : rest[i] = q[Opened(i, p)]
    BY ErasedPlaces
  <2> HIDE DEF rest
  <2>2. DOMAIN rest = 1 .. Len(q) - 1 /\ DOMAIN q = 1 .. Len(q)
    BY <2>1
  <2>3. \A i \in 1 .. Len(q) - 1 : Opened(i, p) \in 1 .. Len(q)
    BY DEF Opened
  <2>4. \A i, j \in 1 .. Len(q) - 1 : i < j => Opened(i, p) < Opened(j, p)
    BY DEF Opened
  <2>5. Sorted(rest)
    BY <2>1, <2>2, <2>3, <2>4 DEF Sorted
  <2>6. Bounded(rest)
    BY <2>1, <2>2, <2>3 DEF Bounded
  <2> QED
    BY <1>1, <2>5, <2>6 DEF rest
<1> QED
  BY <1>1, RemovedPlaces

LEMMA AddedKeepsOrder ==
  ASSUME NEW q \in Seq(Entry), NEW t \in Timer, NEW times \in Nat \X Nat,
         times[1] <= times[2], Fits(times[2]), Sorted(q), Bounded(q)
  PROVE  Sorted(Added(t, q, times)) /\ Bounded(Added(t, q, times))
<1>1. CASE t \in TimersOf(q)
  <2>1. Added(t, q, times) = q
    BY <1>1 DEF Added, TimersOf
  <2> QED
    BY <2>1
<1>2. CASE t \notin TimersOf(q)
  <2> DEFINE p == Place(q, times[1])
             e == EntryOf(t, times)
             more == InsertAt(q, p, e)
  <2>1. Added(t, q, times) = more
    BY <1>2 DEF Added, TimersOf, EntryOf
  <2>2. /\ p \in 1 .. Len(q) + 1
        /\ \A i \in DOMAIN q : i < p => ~ (times[1] < MinLeft(q[i]))
        /\ p \in DOMAIN q => times[1] < MinLeft(q[p])
    BY PlaceFits
  <2>3. /\ e \in Entry
        /\ e.minLeft = times[1] * Tick /\ e.maxLeft = times[2] * Tick
    BY EntryIsEntry DEF EntryOf, Larger
  <2>4. e.minLeft <= e.maxLeft /\ e.maxLeft + Tick \div 2 < Word
    <3>1. /\ times[1] \in Nat /\ times[2] \in Nat /\ Tick \in Nat
      BY ClockAssumption
    <3>2. times[1] * Tick <= times[2] * Tick
      BY <3>1
    <3> QED
      BY <2>3, <3>2 DEF Fits
  <2> HIDE DEF p, e
  <2>5. /\ more \in Seq(Entry) /\ Len(more) = Len(q) + 1 /\ more[p] = e
        /\ \A i \in 1 .. Len(q) : more[Opened(i, p)] = q[i]
    <3>1. p \in 1 .. Len(q) + 1 /\ e \in Entry
      BY <2>2, <2>3
    <3> QED
      BY <3>1, InsertedPlaces
  <2> HIDE DEF more
  <2>6. DOMAIN more = 1 .. Len(q) + 1 /\ DOMAIN q = 1 .. Len(q) /\ Len(q) \in Nat
    BY <2>5
  <2>7. \A i \in 1 .. Len(q) + 1 : i # p =>
           Closed(i, p) \in 1 .. Len(q) /\ Opened(Closed(i, p), p) = i
    BY <2>2 DEF Opened, Closed
  <2>8. \A i \in 1 .. Len(q) + 1 : i # p => more[i] = q[Closed(i, p)]
    BY <2>5, <2>7
  <2>9. \A i \in 1 .. Len(q) :
           /\ q[i].minLeft \in Nat /\ q[i].minLeft + Tick \div 2 < Word
           /\ MinLeft(q[i]) \in Nat
           /\ MinLeft(q[i]) * Tick <= q[i].minLeft + Tick \div 2
           /\ q[i].minLeft + Tick \div 2 < (MinLeft(q[i]) + 1) * Tick
    <3> SUFFICES ASSUME NEW i \in 1 .. Len(q)
                 PROVE  /\ q[i].minLeft \in Nat /\ q[i].minLeft + Tick \div 2 < Word
                        /\ MinLeft(q[i]) \in Nat
                        /\ MinLeft(q[i]) * Tick <= q[i].minLeft + Tick \div 2
                        /\ q[i].minLeft + Tick \div 2 < (MinLeft(q[i]) + 1) * Tick
      OBVIOUS
    <3>1. q[i] \in Entry
      OBVIOUS
    <3>2. q[i].minLeft \in Nat /\ q[i].maxLeft \in Nat
      BY <3>1 DEF Entry
    <3>3. q[i].minLeft + Tick \div 2 < Word
      BY <2>6, <3>2, ClockAssumption DEF Bounded
    <3> QED
      BY <3>2, <3>3, Rounding DEF MinLeft
  <2> DEFINE due == times[1] * Tick
  <2>10. due \in Nat /\ times[1] \in Nat /\ Tick \in Nat \ {0} /\ Tick \div 2 \in Nat
    BY ClockAssumption
  <2> HIDE DEF due
  <2>11. ASSUME NEW i \in 1 .. Len(q), i < p
         PROVE  2 * q[i].minLeft <= 2 * due + Tick
    <3> DEFINE ms == MinLeft(q[i])
               left == q[i].minLeft
    <3>1. ms \in Nat /\ left \in Nat /\ left + Tick \div 2 < (ms + 1) * Tick
      BY <2>9
    <3>2. ~ (times[1] < ms)
      BY <2>2, <2>6, <2>11
    <3> HIDE DEF ms, left
    <3>3. (ms + 1) * Tick <= due + Tick
      <4>1. (ms + 1) * Tick = ms * Tick + Tick /\ ms * Tick \in Nat
        BY <2>10, <3>1, LaterIsMore
      <4>2. ms * Tick <= due
        BY <2>10, <3>1, <3>2, LaterIsMore DEF due
      <4> QED
        BY <2>10, <4>1, <4>2
    <3>4. 2 * left <= 2 * due + Tick
      BY <2>10, <3>1, <3>3, LaterIsMore, HalfATick
    <3> QED
      BY <3>4 DEF left
  <2>12. ASSUME NEW i \in 1 .. Len(q), p <= i
         PROVE  2 * due <= 2 * q[i].minLeft + Tick
    <3> DEFINE ms == MinLeft(q[p])
               first == q[p].minLeft
               left == q[i].minLeft
    <3>1. p \in 1 .. Len(q) /\ i \in 1 .. Len(q)
      BY <2>2, <2>6, <2>12
    <3>2. times[1] < ms
      BY <2>2, <2>6, <3>1
    <3>3. ms \in Nat /\ first \in Nat /\ left \in Nat /\ ms * Tick <= first + Tick \div 2
      BY <2>9, <3>1
    <3>4. p < i => 2 * first <= 2 * left + Tick
      BY <2>6, <3>1 DEF Sorted
    <3>5. p = i => first = left
      OBVIOUS
    <3>6. p < i \/ p = i
      BY <2>12, <3>1
    <3> HIDE DEF ms, first, left
    <3>7. due + Tick <= ms * Tick
      BY <2>10, <3>2, <3>3, LaterIsMore DEF due
    <3>8. due + Tick <= first + Tick \div 2
      BY <2>10, <3>3, <3>7, LaterIsMore
    <3>9. 2 * due <= 2 * left + Tick
      BY <2>10, <3>3, <3>4, <3>5, <3>6, <3>8, HalfATick
    <3> QED
      BY <3>9 DEF left
  <2>13. Sorted(more)
    <3> SUFFICES ASSUME NEW i \in 1 .. Len(q) + 1, NEW j \in 1 .. Len(q) + 1, i < j
                 PROVE  2 * more[i].minLeft <= 2 * more[j].minLeft + Tick
      BY <2>6 DEF Sorted
    <3>1. CASE i # p /\ j # p
      <4>1. Closed(i, p) < Closed(j, p)
        BY <2>2, <3>1 DEF Closed
      <4> QED
        BY <2>6, <2>7, <2>8, <3>1, <4>1 DEF Sorted
    <3>2. CASE i = p
      <4>1. Closed(j, p) \in 1 .. Len(q) /\ p <= Closed(j, p)
        BY <2>2, <3>2 DEF Closed
      <4>2. more[i].minLeft = due
        BY <2>3, <2>5, <3>2 DEF due
      <4>3. more[j] = q[Closed(j, p)]
        BY <2>8, <3>2
      <4> QED
        BY <2>12, <4>1, <4>2, <4>3
    <3>3. CASE j = p
      <4>1. Closed(i, p) \in 1 .. Len(q) /\ Closed(i, p) < p
        BY <2>2, <3>3 DEF Closed
      <4>2. more[j].minLeft = due
        BY <2>3, <2>5, <3>3 DEF due
      <4>3. more[i] = q[Closed(i, p)]
        BY <2>8, <3>3
      <4> QED
        BY <2>11, <4>1, <4>2, <4>3
    <3> QED
      BY <3>1, <3>2, <3>3
  <2>14. Bounded(more)
    BY <2>4, <2>5, <2>6, <2>7, <2>8 DEF Bounded
  <2> QED
    BY <2>1, <2>13, <2>14
<1> QED
  BY <1>1, <1>2

LEMMA TailKeepsOrder ==
  ASSUME NEW q \in Seq(Entry), q # << >>, Sorted(q), Bounded(q)
  PROVE  Sorted(Tail(q)) /\ Bounded(Tail(q))
<1> DEFINE rest == Tail(q)
<1>1. /\ DOMAIN rest = 1 .. Len(q) - 1 /\ DOMAIN q = 1 .. Len(q) /\ Len(q) \in Nat
      /\ \A i \in 1 .. Len(q) - 1 : rest[i] = q[i + 1]
  OBVIOUS
<1> HIDE DEF rest
<1>2. \A i \in 1 .. Len(q) - 1 : i + 1 \in 1 .. Len(q)
  BY <1>1
<1>3. \A i, j \in 1 .. Len(q) - 1 : i < j => i + 1 < j + 1
  BY <1>1
<1>4. Sorted(rest)
  BY <1>1, <1>2, <1>3 DEF Sorted
<1>5. Bounded(rest)
  BY <1>1, <1>2 DEF Bounded
<1> QED
  BY <1>4, <1>5 DEF rest

(* Time passes for all alike.                                              *)
LEMMA PassKeepsOrder ==
  ASSUME timers \in Seq(Entry), Sorted(timers), Bounded(timers), Pass
  PROVE  Sorted(timers') /\ Bounded(timers')
<1>1. /\ timers' \in Seq(Entry) /\ Len(timers') = Len(timers)
      /\ \A i \in 1 .. Len(timers) : timers'[i] = Aged(timers[i])
  BY PassAges
<1>2. DOMAIN timers' = 1 .. Len(timers) /\ DOMAIN timers = 1 .. Len(timers)
  BY <1>1
<1>3. \A i \in 1 .. Len(timers) :
         /\ timers[i].minLeft \in Nat /\ timers[i].maxLeft \in Nat
         /\ timers'[i].minLeft = Less(timers[i].minLeft)
         /\ timers'[i].maxLeft = Less(timers[i].maxLeft)
  <2> SUFFICES ASSUME NEW i \in 1 .. Len(timers)
               PROVE  /\ timers[i].minLeft \in Nat /\ timers[i].maxLeft \in Nat
                      /\ timers'[i].minLeft = Less(timers[i].minLeft)
                      /\ timers'[i].maxLeft = Less(timers[i].maxLeft)
    OBVIOUS
  <2>1. timers[i] \in Entry
    OBVIOUS
  <2>2. timers'[i] = Aged(timers[i])
    BY <1>1
  <2>3. \A e : Aged(e).minLeft = Less(e.minLeft) /\ Aged(e).maxLeft = Less(e.maxLeft)
    BY DEF Aged
  <2>4. \A e \in Entry : e.minLeft \in Nat /\ e.maxLeft \in Nat
    BY DEF Entry
  <2> QED
    BY <2>1, <2>2, <2>3, <2>4
<1>4. \A a, b \in Nat : 2 * a <= 2 * b + Tick => 2 * Less(a) <= 2 * Less(b) + Tick
  BY ClockAssumption DEF Less
<1>5. Sorted(timers')
  BY <1>2, <1>3, <1>4 DEF Sorted
<1>6. \A a, b \in Nat : a <= b /\ b + Tick \div 2 < Word =>
         Less(a) <= Less(b) /\ Less(b) + Tick \div 2 < Word
  BY ClockAssumption DEF Less
<1>7. Bounded(timers')
  BY <1>2, <1>3, <1>6 DEF Bounded
<1> QED
  BY <1>5, <1>7

(* What a step may do to the list, but for the time that passes.           *)
LEMMA ListSteps ==
  ASSUME TimersInv, [Next]_vars, ~ Pass
  PROVE  \/ timers' = timers
         \/ timers # << >> /\ timers' = Tail(timers)
         \/ \E t \in Timer : timers' = Removed(t, timers)
         \/ \E t \in Timer : timers' = Added(t, timers, mTimes'[t])
         \/ \E t \in Timer : timers' = Added(t, Removed(t, timers), mTimes'[t])
<1>1. CASE UNCHANGED vars
  BY <1>1 DEF vars
<1>2. ASSUME NEW t \in Timer, Create(t) \/ Destroy(t) \/ Stop(t)
      PROVE  timers' = timers \/ timers' = Removed(t, timers)
  BY <1>2 DEF Create, Destroy, Stop
<1>3. ASSUME NEW t \in Timer, Starts(t)
      PROVE  \/ timers' = timers \/ timers' = Removed(t, timers)
             \/ timers' = Added(t, Removed(t, timers), mTimes'[t])
  <2>1. CASE Start(t)
    BY <2>1 DEF Start, Restart
  <2>2. CASE SetCallback(t)
    BY <2>2 DEF SetCallback, Restart
  <2>3. ASSUME NEW times \in Times, SetTimes(t, times)
        PROVE  \/ timers' = timers \/ timers' = Removed(t, timers)
               \/ timers' = Added(t, Removed(t, timers), mTimes'[t])
    BY <2>3 DEF SetTimes, Restart
  <2>4. ASSUME NEW times \in Times, NEW newCallBack \in BOOLEAN,
               StartWith(t, times, newCallBack)
        PROVE  \/ timers' = timers \/ timers' = Removed(t, timers)
               \/ timers' = Added(t, Removed(t, timers), mTimes'[t])
    BY <2>4 DEF StartWith, Restart
  <2> QED
    BY <1>3, <2>1, <2>2, <2>3, <2>4 DEF Starts
<1>4. CASE Wake \/ Call \/ LeaveLoop \/ EndDispatch
           \/ \E again \in BOOLEAN : Return(again)
  BY <1>4 DEF Wake, Call, LeaveLoop, EndDispatch, Return
<1>5. CASE Requeue
  <2>1. Head(requeue) \in Timer
    BY <1>5 DEF Requeue, TimersInv, TypeOK
  <2> QED
    BY <1>5, <2>1 DEF Requeue
<1> QED
  BY <1>1, <1>2, <1>3, <1>4, <1>5 DEF Next

LEMMA TimesSteps ==
  ASSUME TimersInv, [Next]_vars, TimesFit,
         \A t \in Timer : mTimes[t][1] <= mTimes[t][2] /\ Fits(mTimes[t][2])
  PROVE  \A t \in Timer : mTimes'[t][1] <= mTimes'[t][2] /\ Fits(mTimes'[t][2])
<1> DEFINE Good(pair) == pair[1] <= pair[2] /\ Fits(pair[2])
<1>1. Good(<<0, 0>>)
  BY DEF TimesFit
<1>2. \A times \in Times : Good(<<times[1], Larger(times[1], times[2])>>)
  <2> SUFFICES ASSUME NEW times \in Times
               PROVE  Good(<<times[1], Larger(times[1], times[2])>>)
    OBVIOUS
  <2>1. times[1] \in Nat /\ times[2] \in Nat
    BY TimesAssumption
  <2>2. /\ Larger(times[1], times[2]) \in {times[1], times[2]}
        /\ times[1] <= Larger(times[1], times[2])
    BY <2>1 DEF Larger
  <2>3. Fits(Larger(times[1], times[2]))
    BY <2>2 DEF TimesFit
  <2> QED
    BY <2>2, <2>3
<1>3. mTimes \in [Timer -> Nat \X Nat]
  BY DEF TimersInv, TypeOK
<1>4. \/ mTimes' = mTimes
      \/ \E t \in Timer : mTimes' = [mTimes EXCEPT ![t] = <<0, 0>>]
      \/ \E t \in Timer, times \in Times :
            mTimes' = [mTimes EXCEPT ![t] = <<times[1], Larger(times[1], times[2])>>]
  BY DEF Next, vars, Starts, Create, Destroy, Start, SetCallback, SetTimes,
         StartWith, Stop, Wake, Call, LeaveLoop, Requeue, EndDispatch, Return, Pass
<1> HIDE DEF Good
<1>5. \A t \in Timer : Good(mTimes'[t])
  <2>1. \A t \in Timer : Good(mTimes[t])
    BY DEF Good
  <2> QED
    BY <1>1, <1>2, <1>3, <1>4, <2>1
<1> QED
  BY <1>5 DEF Good

LEMMA OrderStep ==
  ASSUME TimesFit, TimersInv, OrderInv, [Next]_vars
  PROVE  OrderInv'
<1>1. /\ timers \in Seq(Entry) /\ EachOnce(timers)
      /\ mTimes' \in [Timer -> Nat \X Nat]
  BY InvListFits, TimersStep DEF ListFits, TimersInv, TypeOK
<1>2. \A t \in Timer : /\ mTimes'[t] \in Nat \X Nat
                       /\ mTimes'[t][1] <= mTimes'[t][2] /\ Fits(mTimes'[t][2])
  BY <1>1, TimesSteps DEF OrderInv
<1>3. Sorted(timers) /\ Bounded(timers)
  BY DEF OrderInv
<1>4. Sorted(timers') /\ Bounded(timers')
  <2>1. CASE Pass
    BY <1>1, <1>3, <2>1, PassKeepsOrder
  <2>2. CASE timers' = timers
    BY <1>3, <2>2
  <2>3. CASE timers # << >> /\ timers' = Tail(timers)
    BY <1>1, <1>3, <2>3, TailKeepsOrder
  <2>4. ASSUME NEW t \in Timer, timers' = Removed(t, timers)
        PROVE  Sorted(timers') /\ Bounded(timers')
    BY <1>1, <1>3, <2>4, RemovedKeepsOrder
  <2>5. ASSUME NEW t \in Timer, timers' = Added(t, timers, mTimes'[t])
        PROVE  Sorted(timers') /\ Bounded(timers')
    BY <1>1, <1>2, <1>3, <2>5, AddedKeepsOrder
  <2>6. ASSUME NEW t \in Timer, timers' = Added(t, Removed(t, timers), mTimes'[t])
        PROVE  Sorted(timers') /\ Bounded(timers')
    <3>1. Sorted(Removed(t, timers)) /\ Bounded(Removed(t, timers))
      BY <1>1, <1>3, RemovedKeepsOrder
    <3>2. Removed(t, timers) \in Seq(Entry)
      BY <1>1, RemovedTimers
    <3> QED
      BY <1>2, <2>6, <3>1, <3>2, AddedKeepsOrder
  <2> QED
    BY <2>1, <2>2, <2>3, <2>4, <2>5, <2>6, ListSteps
<1> QED
  BY <1>2, <1>4 DEF OrderInv, Sorted, Bounded

LEMMA OrderInitially ==
  ASSUME TimesFit, Init
  PROVE  OrderInv
<1>1. DOMAIN timers = {}
  BY DEF Init
<1>2. \A t \in Timer : mTimes[t] = <<0, 0>>
  BY DEF Init
<1> QED
  BY <1>1, <1>2 DEF OrderInv, TimesFit, Sorted, Bounded

THEOREM OrderInvariant == ASSUME TimesFit PROVE Spec => [](TimersInv /\ OrderInv)
<1>1. Init => TimersInv /\ OrderInv
  BY TimersInitially, OrderInitially
<1>2. TimersInv /\ OrderInv /\ [Next]_vars => (TimersInv /\ OrderInv)'
  BY TimersStep, OrderStep
<1> QED
  BY <1>1, <1>2, PTL DEF Spec

(* Times of up to 71 minutes: entries are compared rounded and never moved *)
(* again, yet the list stays sorted up to half a millisecond.              *)
THEOREM ListStaysSorted == ASSUME TimesFit PROVE Spec => []SortedUpToRounding
<1>1. OrderInv => SortedUpToRounding
  BY DEF OrderInv, Sorted, SortedUpToRounding
<1> QED
  BY <1>1, OrderInvariant, PTL

(* What sorted entries are once their times are rounded.                   *)
LEMMA RoundedOrder ==
  ASSUME NEW q \in Seq(Entry), Sorted(q), Bounded(q), NEW i \in 1 .. Len(q)
  PROVE  /\ MinLeft(q[i]) \in Nat /\ MaxLeft(q[i]) \in Nat
         /\ MinLeft(q[i]) <= MaxLeft(q[i])
         /\ \A k \in 1 .. i : MinLeft(q[k]) <= MinLeft(q[i]) + 1
<1>1. /\ DOMAIN q = 1 .. Len(q) /\ Tick \in Nat \ {0} /\ Word \in Nat
      /\ Tick \div 2 \in Nat
  BY ClockAssumption
<1>2. \A k \in 1 .. Len(q) : q[k].minLeft \in Nat /\ q[k].maxLeft \in Nat
  <2>1. \A k \in 1 .. Len(q) : q[k] \in Entry
    OBVIOUS
  <2> QED
    BY <2>1 DEF Entry
<1>3. \A k \in 1 .. Len(q) : /\ q[k].minLeft <= q[k].maxLeft
                             /\ q[k].minLeft + Tick \div 2 < Word
                             /\ q[k].maxLeft + Tick \div 2 < Word
  <2> DEFINE half == Tick \div 2
  <2>1. half \in Nat
    BY <1>1
  <2>2. \A k \in 1 .. Len(q) : q[k].minLeft <= q[k].maxLeft /\ q[k].maxLeft + half < Word
    BY <1>1 DEF Bounded
  <2> HIDE DEF half
  <2>3. \A k \in 1 .. Len(q) : /\ q[k].minLeft <= q[k].maxLeft
                               /\ q[k].minLeft + half < Word
                               /\ q[k].maxLeft + half < Word
    BY <1>1, <1>2, <2>1, <2>2
  <2> QED
    BY <2>3 DEF half
<1>4. ASSUME NEW k \in 1 .. Len(q)
      PROVE  /\ MinLeft(q[k]) \in Nat
             /\ MinLeft(q[k]) * Tick <= q[k].minLeft + Tick \div 2
             /\ q[k].minLeft + Tick \div 2 < (MinLeft(q[k]) + 1) * Tick
  BY <1>2, <1>3, Rounding DEF MinLeft
<1>5. /\ MaxLeft(q[i]) \in Nat
      /\ q[i].maxLeft + Tick \div 2 < (MaxLeft(q[i]) + 1) * Tick
  BY <1>2, <1>3, Rounding DEF MaxLeft
<1>6. MinLeft(q[i]) <= MaxLeft(q[i])
  <2> DEFINE min == MinLeft(q[i])
             max == MaxLeft(q[i])
             early == q[i].minLeft
             late == q[i].maxLeft
  <2>1. /\ min \in Nat /\ max \in Nat /\ early \in Nat /\ late \in Nat
        /\ early <= late /\ min * Tick <= early + Tick \div 2
        /\ late + Tick \div 2 < (max + 1) * Tick
    BY <1>2, <1>3, <1>4, <1>5
  <2> HIDE DEF min, max, early, late
  <2>2. ASSUME max < min
        PROVE  FALSE
    <3>1. (max + 1) * Tick <= min * Tick
      BY <2>1, <2>2, LaterIsMore
    <3>2. min * Tick \in Nat /\ (max + 1) * Tick \in Nat
      BY <2>1, LaterIsMore
    <3> QED
      BY <1>1, <2>1, <3>1, <3>2
  <2>3. min <= max
    BY <2>1, <2>2
  <2> QED
    BY <2>3 DEF min, max
<1>7. ASSUME NEW k \in 1 .. i
      PROVE  MinLeft(q[k]) <= MinLeft(q[i]) + 1
  <2> DEFINE a == MinLeft(q[k])
             b == MinLeft(q[i])
             left == q[k].minLeft
             later == q[i].minLeft
  <2>1. k \in 1 .. Len(q)
    OBVIOUS
  <2>2. /\ a \in Nat /\ b \in Nat /\ left \in Nat /\ later \in Nat
        /\ a * Tick <= left + Tick \div 2
        /\ later + Tick \div 2 < (b + 1) * Tick
    BY <1>2, <1>4, <2>1
  <2>3. 2 * left <= 2 * later + Tick
    <3>1. CASE k < i
      BY <1>1, <2>1, <3>1 DEF Sorted
    <3>2. CASE k = i
      BY <1>1, <1>2, <3>2
    <3> QED
      BY <3>1, <3>2
  <2> HIDE DEF a, b, left, later
  <2>4. ASSUME b + 1 < a
        PROVE  FALSE
    <3>1. (b + 1) * Tick + Tick <= a * Tick
      BY <2>2, <2>4, LaterIsMore
    <3>2. a * Tick \in Nat /\ (b + 1) * Tick \in Nat
      BY <2>2, LaterIsMore
    <3> DEFINE x == a * Tick
               y == (b + 1) * Tick
    <3>3. x \in Nat /\ y \in Nat /\ y + Tick <= x /\ x <= left + Tick \div 2
          /\ later + Tick \div 2 < y
      BY <2>2, <3>1, <3>2
    <3> HIDE DEF x, y
    <3> QED
      BY <1>1, <2>2, <2>3, <3>3, HalfATick
  <2>5. a <= b + 1
    BY <2>2, <2>4
  <2> QED
    BY <2>5 DEF a, b
<1> QED
  BY <1>4, <1>5, <1>6, <1>7

LEMMA LeastMaxFits ==
  ASSUME NEW q \in Seq(Entry), q # << >>, Sorted(q), Bounded(q), NEW n \in 0 .. Len(q)
  PROVE  LeastMax(q, n) \in Nat /\ \A j \in 1 .. n : LeastMax(q, n) <= MaxLeft(q[j])
<1> DEFINE S == {MaxLeft(q[j]) : j \in {1} \union 1 .. n}
<1>1. {1} \union 1 .. n \subseteq 1 .. Len(q)
  OBVIOUS
<1>2. S \in SUBSET Nat
  BY <1>1, RoundedOrder
<1>3. MaxLeft(q[1]) \in S
  OBVIOUS
<1>4. Min(S) \in S /\ \A y \in S : Min(S) <= y
  BY <1>2, <1>3, MinIsFirst
<1>5. LeastMax(q, n) = Min(S)
  BY DEF LeastMax
<1>6. \A j \in 1 .. n : MaxLeft(q[j]) \in S
  OBVIOUS
<1> QED
  BY <1>2, <1>4, <1>5, <1>6

LEMMA SleepFits ==
  ASSUME NEW q \in Seq(Entry), q # << >>, Sorted(q), Bounded(q), NEW i \in 1 .. Len(q)
  PROVE  Timeout(q) <= MaxLeft(q[i]) + 1
<1> DEFINE ends == {k \in DOMAIN q : MinLeft(q[k]) >= LeastMax(q, k - 1)}
           E == ends \union {Len(q) + 1}
           end == Min(E)
<1>1. E \in SUBSET Nat /\ E # {} /\ DOMAIN q = 1 .. Len(q) /\ Len(q) \in Nat
  OBVIOUS
<1>2. end \in E /\ \A y \in E : end <= y
  BY <1>1, MinIsFirst
<1>3. Timeout(q) = LeastMax(q, end - 1)
  BY DEF Timeout
<1>4. end \in 1 .. Len(q) + 1 /\ end - 1 \in 0 .. Len(q)
  BY <1>1, <1>2
<1>5. end \in 1 .. Len(q) => MinLeft(q[end]) >= LeastMax(q, end - 1)
  BY <1>1, <1>2
<1> HIDE DEF end
<1>6. /\ LeastMax(q, end - 1) \in Nat
      /\ \A j \in 1 .. end - 1 : LeastMax(q, end - 1) <= MaxLeft(q[j])
  BY <1>4, LeastMaxFits
<1>7. MinLeft(q[i]) \in Nat /\ MaxLeft(q[i]) \in Nat /\ MinLeft(q[i]) <= MaxLeft(q[i])
  BY RoundedOrder
<1>8. CASE i < end
  <2>1. i \in 1 .. end - 1
    BY <1>4, <1>8
  <2>2. LeastMax(q, end - 1) <= MaxLeft(q[i])
    BY <1>6, <2>1
  <2> QED
    BY <1>3, <1>6, <1>7, <2>2
<1>9. CASE ~ (i < end)
  <2>1. end \in 1 .. Len(q) /\ end \in 1 .. i
    BY <1>4, <1>9
  <2>2. MinLeft(q[end]) \in Nat /\ MinLeft(q[end]) <= MinLeft(q[i]) + 1
    BY <2>1, RoundedOrder
  <2> QED
    BY <1>3, <1>5, <1>6, <1>7, <2>1, <2>2
<1> QED
  BY <1>8, <1>9

(* The source wakes no later than any timer wants to be run, but for a     *)
(* millisecond of rounding, although prepare () looks at the front of the  *)
(* list only.                                                              *)
THEOREM SleepEndsInTime == ASSUME TimesFit PROVE Spec => []WakesInTime
<1>1. TimersInv /\ OrderInv => WakesInTime
  <2> SUFFICES ASSUME TimersInv, OrderInv, timers # << >>,
                      NEW i \in DOMAIN timers
               PROVE  Timeout(timers) <= MaxLeft(timers[i]) + 1
    BY DEF WakesInTime
  <2>1. timers \in Seq(Entry) /\ i \in 1 .. Len(timers)
    BY DEF TimersInv, TypeOK
  <2> QED
    BY <2>1, SleepFits DEF OrderInv
<1> QED
  BY <1>1, OrderInvariant, PTL

(* With times of up to 71 minutes no timer is called before its minTime,   *)
(* but for the rounding: the cast is the only reason why the wallpaper's   *)
(* longer ones are (MCTimers_wrap).                                        *)
THEOREM NeverEarlyUnlessCut == ASSUME TimesFit PROVE Spec => NeverEarly
<1> DEFINE InTime == Call => timers[1].minLeft <= Tick
<1>1. TimersInv /\ OrderInv => InTime
  <2> SUFFICES ASSUME TimersInv, OrderInv, Call
               PROVE  timers[1].minLeft <= Tick
    OBVIOUS
  <2>1. timers \in Seq(Entry) /\ 1 \in 1 .. Len(timers) /\ MinLeft(timers[1]) = 0
    BY DEF TimersInv, TypeOK, Call
  <2>2. timers[1].minLeft \in Nat /\ timers[1].maxLeft \in Nat
    <3>1. timers[1] \in Entry
      BY <2>1
    <3> QED
      BY <3>1 DEF Entry
  <2>3. timers[1].minLeft + Tick \div 2 < Word
    <3>1. /\ timers[1].minLeft <= timers[1].maxLeft
          /\ timers[1].maxLeft + Tick \div 2 < Word
      BY <2>1 DEF OrderInv, Bounded
    <3>2. Tick \div 2 \in Nat /\ Word \in Nat
      BY ClockAssumption
    <3> QED
      BY <2>2, <3>1, <3>2
  <2>4. timers[1].minLeft + Tick \div 2 < (0 + 1) * Tick
    BY <2>1, <2>2, <2>3, Rounding DEF MinLeft
  <2> QED
    BY <2>2, <2>4, ClockAssumption
<1>2. TimersInv /\ OrderInv /\ [Next]_vars => [InTime]_vars
  BY <1>1
<1> QED
  BY <1>2, OrderInvariant, PTL DEF Spec, NeverEarly
=============================================================================
