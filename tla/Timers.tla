------------------------------- MODULE Timers -------------------------------
(***************************************************************************)
(* Compiz's timers: CompTimer, TimeoutHandler and the glib source          *)
(* CompTimeoutSource that runs them (src/src/timer/src).                   *)
(*                                                                         *)
(* The handler keeps one list of started timers, ordered when a timer is   *)
(* inserted.  The source sleeps until a timer is due and then calls every  *)
(* timer that is due; a callback may start, stop, change, create or delete *)
(* any timer, its own too, and asks with its result to be run again.       *)
(* Those timers wait in a list local to the dispatch and go back into the  *)
(* handler's list at its end, so that one that is always due cannot keep   *)
(* the loop busy.                                                          *)
(*                                                                         *)
(* Time is what is left until the deadlines: the code compares deadlines   *)
(* with the clock only.  It is counted in units of which Tick make up a    *)
(* millisecond (microseconds in the code, so Tick is 1000 there), because  *)
(* the code rounds what is left to milliseconds when it compares.          *)
(***************************************************************************)
EXTENDS Naturals, Sequences, SequencesExt, FiniteSetsExt

CONSTANTS Timer,     \* the CompTimer objects
          NoTimer,
          Times,     \* the values setTimes is called with, <<min, max>> in ms
          Tick,      \* units of time in a millisecond
          Word,      \* 2^32: unsigned int holds numbers below it
          MaxRequeue \* bound: the length of callback ()'s local list, which
                     \* a callback that starts its own timer with no delay
                     \* and asks to be run again makes as long as it likes

ASSUME TimerAssumption == NoTimer \notin Timer
ASSUME TimesAssumption == Times \subseteq Nat \X Nat /\ Times # {}
ASSUME ClockAssumption == Tick \in Nat \ {0} /\ Word \in Nat \ {0}
ASSUME BoundAssumption == MaxRequeue \in Nat

VARIABLES
    timers,    \* TimeoutHandler::mTimers: entries with what is left of both
               \* deadlines, which addTimer sets
    mActive,   \* the timers whose mActive is true
    mTimes,    \* mMinTime and mMaxTime
    mCallBack, \* the timers that have a callback
    alive,     \* the timers that exist
    pc,        \* "poll" in the main loop, else inside callback ():
               \* "loop", "call" (a timer's callback runs), "requeue"
    current,   \* the timer whose callback runs
    requeue,   \* the local list of callback ()
    spent,     \* history: run in this dispatch and not started since
    stopped    \* history: stopped after its callback had asked to be run again,
               \* and not started since

vars == <<timers, mActive, mTimes, mCallBack, alive, pc, current, requeue,
          spent, stopped>>

history == <<spent, stopped>>

dispatch == <<pc, current, requeue>>

Entry == [timer : Timer, minLeft : Nat, maxLeft : Nat]

TypeOK ==
    /\ timers \in Seq(Entry)
    /\ alive \subseteq Timer
    /\ mActive \subseteq alive
    /\ mCallBack \subseteq alive
    /\ mTimes \in [Timer -> Nat \X Nat]
    /\ pc \in {"poll", "loop", "call", "requeue"}
    /\ current \in Timer \cup {NoTimer}
    /\ (current = NoTimer) <=> (pc # "call")
    /\ requeue \in Seq(Timer)
    /\ spent \subseteq Timer /\ stopped \subseteq Timer

Queued == {timers[i].timer : i \in DOMAIN timers}

-----------------------------------------------------------------------------
(* What is left, in milliseconds                                           *)

Larger(a, b) == IF a <= b THEN b ELSE a

(* (unsigned int) (deadline - now + 500) / 1000: the sum is cut to a word  *)
(* before it is divided.                                                   *)
InMilliseconds(left) == ((left + Tick \div 2) % Word) \div Tick

MinLeft(e) == InMilliseconds(e.minLeft)
MaxLeft(e) == InMilliseconds(e.maxLeft)

-----------------------------------------------------------------------------
(* TimeoutHandler                                                          *)

(* Mutant of Place: a timer goes before those that are due as soon.        *)
PlaceEager(q, min) ==
    Min({i \in DOMAIN q : min <= MinLeft(q[i])} \cup {Len(q) + 1})

(* Mutant of Place: a timer goes to the end of the list.                   *)
PlaceLast(q, min) == Len(q) + 1

(* Where addTimer inserts: before the first timer with more left.          *)
Place(q, min) ==
    Min({i \in DOMAIN q : min < MinLeft(q[i])} \cup {Len(q) + 1})

(* Mutant of Added: it is not looked up whether the timer is there.        *)
AddedTwice(t, q, times) ==
    InsertAt(q, Place(q, times[1]),
             [timer   |-> t,
              minLeft |-> times[1] * Tick,
              maxLeft |-> Larger(times[1], times[2]) * Tick])

(* addTimer: nothing happens to a timer that is already in the list.       *)
Added(t, q, times) ==
    IF \E i \in DOMAIN q : q[i].timer = t
    THEN q
    ELSE InsertAt(q, Place(q, times[1]),
                  [timer   |-> t,
                   minLeft |-> times[1] * Tick,
                   maxLeft |-> Larger(times[1], times[2]) * Tick])

(* removeTimer *)
Removed(t, q) ==
    LET places == {i \in DOMAIN q : q[i].timer = t}
    IN  IF places = {} THEN q ELSE RemoveAt(q, Min(places))

-----------------------------------------------------------------------------
(* CompTimer.  Timers are used by the handlers of X events between two     *)
(* dispatches and by the callbacks of timers.                              *)

MayCall == pc \in {"poll", "call"}

(* Stop t and, if it may run, start it with these times.                   *)
Restart(t, times, mayRun) ==
    LET rest == Removed(t, timers)
    IN  /\ timers' = IF mayRun THEN Added(t, rest, times) ELSE rest
        /\ mActive' = IF mayRun THEN mActive \cup {t} ELSE mActive \ {t}
        /\ spent' = IF mayRun THEN spent \ {t} ELSE spent
        /\ stopped' = IF mayRun THEN stopped \ {t} ELSE stopped

(* new CompTimer *)
Create(t) ==
    /\ MayCall
    /\ t \notin alive
    /\ alive' = alive \cup {t}
    /\ UNCHANGED <<timers, mActive, mTimes, mCallBack, dispatch, history>>

(* Mutant of Destroy: the destructor leaves the timer in the list.         *)
DestroyQueued(t) ==
    /\ MayCall
    /\ t \in alive
    /\ t # current /\ t \notin ToSet(requeue)
    /\ alive' = alive \ {t}
    /\ mCallBack' = mCallBack \ {t}
    /\ mTimes' = [mTimes EXCEPT ![t] = <<0, 0>>]
    /\ UNCHANGED <<timers, mActive, dispatch, history>>

(* ~CompTimer.  The owner does not delete a timer that is running or waits *)
(* to be put back: the dispatch would use it after it was freed.           *)
Destroy(t) ==
    /\ MayCall
    /\ t \in alive
    /\ t # current /\ t \notin ToSet(requeue)
    /\ timers' = Removed(t, timers)
    /\ alive' = alive \ {t}
    /\ mActive' = mActive \ {t}
    /\ mCallBack' = mCallBack \ {t}
    /\ mTimes' = [mTimes EXCEPT ![t] = <<0, 0>>]
    /\ spent' = spent \ {t} /\ stopped' = stopped \ {t}
    /\ UNCHANGED dispatch

(* setTimes: an active timer starts again with the new times.              *)
SetTimes(t, times) ==
    /\ MayCall
    /\ t \in alive
    /\ mTimes' = [mTimes EXCEPT ![t] = <<times[1], Larger(times[1], times[2])>>]
    /\ IF t \in mActive
       THEN Restart(t, mTimes'[t], t \in mCallBack)
       ELSE UNCHANGED <<timers, mActive, history>>
    /\ UNCHANGED <<mCallBack, alive, dispatch>>

(* setCallback *)
SetCallback(t) ==
    /\ MayCall
    /\ t \in alive
    /\ mCallBack' = mCallBack \cup {t}
    /\ IF t \in mActive
       THEN Restart(t, mTimes[t], TRUE)
       ELSE UNCHANGED <<timers, mActive, history>>
    /\ UNCHANGED <<mTimes, alive, dispatch>>

(* start (): without a callback the timer is only stopped.                 *)
Start(t) ==
    /\ MayCall
    /\ t \in alive
    /\ Restart(t, mTimes[t], t \in mCallBack)
    /\ UNCHANGED <<mTimes, mCallBack, alive, dispatch>>

(* start (min, max), and start (callback, min, max) with newCallBack       *)
StartWith(t, times, newCallBack) ==
    /\ MayCall
    /\ t \in alive
    /\ mTimes' = [mTimes EXCEPT ![t] = <<times[1], Larger(times[1], times[2])>>]
    /\ mCallBack' = IF newCallBack THEN mCallBack \cup {t} ELSE mCallBack
    /\ Restart(t, mTimes'[t], t \in mCallBack')
    /\ UNCHANGED <<alive, dispatch>>

(* stop () *)
Stop(t) ==
    /\ MayCall
    /\ t \in alive
    /\ timers' = Removed(t, timers)
    /\ mActive' = mActive \ {t}
    /\ stopped' = IF t \in ToSet(requeue) THEN stopped \cup {t} ELSE stopped
    /\ UNCHANGED <<mTimes, mCallBack, alive, dispatch, spent>>

-----------------------------------------------------------------------------
(* CompTimeoutSource                                                       *)

(* The least maxLeft of the first timer and the first n ones.              *)
LeastMax(q, n) == Min({MaxLeft(q[j]) : j \in {1} \cup 1..n})

(* Mutant of Timeout: only the first timer is looked at.                   *)
TimeoutFirst(q) == MaxLeft(q[1])

(* prepare (): how long to sleep when the first of the timers q is not due *)
(* yet.  The scan ends at a timer that cannot be due before that.          *)
Timeout(q) ==
    LET ends == {k \in DOMAIN q : MinLeft(q[k]) >= LeastMax(q, k - 1)}
    IN  LeastMax(q, Min(ends \cup {Len(q) + 1}) - 1)

(* check (): the first timer is due.  With an empty list prepare () says   *)
(* at once that there is something to do, and the dispatch does nothing.   *)
Ready == timers # <<>> => MinLeft(timers[1]) = 0

Wake ==
    /\ pc = "poll"
    /\ Ready
    /\ pc' = "loop"
    /\ UNCHANGED <<timers, mActive, mTimes, mCallBack, alive, current, requeue, history>>

(* The loop of callback (): take the first timer while it is due.          *)
Call ==
    /\ pc = "loop"
    /\ timers # <<>> /\ MinLeft(timers[1]) = 0
    /\ current' = timers[1].timer
    /\ timers' = Tail(timers)
    /\ mActive' = mActive \ {current'}
    /\ spent' = spent \cup {current'}
    /\ pc' = "call"
    /\ UNCHANGED <<mTimes, mCallBack, alive, requeue, stopped>>

(* Mutant of Return: the timer goes back into the list at once.            *)
ReturnRequeued(again) ==
    /\ pc = "call"
    /\ timers' = IF again THEN Added(current, timers, mTimes[current]) ELSE timers
    /\ mActive' = IF again THEN mActive \cup {current} ELSE mActive
    /\ current' = NoTimer
    /\ pc' = "loop"
    /\ UNCHANGED <<mTimes, mCallBack, alive, requeue, history>>

(* The callback returns whether the timer is to run again.                 *)
Return(again) ==
    /\ pc = "call"
    /\ again => Len(requeue) < MaxRequeue
    /\ requeue' = IF again THEN Append(requeue, current) ELSE requeue
    /\ current' = NoTimer
    /\ pc' = "loop"
    /\ UNCHANGED <<timers, mActive, mTimes, mCallBack, alive, history>>

LeaveLoop ==
    /\ pc = "loop"
    /\ timers # <<>> => MinLeft(timers[1]) > 0
    /\ pc' = "requeue"
    /\ UNCHANGED <<timers, mActive, mTimes, mCallBack, alive, current, requeue, history>>

(* One round of the second loop: addTimer and setActive (true).            *)
Requeue ==
    /\ pc = "requeue"
    /\ requeue # <<>>
    /\ LET t == Head(requeue)
       IN  /\ timers' = Added(t, timers, mTimes[t])
           /\ mActive' = mActive \cup {t}
           /\ spent' = spent \ {t}
    /\ requeue' = Tail(requeue)
    /\ UNCHANGED <<mTimes, mCallBack, alive, pc, current, stopped>>

EndDispatch ==
    /\ pc = "requeue"
    /\ requeue = <<>>
    /\ pc' = "poll"
    /\ spent' = {} /\ stopped' = {}
    /\ UNCHANGED <<timers, mActive, mTimes, mCallBack, alive, current, requeue>>

-----------------------------------------------------------------------------

Less(left) == IF left = 0 THEN 0 ELSE left - 1

(* Time passes, wherever the program is.                                   *)
Pass ==
    /\ timers' = [i \in DOMAIN timers |->
                    [timers[i] EXCEPT !.minLeft = Less(@), !.maxLeft = Less(@)]]
    /\ UNCHANGED <<mActive, mTimes, mCallBack, alive, dispatch, history>>

Init ==
    /\ timers = <<>>
    /\ mActive = {} /\ mCallBack = {} /\ alive = {}
    /\ mTimes = [t \in Timer |-> <<0, 0>>]
    /\ pc = "poll" /\ current = NoTimer /\ requeue = <<>>
    /\ spent = {} /\ stopped = {}

(* The calls after which t is in the list with its full times.             *)
Starts(t) ==
    \/ Start(t)
    \/ SetCallback(t)
    \/ \E times \in Times : SetTimes(t, times)
    \/ \E times \in Times, newCallBack \in BOOLEAN : StartWith(t, times, newCallBack)

Next ==
    \/ \E t \in Timer : Create(t) \/ Destroy(t) \/ Starts(t) \/ Stop(t)
    \/ Wake \/ Call \/ LeaveLoop \/ Requeue \/ EndDispatch
    \/ \E again \in BOOLEAN : Return(again)
    \/ Pass

Spec == Init /\ [][Next]_vars

(* The main loop runs, callbacks return and time passes.                   *)
Fairness ==
    /\ WF_vars(Wake) /\ WF_vars(Call) /\ WF_vars(LeaveLoop)
    /\ WF_vars(Requeue) /\ WF_vars(EndDispatch)
    /\ WF_vars(\E again \in BOOLEAN : Return(again))
    /\ WF_vars(Pass)

FairSpec == Spec /\ Fairness

-----------------------------------------------------------------------------
(* Properties                                                              *)

(* The active timers are the ones in the list, each once, and each has a   *)
(* callback: active () tells the truth whatever callbacks do to timers     *)
(* while the list is being run, and no timer is called twice for one start.*)
QueueExact ==
    /\ \A i, j \in DOMAIN timers : timers[i].timer = timers[j].timer => i = j
    /\ mActive = Queued
    /\ Queued \subseteq mCallBack

(* The list is looked at from the front only.  It stays sorted by what is  *)
(* left until minTime, up to half a millisecond of rounding, although      *)
(* entries are never moved and are compared rounded.                       *)
SortedUpToRounding ==
    \A i, j \in DOMAIN timers :
        i < j => 2 * timers[i].minLeft <= 2 * timers[j].minLeft + Tick

(* A timer runs once in a dispatch unless somebody starts it again: a      *)
(* callback that asks to be run again at once cannot keep the loop from    *)
(* returning to the X events.                                              *)
OncePerDispatch == pc # "poll" => spent \cap Queued = {}

(* prepare () never sleeps past the time by which a timer wants to be run, *)
(* but for a millisecond of rounding.                                      *)
WakesInTime ==
    timers # <<>> /\ ~ Ready =>
        \A i \in DOMAIN timers : Timeout(timers) <= MaxLeft(timers[i]) + 1

(* A timer that stays started is run, whatever the other timers do.        *)
StartedRuns ==
    \A t \in Timer : []<>(t \notin Queued) \/ []<><<Starts(t)>>_vars

(* "Stops this timer. After this the timer should not be active() and it's *)
(* CallBack shouldn't be invoked." (core/timer.h:133)                      *)
StopStops == stopped \cap mActive = {}

(* "Timeout before cycling to the next wallpaper (in minutes)", up to 1440 *)
(* (plugins/wallpaper/wallpaper.xml.in): no timer is called while          *)
(* more than a millisecond of its minTime is left.                         *)
NeverEarly == [][Call => timers[1].minLeft <= Tick]_vars

=============================================================================
