----------------------------- MODULE WrapChain -----------------------------
(***************************************************************************)
(* The chain of plugins in front of one wrapable function                  *)
(* (src/include/core/wrapsystem.h).                                        *)
(*                                                                         *)
(* A class such as CompScreen keeps the interfaces of the plugins that     *)
(* wrap it.  Calling a wrapable function runs the first enabled wrapper;   *)
(* the wrapper calls the same function again to pass the call on, and at   *)
(* the end of the chain the class's own function, the base, runs.  The     *)
(* only memory of how far a call got is mCurrFunction, one index for the   *)
(* function, which every call advances and must put back.  Wrappers may    *)
(* pass a call on several times, not at all, or while they or others are   *)
(* enabled or disabled.                                                    *)
(***************************************************************************)
EXTENDS Naturals, Sequences, SequencesExt, FiniteSetsExt

CONSTANTS
    Wrappers,  \* the interface objects of plugins
    Base,      \* stands for the class's own function
    MaxDepth   \* bound: calls in progress at once

ASSUME ChainAssumption == Base \notin Wrappers /\ MaxDepth \in Nat \ {0}

VARIABLES
    interface,  \* mInterface, first the wrapper registered last
    enabled,    \* the wrappers whose Interface::enabled is set
    current,    \* mCurrFunction: the wrappers a call made now passes over
    calls       \* the calls in progress, the innermost last; due and seen
                \* are history: who had to hear of the outermost call, who did

chainVars == <<interface, enabled, current, calls>>

Call == [who : Wrappers \union {Base}, saved : Nat,
         due : SUBSET Wrappers, seen : SUBSET Wrappers]

ChainTypeOK ==
    /\ interface \in Seq(Wrappers) /\ IsInjective(interface)
    /\ enabled \subseteq ToSet(interface)
    /\ current \in 0 .. Cardinality(Wrappers)
    /\ calls \in Seq(Call) /\ Len(calls) <= MaxDepth

ChainInit ==
    /\ interface = << >> /\ enabled = {}
    /\ current = 0 /\ calls = << >>

-----------------------------------------------------------------------------
(* setHandler: registerWrap puts the wrapper in front, after               *)
(* unregisterWrap has taken it out, if it was in.  Plugins do so from      *)
(* initScreen, finiScreen and the event loop's update of the plugin list,  *)
(* when no call of a screen's functions is in progress, and for a new or a *)
(* dying window, of which no call is in progress either.                   *)

Erased(w) ==
    IF w \in ToSet(interface)
    THEN RemoveAt(interface, CHOOSE i \in DOMAIN interface : interface[i] = w)
    ELSE interface

(* Mutant of SetHandler: the wrapper is not unregistered first.            *)
SetHandlerTwice(w, enable) ==
    /\ calls = << >>
    /\ interface' = <<w>> \o interface
    /\ enabled' = IF enable THEN enabled \union {w} ELSE enabled \ {w}
    /\ UNCHANGED <<current, calls>>

SetHandler(w, enable) ==
    /\ calls = << >>
    /\ interface' = <<w>> \o Erased(w)
    /\ enabled' = IF enable THEN enabled \union {w} ELSE enabled \ {w}
    /\ UNCHANGED <<current, calls>>

UnregisterWrap(w) ==
    /\ calls = << >>
    /\ w \in ToSet(interface)
    /\ interface' = Erased(w)
    /\ enabled' = enabled \ {w}
    /\ UNCHANGED <<current, calls>>

(* functionSetEnabled, from anywhere.  A wrapper that does not override    *)
(* the function (WRAPABLE_DEF) disables itself and passes the call on.     *)
(* Who is disabled meanwhile need not hear of the calls in progress.       *)
FunctionSetEnabled(w, enable) ==
    /\ w \in ToSet(interface)
    /\ (w \in enabled) # enable
    /\ IF enable
       THEN enabled' = enabled \union {w} /\ UNCHANGED calls
       ELSE /\ enabled' = enabled \ {w}
            /\ calls' = [i \in DOMAIN calls |->
                            [calls[i] EXCEPT !.due = @ \ {w}]]
    /\ UNCHANGED <<interface, current>>

-----------------------------------------------------------------------------
(* WRAPABLE_HND_FUNCTN: the wrappers from the index on that are enabled.   *)
Waiting == {i \in current + 1 .. Len(interface) : interface[i] \in enabled}

Due == IF calls = << >> THEN enabled ELSE Last(calls).due

Seen == IF calls = << >> THEN {} ELSE Last(calls).seen

(* A wrapper runs with the index one past its own; the index on entry is   *)
(* in the caller's local variable curr.                                    *)
RunsWrapper ==
    LET next == Min(Waiting)
    IN  /\ Waiting # {}
        /\ current' = next
        /\ calls' = Append(calls,
              [who |-> interface[next], saved |-> current,
               due |-> Due, seen |-> Seen \union {interface[next]}])

(* Mutant of RunsBase: the index stays at the end of the vector.           *)
RunsBaseAtEnd ==
    /\ Waiting = {}
    /\ calls' = Append(calls,
          [who |-> Base, saved |-> current, due |-> Due, seen |-> Seen])
    /\ current' = Len(interface)

(* The base runs with the index put back to what it was on entry.          *)
RunsBase ==
    /\ Waiting = {}
    /\ calls' = Append(calls,
          [who |-> Base, saved |-> current, due |-> Due, seen |-> Seen])
    /\ UNCHANGED current

(* Someone calls the function: nobody wrapping it is running, or the       *)
(* innermost wrapper or the base does.  That wrapper passes the call on    *)
(* or makes a call of its own, which the code cannot tell apart.           *)
CallFunction ==
    /\ Len(calls) < MaxDepth
    /\ RunsWrapper \/ RunsBase
    /\ UNCHANGED <<interface, enabled>>

ReturnFromCall ==
    /\ calls # << >>
    /\ calls' = Front(calls)
    /\ current' = IF Last(calls).who = Base THEN current ELSE Last(calls).saved
    /\ UNCHANGED <<interface, enabled>>

ChainNext ==
    \/ \E w \in Wrappers, enable \in BOOLEAN :
          SetHandler(w, enable) \/ FunctionSetEnabled(w, enable)
    \/ \E w \in Wrappers : UnregisterWrap(w)
    \/ CallFunction
    \/ ReturnFromCall

ChainSpec == ChainInit /\ [][ChainNext]_chainVars

-----------------------------------------------------------------------------
(* The index always stands right after the innermost wrapper that is       *)
(* running, and at the front when none is.                                 *)
Running == {i \in DOMAIN calls : calls[i].who # Base}

PassesToTheRest ==
    /\ Running = {} => current = 0
    /\ \A i \in Running :
          (\A j \in Running : j <= i) =>
              current \in DOMAIN interface /\ interface[current] = calls[i].who

(* The base runs only after every wrapper that was enabled when the        *)
(* outermost call was made, and has not been disabled since, has heard of  *)
(* the call; and whatever calls and returns went before, with wrappers     *)
(* enabled and disabled among them, a call made now goes to the rest of    *)
(* the chain, or to all of it.                                             *)
HeardByAll ==
    /\ PassesToTheRest
    /\ \A i \in DOMAIN calls : calls[i].who = Base => calls[i].due \subseteq calls[i].seen
=============================================================================
