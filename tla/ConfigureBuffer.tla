--------------------------- MODULE ConfigureBuffer ---------------------------
(***************************************************************************)
(* The per-window buffer of XConfigureWindow requests                      *)
(* (src/src/configurerequestbuffer.cpp).                                   *)
(*                                                                         *)
(* Plugins that draw the window (opengl, move) obtain a lock on the buffer *)
(* so that the window moves on the server in the same frame in which it is *)
(* painted.  While a lock is armed, requests that do not change what is    *)
(* drawn are collected; the last armed lock to be released sends them, and *)
(* every dispatch arms again the locks that are still alive.  The buffer   *)
(* knows its locks through weak pointers only.                             *)
(*                                                                         *)
(* The code is single threaded and a dispatch calls nothing that comes     *)
(* back into the buffer, so a call is one action.                          *)
(***************************************************************************)
EXTENDS Naturals, FiniteSets

CONSTANTS Locks,    \* lock objects; each is handed out by obtainLock once
          Targets,  \* the windows a request can be for
          Fields,   \* the groups of XWindowChanges fields
          Values    \* what a field can be set to

ASSUME TargetsAssumption == Targets \subseteq {"frame", "wrapper", "client"}
ASSUME FieldsAssumption  == Fields \subseteq {"position", "size", "stack"}
ASSUME ValuesAssumption  == Values # {}

VARIABLES
    changes,    \* frameChanges, wrapperChanges, clientChanges
    changeMask, \* frameChangeMask, wrapperChangeMask, clientChangeMask
    sendSyntheticConfigure,
    lockCount,
    locks,      \* the locks vector: locks ever tracked, expired ones included
    alive,      \* locks whose holder still has the shared pointer
    armed,      \* locks whose armed flag is set
    server,     \* the configuration the X server was last asked for
    requested   \* history: what the callers last asked for, field by field

vars == <<changes, changeMask, sendSyntheticConfigure, lockCount, locks,
          alive, armed, server, requested>>

requests == <<changes, changeMask, sendSyntheticConfigure>>

TypeOK ==
    /\ changes \in [Targets -> [Fields -> Values]]
    /\ changeMask \in [Targets -> SUBSET Fields]
    /\ sendSyntheticConfigure \in BOOLEAN
    /\ lockCount \in Nat
    /\ locks \subseteq Locks /\ IsFiniteSet(locks)
    /\ alive \subseteq Locks
    /\ armed \subseteq Locks
    /\ server \in [Targets -> [Fields -> Values]]
    /\ requested \in [Targets -> [Fields -> Values]]

(* The server starts with the geometry the window was created with; the    *)
(* XWindowChanges members are not read before a mask bit is set.           *)
Init ==
    /\ changes \in [Targets -> [Fields -> Values]]
    /\ changeMask = [t \in Targets |-> {}]
    /\ sendSyntheticConfigure = FALSE
    /\ lockCount = 0
    /\ locks = {} /\ alive = {} /\ armed = {}
    /\ server = changes
    /\ requested = changes

-----------------------------------------------------------------------------
(* dispatchConfigure                                                       *)

(* Changes that may not wait, because the shape that is drawn depends on   *)
(* them or because a restack has to keep its place among other restacks.   *)
Immediate(t, f) ==
    IF t = "frame" THEN f \in {"size", "stack"} ELSE f \in {"size", "position"}

(* Does dispatchConfigure get past its condition, with the masks m, the    *)
(* synthetic flag syn and the lock count n?                                *)
Dispatches(force, m, syn, n) ==
    \/ force
    \/ \E t \in Targets : \E f \in m[t] : Immediate(t, f)
    \/ n = 0 /\ (syn \/ \E t \in Targets : m[t] # {})

(* What the server is asked for once the requests c under masks m are out. *)
Configured(c, m) ==
    [t \in Targets |->
        [f \in Fields |-> IF f \in m[t] THEN c[t][f] ELSE server[t][f]]]

(* Mutant of Relocked: a dispatch does not arm the locks again.            *)
RelockedNone(live) == {}

(* The locks the loop at the end of a dispatch arms: lock () does nothing  *)
(* on an armed lock, and a weak pointer to a dead one yields no lock.      *)
Relocked(live) == (locks \cap live) \ armed

(* dispatchConfigure over the requests c, m, syn, with n counted locks and *)
(* the locks of live reachable through the weak pointers; the released     *)
(* locks clear their flag after the dispatch, not before.                  *)
DispatchConfigure(force, c, m, syn, n, live, released) ==
    LET out     == Dispatches(force, m, syn, n)
        rearmed == IF out THEN Relocked(live) ELSE {}
    IN  /\ changes' = c
        /\ changeMask' = IF out THEN [t \in Targets |-> {}] ELSE m
        /\ sendSyntheticConfigure' = (syn /\ ~ out)
        /\ server' = IF out THEN Configured(c, m) ELSE server
        /\ lockCount' = n + Cardinality(rearmed)
        /\ armed' = (armed \cup rearmed) \ released

-----------------------------------------------------------------------------
(* The Buffer interface                                                    *)

(* applyChangeToXWC: only the fields of the mask are taken from xwc.       *)
Applied(c, t, mask, xwc) ==
    [c EXCEPT ![t] = [f \in Fields |-> IF f \in mask THEN xwc[f] ELSE @[f]]]

(* Mutant of PushRequest: the mask of what is waiting is overwritten.      *)
PushRequestMask(t, mask, xwc) ==
    /\ UNCHANGED <<locks, alive>>
    /\ requested' = Applied(requested, t, mask, xwc)
    /\ DispatchConfigure(FALSE, Applied(changes, t, mask, xwc),
                         [changeMask EXCEPT ![t] = mask],
                         sendSyntheticConfigure, lockCount, alive, {})

(* Mutant of PushRequest: the whole of xwc replaces what is waiting.       *)
PushRequestWhole(t, mask, xwc) ==
    /\ UNCHANGED <<locks, alive>>
    /\ requested' = Applied(requested, t, mask, xwc)
    /\ DispatchConfigure(FALSE, [changes EXCEPT ![t] = xwc],
                         [changeMask EXCEPT ![t] = @ \cup mask],
                         sendSyntheticConfigure, lockCount, alive, {})

(* pushFrameRequest, pushWrapperRequest, pushClientRequest: xwc is merged  *)
(* over what is already waiting, field by field.                           *)
PushRequest(t, mask, xwc) ==
    /\ UNCHANGED <<locks, alive>>
    /\ requested' = Applied(requested, t, mask, xwc)
    /\ DispatchConfigure(FALSE, Applied(changes, t, mask, xwc),
                         [changeMask EXCEPT ![t] = @ \cup mask],
                         sendSyntheticConfigure, lockCount, alive, {})

PushSyntheticConfigureNotify ==
    /\ UNCHANGED <<locks, alive, requested>>
    /\ DispatchConfigure(FALSE, changes, changeMask, TRUE, lockCount, alive, {})

(* forceRelease and the three queries, which flush before they ask.        *)
ForceRelease ==
    /\ UNCHANGED <<locks, alive, requested>>
    /\ DispatchConfigure(TRUE, changes, changeMask, sendSyntheticConfigure,
                         lockCount, alive, {})

(* obtainLock: the lock is tracked, then armed, which freezes the buffer.  *)
ObtainLock(l) ==
    /\ l \notin locks
    /\ locks' = locks \cup {l}
    /\ alive' = alive \cup {l}
    /\ armed' = armed \cup {l}
    /\ lockCount' = lockCount + 1
    /\ UNCHANGED <<requests, server, requested>>

-----------------------------------------------------------------------------
(* ConfigureBufferLock::release and its destructor                         *)

(* Mutant of ReleaseLock: the armed flag is not looked at.                 *)
ReleaseLockAlways(l) ==
    /\ l \in alive
    /\ UNCHANGED <<locks, alive, requested>>
    /\ DispatchConfigure(FALSE, changes, changeMask, sendSyntheticConfigure,
                         lockCount - 1, alive, {l})

(* Mutant of ReleaseLock: the count goes down and nothing is dispatched.   *)
ReleaseLockQuietly(l) ==
    /\ l \in alive \cap armed
    /\ lockCount' = lockCount - 1
    /\ armed' = armed \ {l}
    /\ UNCHANGED <<requests, locks, alive, server, requested>>

(* The holder releases a lock it keeps.  Without the armed flag the call   *)
(* does nothing.                                                           *)
ReleaseLock(l) ==
    /\ l \in alive \cap armed
    /\ UNCHANGED <<locks, alive, requested>>
    /\ DispatchConfigure(FALSE, changes, changeMask, sendSyntheticConfigure,
                         lockCount - 1, alive, {l})

(* Mutant of DestroyLock: the destructor does not release.                 *)
DestroyLockArmed(l) ==
    /\ l \in alive
    /\ alive' = alive \ {l}
    /\ armed' = armed \ {l}
    /\ UNCHANGED <<requests, locks, lockCount, server, requested>>

(* The holder drops its pointer: the weak pointer of the buffer is expired *)
(* before the destructor releases, and untrackLock is not called.          *)
DestroyLock(l) ==
    /\ l \in alive
    /\ alive' = alive \ {l}
    /\ UNCHANGED <<locks, requested>>
    /\ IF l \in armed
       THEN DispatchConfigure(FALSE, changes, changeMask,
                              sendSyntheticConfigure, lockCount - 1,
                              alive \ {l}, {l})
       ELSE UNCHANGED <<requests, lockCount, armed, server>>

Next ==
    \/ \E t \in Targets, mask \in (SUBSET Fields) \ {{}},
          xwc \in [Fields -> Values] : PushRequest(t, mask, xwc)
    \/ PushSyntheticConfigureNotify
    \/ ForceRelease
    \/ \E l \in Locks : ObtainLock(l)
    \/ \E l \in Locks : ReleaseLock(l)
    \/ \E l \in Locks : DestroyLock(l)

Spec == Init /\ [][Next]_vars

(* The holders of locks are live: opengl releases its lock whenever it     *)
(* paints the window, and move drops its lock when the grab ends.          *)
HoldersLetGo ==
    \A l \in Locks : WF_vars(ReleaseLock(l) \/ (l \in armed /\ DestroyLock(l)))

FairSpec == Spec /\ HoldersLetGo

-----------------------------------------------------------------------------
(* Properties                                                              *)

(* The freeze count is the number of locks that are armed, and only locks  *)
(* that somebody still holds are armed.  A lock that died or was re-armed  *)
(* without keeping the count would leave the requests of the window held   *)
(* for ever, or trip the two assertions in freeze and release.             *)
LockCountExact ==
    /\ armed \subseteq alive
    /\ alive \subseteq locks
    /\ lockCount = Cardinality(armed)

(* A request is only ever held by an armed lock, and only a request that   *)
(* does not change what is drawn: nothing is forgotten in the buffer when  *)
(* the last lock goes away, in whatever order locks and requests come.     *)
HeldByLock ==
    /\ lockCount = 0 =>
         ~ sendSyntheticConfigure /\ \A t \in Targets : changeMask[t] = {}
    /\ \A t \in Targets : \A f \in changeMask[t] : ~ Immediate(t, f)

(* What is on the server plus what is waiting is what was asked for last,  *)
(* field by field, however pushes, dispatches and releases are mixed: the  *)
(* merge of applyChangeToXWC loses no request and revives no older one.    *)
NothingForgotten == requested = Configured(changes, changeMask)

Service == INSTANCE ConfigureService
              WITH wanted <- requested,
                   asked  <- server,
                   owed   <- sendSyntheticConfigure,
                   held   <- (lockCount > 0),
                   Urgent <- Immediate

(* The buffer keeps the promise of ConfigureService: no request is lost,   *)
(* overwritten by an older one or sent in part, and none is deferred       *)
(* without an armed lock.                                                  *)
ServiceSpec == Service!Spec

(* Once the server was asked for what was waiting, every lock that is      *)
(* still alive is armed again, except the one whose release did it: the    *)
(* other painters need not ask again.                                      *)
DispatchRearmsOthers ==
    [][\A t \in Targets :
          changeMask[t] # {} /\ changeMask'[t] = {}
             => \A l \in alive' \ armed' : l \in armed]_vars

(* "Rearm locks on release" (tests/test_configurerequestbuffer.cpp:482):   *)
(* a release that sends what was waiting leaves the released lock armed.   *)
RearmedOnRelease ==
    [][\A l \in alive' :
          l \in armed /\ changeMask # [t \in Targets |-> {}]
             /\ changeMask' = [t \in Targets |-> {}]
             => l \in armed']_vars

(* Whatever is held is sent eventually, if the holders let go: re-arming   *)
(* the locks at each dispatch never starves a request.                     *)
HeldIsSent ==
    \A t \in Targets : \A f \in Fields :
        f \in changeMask[t] ~> f \notin changeMask[t]

=============================================================================
