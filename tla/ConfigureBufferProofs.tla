------------------------ MODULE ConfigureBufferProofs ------------------------
(***************************************************************************)
(* Theorems about ConfigureBuffer for any locks, targets, fields and       *)
(* values.  Every action but ObtainLock goes through DispatchConfigure, so *)
(* the invariant is proved once for a dispatch (DispatchKeepsInv) and each *)
(* action only has to meet its hypotheses.                                 *)
(***************************************************************************)
EXTENDS ConfigureBuffer, FiniteSetTheorems, TLAPS

Configurations == [Targets -> [Fields -> Values]]

(* What the server will be asked for once what is waiting is sent.         *)
Wanted == Configured(changes, changeMask)

(* LockCountExact is not inductive without the finiteness of locks in      *)
(* TypeOK; HeldByLock needs the exact count, and NothingForgotten both.    *)
IInv == TypeOK /\ LockCountExact /\ HeldByLock /\ NothingForgotten

LEMMA WantedType ==
  ASSUME TypeOK
  PROVE  Wanted \in Configurations /\ server \in Configurations
BY DEF TypeOK, Wanted, Configured, Configurations

ServerCaughtUp == server' = Wanted' /\ sendSyntheticConfigure' = FALSE

Deferred(m, syn, n) ==
    /\ n > 0 /\ lockCount' = n
    /\ UNCHANGED server
    /\ sendSyntheticConfigure' = syn
    /\ \A t \in Targets : \A f \in m[t] : ~ Immediate(t, f)

(* A dispatch brings the server to all that c under m asks for, or leaves  *)
(* it alone, which only a counted lock makes it do.                        *)
LEMMA DispatchServes ==
  ASSUME server \in Configurations,
         NEW force \in BOOLEAN,
         NEW c \in Configurations,
         NEW m \in [Targets -> SUBSET Fields],
         NEW syn \in BOOLEAN,
         NEW n \in Nat,
         NEW live, NEW released,
         DispatchConfigure(force, c, m, syn, n, live, released)
  PROVE  /\ Wanted' = Configured(c, m)
         /\ ServerCaughtUp \/ Deferred(m, syn, n)
<1>1. CASE Dispatches(force, m, syn, n)
  <2>1. /\ changeMask' = [t \in Targets |-> {}]
        /\ sendSyntheticConfigure' = FALSE
        /\ server' = Configured(c, m)
    BY <1>1 DEF DispatchConfigure
  <2>2. Wanted' = [t \in Targets |-> [f \in Fields |-> server'[t][f]]]
    BY <2>1 DEF Wanted, Configured
  <2>3. server' \in Configurations
    BY <2>1 DEF Configured, Configurations
  <2>4. server' = [t \in Targets |-> [f \in Fields |-> server'[t][f]]]
    BY <2>3 DEF Configurations
  <2> QED
    BY <2>1, <2>2, <2>4 DEF ServerCaughtUp
<1>2. CASE ~ Dispatches(force, m, syn, n)
  <2>1. /\ changes' = c /\ changeMask' = m
        /\ sendSyntheticConfigure' = syn
        /\ server' = server
        /\ lockCount' = n + Cardinality({})
    BY <1>2 DEF DispatchConfigure
  <2>2. Wanted' = Configured(c, m)
    BY <2>1 DEF Wanted, Configured
  <2>3. lockCount' = n
    BY <2>1, FS_EmptySet
  <2>4. CASE n = 0
    <3>1. ~ syn /\ \A t \in Targets : m[t] = {}
      BY <1>2, <2>4 DEF Dispatches
    <3>2. Configured(c, m) = [t \in Targets |-> [f \in Fields |-> server[t][f]]]
      BY <3>1 DEF Configured
    <3>3. server = [t \in Targets |-> [f \in Fields |-> server[t][f]]]
      BY DEF Configurations
    <3> QED
      BY <2>1, <2>2, <3>1, <3>2, <3>3 DEF ServerCaughtUp
  <2>5. CASE n # 0
    <3>1. \A t \in Targets : \A f \in m[t] : ~ Immediate(t, f)
      BY <1>2 DEF Dispatches
    <3> QED
      BY <2>1, <2>2, <2>3, <2>5, <3>1 DEF Deferred
  <2> QED
    BY <2>4, <2>5
<1> QED
  BY <1>1, <1>2

(* What holds of any state a dispatch leads to, whoever calls it: n counts *)
(* the armed locks that are not being released, and they are all live.     *)
LEMMA DispatchKeepsInv ==
  ASSUME TypeOK, armed \subseteq locks,
         NEW force \in BOOLEAN,
         NEW c \in Configurations,
         NEW m \in [Targets -> SUBSET Fields],
         NEW syn \in BOOLEAN,
         NEW n \in Nat,
         NEW live \in SUBSET locks,
         NEW released \in SUBSET armed,
         armed \ released \subseteq live,
         n = Cardinality(armed \ released),
         UNCHANGED locks, alive' = live,
         requested' = Configured(c, m),
         DispatchConfigure(force, c, m, syn, n, live, released)
  PROVE  IInv'
<1> DEFINE out     == Dispatches(force, m, syn, n)
           rearmed == IF out THEN Relocked(live) ELSE {}
<1>1. /\ changes' = c
      /\ changeMask' = IF out THEN [t \in Targets |-> {}] ELSE m
      /\ sendSyntheticConfigure' = (syn /\ ~ out)
      /\ server' = IF out THEN Configured(c, m) ELSE server
      /\ lockCount' = n + Cardinality(rearmed)
      /\ armed' = (armed \cup rearmed) \ released
  BY DEF DispatchConfigure
<1>2. /\ rearmed \subseteq live
      /\ rearmed \cap armed = {}
  BY DEF Relocked
<1>3. armed' = (armed \ released) \cup rearmed
  BY <1>1, <1>2
<1>o. ~ out => rearmed = {}
  OBVIOUS
<1> HIDE DEF rearmed
<1>4. /\ IsFiniteSet(armed \ released)
      /\ IsFiniteSet(rearmed)
      /\ Cardinality(rearmed) \in Nat
  <2>1. IsFiniteSet(locks)
    BY DEF TypeOK
  <2>2. armed \ released \in SUBSET locks /\ rearmed \in SUBSET locks
    BY <1>2
  <2> QED
    BY <2>1, <2>2, FS_Subset, FS_CardinalityType
<1>5. lockCount' = Cardinality(armed')
  <2>1. (armed \ released) \cap rearmed = {}
    BY <1>2
  <2>2. Cardinality((armed \ released) \cup rearmed) =
          Cardinality(armed \ released) + Cardinality(rearmed)
             - Cardinality((armed \ released) \cap rearmed)
    BY <1>4, FS_Union
  <2>3. Cardinality({}) = 0
    BY FS_EmptySet
  <2>4. Cardinality((armed \ released) \cap rearmed) = 0
    BY <2>1, <2>3
  <2>5. Cardinality((armed \ released) \cup rearmed) = n + Cardinality(rearmed)
    BY <1>4, <2>2, <2>4
  <2>6. lockCount' = n + Cardinality(rearmed)
    BY <1>1
  <2> QED
    BY <1>3, <2>5, <2>6
<1>6. TypeOK'
  <2>1. server' \in Configurations
    BY <1>1 DEF Configured, Configurations, TypeOK
  <2>2. changes' \in Configurations /\ changeMask' \in [Targets -> SUBSET Fields]
    BY <1>1
  <2>3. lockCount' \in Nat
    BY <1>1, <1>4
  <2>4. locks' \subseteq Locks /\ IsFiniteSet(locks') /\ alive' \subseteq Locks
    BY DEF TypeOK
  <2>5. armed' \subseteq Locks
    BY <1>2, <1>3 DEF TypeOK
  <2>6. sendSyntheticConfigure' \in BOOLEAN
    BY <1>1
  <2>7. requested' \in Configurations
    BY DEF Configured, Configurations, TypeOK
  <2> QED
    BY <2>1, <2>2, <2>3, <2>4, <2>5, <2>6, <2>7 DEF TypeOK, Configurations
<1>7. LockCountExact'
  BY <1>2, <1>3, <1>5 DEF LockCountExact
<1>8. HeldByLock'
  <2>1. CASE out
    BY <1>1, <2>1 DEF HeldByLock
  <2>2. CASE ~ out
    <3>1. changeMask' = m /\ (sendSyntheticConfigure' <=> syn)
      BY <1>1, <2>2
    <3>2. lockCount' = n
      <4>1. Cardinality(rearmed) = 0
        BY <2>2, <1>o, FS_EmptySet
      <4> QED
        BY <1>1, <4>1
    <3>3. n = 0 => ~ syn /\ \A t \in Targets : m[t] = {}
      BY <2>2 DEF Dispatches
    <3>4. \A t \in Targets : \A f \in m[t] : ~ Immediate(t, f)
      BY <2>2 DEF Dispatches
    <3> QED
      BY <3>1, <3>2, <3>3, <3>4 DEF HeldByLock
  <2> QED
    BY <2>1, <2>2
<1>9. NothingForgotten'
  <2>1. Wanted' = Configured(c, m)
    BY WantedType, DispatchServes
  <2> QED
    BY <2>1 DEF NothingForgotten, Wanted
<1> QED
  BY <1>6, <1>7, <1>8, <1>9 DEF IInv

(* A call that releases nothing counts the armed locks as they are.        *)
LEMMA NothingReleased ==
  ASSUME IInv
  PROVE  /\ armed \subseteq locks
         /\ armed \ {} \subseteq alive
         /\ lockCount = Cardinality(armed \ {})
         /\ alive \in SUBSET locks
<1>1. armed \ {} = armed
  OBVIOUS
<1> QED
  BY <1>1 DEF IInv, LockCountExact

(* Releasing an armed lock takes exactly one off the count, so the         *)
(* assertion in release () cannot fail.                                    *)
LEMMA OneReleased ==
  ASSUME IInv, NEW l \in armed
  PROVE  /\ lockCount - 1 \in Nat
         /\ lockCount - 1 = Cardinality(armed \ {l})
<1>1. IsFiniteSet(armed)
  BY FS_Subset DEF IInv, TypeOK, LockCountExact
<1>2. IsFiniteSet(armed \ {l}) /\ Cardinality(armed \ {l}) = Cardinality(armed) - 1
  BY <1>1, FS_RemoveElement
<1>3. Cardinality(armed \ {l}) \in Nat /\ Cardinality(armed) \in Nat
  BY <1>1, <1>2, FS_CardinalityType
<1> QED
  BY <1>2, <1>3 DEF IInv, LockCountExact

(* applyChangeToXWC over the waiting changes and the widened mask amount   *)
(* to the same change of what is wanted.                                   *)
LEMMA PushMerges ==
  ASSUME TypeOK, NEW t \in Targets, NEW mask \in SUBSET Fields,
         NEW xwc \in [Fields -> Values]
  PROVE  Configured(Applied(changes, t, mask, xwc),
                    [changeMask EXCEPT ![t] = @ \cup mask])
           = Applied(Wanted, t, mask, xwc)
<1> DEFINE merged == Applied(changes, t, mask, xwc)
           joined == [changeMask EXCEPT ![t] = @ \cup mask]
           request == Applied(Wanted, t, mask, xwc)
<1>1. ASSUME NEW u \in Targets, NEW f \in Fields
      PROVE  Configured(merged, joined)[u][f] =
               IF u = t /\ f \in mask THEN xwc[f] ELSE Wanted[u][f]
  <2>1. /\ merged[u][f] = IF u = t /\ f \in mask THEN xwc[f] ELSE changes[u][f]
        /\ f \in joined[u] <=> f \in changeMask[u] \/ (u = t /\ f \in mask)
    BY DEF TypeOK, Applied
  <2> HIDE DEF merged, joined
  <2> QED
    BY <2>1 DEF Configured, Wanted
<1>2. Configured(merged, joined) \in Configurations
  <2>1. merged \in Configurations
    BY DEF TypeOK, Applied, Configurations
  <2> HIDE DEF merged, joined
  <2> QED
    BY <2>1 DEF Configured, Configurations, TypeOK
<1>3. request \in Configurations
  BY WantedType DEF Applied, Configurations
<1>4. ASSUME NEW u \in Targets, NEW f \in Fields
      PROVE  request[u][f] = IF u = t /\ f \in mask THEN xwc[f] ELSE Wanted[u][f]
  BY WantedType DEF Applied, Configurations
<1> HIDE DEF merged, joined, request
<1>5. ASSUME NEW u \in Targets PROVE Configured(merged, joined)[u] = request[u]
  <2>1. \A f \in Fields : Configured(merged, joined)[u][f] = request[u][f]
    BY <1>1, <1>4
  <2>2. /\ Configured(merged, joined)[u] \in [Fields -> Values]
        /\ request[u] \in [Fields -> Values]
    BY <1>2, <1>3 DEF Configurations
  <2> QED
    BY <2>1, <2>2
<1>6. Configured(merged, joined) = request
  BY <1>2, <1>3, <1>5 DEF Configurations
<1> QED
  BY <1>6 DEF merged, joined, request

LEMMA PushRequestInv ==
  ASSUME IInv,
         NEW t \in Targets, NEW mask \in SUBSET Fields,
         NEW xwc \in [Fields -> Values], PushRequest(t, mask, xwc)
  PROVE  IInv'
<1> DEFINE merged == Applied(changes, t, mask, xwc)
           joined == [changeMask EXCEPT ![t] = @ \cup mask]
<1>1. merged \in Configurations /\ joined \in [Targets -> SUBSET Fields]
  BY DEF IInv, TypeOK, Configurations, Applied
<1>r. requested' = Configured(merged, joined)
  <2>1. requested' = Applied(Wanted, t, mask, xwc)
    BY DEF PushRequest, IInv, NothingForgotten, Wanted
  <2> QED
    BY <2>1, PushMerges DEF IInv
<1>2. PICK c \in Configurations, m \in [Targets -> SUBSET Fields],
           syn \in BOOLEAN, n \in {lockCount}, live \in {alive} :
         /\ DispatchConfigure(FALSE, c, m, syn, n, live, {})
         /\ requested' = Configured(c, m)
  BY <1>1, <1>r DEF PushRequest, IInv, TypeOK
<1>3. UNCHANGED <<locks, alive>>
  BY DEF PushRequest
<1>4. TypeOK /\ lockCount \in Nat
  BY DEF IInv, TypeOK
<1>5. n \in Nat /\ live \in SUBSET locks /\ {} \in SUBSET armed
  BY <1>4, NothingReleased
<1> HIDE DEF merged, joined
<1> QED
  BY <1>2, <1>3, <1>4, <1>5, NothingReleased, DispatchKeepsInv

LEMMA ForcedInv ==
  ASSUME IInv, PushSyntheticConfigureNotify \/ ForceRelease
  PROVE  IInv'
<1>1. PICK force \in BOOLEAN, c \in Configurations,
           m \in [Targets -> SUBSET Fields], syn \in BOOLEAN,
           n \in {lockCount}, live \in {alive} :
         /\ DispatchConfigure(force, c, m, syn, n, live, {})
         /\ requested' = Configured(c, m)
  BY DEF PushSyntheticConfigureNotify, ForceRelease, IInv, TypeOK,
         Configurations, NothingForgotten
<1>2. UNCHANGED <<locks, alive>>
  BY DEF PushSyntheticConfigureNotify, ForceRelease
<1>3. TypeOK /\ lockCount \in Nat
  BY DEF IInv, TypeOK
<1> QED
  BY <1>1, <1>2, <1>3, NothingReleased, DispatchKeepsInv

LEMMA ObtainLockInv ==
  ASSUME IInv, NEW l \in Locks, ObtainLock(l)
  PROVE  IInv'
<1> USE DEF ObtainLock, requests
<1>1. IsFiniteSet(locks') /\ IsFiniteSet(armed)
  BY FS_AddElement, FS_Subset DEF IInv, TypeOK, LockCountExact
<1>2. TypeOK'
  BY <1>1 DEF IInv, TypeOK
<1>3. LockCountExact'
  <2>1. l \notin armed
    BY DEF IInv, LockCountExact
  <2>2. Cardinality(armed \cup {l}) = Cardinality(armed) + 1
    BY <1>1, <2>1, FS_AddElement
  <2> QED
    BY <2>2 DEF IInv, LockCountExact
<1>4. HeldByLock'
  BY DEF IInv, TypeOK, HeldByLock
<1>5. NothingForgotten'
  BY DEF IInv, NothingForgotten, Configured
<1> QED
  BY <1>2, <1>3, <1>4, <1>5 DEF IInv

LEMMA LetGoInv ==
  ASSUME IInv, NEW l \in Locks, ReleaseLock(l) \/ DestroyLock(l)
  PROVE  IInv'
<1>1. CASE l \in armed
  <2>1. PICK c \in Configurations, m \in [Targets -> SUBSET Fields],
             syn \in BOOLEAN, n \in {lockCount - 1},
             live \in {alive, alive \ {l}}, released \in {{l}} :
           /\ DispatchConfigure(FALSE, c, m, syn, n, live, released)
           /\ alive' = live
           /\ armed \ released \subseteq live
           /\ UNCHANGED locks
           /\ requested' = Configured(c, m)
    BY <1>1 DEF ReleaseLock, DestroyLock, IInv, TypeOK, LockCountExact,
                Configurations, NothingForgotten
  <2>2. /\ lockCount - 1 \in Nat
        /\ lockCount - 1 = Cardinality(armed \ {l})
    BY <1>1, OneReleased
  <2>3. live \in SUBSET locks /\ armed \subseteq locks /\ TypeOK
    BY DEF IInv, LockCountExact
  <2>4. /\ released \in SUBSET armed
        /\ n \in Nat /\ n = Cardinality(armed \ released)
    BY <1>1, <2>2
  <2> QED
    BY <2>1, <2>2, <2>3, <2>4, DispatchKeepsInv
<1>2. CASE l \notin armed
  <2>1. /\ alive' = alive \ {l}
        /\ UNCHANGED <<requests, locks, lockCount, armed, server, requested>>
    BY <1>2 DEF ReleaseLock, DestroyLock
  <2>2. TypeOK' /\ LockCountExact' /\ HeldByLock'
    BY <1>2, <2>1 DEF IInv, TypeOK, LockCountExact, HeldByLock, requests
  <2>3. NothingForgotten'
    BY <2>1 DEF IInv, NothingForgotten, Configured, requests
  <2> QED
    BY <2>2, <2>3 DEF IInv
<1> QED
  BY <1>1, <1>2

LEMMA InitInv == Init => IInv
<1> SUFFICES ASSUME Init PROVE IInv
  OBVIOUS
<1>1. IsFiniteSet({}) /\ Cardinality({}) = 0
  BY FS_EmptySet
<1>2. TypeOK /\ LockCountExact /\ HeldByLock
  BY <1>1 DEF Init, TypeOK, LockCountExact, HeldByLock
<1>3. NothingForgotten
  <2>1. server \in Configurations
    BY DEF Init, Configurations
  <2>2. server = [t \in Targets |-> [f \in Fields |-> server[t][f]]]
    BY <2>1 DEF Configurations
  <2>3. Configured(changes, changeMask) =
           [t \in Targets |-> [f \in Fields |-> server[t][f]]]
    BY DEF Init, Configured
  <2> QED
    BY <2>2, <2>3 DEF Init, NothingForgotten
<1> QED
  BY <1>2, <1>3 DEF IInv

LEMMA NextInv == IInv /\ [Next]_vars => IInv'
<1> SUFFICES ASSUME IInv, [Next]_vars PROVE IInv'
  OBVIOUS
<1>1. ASSUME NEW t \in Targets, NEW mask \in (SUBSET Fields) \ {{}},
             NEW xwc \in [Fields -> Values], PushRequest(t, mask, xwc)
      PROVE  IInv'
  BY <1>1, PushRequestInv
<1>2. CASE PushSyntheticConfigureNotify \/ ForceRelease
  BY <1>2, ForcedInv
<1>3. ASSUME NEW l \in Locks, ObtainLock(l) PROVE IInv'
  BY <1>3, ObtainLockInv
<1>4. ASSUME NEW l \in Locks, ReleaseLock(l) \/ DestroyLock(l) PROVE IInv'
  BY <1>4, LetGoInv
<1>5. CASE UNCHANGED vars
  <2>1. TypeOK' /\ LockCountExact' /\ HeldByLock'
    BY <1>5 DEF vars, IInv, TypeOK, LockCountExact, HeldByLock
  <2>2. NothingForgotten'
    BY <1>5 DEF vars, IInv, NothingForgotten, Configured
  <2> QED
    BY <2>1, <2>2 DEF IInv
<1> QED
  BY <1>1, <1>2, <1>3, <1>4, <1>5 DEF Next

(* Every reachable state is well typed, counts its armed locks exactly,    *)
(* holds a request only while a lock is armed and has forgotten none       *)
(* (configurerequestbuffer.cpp: dispatchConfigure, freeze, release).       *)
THEOREM BufferInvariant ==
  Spec => [](TypeOK /\ LockCountExact /\ HeldByLock /\ NothingForgotten)
<1>1. Spec => []IInv
  BY InitInv, NextInv, PTL DEF Spec
<1>2. IInv => TypeOK /\ LockCountExact /\ HeldByLock /\ NothingForgotten
  BY DEF IInv
<1> QED
  BY <1>1, <1>2, PTL

(* Masks, requests and locks stay of their types.                          *)
COROLLARY BufferIsTyped == Spec => []TypeOK
<1>1. IInv => TypeOK
  BY DEF IInv
<1> QED
  BY <1>1, InitInv, NextInv, PTL DEF Spec

(* lockCount counts exactly the live locks that are armed, whatever order  *)
(* they are released, dropped and armed again in (freeze, lock, release).  *)
COROLLARY LocksAreCounted == Spec => []LockCountExact
<1>1. IInv => LockCountExact
  BY DEF IInv
<1> QED
  BY <1>1, InitInv, NextInv, PTL DEF Spec

(* Nothing waits in the buffer unless an armed lock holds it back: the     *)
(* last release sends what is there.                                       *)
COROLLARY OnlyLocksHoldBack == Spec => []HeldByLock
<1>1. IInv => HeldByLock
  BY DEF IInv
<1> QED
  BY <1>1, InitInv, NextInv, PTL DEF Spec

-----------------------------------------------------------------------------
(* Re-arming                                                               *)

(* A dispatch that empties a mask arms every live lock that is not being   *)
(* released by it.                                                         *)
LEMMA DispatchRearms ==
  ASSUME IInv, NEW force \in BOOLEAN, NEW c \in Configurations,
         NEW m \in [Targets -> SUBSET Fields], NEW syn \in BOOLEAN, NEW n \in Nat,
         NEW live \in SUBSET locks, NEW released \in SUBSET armed,
         DispatchConfigure(force, c, m, syn, n, live, released),
         alive' = live,
         NEW t \in Targets, m[t] # {}, changeMask'[t] = {},
         NEW l \in alive' \ armed'
  PROVE  l \in armed
<1>1. Dispatches(force, m, syn, n)
  BY DEF DispatchConfigure
<1>2. armed' = (armed \cup Relocked(live)) \ released
  BY <1>1 DEF DispatchConfigure
<1> QED
  BY <1>2 DEF Relocked

(* Whoever releases, pushes or queries: when what was waiting goes out,    *)
(* all other live locks are armed again (the loop over locks at the end of *)
(* dispatchConfigure), so no painter loses its hold on the next request.   *)
THEOREM DispatchRearmsOthersHolds == Spec => DispatchRearmsOthers
<1> DEFINE Rearms == \A t \in Targets :
                        changeMask[t] # {} /\ changeMask'[t] = {}
                          => \A l \in alive' \ armed' : l \in armed
<1>1. ASSUME IInv, Next PROVE Rearms
  <2> SUFFICES ASSUME NEW t \in Targets, changeMask[t] # {}, changeMask'[t] = {},
                      NEW l \in alive' \ armed'
               PROVE  l \in armed
    OBVIOUS
  <2>1. ASSUME NEW u \in Targets, NEW mask \in SUBSET Fields,
               NEW xwc \in [Fields -> Values], PushRequest(u, mask, xwc)
        PROVE  l \in armed
    <3> DEFINE merged == Applied(changes, u, mask, xwc)
               joined == [changeMask EXCEPT ![u] = @ \cup mask]
    <3>1. /\ merged \in Configurations /\ joined \in [Targets -> SUBSET Fields]
          /\ joined[t] # {}
      BY <1>1 DEF IInv, TypeOK, Configurations, Applied
    <3>2. /\ DispatchConfigure(FALSE, merged, joined, sendSyntheticConfigure,
                               lockCount, alive, {})
          /\ alive' = alive
      BY <2>1 DEF PushRequest
    <3>3. /\ sendSyntheticConfigure \in BOOLEAN /\ lockCount \in Nat
          /\ alive \in SUBSET locks
      BY <1>1 DEF IInv, TypeOK, LockCountExact
    <3> HIDE DEF merged, joined
    <3>4. PICK c \in Configurations, m \in [Targets -> SUBSET Fields],
               syn \in BOOLEAN, n \in Nat, live \in SUBSET locks :
             /\ DispatchConfigure(FALSE, c, m, syn, n, live, {})
             /\ m[t] # {}
             /\ alive' = live
      BY <3>1, <3>2, <3>3
    <3> QED
      BY <1>1, <3>4, DispatchRearms
  <2>2. CASE PushSyntheticConfigureNotify \/ ForceRelease
    <3>1. PICK force \in BOOLEAN, c \in Configurations,
               m \in [Targets -> SUBSET Fields], syn \in BOOLEAN, n \in Nat,
               live \in SUBSET locks :
             /\ DispatchConfigure(force, c, m, syn, n, live, {})
             /\ m = changeMask
             /\ alive' = live
      BY <1>1, <2>2 DEF PushSyntheticConfigureNotify, ForceRelease, IInv,
                        TypeOK, LockCountExact, Configurations
    <3> QED
      BY <1>1, <3>1, DispatchRearms
  <2>3. ASSUME NEW k \in Locks, ObtainLock(k) PROVE l \in armed
    BY <2>3 DEF ObtainLock, requests
  <2>4. ASSUME NEW k \in Locks, ReleaseLock(k) \/ DestroyLock(k), k \in armed
        PROVE  l \in armed
    <3>1. PICK c \in Configurations, m \in [Targets -> SUBSET Fields],
               syn \in BOOLEAN, n \in {lockCount - 1},
               live \in {alive, alive \ {k}}, released \in {{k}} :
             /\ DispatchConfigure(FALSE, c, m, syn, n, live, released)
             /\ m = changeMask
             /\ alive' = live
      BY <1>1, <2>4 DEF ReleaseLock, DestroyLock, IInv, TypeOK, Configurations
    <3>2. n \in Nat
      BY <1>1, <2>4, OneReleased
    <3>3. live \in SUBSET locks /\ released \in SUBSET armed
      BY <1>1, <2>4 DEF IInv, LockCountExact
    <3> QED
      BY <1>1, <3>1, <3>2, <3>3, DispatchRearms
  <2>5. CASE UNCHANGED requests
    BY <2>5 DEF requests
  <2> QED
    BY <1>1, <2>1, <2>2, <2>3, <2>4, <2>5 DEF Next, ReleaseLock, DestroyLock
<1>2. IInv /\ [Next]_vars => [Rearms]_vars
  BY <1>1
<1>3. Spec => []IInv
  BY InitInv, NextInv, PTL DEF Spec
<1> QED
  BY <1>2, <1>3, PTL DEF Spec, DispatchRearmsOthers

-----------------------------------------------------------------------------
(* ConfigureBuffer implements ConfigureService                             *)

LEMMA PushRequestServes ==
  ASSUME IInv, NothingForgotten',
         NEW t \in Targets, NEW mask \in (SUBSET Fields) \ {{}},
         NEW xwc \in [Fields -> Values], PushRequest(t, mask, xwc)
  PROVE  Service!Request(t, mask, xwc)
<1> DEFINE merged == Applied(changes, t, mask, xwc)
           joined == [changeMask EXCEPT ![t] = @ \cup mask]
<1>1. merged \in Configurations /\ joined \in [Targets -> SUBSET Fields]
  BY DEF IInv, TypeOK, Configurations, Applied
<1>2. /\ DispatchConfigure(FALSE, merged, joined, sendSyntheticConfigure,
                           lockCount, alive, {})
      /\ requested' = [requested EXCEPT ![t] =
                         [f \in Fields |-> IF f \in mask THEN xwc[f] ELSE @[f]]]
  BY DEF PushRequest, Applied
<1>3. /\ sendSyntheticConfigure \in BOOLEAN /\ lockCount \in Nat
      /\ server \in Configurations
      /\ mask \subseteq joined[t]
  BY DEF IInv, TypeOK, Configurations
<1> HIDE DEF merged, joined
<1>4. PICK c \in Configurations, m \in [Targets -> SUBSET Fields],
           syn \in BOOLEAN, n \in Nat :
         /\ DispatchConfigure(FALSE, c, m, syn, n, alive, {})
         /\ mask \subseteq m[t]
         /\ syn = sendSyntheticConfigure /\ n = lockCount
  BY <1>1, <1>2, <1>3
<1>5. ServerCaughtUp \/ Deferred(m, syn, n)
  BY <1>3, <1>4, DispatchServes
<1>w. requested' = Wanted'
  BY DEF NothingForgotten, Wanted
<1>6. CASE ServerCaughtUp
  BY <1>2, <1>w, <1>6 DEF Service!Request, Service!CatchUp, ServerCaughtUp
<1>7. CASE Deferred(m, syn, n)
  BY <1>2, <1>4, <1>7 DEF Service!Request, Deferred
<1> QED
  BY <1>5, <1>6, <1>7

(* A dispatch over the requests as they are is a Hold step, or a Notify    *)
(* step when it was called to send a synthetic ConfigureNotify.            *)
LEMMA SameRequestsServe ==
  ASSUME IInv, NothingForgotten', UNCHANGED requested,
         NEW force \in BOOLEAN, NEW syn \in BOOLEAN, NEW n \in Nat,
         NEW c \in {changes}, NEW m \in {changeMask},
         NEW live, NEW released,
         syn = sendSyntheticConfigure \/ (syn /\ n = lockCount),
         DispatchConfigure(force, c, m, syn, n, live, released)
  PROVE  Service!Next
<1>1. /\ c \in Configurations /\ m \in [Targets -> SUBSET Fields]
      /\ server \in Configurations
  BY WantedType DEF IInv, TypeOK, Configurations
<1>2. ServerCaughtUp \/ Deferred(m, syn, n)
  BY <1>1, DispatchServes
<1>w. requested' = Wanted'
  BY DEF NothingForgotten, Wanted
<1>3. CASE ServerCaughtUp
  BY <1>w, <1>3 DEF ServerCaughtUp, Service!Next, Service!Hold, Service!CatchUp
<1>4. CASE Deferred(m, syn, n) /\ syn = sendSyntheticConfigure
  BY <1>4 DEF Deferred, Service!Next, Service!Hold
<1>5. CASE Deferred(m, syn, n) /\ syn /\ n = lockCount
  BY <1>5 DEF Deferred, Service!Next, Service!Notify
<1> QED
  BY <1>2, <1>3, <1>4, <1>5

LEMMA StepServes ==
  ASSUME IInv, NothingForgotten', [Next]_vars
  PROVE  [Service!Next]_(Service!vars)
<1>1. ASSUME NEW t \in Targets, NEW mask \in (SUBSET Fields) \ {{}},
             NEW xwc \in [Fields -> Values], PushRequest(t, mask, xwc)
      PROVE  Service!Next
  BY <1>1, PushRequestServes DEF Service!Next
<1>2. CASE PushSyntheticConfigureNotify \/ ForceRelease
  <2>1. PICK force \in BOOLEAN, syn \in BOOLEAN, n \in Nat, c \in {changes},
             m \in {changeMask}, live \in {alive} :
           /\ DispatchConfigure(force, c, m, syn, n, live, {})
           /\ syn = sendSyntheticConfigure \/ (syn /\ n = lockCount)
           /\ UNCHANGED requested
    BY <1>2 DEF PushSyntheticConfigureNotify, ForceRelease, IInv, TypeOK
  <2> QED
    BY <2>1, SameRequestsServe
<1>3. ASSUME NEW l \in Locks, ObtainLock(l) PROVE Service!Next
  <2>1. lockCount' > 0
    BY <1>3 DEF ObtainLock, IInv, TypeOK
  <2> QED
    BY <1>3, <2>1 DEF ObtainLock, requests, Service!Next, Service!Hold
<1>4. ASSUME NEW l \in Locks, ReleaseLock(l) \/ DestroyLock(l), l \in armed
      PROVE  Service!Next
  <2>1. PICK syn \in BOOLEAN, n \in Nat, c \in {changes}, m \in {changeMask},
             live \in {alive, alive \ {l}} :
           /\ DispatchConfigure(FALSE, c, m, syn, n, live, {l})
           /\ syn = sendSyntheticConfigure
           /\ UNCHANGED requested
    BY <1>4, OneReleased DEF ReleaseLock, DestroyLock, IInv, TypeOK
  <2> QED
    BY <2>1, SameRequestsServe
<1>5. CASE UNCHANGED <<requests, lockCount, server, requested>>
  BY <1>5 DEF requests, Service!vars
<1> QED
  BY <1>1, <1>2, <1>3, <1>4, <1>5 DEF Next, vars, requests, ReleaseLock, DestroyLock

(* The buffer implements its service: whatever is pushed and whichever     *)
(* locks come and go, the server is only ever brought from what it was     *)
(* asked for to all that is wanted, and a request is deferred only under   *)
(* an armed lock (ConfigureRequestBuffer as its callers see it).           *)
THEOREM BufferImplementsService == Spec => ServiceSpec
<1>1. Init => Service!Init
  BY DEF Init, Service!Init, Service!Configurations
<1>2. Spec => []IInv
  BY InitInv, NextInv, PTL DEF Spec
<1>3. IInv /\ [Next]_vars => [Service!Next]_(Service!vars)
  BY StepServes, NextInv DEF IInv
<1> QED
  BY <1>1, <1>2, <1>3, PTL DEF Spec, ServiceSpec, Service!Spec
==============================================================================
