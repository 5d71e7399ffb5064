---------------------------- MODULE ScreenProofs ----------------------------
(***************************************************************************)
(* Theorems about parts of the screen that have little to do with each     *)
(* other: the grabs (Grabs), the chains of wrapped functions (WrapChain),  *)
(* the pings (Ping), and key grabs and key events (KeyBindings,            *)
(* KeyEvents).  They hold for any handles, wrappers, windows and actions.  *)
(***************************************************************************)
EXTENDS Grabs, WrapChain, Ping, KeyEvents, FiniteSetTheorems, ListLemmas

-----------------------------------------------------------------------------
(* Grabs                                                                   *)

(* grabsRemove finds one grab, since no other has its address.             *)
HandlesUnique ==
    \A i, j \in DOMAIN grabs : grabs[i].handle = grabs[j].handle => i = j

(* SoleCursor would not survive a removal if the one removed could be      *)
(* mistaken for another.                                                   *)
GrabsInv == GrabsTypeOK /\ HandlesUnique /\ GrabsMatch /\ SoleCursor

LEMMA TopGrabIsOfType ==
  ASSUME NEW stack \in Seq(Grab), NEW device, Has(stack, device)
  PROVE  /\ Min(OfType(stack, device)) \in OfType(stack, device)
         /\ OfType(stack, device) \subseteq 1 .. Len(stack)
         /\ TopGrab(stack, device) \in Grab
<1>1. OfType(stack, device) \subseteq 1 .. Len(stack)
  BY DEF OfType
<1>2. Min(OfType(stack, device)) \in OfType(stack, device)
  BY <1>1, MinIsFirst DEF Has
<1> QED
  BY <1>1, <1>2 DEF TopGrab

(* A pushed grab leaves the places of the others.                          *)
LEMMA PushedPlaces ==
  ASSUME NEW stack \in Seq(Grab), NEW g \in Grab, NEW device
  PROVE  OfType(Append(stack, g), device) =
            OfType(stack, device) \union
               (IF device \in g.type THEN {Len(stack) + 1} ELSE {})
BY DEF OfType

(* A device the erased grab was not for keeps the places of its grabs.     *)
LEMMA RemovedOfType ==
  ASSUME NEW stack \in Seq(Grab), NEW p \in 1 .. Len(stack), NEW device
  PROVE  /\ \A i \in OfType(RemoveAt(stack, p), device) :
               /\ i \in 1 .. Len(stack) - 1
               /\ Opened(i, p) \in OfType(stack, device) \ {p}
         /\ \A j \in OfType(stack, device) \ {p} :
               /\ Closed(j, p) \in OfType(RemoveAt(stack, p), device)
               /\ Opened(Closed(j, p), p) = j
<1> DEFINE rest == RemoveAt(stack, p)
<1>1. /\ rest \in Seq(Grab) /\ Len(rest) = Len(stack) - 1
      /\ \A i \in 1 .. Len(stack) - 1 : rest[i] = stack[Opened(i, p)]
  BY ErasedPlaces
<1> HIDE DEF rest
<1>2. DOMAIN rest = 1 .. Len(stack) - 1 /\ DOMAIN stack = 1 .. Len(stack)
  BY <1>1
<1>3. ASSUME NEW i \in OfType(rest, device)
      PROVE  i \in 1 .. Len(stack) - 1 /\ Opened(i, p) \in OfType(stack, device) \ {p}
  <2>1. i \in 1 .. Len(stack) - 1 /\ device \in rest[i].type
    BY <1>2 DEF OfType
  <2>2. Opened(i, p) \in 1 .. Len(stack) /\ Opened(i, p) # p
    BY <2>1 DEF Opened
  <2> QED
    BY <1>1, <1>2, <2>1, <2>2 DEF OfType
<1>4. ASSUME NEW j \in OfType(stack, device) \ {p}
      PROVE  Closed(j, p) \in OfType(rest, device) /\ Opened(Closed(j, p), p) = j
  <2>1. j \in 1 .. Len(stack) /\ j # p /\ device \in stack[j].type
    BY <1>2 DEF OfType
  <2>2. Closed(j, p) \in 1 .. Len(stack) - 1 /\ Opened(Closed(j, p), p) = j
    BY <2>1 DEF Closed, Opened
  <2> QED
    BY <1>1, <1>2, <2>1, <2>2 DEF OfType
<1> QED
  BY <1>3, <1>4 DEF rest

LEMMA PlaceIsOfHandle ==
  ASSUME NEW stack \in Seq(Grab), NEW handle \in HandlesOf(stack)
  PROVE  /\ PlaceOf(stack, handle) \in 1 .. Len(stack)
         /\ stack[PlaceOf(stack, handle)].handle = handle
BY DEF HandlesOf, PlaceOf

(* The cursor below is that of a grab of the pointer, of the only one if   *)
(* there is only one.                                                      *)
LEMMA CursorBelowFits ==
  ASSUME NEW stack \in Seq(Grab)
  PROVE  /\ CursorBelow(stack) \in Cursors \union {NoCursor}
         /\ Has(stack, "pointer") <=> CursorBelow(stack) # NoCursor
         /\ \A i \in DOMAIN stack :
               OfType(stack, "pointer") = {i} => CursorBelow(stack) = stack[i].cursor
<1>1. CASE ~ Has(stack, "pointer")
  BY <1>1 DEF CursorBelow, Has
<1>2. CASE Has(stack, "pointer")
  <2>1. /\ Min(OfType(stack, "pointer")) \in OfType(stack, "pointer")
        /\ TopGrab(stack, "pointer") \in Grab
    BY <1>2, TopGrabIsOfType
  <2>2. CursorBelow(stack) = TopGrab(stack, "pointer").cursor
    BY <1>2 DEF CursorBelow
  <2>3. CursorBelow(stack) \in Cursors
    BY <2>1, <2>2 DEF Grab
  <2>4. ASSUME NEW i \in DOMAIN stack, OfType(stack, "pointer") = {i}
        PROVE  CursorBelow(stack) = stack[i].cursor
    BY <2>1, <2>2, <2>4 DEF TopGrab
  <2> QED
    BY <1>2, <2>3, <2>4, CursorsAssumption
<1> QED
  BY <1>1, <1>2

LEMMA GrabsInitially == GrabsInit => GrabsInv
<1> SUFFICES ASSUME GrabsInit
             PROVE  GrabsInv
  OBVIOUS
<1>1. grabs \in Seq(Grab) /\ DOMAIN grabs = {}
  BY DEF GrabsInit
<1>2. \A device : OfType(grabs, device) = {}
  BY <1>1 DEF OfType
<1> QED
  BY <1>1, <1>2 DEF GrabsInit, GrabsInv, GrabsTypeOK, HandlesUnique, GrabsMatch,
                    SoleCursor, Has

LEMMA PushKeepsInv ==
  ASSUME GrabsInv, NEW type \in GrabTypes, NEW cursor \in Cursors,
         PushGrab(type, cursor)
  PROVE  GrabsInv'
<1>1. PICK handle \in Handles \ HandlesOf(grabs) : Pushed(handle, type, cursor)
  BY DEF PushGrab
<1> DEFINE g == [handle |-> handle, type |-> type, cursor |-> cursor]
<1>2. /\ g \in Grab /\ grabs \in Seq(Grab) /\ grabs' = Append(grabs, g)
      /\ g.handle = handle /\ g.type = type /\ g.cursor = cursor
  BY <1>1 DEF Pushed, Grab, GrabsInv, GrabsTypeOK
<1> HIDE DEF g
<1>3. /\ grabs' \in Seq(Grab) /\ Len(grabs') = Len(grabs) + 1
      /\ grabs'[Len(grabs) + 1] = g
      /\ \A i \in 1 .. Len(grabs) : grabs'[i] = grabs[i]
      /\ DOMAIN grabs = 1 .. Len(grabs) /\ DOMAIN grabs' = 1 .. Len(grabs) + 1
  BY <1>2
<1>4. \A device : OfType(grabs', device) =
                     OfType(grabs, device) \union
                        (IF device \in type THEN {Len(grabs) + 1} ELSE {})
  BY <1>2, PushedPlaces
<1>5. GrabsTypeOK'
  BY <1>1, <1>3 DEF Pushed, GrabsInv, GrabsTypeOK
<1>6. HandlesUnique'
  <2>1. \A i \in 1 .. Len(grabs) : grabs[i].handle # handle
    BY <1>1, <1>3 DEF HandlesOf
  <2> QED
    BY <1>2, <1>3, <2>1 DEF HandlesUnique, GrabsInv
<1>7. GrabsMatch'
  BY <1>1, <1>4, CursorsAssumption DEF Pushed, GrabsInv, GrabsMatch, Has
<1>8. SoleCursor'
  <2> SUFFICES ASSUME NEW i \in DOMAIN grabs', OfType(grabs', "pointer") = {i}
               PROVE  pointerGrab' = grabs'[i].cursor
    BY DEF SoleCursor
  <2>1. CASE "pointer" \in type
    <3>1. i = Len(grabs) + 1
      BY <1>4, <2>1
    <3> QED
      BY <1>1, <1>2, <1>3, <2>1, <3>1 DEF Pushed
  <2>2. CASE "pointer" \notin type
    <3>1. OfType(grabs, "pointer") = {i}
      BY <1>4, <2>2
    <3>2. i \in DOMAIN grabs
      BY <3>1 DEF OfType
    <3> QED
      BY <1>1, <1>3, <2>2, <3>1, <3>2 DEF Pushed, GrabsInv, SoleCursor
  <2> QED
    BY <2>1, <2>2
<1> QED
  BY <1>5, <1>6, <1>7, <1>8 DEF GrabsInv

LEMMA FailedPushKeepsInv ==
  ASSUME GrabsInv, NEW type \in GrabTypes, NEW cursor \in Cursors,
         PushFailsOnKeyboard(type, cursor)
  PROVE  GrabsInv'
<1>1. grabs \in Seq(Grab) /\ grabs' = grabs /\ keyboardGrab' = keyboardGrab
  BY DEF PushFailsOnKeyboard, GrabsInv, GrabsTypeOK
<1>2. pointerGrab' = CursorBelow(grabs) \/ pointerGrab' = pointerGrab
  BY DEF PushFailsOnKeyboard
<1>3. GrabsTypeOK' /\ HandlesUnique'
  BY <1>1, <1>2, CursorBelowFits DEF GrabsInv, GrabsTypeOK, HandlesUnique
<1>4. GrabsMatch'
  BY <1>1, <1>2, CursorBelowFits DEF GrabsInv, GrabsMatch
<1>5. SoleCursor'
  BY <1>1, <1>2, CursorBelowFits DEF GrabsInv, SoleCursor
<1> QED
  BY <1>3, <1>4, <1>5 DEF GrabsInv

LEMMA UpdateKeepsInv ==
  ASSUME GrabsInv, NEW handle \in Handles, NEW cursor \in Cursors,
         UpdateGrab(handle, cursor)
  PROVE  GrabsInv'
<1>1. /\ grabs \in Seq(Grab) /\ DOMAIN grabs = 1 .. Len(grabs)
      /\ keyboardGrab' = keyboardGrab
      /\ handle \in HandlesOf(grabs)
      /\ pointerGrab' = IF TopGrab(grabs, "pointer").handle = handle
                        THEN cursor ELSE pointerGrab
  BY DEF UpdateGrab, GrabsInv, GrabsTypeOK
<1>2. grabs' = [i \in 1 .. Len(grabs) |-> IF grabs[i].handle = handle
                                          THEN [grabs[i] EXCEPT !.cursor = cursor]
                                          ELSE grabs[i]]
  BY <1>1 DEF UpdateGrab
<1>3. \A i \in 1 .. Len(grabs) :
         /\ grabs[i] \in Grab /\ grabs'[i] \in Grab
         /\ grabs'[i].handle = grabs[i].handle
         /\ grabs'[i].type = grabs[i].type
         /\ grabs'[i].cursor = IF grabs[i].handle = handle THEN cursor
                               ELSE grabs[i].cursor
  <2> SUFFICES ASSUME NEW i \in 1 .. Len(grabs)
               PROVE  /\ grabs[i] \in Grab /\ grabs'[i] \in Grab
                      /\ grabs'[i].handle = grabs[i].handle
                      /\ grabs'[i].type = grabs[i].type
                      /\ grabs'[i].cursor = IF grabs[i].handle = handle THEN cursor
                                            ELSE grabs[i].cursor
    OBVIOUS
  <2>1. grabs[i] \in Grab
    BY <1>1
  <2>2. [grabs[i] EXCEPT !.cursor = cursor] =
           [handle |-> grabs[i].handle, type |-> grabs[i].type, cursor |-> cursor]
    BY <2>1 DEF Grab
  <2>3. grabs'[i] = IF grabs[i].handle = handle
                    THEN [handle |-> grabs[i].handle, type |-> grabs[i].type,
                          cursor |-> cursor]
                    ELSE grabs[i]
    BY <1>2, <2>2
  <2> QED
    BY <2>1, <2>3 DEF Grab
<1>4. grabs' \in Seq(Grab) /\ DOMAIN grabs' = DOMAIN grabs
  BY <1>1, <1>2, <1>3
<1>5. \A device : OfType(grabs', device) = OfType(grabs, device)
  BY <1>1, <1>3, <1>4 DEF OfType
<1>6. Has(grabs, "pointer")
  BY <1>1, PlaceIsOfHandle DEF UpdateGrab, Named, Has, OfType
<1>7. GrabsTypeOK' /\ HandlesUnique'
  BY <1>1, <1>3, <1>4 DEF GrabsInv, GrabsTypeOK, HandlesUnique
<1>8. GrabsMatch'
  BY <1>1, <1>5, <1>6, CursorsAssumption DEF GrabsInv, GrabsMatch, Has
<1>9. SoleCursor'
  <2> SUFFICES ASSUME NEW i \in DOMAIN grabs', OfType(grabs', "pointer") = {i}
               PROVE  pointerGrab' = grabs'[i].cursor
    BY DEF SoleCursor
  <2>1. i \in DOMAIN grabs /\ OfType(grabs, "pointer") = {i}
    BY <1>4, <1>5
  <2>2. pointerGrab = grabs[i].cursor
    BY <2>1 DEF GrabsInv, SoleCursor
  <2>3. TopGrab(grabs, "pointer") = grabs[i]
    BY <1>1, <1>6, <2>1, TopGrabIsOfType DEF TopGrab
  <2> QED
    BY <1>1, <1>3, <2>1, <2>2, <2>3
<1> QED
  BY <1>7, <1>8, <1>9 DEF GrabsInv

LEMMA RemoveKeepsInv ==
  ASSUME GrabsInv, NEW handle \in Handles, RemoveGrab(handle)
  PROVE  GrabsInv'
<1> DEFINE p == PlaceOf(grabs, handle)
<1>1. grabs \in Seq(Grab) /\ p \in 1 .. Len(grabs) /\ grabs[p].handle = handle
  BY PlaceIsOfHandle DEF RemoveGrab, GrabsInv, GrabsTypeOK
<1>2. /\ grabs' = RemoveAt(grabs, p)
      /\ pointerGrab' = IF "pointer" \in grabs[p].type THEN CursorBelow(grabs')
                        ELSE pointerGrab
      /\ keyboardGrab' = IF "keyboard" \in grabs[p].type THEN Has(grabs', "keyboard")
                         ELSE keyboardGrab
  BY DEF RemoveGrab, Named, Without
<1> HIDE DEF p
<1>3. /\ grabs' \in Seq(Grab) /\ Len(grabs') = Len(grabs) - 1
      /\ \A i \in 1 .. Len(grabs) - 1 : grabs'[i] = grabs[Opened(i, p)]
  BY <1>1, <1>2, ErasedPlaces
<1>4. DOMAIN grabs' = 1 .. Len(grabs) - 1 /\ DOMAIN grabs = 1 .. Len(grabs)
  BY <1>1, <1>3
<1>5. ASSUME NEW device, device \notin grabs[p].type
      PROVE  /\ Has(grabs', device) <=> Has(grabs, device)
             /\ p \notin OfType(grabs, device)
  <2>1. p \notin OfType(grabs, device)
    BY <1>5 DEF OfType
  <2> QED
    BY <1>1, <1>2, <2>1, RemovedOfType DEF Has
<1>6. CursorBelow(grabs') \in Cursors \union {NoCursor}
  BY <1>3, CursorBelowFits
<1>7. GrabsTypeOK'
  BY <1>2, <1>3, <1>6 DEF GrabsInv, GrabsTypeOK, Has
<1>8. HandlesUnique'
  <2> SUFFICES ASSUME NEW i \in 1 .. Len(grabs) - 1, NEW j \in 1 .. Len(grabs) - 1,
                      grabs'[i].handle = grabs'[j].handle
               PROVE  i = j
    BY <1>4 DEF HandlesUnique
  <2>1. Opened(i, p) \in DOMAIN grabs /\ Opened(j, p) \in DOMAIN grabs
    BY <1>1, <1>4 DEF Opened
  <2>2. Opened(i, p) = Opened(j, p)
    BY <1>3, <2>1 DEF GrabsInv, HandlesUnique
  <2> QED
    BY <1>1, <2>2 DEF Opened
<1>9. GrabsMatch'
  <2>1. Has(grabs', "pointer") <=> pointerGrab' # NoCursor
    BY <1>2, <1>3, <1>5, CursorBelowFits DEF GrabsInv, GrabsMatch
  <2>2. Has(grabs', "keyboard") <=> keyboardGrab'
    BY <1>2, <1>5 DEF GrabsInv, GrabsMatch
  <2> QED
    BY <2>1, <2>2 DEF GrabsMatch
<1>10. SoleCursor'
  <2> SUFFICES ASSUME NEW i \in DOMAIN grabs', OfType(grabs', "pointer") = {i}
               PROVE  pointerGrab' = grabs'[i].cursor
    BY DEF SoleCursor
  <2>1. CASE "pointer" \in grabs[p].type
    BY <1>2, <1>3, <2>1, CursorBelowFits
  <2>2. CASE "pointer" \notin grabs[p].type
    <3>1. p \notin OfType(grabs, "pointer")
      BY <1>5, <2>2
    <3>2. OfType(grabs, "pointer") = {Opened(i, p)}
      BY <1>1, <1>2, <3>1, RemovedOfType
    <3>3. Opened(i, p) \in DOMAIN grabs
      BY <3>2 DEF OfType
    <3>4. pointerGrab = grabs[Opened(i, p)].cursor
      BY <3>2, <3>3 DEF GrabsInv, SoleCursor
    <3> QED
      BY <1>2, <1>3, <1>4, <2>2, <3>4
  <2> QED
    BY <2>1, <2>2
<1> QED
  BY <1>7, <1>8, <1>9, <1>10 DEF GrabsInv

THEOREM GrabsInvariant == GrabsSpec => []GrabsInv
<1>1. GrabsInv /\ [GrabsNext]_grabsVars => GrabsInv'
  <2> SUFFICES ASSUME GrabsInv, [GrabsNext]_grabsVars
               PROVE  GrabsInv'
    OBVIOUS
  <2>1. ASSUME NEW type \in GrabTypes, NEW cursor \in Cursors, PushGrab(type, cursor)
        PROVE  GrabsInv'
    BY <2>1, PushKeepsInv
  <2>2. ASSUME NEW type \in GrabTypes, NEW cursor \in Cursors,
               PushFailsOnKeyboard(type, cursor)
        PROVE  GrabsInv'
    BY <2>2, FailedPushKeepsInv
  <2>3. ASSUME NEW handle \in Handles, RemoveGrab(handle)
        PROVE  GrabsInv'
    BY <2>3, RemoveKeepsInv
  <2>4. ASSUME NEW handle \in Handles, NEW cursor \in Cursors,
               UpdateGrab(handle, cursor)
        PROVE  GrabsInv'
    BY <2>4, UpdateKeepsInv
  <2>5. CASE UNCHANGED grabsVars
    BY <2>5 DEF grabsVars, GrabsInv, GrabsTypeOK, HandlesUnique, GrabsMatch, SoleCursor
  <2> QED
    BY <2>1, <2>2, <2>3, <2>4, <2>5 DEF GrabsNext
<1> QED
  BY GrabsInitially, <1>1, PTL DEF GrabsSpec

(* Every device is grabbed in the server while some grab of the stack is   *)
(* for it, and only then.                                                  *)
THEOREM DevicesMatchStack == GrabsSpec => []GrabsMatch
BY GrabsInvariant, PTL DEF GrabsInv

(* The only grab of the pointer shows its own cursor.                      *)
THEOREM OnlyGrabShowsItsCursor == GrabsSpec => []SoleCursor
BY GrabsInvariant, PTL DEF GrabsInv

-----------------------------------------------------------------------------
(* The chain of wrapped functions                                          *)

(* pos is the position of the innermost wrapper among the first n of some  *)
(* calls, or in front of the list when there is none.                      *)
StandsAt(list, stack, pos, n) ==
    \/ pos = 0 /\ \A i \in 1 .. n : stack[i].who = Base
    \/ /\ pos \in DOMAIN list
       /\ \E i \in 1 .. n : /\ stack[i].who = list[pos]
                            /\ \A j \in i + 1 .. n : stack[j].who = Base

ChainShape ==
    /\ interface \in Seq(Wrappers) /\ IsInjective(interface)
    /\ enabled \subseteq ToSet(interface)
    /\ current \in Nat /\ calls \in Seq(Call)
    /\ \A i \in DOMAIN calls : calls[i].due \subseteq enabled

(* What a call saved is where its callers stood, so putting the index back *)
(* makes it stand there again.                                             *)
Positions ==
    /\ StandsAt(interface, calls, current, Len(calls))
    /\ \A i \in DOMAIN calls : StandsAt(interface, calls, calls[i].saved, i - 1)

(* Where a call that i makes next goes on from.                            *)
OnFrom(i) == IF i = Len(calls) THEN current ELSE calls[i + 1].saved

(* Who has not heard of a call yet is still ahead of it.                   *)
StillAhead ==
    \A i \in DOMAIN calls : \A w \in calls[i].due \ calls[i].seen :
        \E j \in DOMAIN interface : interface[j] = w /\ j > OnFrom(i)

BaseIsLast ==
    \A i \in DOMAIN calls : calls[i].who = Base => calls[i].due \subseteq calls[i].seen

ChainInv == ChainShape /\ Positions /\ StillAhead /\ BaseIsLast

LEMMA StandsUnique ==
  ASSUME NEW list \in Seq(Wrappers), IsInjective(list), NEW stack, NEW n \in Nat,
         NEW p, NEW q, StandsAt(list, stack, p, n), StandsAt(list, stack, q, n)
  PROVE  p = q
<1>1. \A k \in DOMAIN list : list[k] # Base
  BY ChainAssumption
<1>2. CASE p \in DOMAIN list /\ q \in DOMAIN list /\ p # 0 /\ q # 0
  <2>1. PICK i \in 1 .. n : /\ stack[i].who = list[p]
                            /\ \A j \in i + 1 .. n : stack[j].who = Base
    BY <1>2 DEF StandsAt
  <2>2. PICK k \in 1 .. n : /\ stack[k].who = list[q]
                            /\ \A j \in k + 1 .. n : stack[j].who = Base
    BY <1>2 DEF StandsAt
  <2>3. ~ (i < k) /\ ~ (k < i)
    BY <1>1, <1>2, <2>1, <2>2
  <2>4. list[p] = list[q]
    BY <2>1, <2>2, <2>3
  <2> QED
    BY <1>2, <2>4 DEF IsInjective
<1>3. \A k \in DOMAIN list : k # 0
  OBVIOUS
<1> QED
  BY <1>1, <1>2, <1>3 DEF StandsAt

LEMMA StandsBySameCallers ==
  ASSUME NEW list, NEW stack, NEW other, NEW n, NEW pos,
         \A i \in 1 .. n : other[i].who = stack[i].who,
         StandsAt(list, stack, pos, n)
  PROVE  StandsAt(list, other, pos, n)
BY DEF StandsAt

(* The place is that of a running wrapper, the innermost.                  *)
LEMMA StandsIsPasses ==
  ASSUME ChainShape, Positions
  PROVE  PassesToTheRest
<1>1. DOMAIN calls = 1 .. Len(calls) /\ \A k \in DOMAIN interface : interface[k] # Base
  BY ChainAssumption DEF ChainShape
<1>2. StandsAt(interface, calls, current, Len(calls))
  BY DEF Positions
<1>3. CASE current = 0 /\ \A i \in 1 .. Len(calls) : calls[i].who = Base
  BY <1>1, <1>3 DEF PassesToTheRest, Running
<1>4. ASSUME current \in DOMAIN interface,
             NEW i \in 1 .. Len(calls), calls[i].who = interface[current],
             \A j \in i + 1 .. Len(calls) : calls[j].who = Base
      PROVE  PassesToTheRest
  <2>1. i \in Running
    BY <1>1, <1>4 DEF Running
  <2>2. \A k \in Running : k =< i
    BY <1>1, <1>4 DEF Running
  <2> QED
    BY <1>1, <1>4, <2>1, <2>2 DEF PassesToTheRest, Running
<1> QED
  BY <1>2, <1>3, <1>4 DEF StandsAt

LEMMA ChainInitially == ChainInit => ChainInv
BY DEF ChainInit, ChainInv, ChainShape, Positions, StillAhead, BaseIsLast, StandsAt,
       IsInjective, ToSet

(* Outside of all calls nothing hangs on the order of the wrappers.        *)
LEMMA NoCallsInv ==
  ASSUME current = 0, calls = << >>, interface \in Seq(Wrappers), IsInjective(interface),
         enabled \subseteq ToSet(interface)
  PROVE  ChainInv
BY DEF ChainInv, ChainShape, Positions, StillAhead, BaseIsLast, StandsAt

LEMMA NoCallsStand ==
  ASSUME ChainInv, calls = << >>
  PROVE  current = 0
BY DEF ChainInv, Positions, StandsAt

LEMMA ErasedIs ==
  ASSUME interface \in Seq(Wrappers), IsInjective(interface), NEW w \in Wrappers
  PROVE  /\ Erased(w) \in Seq(Wrappers) /\ IsInjective(Erased(w))
         /\ ToSet(Erased(w)) = ToSet(interface) \ {w}
<1>1. CASE w \notin ToSet(interface)
  BY <1>1 DEF Erased
<1>2. CASE w \in ToSet(interface)
  <2> DEFINE p == CHOOSE i \in DOMAIN interface : interface[i] = w
             rest == RemoveAt(interface, p)
  <2>1. p \in 1 .. Len(interface) /\ interface[p] = w
    BY <1>2 DEF ToSet
  <2>2. Erased(w) = rest
    BY <1>2 DEF Erased
  <2> HIDE DEF p
  <2>3. /\ rest \in Seq(Wrappers) /\ Len(rest) = Len(interface) - 1
        /\ \A i \in 1 .. Len(interface) - 1 : rest[i] = interface[Opened(i, p)]
    BY <2>1, ErasedPlaces
  <2> HIDE DEF rest
  <2>4. /\ DOMAIN rest = 1 .. Len(interface) - 1 /\ DOMAIN interface = 1 .. Len(interface)
        /\ Len(interface) \in Nat
    BY <2>3
  <2>5. \A i \in DOMAIN rest : Opened(i, p) \in DOMAIN interface /\ Opened(i, p) # p
    BY <2>1, <2>4 DEF Opened
  <2>6. IsInjective(rest)
    <3> SUFFICES ASSUME NEW i \in DOMAIN rest, NEW j \in DOMAIN rest, rest[i] = rest[j]
                 PROVE  i = j
      BY DEF IsInjective
    <3>1. Opened(i, p) = Opened(j, p)
      BY <2>3, <2>4, <2>5 DEF IsInjective
    <3> QED
      BY <2>1, <2>4, <3>1 DEF Opened
  <2>7. \A i \in DOMAIN interface \ {p} :
           Closed(i, p) \in DOMAIN rest /\ Opened(Closed(i, p), p) = i
    BY <2>1, <2>4 DEF Closed, Opened
  <2>8. ToSet(rest) = ToSet(interface) \ {w}
    <3>1. \A i \in DOMAIN rest : rest[i] \in ToSet(interface) \ {w}
      BY <2>1, <2>3, <2>4, <2>5 DEF ToSet, IsInjective
    <3>2. \A x \in ToSet(interface) \ {w} : x \in ToSet(rest)
      BY <2>1, <2>3, <2>4, <2>7 DEF ToSet
    <3> QED
      BY <3>1, <3>2 DEF ToSet
  <2> QED
    BY <2>2, <2>3, <2>6, <2>8
<1> QED
  BY <1>1, <1>2

LEMMA SetHandlerKeepsInv ==
  ASSUME ChainInv, NEW w \in Wrappers, NEW enable \in BOOLEAN, SetHandler(w, enable)
  PROVE  ChainInv'
<1>1. /\ calls = << >> /\ calls' = << >> /\ current' = current
      /\ interface' = <<w>> \o Erased(w)
      /\ enabled' \subseteq enabled \union {w}
  BY DEF SetHandler
<1>2. /\ interface \in Seq(Wrappers) /\ IsInjective(interface)
      /\ enabled \subseteq ToSet(interface)
  BY DEF ChainInv, ChainShape
<1>3. /\ Erased(w) \in Seq(Wrappers) /\ IsInjective(Erased(w))
      /\ ToSet(Erased(w)) = ToSet(interface) \ {w}
  BY <1>2, ErasedIs
<1> DEFINE rest == Erased(w)
<1> HIDE DEF rest
<1>4. /\ interface' \in Seq(Wrappers) /\ Len(interface') = Len(rest) + 1
      /\ interface'[1] = w
      /\ \A i \in 2 .. Len(rest) + 1 : interface'[i] = rest[i - 1]
  BY <1>1, <1>3, PutInFront DEF rest
<1>5. /\ DOMAIN interface' = 1 .. Len(rest) + 1 /\ DOMAIN rest = 1 .. Len(rest)
      /\ Len(rest) \in Nat
  BY <1>3, <1>4 DEF rest
<1>6. \A i \in DOMAIN rest : rest[i] # w
  BY <1>3 DEF ToSet, rest
<1>7. IsInjective(interface')
  <2> SUFFICES ASSUME NEW i \in DOMAIN interface', NEW j \in DOMAIN interface',
                      interface'[i] = interface'[j]
               PROVE  i = j
    BY DEF IsInjective
  <2>1. i # 1 /\ j # 1 => rest[i - 1] = rest[j - 1] /\ i - 1 \in DOMAIN rest
                                                    /\ j - 1 \in DOMAIN rest
    BY <1>4, <1>5
  <2>2. i # 1 => interface'[i] # w
    BY <1>4, <1>5, <1>6
  <2>3. j # 1 => interface'[j] # w
    BY <1>4, <1>5, <1>6
  <2>4. i # 1 /\ j # 1 => i - 1 = j - 1
    BY <1>3, <2>1 DEF IsInjective, rest
  <2> QED
    BY <1>4, <1>5, <2>2, <2>3, <2>4
<1>8. enabled' \subseteq ToSet(interface')
  <2>1. w \in ToSet(interface')
    BY <1>4, <1>5 DEF ToSet
  <2>2. ASSUME NEW x \in ToSet(rest)
        PROVE  x \in ToSet(interface')
    <3>1. PICK i \in DOMAIN rest : rest[i] = x
      BY DEF ToSet
    <3>2. i + 1 \in DOMAIN interface' /\ interface'[i + 1] = x
      BY <1>4, <1>5, <3>1
    <3> QED
      BY <3>2 DEF ToSet
  <2> QED
    BY <1>1, <1>2, <1>3, <2>1, <2>2 DEF rest
<1>9. current' = 0
  BY <1>1, NoCallsStand
<1> QED
  BY <1>1, <1>4, <1>7, <1>8, <1>9
     DEF ChainInv, ChainShape, Positions, StillAhead, BaseIsLast, StandsAt

LEMMA UnregisterKeepsInv ==
  ASSUME ChainInv, NEW w \in Wrappers, UnregisterWrap(w)
  PROVE  ChainInv'
<1>1. /\ calls = << >> /\ calls' = << >> /\ current' = current
      /\ interface' = Erased(w) /\ enabled' = enabled \ {w}
  BY DEF UnregisterWrap
<1>2. /\ interface' \in Seq(Wrappers) /\ IsInjective(interface')
      /\ enabled' \subseteq ToSet(interface')
  BY <1>1, ErasedIs DEF ChainInv, ChainShape
<1>3. current' = 0
  BY <1>1, NoCallsStand
<1> QED
  BY <1>1, <1>2, <1>3
     DEF ChainInv, ChainShape, Positions, StillAhead, BaseIsLast, StandsAt

LEMMA SetEnabledKeepsInv ==
  ASSUME ChainInv, NEW w \in Wrappers, NEW enable \in BOOLEAN,
         FunctionSetEnabled(w, enable)
  PROVE  ChainInv'
<1>1. /\ interface' = interface /\ current' = current
      /\ w \in ToSet(interface)
  BY DEF FunctionSetEnabled
<1>2. /\ interface \in Seq(Wrappers) /\ IsInjective(interface)
      /\ enabled \subseteq ToSet(interface)
      /\ current \in Nat /\ calls \in Seq(Call)
      /\ \A i \in DOMAIN calls : calls[i].due \subseteq enabled
  BY DEF ChainInv, ChainShape
<1>3. /\ calls' \in Seq(Call) /\ Len(calls') = Len(calls)
      /\ \A i \in 1 .. Len(calls) :
            /\ calls'[i].who = calls[i].who /\ calls'[i].saved = calls[i].saved
            /\ calls'[i].seen = calls[i].seen
            /\ calls'[i].due \subseteq calls[i].due \intersect enabled'
  <2>1. CASE enable
    BY <1>2, <2>1 DEF FunctionSetEnabled
  <2>2. CASE ~ enable
    <3>1. /\ enabled' = enabled \ {w}
          /\ calls' = [i \in DOMAIN calls |-> [calls[i] EXCEPT !.due = calls[i].due \ {w}]]
      BY <2>2 DEF FunctionSetEnabled
    <3>2. DOMAIN calls = 1 .. Len(calls) /\ \A i \in 1 .. Len(calls) : calls[i] \in Call
      BY <1>2
    <3>3. \A i \in 1 .. Len(calls) :
             /\ [calls[i] EXCEPT !.due = calls[i].due \ {w}] =
                   [who |-> calls[i].who, saved |-> calls[i].saved,
                    due |-> calls[i].due \ {w}, seen |-> calls[i].seen]
             /\ [who |-> calls[i].who, saved |-> calls[i].saved,
                 due |-> calls[i].due \ {w}, seen |-> calls[i].seen] \in Call
      <4>1. \A c \in Call :
               [c EXCEPT !.due = c.due \ {w}] =
               [who |-> c.who, saved |-> c.saved, due |-> c.due \ {w}, seen |-> c.seen]
        BY DEF Call
      <4>2. \A c \in Call :
               [who |-> c.who, saved |-> c.saved,
                due |-> c.due \ {w}, seen |-> c.seen] \in Call
        BY DEF Call
      <4> QED
        BY <4>1, <4>2, <3>2
    <3>4. calls' = [i \in 1 .. Len(calls) |->
                      [who |-> calls[i].who, saved |-> calls[i].saved,
                       due |-> calls[i].due \ {w}, seen |-> calls[i].seen]]
      BY <3>1, <3>2, <3>3
    <3>5. calls' \in Seq(Call) /\ Len(calls') = Len(calls)
      <4>1. DOMAIN calls' = 1 .. Len(calls) /\ Len(calls) \in Nat
        BY <1>2, <3>4
      <4>2. \A i \in 1 .. Len(calls) : calls'[i] \in Call
        BY <3>3, <3>4
      <4>3. calls' = [i \in 1 .. Len(calls) |-> calls'[i]]
        BY <3>4
      <4> QED
        BY <4>1, <4>2, <4>3
    <3> QED
      BY <1>2, <3>1, <3>2, <3>4, <3>5
  <2> QED
    BY <2>1, <2>2
<1>4. DOMAIN calls = 1 .. Len(calls) /\ DOMAIN calls' = 1 .. Len(calls) /\ Len(calls) \in Nat
  BY <1>2, <1>3
<1>5. ChainShape'
  <2>1. enabled' \subseteq ToSet(interface')
    BY <1>1, <1>2 DEF FunctionSetEnabled
  <2> QED
    BY <1>1, <1>2, <1>3, <1>4, <2>1 DEF ChainShape
<1>6. Positions'
  <2>1. StandsAt(interface, calls, current, Len(calls))
        /\ \A i \in DOMAIN calls : StandsAt(interface, calls, calls[i].saved, i - 1)
    BY DEF ChainInv, Positions
  <2>2. StandsAt(interface, calls', current, Len(calls))
    BY <1>3, <2>1, StandsBySameCallers
  <2>3. ASSUME NEW i \in 1 .. Len(calls)
        PROVE  StandsAt(interface, calls', calls[i].saved, i - 1)
    <3>1. \A j \in 1 .. i - 1 : calls'[j].who = calls[j].who
      BY <1>3, <1>4
    <3>2. StandsAt(interface, calls, calls[i].saved, i - 1)
      BY <1>4, <2>1
    <3> QED
      BY <3>1, <3>2, StandsBySameCallers
  <2> QED
    BY <1>1, <1>3, <1>4, <2>2, <2>3 DEF Positions
<1>7. StillAhead'
  BY <1>1, <1>3, <1>4 DEF ChainInv, StillAhead, OnFrom
<1>8. BaseIsLast'
  BY <1>3, <1>4 DEF ChainInv, BaseIsLast
<1> QED
  BY <1>5, <1>6, <1>7, <1>8 DEF ChainInv

(* A wrapper that is due for the call made now is enabled and ahead.       *)
LEMMA DueIsWaiting ==
  ASSUME ChainInv, NEW w \in Due \ Seen
  PROVE  \E j \in Waiting : interface[j] = w
<1>1. CASE calls = << >>
  <2>1. w \in enabled /\ current = 0
    BY <1>1, NoCallsStand DEF Due
  <2>2. PICK j \in DOMAIN interface : interface[j] = w
    BY <2>1 DEF ChainInv, ChainShape, ToSet
  <2>3. j \in current + 1 .. Len(interface)
    BY <2>1, <2>2 DEF ChainInv, ChainShape
  <2> QED
    BY <2>1, <2>2, <2>3 DEF Waiting
<1>2. CASE calls # << >>
  <2>1. Len(calls) \in DOMAIN calls
    BY <1>2 DEF ChainInv, ChainShape
  <2>2. w \in calls[Len(calls)].due \ calls[Len(calls)].seen
    BY <1>2 DEF Due, Seen, Last
  <2>3. PICK j \in DOMAIN interface : interface[j] = w /\ j > current
    BY <2>1, <2>2 DEF ChainInv, StillAhead, OnFrom
  <2>4. w \in enabled
    BY <2>1, <2>2 DEF ChainInv, ChainShape
  <2>5. j \in current + 1 .. Len(interface)
    BY <2>3 DEF ChainInv, ChainShape
  <2> QED
    BY <2>3, <2>4, <2>5 DEF Waiting
<1> QED
  BY <1>1, <1>2

(* A call, whoever it reaches: the others are where they were.             *)
LEMMA CalledKeepsInv ==
  ASSUME ChainInv, NEW c \in Call, calls' = Append(calls, c),
         c.saved = current, c.due \subseteq Due,
         current' \in Nat, UNCHANGED <<interface, enabled>>,
         c.who # Base => current' \in DOMAIN interface /\ interface[current'] = c.who,
         c.who = Base => current' = current /\ c.due \subseteq c.seen,
         \A w \in c.due \ c.seen :
            \E j \in DOMAIN interface : interface[j] = w /\ j > current'
  PROVE  ChainInv'
<1> DEFINE n == Len(calls)
<1>1. ChainShape /\ Positions /\ StillAhead /\ BaseIsLast
  BY DEF ChainInv
<1>2. calls \in Seq(Call) /\ n \in Nat /\ DOMAIN calls = 1 .. n
  BY <1>1 DEF ChainShape
<1>3. /\ calls' \in Seq(Call) /\ Len(calls') = n + 1 /\ DOMAIN calls' = 1 .. n + 1
      /\ calls'[n + 1] = c /\ \A i \in 1 .. n : calls'[i] = calls[i]
  BY <1>2
<1> HIDE DEF n
<1>4. ChainShape'
  <2>1. Due \subseteq enabled
    BY <1>1, <1>2 DEF Due, ChainShape, Last
  <2> QED
    BY <1>1, <1>2, <1>3, <2>1 DEF ChainShape
<1>5. Positions'
  <2>1. \A i \in 1 .. n : StandsAt(interface, calls', calls'[i].saved, i - 1)
    <3> SUFFICES ASSUME NEW i \in 1 .. n
                 PROVE  StandsAt(interface, calls', calls[i].saved, i - 1)
      BY <1>3
    <3>1. StandsAt(interface, calls, calls[i].saved, i - 1)
      BY <1>1, <1>2 DEF Positions
    <3>2. \A j \in 1 .. i - 1 : calls'[j].who = calls[j].who
      BY <1>2, <1>3
    <3> QED
      BY <3>1, <3>2, StandsBySameCallers
  <2>2. StandsAt(interface, calls', current, n)
    <3>1. StandsAt(interface, calls, current, n)
      BY <1>1 DEF Positions, n
    <3>2. \A j \in 1 .. n : calls'[j].who = calls[j].who
      BY <1>2, <1>3
    <3> QED
      BY <3>1, <3>2, StandsBySameCallers
  <2>3. StandsAt(interface, calls', current', n + 1)
    <3>1. CASE c.who # Base
      BY <1>2, <1>3, <3>1 DEF StandsAt
    <3>2. CASE c.who = Base
      BY <1>2, <1>3, <2>2, <3>2 DEF StandsAt
    <3> QED
      BY <3>1, <3>2
  <2>4. \A i \in DOMAIN calls' : StandsAt(interface, calls', calls'[i].saved, i - 1)
    <3> SUFFICES ASSUME NEW i \in 1 .. n + 1
                 PROVE  StandsAt(interface, calls', calls'[i].saved, i - 1)
      BY <1>3
    <3>1. CASE i \in 1 .. n
      BY <2>1, <3>1
    <3>2. CASE i = n + 1
      BY <1>2, <1>3, <2>2, <3>2
    <3> QED
      BY <1>2, <3>1, <3>2
  <2> QED
    BY <1>3, <2>3, <2>4 DEF Positions
<1>6. StillAhead'
  <2> SUFFICES ASSUME NEW i \in 1 .. n + 1, NEW w \in calls'[i].due \ calls'[i].seen
               PROVE  \E j \in DOMAIN interface : interface[j] = w /\ j > OnFrom(i)'
    BY <1>3 DEF StillAhead
  <2>1. CASE i \in 1 .. n
    <3>1. OnFrom(i)' = OnFrom(i)
      <4>1. OnFrom(i)' = calls'[i + 1].saved
        BY <1>2, <1>3, <2>1 DEF OnFrom
      <4>2. Len(calls) = n
        BY DEF n
      <4>3. CASE i = n
        BY <1>3, <4>1, <4>2, <4>3 DEF OnFrom
      <4>4. CASE i # n
        <5>1. i + 1 \in 1 .. n
          BY <1>2, <2>1, <4>4
        <5> QED
          BY <1>3, <4>1, <4>2, <4>4, <5>1 DEF OnFrom
      <4> QED
        BY <4>3, <4>4
    <3> QED
      BY <1>1, <1>2, <1>3, <2>1, <3>1 DEF StillAhead
  <2>2. CASE i = n + 1
    BY <1>3, <2>2 DEF OnFrom
  <2> QED
    BY <1>2, <2>1, <2>2
<1>7. BaseIsLast'
  BY <1>1, <1>2, <1>3 DEF BaseIsLast
<1> QED
  BY <1>4, <1>5, <1>6, <1>7 DEF ChainInv

LEMMA SeenDueTypes ==
  ASSUME ChainInv
  PROVE  Due \in SUBSET Wrappers /\ Seen \in SUBSET Wrappers
<1>1. interface \in Seq(Wrappers) /\ enabled \subseteq ToSet(interface)
      /\ calls \in Seq(Call)
  BY DEF ChainInv, ChainShape
<1>2. enabled \subseteq Wrappers
  BY <1>1 DEF ToSet
<1>3. calls # << >> => calls[Len(calls)] \in Call
  BY <1>1
<1> QED
  BY <1>2, <1>3 DEF Due, Seen, Last, Call

LEMMA RunsWrapperKeepsInv ==
  ASSUME ChainInv, RunsWrapper, UNCHANGED <<interface, enabled>>
  PROVE  ChainInv'
<1> DEFINE next == Min(Waiting)
           c == [who |-> interface[next], saved |-> current,
                 due |-> Due, seen |-> Seen \union {interface[next]}]
<1>1. /\ interface \in Seq(Wrappers) /\ current \in Nat /\ Waiting # {}
      /\ Waiting \subseteq DOMAIN interface
      /\ \A j \in Waiting : j > current
  BY DEF RunsWrapper, Waiting, ChainInv, ChainShape
<1>2. next \in Waiting /\ \A j \in Waiting : next =< j
  BY <1>1, MinIsFirst
<1>3. calls' = Append(calls, c) /\ current' = next
  BY DEF RunsWrapper
<1> HIDE DEF next
<1>4. next \in DOMAIN interface /\ next \in Nat /\ interface[next] \in Wrappers
  BY <1>1, <1>2
<1>5. /\ c \in Call /\ c.saved = current /\ c.due = Due
      /\ c.seen = Seen \union {interface[next]}
      /\ c.who = interface[next] /\ c.who # Base
  BY <1>1, <1>4, SeenDueTypes, ChainAssumption DEF Call
<1> HIDE DEF c
<1>6. ASSUME NEW w \in c.due \ c.seen
      PROVE  \E j \in DOMAIN interface : interface[j] = w /\ j > current'
  <2>1. PICK j \in Waiting : interface[j] = w
    BY <1>5, <1>6, DueIsWaiting
  <2>2. j # next /\ next =< j
    BY <1>2, <1>5, <1>6, <2>1
  <2> QED
    BY <1>1, <1>3, <1>4, <2>1, <2>2
<1> QED
  BY <1>3, <1>4, <1>5, <1>6, CalledKeepsInv

LEMMA RunsBaseKeepsInv ==
  ASSUME ChainInv, RunsBase, UNCHANGED <<interface, enabled>>
  PROVE  ChainInv'
<1> DEFINE c == [who |-> Base, saved |-> current, due |-> Due, seen |-> Seen]
<1>1. Waiting = {} /\ calls' = Append(calls, c) /\ current' = current
  BY DEF RunsBase
<1>2. /\ c \in Call /\ c.saved = current /\ c.due = Due /\ c.seen = Seen /\ c.who = Base
      /\ current \in Nat
  BY SeenDueTypes DEF Call, ChainInv, ChainShape
<1> HIDE DEF c
<1>3. c.due \subseteq c.seen
  BY <1>1, <1>2, DueIsWaiting
<1> QED
  BY <1>1, <1>2, <1>3, CalledKeepsInv

(* A return puts the index back to where the caller stood: a wrapper by    *)
(* what it saved, the base by leaving it alone.                            *)
LEMMA ReturnKeepsInv ==
  ASSUME ChainInv, ReturnFromCall
  PROVE  ChainInv'
<1> DEFINE n == Len(calls)
<1>1. ChainShape /\ Positions /\ StillAhead /\ BaseIsLast
  BY DEF ChainInv
<1>2. /\ calls \in Seq(Call) /\ n \in Nat \ {0} /\ DOMAIN calls = 1 .. n
      /\ interface' = interface /\ enabled' = enabled
      /\ calls' = SubSeq(calls, 1, n - 1)
      /\ current' = IF calls[n].who = Base THEN current ELSE calls[n].saved
  BY <1>1 DEF ReturnFromCall, ChainShape, Front, Last
<1>3. /\ calls' \in Seq(Call) /\ Len(calls') = n - 1 /\ DOMAIN calls' = 1 .. n - 1
      /\ \A i \in 1 .. n - 1 : calls'[i] = calls[i]
  BY <1>2
<1>4. /\ StandsAt(interface, calls, current, n)
      /\ \A i \in 1 .. n : StandsAt(interface, calls, calls[i].saved, i - 1)
  BY <1>1, <1>2 DEF Positions
<1> HIDE DEF n
<1>5. current' = calls[n].saved
  <2> SUFFICES ASSUME calls[n].who = Base
               PROVE  current = calls[n].saved
    BY <1>2
  <2>1. StandsAt(interface, calls, calls[n].saved, n - 1) /\ n - 1 \in Nat
    BY <1>2, <1>4
  <2>2. StandsAt(interface, calls, current, n - 1)
    <3>1. \A k \in DOMAIN interface : interface[k] # Base
      BY <1>1, ChainAssumption DEF ChainShape
    <3> QED
      BY <1>2, <1>4, <3>1 DEF StandsAt
  <2> QED
    BY <1>1, <2>1, <2>2, StandsUnique DEF ChainShape
<1>6. ChainShape'
  <2>1. calls[n] \in Call
    BY <1>2
  <2>2. current' \in Nat
    BY <1>5, <2>1 DEF Call
  <2> QED
    BY <1>1, <1>2, <1>3, <2>2 DEF ChainShape
<1>7. Positions'
  <2>1. ASSUME NEW i \in 1 .. n
        PROVE  StandsAt(interface, calls', calls[i].saved, i - 1)
    <3>1. \A j \in 1 .. i - 1 : calls'[j].who = calls[j].who
      BY <1>2, <1>3
    <3> QED
      BY <1>4, <3>1, StandsBySameCallers
  <2>2. \A i \in 1 .. n - 1 : StandsAt(interface, calls', calls'[i].saved, i - 1)
    BY <1>2, <1>3, <2>1
  <2>3. StandsAt(interface, calls', current', n - 1)
    BY <1>2, <1>5, <2>1
  <2> QED
    BY <1>2, <1>3, <2>2, <2>3 DEF Positions
<1>8. StillAhead'
  <2> SUFFICES ASSUME NEW i \in 1 .. n - 1, NEW w \in calls[i].due \ calls[i].seen
               PROVE  \E j \in DOMAIN interface : interface[j] = w /\ j > OnFrom(i)'
    BY <1>2, <1>3 DEF StillAhead
  <2>1. OnFrom(i)' = OnFrom(i)
    <3>1. Len(calls) = n /\ i \in Nat /\ i + 1 \in 1 .. n
      BY <1>2 DEF n
    <3>2. CASE i = n - 1
      BY <1>2, <1>3, <1>5, <3>1, <3>2 DEF OnFrom
    <3>3. CASE i # n - 1
      <4>1. i # n /\ i + 1 \in 1 .. n - 1
        BY <1>2, <3>3
      <4> QED
        BY <1>3, <3>1, <3>3, <4>1 DEF OnFrom
    <3> QED
      BY <3>2, <3>3
  <2> QED
    BY <1>1, <1>2, <2>1 DEF StillAhead
<1>9. BaseIsLast'
  BY <1>1, <1>2, <1>3 DEF BaseIsLast
<1> QED
  BY <1>6, <1>7, <1>8, <1>9 DEF ChainInv

THEOREM ChainInvariant == ChainSpec => []ChainInv
<1>1. ChainInv /\ [ChainNext]_chainVars => ChainInv'
  <2> SUFFICES ASSUME ChainInv, [ChainNext]_chainVars
               PROVE  ChainInv'
    OBVIOUS
  <2>1. ASSUME NEW w \in Wrappers, NEW enable \in BOOLEAN,
               SetHandler(w, enable) \/ FunctionSetEnabled(w, enable)
        PROVE  ChainInv'
    BY <2>1, SetHandlerKeepsInv, SetEnabledKeepsInv
  <2>2. ASSUME NEW w \in Wrappers, UnregisterWrap(w)
        PROVE  ChainInv'
    BY <2>2, UnregisterKeepsInv
  <2>3. CASE CallFunction
    BY <2>3, RunsWrapperKeepsInv, RunsBaseKeepsInv DEF CallFunction
  <2>4. CASE ReturnFromCall
    BY <2>4, ReturnKeepsInv
  <2>5. CASE UNCHANGED chainVars
    BY <2>5 DEF chainVars, ChainInv, ChainShape, Positions, StillAhead, OnFrom, BaseIsLast
  <2> QED
    BY <2>1, <2>2, <2>3, <2>4, <2>5 DEF ChainNext
<1> QED
  BY ChainInitially, <1>1, PTL DEF ChainSpec

(* Every wrapper hears of every call, in whatever way the calls are nested *)
(* and wrappers are enabled and disabled among them.                       *)
THEOREM CallsAreHeardByAll == ChainSpec => []HeardByAll
<1>1. ChainInv => HeardByAll
  BY StandsIsPasses DEF ChainInv, HeardByAll, BaseIsLast
<1> QED
  BY <1>1, ChainInvariant, PTL

-----------------------------------------------------------------------------
(* The inductive invariant of the pings.  DialogAnswerable needs to know   *)
(* that a window with requests to close has the time of the last one, and  *)
(* that a dead one has no requests left to count: then the answer that     *)
(* revives it, which forgets the time, forgets no request.  DeadWhenSilent *)
(* needs to know where lastPong lags: only in a window that has not been   *)
(* heard, and, if it takes part, that was pinged or joined since.          *)
PingInv ==
    /\ lastPing \in Nat
    /\ lastPong \in [Pinged -> Nat]
    /\ closeRequests \in [Pinged -> Nat]
    /\ awaited \in [Pinged -> Nat]
    /\ alive \subseteq Pinged /\ viewable \subseteq Pinged
    /\ excused \in [remapped : SUBSET Pinged, joined : SUBSET Pinged]
    /\ \A w \in Pinged \ alive : closeRequests[w] = 0
    /\ \A w \in Pinged : closeRequests[w] > 0 => w \in lastCloseRequestTime
    /\ \A w \in dialog : w \in lastCloseRequestTime /\ (w \in alive => w \in excused.remapped)
    /\ \A w \in heard : lastPong[w] = lastPing
    /\ heard \subseteq Pinged
    /\ \A w \in TakesPart : lastPong[w] < lastPing => w \in pinged \union excused.joined

LEMMA PingInvInit == PingInit => PingInv
  BY DEF PingInit, PingInv, TakesPart

LEMMA PingInvStep == PingInv /\ [PingNext]_pingVars => PingInv'
<1> SUFFICES ASSUME PingInv, [PingNext]_pingVars
             PROVE  PingInv'
  OBVIOUS
<1> USE DEF PingInv
<1>1. CASE PingTimeout
  <2>1. Silent \subseteq Pinged /\ Mourned \subseteq Silent /\ TakesPart \subseteq Pinged
    BY DEF Silent, Mourned, TakesPart
  <2>2. excused' = [remapped |-> excused.remapped, joined |-> {}]
    BY <1>1 DEF PingTimeout
  <2>3. TakesPart' = TakesPart
    BY <1>1 DEF PingTimeout, TakesPart
  <2>4. /\ lastPing' \in Nat /\ lastPong' = lastPong
        /\ closeRequests' \in [Pinged -> Nat]
        /\ awaited' \in [Pinged -> Nat]
        /\ excused' \in [remapped : SUBSET Pinged, joined : SUBSET Pinged]
        /\ heard' = {}
    BY <1>1, <2>2 DEF PingTimeout, DeclareDead
  <2>5. \A w \in dialog' : w \in lastCloseRequestTime' /\ (w \in alive' => w \in excused'.remapped)
    BY <1>1, <2>1, <2>2 DEF PingTimeout, DeclareDead, Mourned
  <2>6. \A w \in Pinged \ alive' : closeRequests'[w] = 0
    BY <1>1, <2>1 DEF PingTimeout, DeclareDead
  <2>7. \A w \in Pinged : closeRequests'[w] > 0 => w \in lastCloseRequestTime'
    BY <1>1, <2>1 DEF PingTimeout, DeclareDead
  <2> QED
    BY <1>1, <2>3, <2>4, <2>5, <2>6, <2>7 DEF PingTimeout, DeclareDead
<1>2. ASSUME NEW w \in Pinged, HandlePing(w)
      PROVE  PingInv'
  <2>1. TakesPart' = TakesPart
    BY <1>2 DEF HandlePing, TakesPart
  <2>2. /\ excused' \in [remapped : SUBSET Pinged, joined : SUBSET Pinged]
        /\ excused'.joined = excused.joined
        /\ \A x \in Pinged : x # w => (x \in excused.remapped <=> x \in excused'.remapped)
        /\ w \in alive => excused' = excused
    <3>1. [excused EXCEPT !.remapped = @ \ {w}] =
             [remapped |-> excused.remapped \ {w}, joined |-> excused.joined]
      OBVIOUS
    <3> QED
      BY <1>2, <3>1 DEF HandlePing
  <2>3. /\ lastPong' \in [Pinged -> Nat] /\ awaited' \in [Pinged -> Nat]
        /\ lastPong'[w] = lastPing
        /\ \A x \in Pinged : x # w => lastPong'[x] = lastPong[x]
    BY <1>2 DEF HandlePing
  <2>4. dialog' \subseteq dialog /\ lastCloseRequestTime' \subseteq lastCloseRequestTime
    BY <1>2 DEF HandlePing
  <2>5. \A x \in dialog' : x \in lastCloseRequestTime' /\ (x \in alive' => x \in excused'.remapped)
    <3>1. CASE w \in alive
      BY <1>2, <2>2, <3>1 DEF HandlePing
    <3>2. CASE w \notin alive
      <4>1. w \notin dialog'
        BY <1>2, <3>2 DEF HandlePing
      <4>2. \A x \in dialog' : x \in dialog /\ x # w
        BY <2>4, <4>1
      <4>3. \A x \in dialog' : x \in lastCloseRequestTime' /\ (x \in alive' => x \in alive)
        BY <1>2, <3>2, <4>2 DEF HandlePing
      <4> QED
        BY <2>2, <4>2, <4>3
    <3> QED
      BY <3>1, <3>2
  <2>6. \A x \in Pinged : closeRequests'[x] > 0 => x \in lastCloseRequestTime'
    BY <1>2 DEF HandlePing
  <2> QED
    BY <1>2, <2>1, <2>2, <2>3, <2>5, <2>6 DEF HandlePing, TakesPart
<1>3. ASSUME NEW w \in Pinged, CloseWindow(w)
      PROVE  PingInv'
  <2>1. TakesPart' = TakesPart
    BY <1>3 DEF CloseWindow, TakesPart
  <2> QED
    BY <1>3, <2>1 DEF CloseWindow
<1>4. ASSUME NEW w \in Pinged, MapWindow(w)
      PROVE  PingInv'
  <2>1. TakesPart' \subseteq TakesPart \union {w}
    BY <1>4 DEF MapWindow, TakesPart
  <2>2. /\ excused' \in [remapped : SUBSET Pinged, joined : SUBSET Pinged]
        /\ excused'.joined = excused.joined
        /\ excused.remapped \subseteq excused'.remapped
        /\ w \in alive \/ w \in excused'.remapped
    <3>1. [excused EXCEPT !.remapped = @ \union {w}] =
             [remapped |-> excused.remapped \union {w}, joined |-> excused.joined]
      OBVIOUS
    <3> QED
      BY <1>4, <3>1 DEF MapWindow
  <2>3. /\ lastPong' \in [Pinged -> Nat]
        /\ lastPong'[w] = lastPing
        /\ \A x \in Pinged : x # w => lastPong'[x] = lastPong[x]
    BY <1>4 DEF MapWindow
  <2> QED
    BY <1>4, <2>1, <2>2, <2>3 DEF MapWindow, TakesPart
<1>5. ASSUME NEW w \in Pinged, UnmapWindow(w)
      PROVE  PingInv'
  BY <1>5 DEF UnmapWindow, TakesPart
<1>6. ASSUME NEW w \in Pinged, ChangeProperty(w)
      PROVE  PingInv'
  <2>1. excused' = [remapped |-> excused.remapped, joined |-> excused.joined \union {w}]
    BY <1>6 DEF ChangeProperty
  <2>2. TakesPart' \subseteq TakesPart \union {w}
    BY <1>6 DEF ChangeProperty, TakesPart
  <2> QED
    BY <1>6, <2>1, <2>2 DEF ChangeProperty, TakesPart
<1>7. CASE UNCHANGED pingVars
  BY <1>7 DEF pingVars, TakesPart
<1> QED
  BY <1>1, <1>2, <1>3, <1>4, <1>5, <1>6, <1>7 DEF PingNext

THEOREM PingInvariant == PingSpec => []PingInv
<1>1. PingInit => PingInv
  BY PingInvInit
<1>2. PingInv /\ [PingNext]_pingVars => PingInv'
  BY PingInvStep
<1> QED
  BY <1>1, <1>2, PTL DEF PingSpec

(* An answer of a dead window takes its dialog down: the time of the last  *)
(* request to close, which guards that, is not lost while the dialog is    *)
(* up.  Only the dialog of a live window is left up by an answer, and only *)
(* a window mapped anew while it was dead has such a dialog.               *)
THEOREM DialogsComeDown ==
    PingSpec =>
        /\ []DialogAnswerable
        /\ [][\A w \in Pinged :
                 HandlePing(w) =>
                    (w \in dialog' <=>
                        w \in dialog /\ w \in alive \intersect excused.remapped)]_pingVars
<1> DEFINE TakenDown ==
       \A w \in Pinged :
          HandlePing(w) =>
             (w \in dialog' <=> w \in dialog /\ w \in alive \intersect excused.remapped)
<1>1. PingInv => DialogAnswerable
  BY DEF PingInv, DialogAnswerable
<1>2. PingInv /\ [PingNext]_pingVars => [TakenDown]_pingVars
  <2> SUFFICES ASSUME PingInv, NEW w \in Pinged, HandlePing(w)
               PROVE  w \in dialog' <=> w \in dialog /\ w \in alive \intersect excused.remapped
    OBVIOUS
  <2>1. w \in dialog => w \in lastCloseRequestTime /\ (w \in alive => w \in excused.remapped)
    BY DEF PingInv
  <2>2. CASE w \in alive
    BY <2>1, <2>2 DEF HandlePing
  <2>3. CASE w \notin alive
    BY <2>1, <2>3 DEF HandlePing
  <2> QED
    BY <2>2, <2>3
<1> QED
  BY <1>1, <1>2, PingInvariant, PTL DEF PingSpec

(* No window is declared dead that answered since the last expiry of the   *)
(* ping timer, nor one that was not asked, but for a late joiner.          *)
THEOREM TheDeadWereSilent == PingSpec => DeadWhenSilent
<1> DEFINE OnlySilent ==
       \A w \in alive \ alive' : w \notin heard /\ (w \in pinged \/ w \in excused.joined)
<1>1. PingInv /\ [PingNext]_pingVars => [OnlySilent]_pingVars
  <2> SUFFICES ASSUME PingInv, PingNext
               PROVE  OnlySilent
    OBVIOUS
  <2>1. CASE PingTimeout
    <3>1. alive \ alive' \subseteq Silent
      BY <2>1 DEF PingTimeout, DeclareDead
    <3>2. \A w \in Silent : w \notin heard /\ w \in pinged \union excused.joined
      BY DEF PingInv, Silent, TakesPart
    <3> QED
      BY <3>1, <3>2
  <2>2. ASSUME NEW w \in Pinged,
               HandlePing(w) \/ CloseWindow(w) \/ MapWindow(w)
               \/ UnmapWindow(w) \/ ChangeProperty(w)
        PROVE  OnlySilent
    <3>1. alive \subseteq alive'
      BY <2>2 DEF HandlePing, CloseWindow, MapWindow, UnmapWindow, ChangeProperty
    <3> QED
      BY <3>1
  <2> QED
    BY <2>1, <2>2 DEF PingNext
<1> QED
  BY <1>1, PingInvariant, PTL DEF PingSpec, DeadWhenSilent

-----------------------------------------------------------------------------
(* Key grabs and key events: the server's side of KeysGrabbed and the      *)
(* counts are one invariant (KeysInv), which key events keep too; theirs   *)
(* rests on it.                                                            *)

Users(e) == {a \in activeActions : EntryOf(a) = e}

EdgeUsers(e) == {a \in activeActions : e \in EdgesOf[a]}

KeysShape ==
    /\ layout \in Layouts
    /\ activeActions \subseteq Actions /\ IsFiniteSet(activeActions)
    /\ DOMAIN keyGrabs \subseteq AllEntries
    /\ \A e \in DOMAIN keyGrabs : keyGrabs[e] \in Nat \ {0}
    /\ remapped \in BOOLEAN
    /\ refused \subseteq DOMAIN keyGrabs

(* A combination belongs to one client: what is grabbed for compiz can be  *)
(* grabbed again after XUngrabKey.                                         *)
OwnKeys == serverKeys \intersect foreignKeys = {}

EntriesCounted ==
    ~ remapped => \A e \in AllEntries :
        Cardinality(Users(e)) = IF e \in DOMAIN keyGrabs THEN keyGrabs[e] ELSE 0

(* edgesMapped follows the count of an edge, so the count must be exact.   *)
EdgesCounted ==
    /\ edgeCount = [e \in Edges |-> Cardinality(EdgeUsers(e))]
    /\ edgesMapped = UNION {EdgesOf[a] : a \in activeActions}

KeysInv == KeysShape /\ OwnKeys /\ EntriesCounted /\ EdgesCounted /\ KeysGrabbed

LEMMA CountsFollow == EntriesCounted /\ EdgesCounted => CountsExact
BY DEF EntriesCounted, EdgesCounted, CountsExact, Users, AllEntries

-----------------------------------------------------------------------------
(* Combinations                                                            *)

LEMMA PlainCombinations ==
  ASSUME NEW l, NEW e, ~ ModifierOnly(l, e.keycode)
  PROVE  AllCombinations(l, e) =
            {<<e.keycode, e.mods \union ignored>> : ignored \in SUBSET IgnoredMods(l)}
<1>1. \A ignored : Combinations(l, e, ignored) = {<<e.keycode, e.mods \union ignored>>}
  BY DEF Combinations
<1>2. \A c : c \in AllCombinations(l, e) <=>
                \E ignored \in SUBSET IgnoredMods(l) : c \in Combinations(l, e, ignored)
  BY DEF AllCombinations
<1> QED
  BY <1>1, <1>2

(* Without another client's grabs in the way an entry gets all it asks for. *)
LEMMA GrabsAll ==
  ASSUME NEW l, NEW e, CanGrab(l, e)
  PROVE  GrabKeys(l, e) = AllCombinations(l, e)
<1>1. \A ignored \in SUBSET IgnoredMods(l) : ~ Refused(l, e, ignored)
  BY DEF CanGrab
<1>2. GrabKeys(l, e) = AllCombinations(l, e) \ foreignKeys
  BY <1>1 DEF GrabKeys, AllCombinations
<1>3. AllCombinations(l, e) \intersect foreignKeys = {}
  BY <1>1 DEF AllCombinations, Refused
<1> QED
  BY <1>2, <1>3

LEMMA GrabIsOwn ==
  ASSUME NEW l, NEW e
  PROVE  GrabKeys(l, e) \intersect foreignKeys = {}
BY DEF GrabKeys

(* What is grabbed for compiz can be grabbed again.                        *)
LEMMA GrabbedIsFree ==
  ASSUME NEW l, NEW e, OwnKeys, AllCombinations(l, e) \subseteq serverKeys
  PROVE  CanGrab(l, e)
<1>1. AllCombinations(l, e) \intersect foreignKeys = {}
  BY DEF OwnKeys
<1> QED
  BY <1>1 DEF CanGrab, Refused, AllCombinations

(* What XUngrabKey takes for one plain key is not of another entry.        *)
LEMMA UngrabSpares ==
  ASSUME NEW e \in AllEntries, NEW f \in AllEntries, e # f,
         ~ ModifierOnly(layout, e.keycode), ~ ModifierOnly(layout, f.keycode),
         ApartFromLocks(e)
  PROVE  AllCombinations(layout, e) \intersect AllCombinations(layout, f) = {}
<1> DEFINE locks == IgnoredMods(layout)
<1>1. /\ AllCombinations(layout, e) = {<<e.keycode, e.mods \union s>> : s \in SUBSET locks}
      /\ AllCombinations(layout, f) = {<<f.keycode, f.mods \union t>> : t \in SUBSET locks}
  BY PlainCombinations
<1>2. ~ (f.keycode = e.keycode /\ f.mods \ locks = e.mods \ locks)
  BY DEF ApartFromLocks, AllEntries
<1> HIDE DEF locks
<1>3. ASSUME NEW s \in SUBSET locks, NEW t \in SUBSET locks,
             <<e.keycode, e.mods \union s>> = <<f.keycode, f.mods \union t>>
      PROVE  FALSE
  BY <1>2, <1>3
<1> QED
  BY <1>1, <1>3

(* All entries are grabbed again: those not refused are.                   *)
LEMMA Regrabbed ==
  ASSUME NEW l, NEW E
  PROVE  /\ GrabEntries(l, E) \intersect foreignKeys = {}
         /\ \A e \in E \ NotGrabbed(l, E) : NoMask \notin e.mods
               => AllCombinations(l, e) \subseteq GrabEntries(l, E)
<1>1. GrabEntries(l, E) \intersect foreignKeys = {}
  BY GrabIsOwn DEF GrabEntries
<1>2. ASSUME NEW e \in E \ NotGrabbed(l, E), NoMask \notin e.mods
      PROVE  AllCombinations(l, e) \subseteq GrabEntries(l, E)
  <2>1. CanGrab(l, e)
    BY <1>2 DEF NotGrabbed
  <2>2. GrabKeys(l, e) = AllCombinations(l, e)
    BY <2>1, GrabsAll
  <2> QED
    BY <1>2, <2>2 DEF GrabEntries
<1> QED
  BY <1>1, <1>2

-----------------------------------------------------------------------------
(* Counts                                                                  *)

LEMMA EntryIsEntry ==
  ASSUME KeysShape, NEW a \in Actions
  PROVE  EntryOf(a) \in AllEntries
BY DEF KeysShape, EntryOf, AllEntries, Entries

LEMMA UsersFinite ==
  ASSUME KeysShape
  PROVE  /\ \A e : IsFiniteSet(Users(e)) /\ Cardinality(Users(e)) \in Nat
         /\ \A e : IsFiniteSet(EdgeUsers(e)) /\ Cardinality(EdgeUsers(e)) \in Nat
<1>1. \A e : Users(e) \subseteq activeActions /\ EdgeUsers(e) \subseteq activeActions
  BY DEF Users, EdgeUsers
<1> QED
  BY <1>1, FS_Subset, FS_CardinalityType DEF KeysShape

LEMMA ActionAdded ==
  ASSUME KeysShape, NEW a \in Actions \ activeActions,
         activeActions' = activeActions \union {a}, layout' = layout
  PROVE  /\ \A e : Cardinality(Users(e)') =
               Cardinality(Users(e)) + (IF e = EntryOf(a) THEN 1 ELSE 0)
         /\ \A e : Cardinality(EdgeUsers(e)') =
               Cardinality(EdgeUsers(e)) + (IF e \in EdgesOf[a] THEN 1 ELSE 0)
<1>1. ASSUME NEW e
      PROVE  Cardinality(Users(e)') =
                Cardinality(Users(e)) + (IF e = EntryOf(a) THEN 1 ELSE 0)
  <2>1. Users(e)' = IF e = EntryOf(a) THEN Users(e) \union {a} ELSE Users(e)
    BY DEF Users, EntryOf
  <2>2. a \notin Users(e) /\ IsFiniteSet(Users(e)) /\ Cardinality(Users(e)) \in Nat
    BY UsersFinite DEF Users
  <2>3. Cardinality(Users(e) \union {a}) = Cardinality(Users(e)) + 1
    BY <2>2, FS_AddElement
  <2> QED
    BY <2>1, <2>2, <2>3
<1>2. ASSUME NEW e
      PROVE  Cardinality(EdgeUsers(e)') =
                Cardinality(EdgeUsers(e)) + (IF e \in EdgesOf[a] THEN 1 ELSE 0)
  <2>1. EdgeUsers(e)' = IF e \in EdgesOf[a] THEN EdgeUsers(e) \union {a} ELSE EdgeUsers(e)
    BY DEF EdgeUsers
  <2>2. /\ a \notin EdgeUsers(e) /\ IsFiniteSet(EdgeUsers(e))
        /\ Cardinality(EdgeUsers(e)) \in Nat
    BY UsersFinite DEF EdgeUsers
  <2>3. Cardinality(EdgeUsers(e) \union {a}) = Cardinality(EdgeUsers(e)) + 1
    BY <2>2, FS_AddElement
  <2> QED
    BY <2>1, <2>2, <2>3
<1> QED
  BY <1>1, <1>2

LEMMA ActionRemoved ==
  ASSUME KeysShape, NEW a \in activeActions,
         activeActions' = activeActions \ {a}, layout' = layout
  PROVE  /\ \A e : Cardinality(Users(e)') =
               Cardinality(Users(e)) - (IF e = EntryOf(a) THEN 1 ELSE 0)
         /\ \A e : Cardinality(EdgeUsers(e)') =
               Cardinality(EdgeUsers(e)) - (IF e \in EdgesOf[a] THEN 1 ELSE 0)
<1>1. ASSUME NEW e
      PROVE  Cardinality(Users(e)') =
                Cardinality(Users(e)) - (IF e = EntryOf(a) THEN 1 ELSE 0)
  <2>1. Users(e)' = IF e = EntryOf(a) THEN Users(e) \ {a} ELSE Users(e)
    BY DEF Users, EntryOf
  <2>2. /\ e = EntryOf(a) => a \in Users(e)
        /\ IsFiniteSet(Users(e)) /\ Cardinality(Users(e)) \in Nat
    BY UsersFinite DEF Users
  <2>3. a \in Users(e) => Cardinality(Users(e) \ {a}) = Cardinality(Users(e)) - 1
    BY <2>2, FS_RemoveElement
  <2> QED
    BY <2>1, <2>2, <2>3
<1>2. ASSUME NEW e
      PROVE  Cardinality(EdgeUsers(e)') =
                Cardinality(EdgeUsers(e)) - (IF e \in EdgesOf[a] THEN 1 ELSE 0)
  <2>1. EdgeUsers(e)' = IF e \in EdgesOf[a] THEN EdgeUsers(e) \ {a} ELSE EdgeUsers(e)
    BY DEF EdgeUsers
  <2>2. /\ e \in EdgesOf[a] => a \in EdgeUsers(e)
        /\ IsFiniteSet(EdgeUsers(e)) /\ Cardinality(EdgeUsers(e)) \in Nat
    BY UsersFinite DEF EdgeUsers
  <2>3. a \in EdgeUsers(e) => Cardinality(EdgeUsers(e) \ {a}) = Cardinality(EdgeUsers(e)) - 1
    BY <2>2, FS_RemoveElement
  <2> QED
    BY <2>1, <2>2, <2>3
<1> QED
  BY <1>1, <1>2

-----------------------------------------------------------------------------
(* The steps of KeyBindings                                                *)

LEMMA KeysInitially == KeysInit => KeysInv
<1> SUFFICES ASSUME KeysInit
             PROVE  KeysInv
  OBVIOUS
<1>1. DOMAIN keyGrabs = {} /\ activeActions = {} /\ remapped = FALSE
  BY DEF KeysInit
<1>2. \A e : Users(e) = {} /\ EdgeUsers(e) = {}
  BY <1>1 DEF Users, EdgeUsers
<1>3. Cardinality({}) = 0 /\ IsFiniteSet({})
  BY FS_EmptySet
<1>4. KeysShape
  BY <1>1, <1>3 DEF KeysInit, KeysShape
<1>5. EntriesCounted
  BY <1>1, <1>2, <1>3 DEF EntriesCounted
<1>6. EdgesCounted
  BY <1>1, <1>2, <1>3 DEF EdgesCounted, KeysInit
<1>7. OwnKeys /\ KeysGrabbed
  BY <1>1 DEF OwnKeys, KeysGrabbed, KeysInit
<1> QED
  BY <1>4, <1>5, <1>6, <1>7 DEF KeysInv

LEMMA AddKeepsInv ==
  ASSUME KeysInv, NEW a \in Actions, AddAction(a)
  PROVE  KeysInv'
<1> DEFINE entry == EntryOf(a)
           known == entry \in DOMAIN keyGrabs
<1>1. /\ a \in Actions \ activeActions
      /\ layout' = layout /\ foreignKeys' = foreignKeys /\ remapped' = remapped
      /\ refused' = refused
      /\ activeActions' = activeActions \union {a}
      /\ ~ known /\ NoMask \notin entry.mods => CanGrab(layout, entry)
      /\ serverKeys' = IF ~ known /\ NoMask \notin entry.mods
                       THEN serverKeys \union GrabKeys(layout, entry) ELSE serverKeys
      /\ edgeCount' = Edged(a, 1)
      /\ edgesMapped' = edgesMapped \union {e \in EdgesOf[a] : edgeCount'[e] = 1}
  BY DEF AddAction
<1>2. /\ DOMAIN keyGrabs' = DOMAIN keyGrabs \union {entry}
      /\ \A e \in DOMAIN keyGrabs' :
            keyGrabs'[e] = IF e # entry THEN keyGrabs[e]
                           ELSE IF known THEN keyGrabs[e] + 1 ELSE 1
  BY DEF AddAction
<1>3. KeysShape /\ OwnKeys /\ EntriesCounted /\ EdgesCounted /\ KeysGrabbed
  BY DEF KeysInv
<1>4. entry \in AllEntries
  BY <1>3, EntryIsEntry
<1>5. /\ \A e : Cardinality(Users(e)') =
            Cardinality(Users(e)) + (IF e = entry THEN 1 ELSE 0)
      /\ \A e : Cardinality(EdgeUsers(e)') =
            Cardinality(EdgeUsers(e)) + (IF e \in EdgesOf[a] THEN 1 ELSE 0)
  BY <1>1, <1>3, ActionAdded
<1> HIDE DEF entry
<1>6. KeysShape'
  <2>1. IsFiniteSet(activeActions')
    BY <1>1, <1>3, FS_AddElement DEF KeysShape
  <2>2. \A e \in DOMAIN keyGrabs' : keyGrabs'[e] \in Nat \ {0}
    BY <1>2, <1>3 DEF KeysShape
  <2> QED
    BY <1>1, <1>2, <1>3, <1>4, <2>1, <2>2 DEF KeysShape
<1>7. OwnKeys'
  BY <1>1, <1>3, GrabIsOwn DEF OwnKeys
<1>8. EntriesCounted'
  <2> SUFFICES ASSUME ~ remapped', NEW e \in AllEntries
               PROVE  Cardinality(Users(e)') =
                         IF e \in DOMAIN keyGrabs' THEN keyGrabs'[e] ELSE 0
    BY DEF EntriesCounted, AllEntries, Entries
  <2>1. Cardinality(Users(e)) = IF e \in DOMAIN keyGrabs THEN keyGrabs[e] ELSE 0
    BY <1>1, <1>3 DEF EntriesCounted
  <2>2. Cardinality(Users(e)') = Cardinality(Users(e)) + (IF e = entry THEN 1 ELSE 0)
    BY <1>5
  <2>3. e \in DOMAIN keyGrabs => keyGrabs[e] \in Nat
    BY <1>3 DEF KeysShape
  <2> QED
    BY <1>2, <2>1, <2>2, <2>3
<1>9. EdgesCounted'
  <2>1. \A e \in Edges : Cardinality(EdgeUsers(e)) \in Nat
    BY <1>3, UsersFinite
  <2>2. edgeCount' = [e \in Edges |-> Cardinality(EdgeUsers(e)')]
    BY <1>1, <1>3, <1>5, <2>1 DEF EdgesCounted, Edged
  <2>3. edgesMapped' = UNION {EdgesOf[b] : b \in activeActions'}
    <3>1. EdgesOf[a] \subseteq Edges
      BY DEF Edges
    <3>2. ASSUME NEW e \in EdgesOf[a], edgeCount'[e] # 1
          PROVE  e \in edgesMapped
      <4>1. edgeCount'[e] = Cardinality(EdgeUsers(e)) + 1
        BY <1>5, <2>2, <3>1
      <4>2. Cardinality(EdgeUsers(e)) # 0
        BY <3>2, <4>1, <2>1, <3>1
      <4>3. EdgeUsers(e) # {}
        BY <4>2, FS_EmptySet
      <4> QED
        BY <1>3, <4>3 DEF EdgeUsers, EdgesCounted
    <3>3. edgesMapped' = edgesMapped \union EdgesOf[a]
      BY <1>1, <3>2
    <3> QED
      BY <1>1, <1>3, <3>3 DEF EdgesCounted
  <2> QED
    BY <2>2, <2>3 DEF EdgesCounted
<1>10. KeysGrabbed'
  <2> SUFFICES ASSUME NEW e \in DOMAIN keyGrabs' \ refused,
                      Plain(e.keycode), ApartFromLocks(e), NoMask \notin e.mods
               PROVE  AllCombinations(layout, e) \subseteq serverKeys'
    BY <1>1 DEF KeysGrabbed, ApartFromLocks
  <2>1. CASE e \in DOMAIN keyGrabs
    BY <1>1, <1>3, <2>1 DEF KeysGrabbed
  <2>2. CASE e \notin DOMAIN keyGrabs
    <3>1. e = entry /\ ~ known /\ CanGrab(layout, e)
      BY <1>1, <1>2, <2>2
    <3>2. GrabKeys(layout, e) = AllCombinations(layout, e)
      BY <3>1, GrabsAll
    <3> QED
      BY <1>1, <3>1, <3>2
  <2> QED
    BY <2>1, <2>2
<1> QED
  BY <1>6, <1>7, <1>8, <1>9, <1>10 DEF KeysInv

(* A refused binding only leaves more combinations grabbed.                *)
LEMMA FailedAddKeepsInv ==
  ASSUME KeysInv, NEW a \in Actions, AddActionFails(a)
  PROVE  KeysInv'
<1>1. /\ UNCHANGED <<activeActions, keyGrabs, edgeCount, layout, foreignKeys,
                     edgesMapped, remapped, refused>>
      /\ serverKeys' = serverKeys \union GrabKeys(layout, EntryOf(a))
  BY DEF AddActionFails
<1>2. KeysShape' /\ EntriesCounted' /\ EdgesCounted'
  BY <1>1 DEF KeysInv, KeysShape, EntriesCounted, EdgesCounted, Users, EdgeUsers, EntryOf
<1>3. OwnKeys'
  BY <1>1, GrabIsOwn DEF KeysInv, OwnKeys
<1>4. KeysGrabbed'
  BY <1>1 DEF KeysInv, KeysGrabbed, ApartFromLocks
<1> QED
  BY <1>2, <1>3, <1>4 DEF KeysInv

LEMMA RemoveActionKeepsInv ==
  ASSUME KeysInv, NEW a \in Actions, RemoveAction(a)
  PROVE  KeysInv'
<1> DEFINE entry == EntryOf(a)
<1>1. /\ a \in activeActions
      /\ layout' = layout /\ foreignKeys' = foreignKeys /\ remapped' = remapped
      /\ activeActions' = activeActions \ {a}
      /\ keyGrabs' = LeftAfter(entry)
      /\ serverKeys' = ServerAfter(entry)
      /\ refused' = RefusedAfter(entry)
      /\ edgeCount' = Edged(a, -1)
      /\ edgesMapped' = edgesMapped \ {e \in EdgesOf[a] : edgeCount'[e] = 0}
  BY DEF RemoveAction
<1>2. KeysShape /\ OwnKeys /\ EntriesCounted /\ EdgesCounted /\ KeysGrabbed
  BY DEF KeysInv
<1>3. entry \in AllEntries
  BY <1>1, <1>2, EntryIsEntry
<1>4. /\ \A e : Cardinality(Users(e)') =
            Cardinality(Users(e)) - (IF e = entry THEN 1 ELSE 0)
      /\ \A e : Cardinality(EdgeUsers(e)') =
            Cardinality(EdgeUsers(e)) - (IF e \in EdgesOf[a] THEN 1 ELSE 0)
  BY <1>1, <1>2, ActionRemoved
<1> HIDE DEF entry
<1>5. /\ DOMAIN keyGrabs' = IF entry \in DOMAIN keyGrabs /\ keyGrabs[entry] > 1
                            THEN DOMAIN keyGrabs ELSE DOMAIN keyGrabs \ {entry}
      /\ \A e \in DOMAIN keyGrabs' :
            keyGrabs'[e] = IF e = entry THEN keyGrabs[e] - 1 ELSE keyGrabs[e]
  <2>1. CASE entry \notin DOMAIN keyGrabs
    BY <1>1, <2>1 DEF LeftAfter
  <2>2. CASE entry \in DOMAIN keyGrabs /\ keyGrabs[entry] > 1
    <3>1. keyGrabs' = [keyGrabs EXCEPT ![entry] = keyGrabs[entry] - 1]
      BY <1>1, <2>2 DEF LeftAfter
    <3> QED
      BY <2>2, <3>1
  <2>3. CASE entry \in DOMAIN keyGrabs /\ ~ (keyGrabs[entry] > 1)
    BY <1>1, <2>3 DEF LeftAfter
  <2> QED
    BY <2>1, <2>2, <2>3
<1>6. KeysShape'
  <2>1. IsFiniteSet(activeActions')
    BY <1>1, <1>2, FS_RemoveElement DEF KeysShape
  <2>2. \A e \in DOMAIN keyGrabs' : keyGrabs'[e] \in Nat \ {0}
    BY <1>2, <1>5 DEF KeysShape
  <2>3. refused' \subseteq DOMAIN keyGrabs'
    BY <1>1 DEF RefusedAfter, NotGrabbed
  <2> QED
    BY <1>1, <1>2, <1>5, <2>1, <2>2, <2>3 DEF KeysShape
<1>7. EntriesCounted'
  <2> SUFFICES ASSUME ~ remapped', NEW e \in AllEntries
               PROVE  Cardinality(Users(e)') =
                         IF e \in DOMAIN keyGrabs' THEN keyGrabs'[e] ELSE 0
    BY DEF EntriesCounted, AllEntries, Entries
  <2>1. Cardinality(Users(e)) = IF e \in DOMAIN keyGrabs THEN keyGrabs[e] ELSE 0
    BY <1>1, <1>2 DEF EntriesCounted
  <2>2. Cardinality(Users(e)') = Cardinality(Users(e)) - (IF e = entry THEN 1 ELSE 0)
    BY <1>4
  <2>3. e \in DOMAIN keyGrabs => keyGrabs[e] \in Nat \ {0}
    BY <1>2 DEF KeysShape
  <2>4. e = entry => Cardinality(Users(e)) # 0
    BY <1>1, <1>2, UsersFinite, FS_EmptySet DEF Users, entry
  <2> QED
    BY <1>5, <2>1, <2>2, <2>3, <2>4
<1>8. EdgesCounted'
  <2>1. \A e \in Edges : Cardinality(EdgeUsers(e)) \in Nat
    BY <1>2, UsersFinite
  <2>2. edgeCount' = [e \in Edges |-> Cardinality(EdgeUsers(e)')]
    BY <1>1, <1>2, <1>4, <2>1 DEF EdgesCounted, Edged
  <2>3. EdgesOf[a] \subseteq Edges
    BY <1>1, <1>2 DEF Edges, KeysShape
  <2>4. \A e \in EdgesOf[a] : edgeCount'[e] = 0 <=> EdgeUsers(e)' = {}
    <3>1. \A e : IsFiniteSet(EdgeUsers(e)')
      BY <1>6, FS_Subset DEF KeysShape, EdgeUsers
    <3> QED
      BY <2>2, <2>3, <3>1, FS_EmptySet
  <2>5. edgesMapped' = UNION {EdgesOf[b] : b \in activeActions'}
    BY <1>1, <1>2, <2>4 DEF EdgesCounted, EdgeUsers
  <2> QED
    BY <2>2, <2>5 DEF EdgesCounted
<1>9. OwnKeys'
  BY <1>1, <1>2, Regrabbed DEF OwnKeys, ServerAfter
<1>10. KeysGrabbed'
  <2> SUFFICES ASSUME NEW e \in DOMAIN keyGrabs' \ refused',
                      Plain(e.keycode), ApartFromLocks(e), NoMask \notin e.mods
               PROVE  AllCombinations(layout, e) \subseteq serverKeys'
    BY <1>1 DEF KeysGrabbed, ApartFromLocks
  <2>1. e \in DOMAIN keyGrabs /\ e \in AllEntries /\ layout \in Layouts
    BY <1>2, <1>5 DEF KeysShape
  <2> DEFINE all == NoMask \notin entry.mods /\ entry \notin DOMAIN keyGrabs'
                      /\ ModifierOnly(layout, entry.keycode)
  <2>2. CASE e \in refused
    <3>1. e \in refused \intersect DOMAIN keyGrabs'
      BY <2>2
    <3>2. all /\ CanGrab(layout, e)
      BY <1>1, <3>1 DEF RefusedAfter, NotGrabbed
    <3>3. serverKeys' = GrabEntries(layout, DOMAIN keyGrabs')
      BY <1>1, <3>2 DEF ServerAfter
    <3> QED
      BY <3>1, <3>2, <3>3, Regrabbed DEF NotGrabbed
  <2>3. CASE e \notin refused
    <3>1. AllCombinations(layout, e) \subseteq serverKeys
      BY <1>2, <2>1, <2>3 DEF KeysGrabbed
    <3>2. CASE serverKeys' = serverKeys
      BY <3>1, <3>2
    <3>3. CASE serverKeys' = GrabEntries(layout, DOMAIN keyGrabs')
      <4>1. CanGrab(layout, e)
        BY <1>2, <3>1, GrabbedIsFree
      <4> QED
        BY <3>3, <4>1, Regrabbed DEF NotGrabbed
    <3>4. CASE /\ entry \notin DOMAIN keyGrabs'
               /\ ~ ModifierOnly(layout, entry.keycode)
               /\ serverKeys' = serverKeys \ AllCombinations(layout, entry)
      <4>1. ~ ModifierOnly(layout, e.keycode) /\ e # entry
        BY <2>1, <3>4 DEF Plain
      <4>2. AllCombinations(layout, e) \intersect AllCombinations(layout, entry) = {}
        BY <1>3, <2>1, <3>4, <4>1, UngrabSpares
      <4> QED
        BY <3>1, <3>4, <4>2
    <3> QED
      BY <1>1, <3>2, <3>3, <3>4 DEF ServerAfter
  <2> QED
    BY <2>2, <2>3
<1> QED
  BY <1>6, <1>7, <1>8, <1>9, <1>10 DEF KeysInv

LEMMA LayoutKeepsInv ==
  ASSUME KeysInv, NEW l \in Layouts, ChangeLayout(l)
  PROVE  KeysInv'
<1>1. /\ layout' = l
      /\ serverKeys' = IF l.mask # layout.mask THEN GrabEntries(l, DOMAIN keyGrabs)
                       ELSE serverKeys
      /\ refused' = IF l.mask # layout.mask THEN NotGrabbed(l, DOMAIN keyGrabs) ELSE refused
      /\ remapped' = (remapped \/ (l.mask # layout.mask /\ activeActions # {}))
      /\ UNCHANGED <<activeActions, keyGrabs, edgeCount, foreignKeys, edgesMapped>>
  BY DEF ChangeLayout
<1>2. KeysShape /\ OwnKeys /\ EntriesCounted /\ EdgesCounted /\ KeysGrabbed
  BY DEF KeysInv
<1>3. KeysShape' /\ EdgesCounted'
  BY <1>1, <1>2 DEF KeysShape, EdgesCounted, EdgeUsers, NotGrabbed
<1>4. EntriesCounted'
  <2> SUFFICES ASSUME ~ remapped', NEW e \in AllEntries
               PROVE  Cardinality(Users(e)') =
                         IF e \in DOMAIN keyGrabs' THEN keyGrabs'[e] ELSE 0
    BY DEF EntriesCounted, AllEntries, Entries
  <2>1. Cardinality(Users(e)) = IF e \in DOMAIN keyGrabs THEN keyGrabs[e] ELSE 0
    BY <1>1, <1>2 DEF EntriesCounted
  <2>2. l.mask = layout.mask \/ activeActions = {}
    BY <1>1
  <2>3. Users(e)' = Users(e)
    BY <1>1, <2>2 DEF Users, EntryOf, EntryIn, RealMask
  <2> QED
    BY <1>1, <2>1, <2>3
<1>5. OwnKeys'
  BY <1>1, <1>2, Regrabbed DEF OwnKeys
<1>6. KeysGrabbed'
  <2> SUFFICES ASSUME NEW e \in DOMAIN keyGrabs \ refused',
                      Plain(e.keycode), ApartFromLocks(e)', NoMask \notin e.mods
               PROVE  AllCombinations(l, e) \subseteq serverKeys'
    BY <1>1 DEF KeysGrabbed
  <2>1. CASE l.mask # layout.mask
    BY <1>1, <2>1, Regrabbed
  <2>2. CASE l.mask = layout.mask
    <3>1. IgnoredMods(l) = IgnoredMods(layout)
      BY <2>2 DEF IgnoredMods
    <3>2. AllCombinations(l, e) = AllCombinations(layout, e)
      BY <1>2, <3>1, PlainCombinations DEF Plain, KeysShape
    <3>3. ApartFromLocks(e)
      BY <1>1, <3>1 DEF ApartFromLocks
    <3> QED
      BY <1>1, <1>2, <2>2, <3>2, <3>3 DEF KeysGrabbed
  <2> QED
    BY <2>1, <2>2
<1> QED
  BY <1>3, <1>4, <1>5, <1>6 DEF KeysInv

LEMMA ForeignKeepsInv ==
  ASSUME KeysInv, NEW c, ForeignGrab(c)
  PROVE  KeysInv'
<1>1. /\ c \notin serverKeys
      /\ foreignKeys' \subseteq foreignKeys \union {c}
      /\ UNCHANGED <<activeActions, keyGrabs, edgeCount, layout, serverKeys,
                     edgesMapped, remapped, refused>>
  BY DEF ForeignGrab
<1>2. KeysShape' /\ EntriesCounted' /\ EdgesCounted' /\ KeysGrabbed'
  BY <1>1 DEF KeysInv, KeysShape, EntriesCounted, EdgesCounted, Users, EdgeUsers,
              EntryOf, KeysGrabbed, ApartFromLocks
<1>3. OwnKeys'
  BY <1>1 DEF KeysInv, OwnKeys
<1> QED
  BY <1>2, <1>3 DEF KeysInv

LEMMA KeysUnchangedInv ==
  ASSUME KeysInv, UNCHANGED keyVars
  PROVE  KeysInv'
BY DEF KeysInv, KeysShape, OwnKeys, EntriesCounted, EdgesCounted, Users, EdgeUsers,
       EntryOf, KeysGrabbed, ApartFromLocks, keyVars

THEOREM KeysInvariant == KeysSpec => []KeysInv
<1>1. KeysInv /\ [KeysNext]_keyVars => KeysInv'
  <2> SUFFICES ASSUME KeysInv, [KeysNext]_keyVars
               PROVE  KeysInv'
    OBVIOUS
  <2>1. ASSUME NEW a \in Actions, AddAction(a) \/ AddActionFails(a) \/ RemoveAction(a)
        PROVE  KeysInv'
    BY <2>1, AddKeepsInv, FailedAddKeepsInv, RemoveActionKeepsInv
  <2>2. ASSUME NEW l \in Layouts, ChangeLayout(l)
        PROVE  KeysInv'
    BY <2>2, LayoutKeepsInv
  <2>3. ASSUME NEW c \in ForeignGrabs, ForeignGrab(c)
        PROVE  KeysInv'
    BY <2>3, ForeignKeepsInv
  <2>4. CASE UNCHANGED keyVars
    BY <2>4, KeysUnchangedInv
  <2> QED
    BY <2>1, <2>2, <2>3, <2>4 DEF KeysNext
<1> QED
  BY KeysInitially, <1>1, PTL DEF KeysSpec

(* Entries for plain keys are grabbed with every combination of the locks  *)
(* there are now, unless another client had one of them when the layout    *)
(* changed.                                                                *)
THEOREM PlainKeysStayGrabbed == KeysSpec => []KeysGrabbed
BY KeysInvariant, PTL DEF KeysInv

(* Entries count the actions that use them; edge windows are mapped for    *)
(* the actions that want them.                                             *)
THEOREM CountsStayExact == KeysSpec => []CountsExact
<1>1. KeysInv => CountsExact
  BY CountsFollow DEF KeysInv
<1> QED
  BY <1>1, KeysInvariant, PTL

-----------------------------------------------------------------------------
(* Key events.  The modifiers of the server are Mods; the layout stays.    *)

Mods == ModsOf(held, lockedMods)

(* A started action without one of these could outlive the keys: its       *)
(* modifiers are those of some keys that are down, or else it was started  *)
(* by a second modifier key and the first to go ends it.                   *)
Backed(a) ==
    \/ BindMods(a) = {} \/ NamesLock(a)
    \/ \E keys \in SUBSET held : ModsOf(keys, {}) \ Locks = BindMods(a)
    \/ \E j, k \in held : j # k /\ ModifiersOf(layout, j) # {}
                                /\ ModifiersOf(layout, k) # {}

(* A tap has exactly the modifiers whose combinations its entry grabbed.   *)
Poised(a) ==
    \/ KeyOf[a].keycode = NoKeycode /\ Mods \ Locks = BindMods(a)
    \/ /\ KeyOf[a].keycode \in held
       /\ Mods \ Locks = OwnMods(a) \ Locks

WaitingBacked == LocksApart => \A a \in waiting : Backed(a)

TapPoised ==
    ~ stolen /\ LocksApart /\ possibleTap # NoAction /\ OfModifiers(possibleTap)
        => ~ disturbed /\ Poised(possibleTap)

EventsShape ==
    /\ ~ remapped
    /\ held \subseteq Keycodes /\ lockedMods \subseteq Locks
    /\ waiting \subseteq activeActions
    /\ possibleTap \in waiting \union {NoAction}

EventsInv ==
    KeysInv /\ EventsShape /\ WaitingBacked /\ (~ stolen => TapsGuarded) /\ TapPoised

LEMMA ModsAre ==
  ASSUME NEW keys, NEW locks
  PROVE  \A m : m \in ModsOf(keys, locks) <=>
                   m \in locks \/ \E k \in keys : m \in ModifiersOf(layout, k)
<1>1. ASSUME NEW m
      PROVE  m \in ModsOf(keys, locks) <=>
                m \in locks \/ \E k \in keys : m \in ModifiersOf(layout, k)
  <2>1. m \in UNION {ModifiersOf(layout, k) : k \in keys} <=>
           \E k \in keys : m \in ModifiersOf(layout, k)
    OBVIOUS
  <2> QED
    BY <2>1 DEF ModsOf
<1> QED
  BY <1>1

(* In the state of a tap every key is grabbed.                             *)
LEMMA PoisedIsSeen ==
  ASSUME EventsInv, ~ stolen, NEW a \in activeActions, OfModifiers(a), Poised(a),
         NEW key \in Keycodes
  PROVE  IsSeen(key)
<1> DEFINE entry == EntryOf(a)
           locks == Mods \intersect Locks
<1>1. KeysShape /\ EntriesCounted /\ ~ remapped /\ held \subseteq Keycodes
      /\ lockedMods \subseteq Locks
  BY DEF EventsInv, EventsShape, KeysInv
<1>2. /\ entry.keycode = KeyOf[a].keycode /\ entry.mods = BindMods(a)
      /\ OwnMods(a) = ModifiersOf(layout, entry.keycode)
  BY DEF EntryOf, EntryIn, BindMods, OwnMods
<1>3. entry \in DOMAIN keyGrabs
  <2>1. Cardinality(Users(entry)) # 0
    BY <1>1, UsersFinite, FS_EmptySet DEF Users
  <2>2. entry \in AllEntries
    BY <1>1, EntryIsEntry DEF KeysShape
  <2> QED
    BY <1>1, <2>1, <2>2 DEF EntriesCounted
<1>4. ModifierOnly(layout, entry.keycode)
  BY <1>2 DEF OfModifiers, ModifierOnly
<1>5. NoMask \notin Mods
  BY <1>1, ModsAre, MasksAssumption DEF Mods, ModifiersOf, KeysShape, Locks, IgnoredMods
<1>6. Mods = entry.mods \union OwnMods(a) \union locks
  <2>1. CASE KeyOf[a].keycode = NoKeycode /\ Mods \ Locks = BindMods(a)
    BY <1>2, <2>1 DEF OwnMods, ModifiersOf
  <2>2. CASE KeyOf[a].keycode \in held /\ Mods \ Locks = OwnMods(a) \ Locks
    <3>1. BindMods(a) = {}
      BY <1>1, <2>2, ActionsAssumption DEF OfModifiers
    <3>2. OwnMods(a) \subseteq Mods
      BY <2>2, ModsAre DEF OwnMods, Mods
    <3> QED
      BY <1>2, <2>2, <3>1, <3>2
  <2> QED
    BY <2>1, <2>2 DEF Poised
<1>7. NoMask \notin entry.mods
  BY <1>5, <1>6
<1>8. AllCombinations(layout, entry) \subseteq serverKeys
  BY <1>3, <1>4, <1>7 DEF EventsInv, TapsGuarded
<1>9. locks \in SUBSET IgnoredMods(layout)
  BY DEF Locks
<1>10. <<key, entry.mods \union OwnMods(a) \union locks>> \in
           Combinations(layout, entry, locks)
  BY <1>2, <1>4 DEF Combinations
<1> QED
  BY <1>6, <1>8, <1>9, <1>10 DEF AllCombinations, IsSeen, Mods

(* What triggerPress does: it adds candidates, and only they become a tap. *)
LEMMA StartedFrom ==
  ASSUME NEW e, NEW candidates, NEW f \in Started(e, candidates)
  PROVE  /\ e.waiting \subseteq f.waiting /\ f.waiting \subseteq e.waiting \union candidates
         /\ \/ f.tap = e.tap /\ (f.fresh <=> e.fresh)
            \/ f.tap \in candidates /\ f.tap \in f.waiting /\ f.fresh
<1>1. CASE candidates = {}
  BY <1>1 DEF Started
<1>2. CASE candidates # {}
  <2>1. PICK started \in SUBSET candidates, last \in candidates :
           f = [waiting |-> e.waiting \union started \union {last},
                tap     |-> IF grabbed THEN e.tap ELSE last,
                fresh   |-> e.fresh \/ ~ grabbed]
    BY <1>2 DEF Started
  <2>2. /\ f.waiting = e.waiting \union started \union {last}
        /\ f.tap = (IF grabbed THEN e.tap ELSE last)
        /\ (f.fresh <=> e.fresh \/ ~ grabbed)
    BY <2>1
  <2>3. CASE grabbed
    BY <2>2, <2>3
  <2>4. CASE ~ grabbed
    BY <2>2, <2>4
  <2> QED
    BY <2>3, <2>4
<1> QED
  BY <1>1, <1>2

LEMMA EventsInitially == EventsInit => EventsInv
<1> SUFFICES ASSUME EventsInit
             PROVE  EventsInv
  OBVIOUS
<1>1. KeysInv
  BY KeysInitially DEF EventsInit
<1>2. DOMAIN keyGrabs = {} /\ remapped = FALSE
  BY DEF EventsInit, KeysInit
<1> QED
  BY <1>1, <1>2 DEF EventsInit, EventsInv, EventsShape, WaitingBacked, TapsGuarded, TapPoised

(* What an event leaves alone, and so the definitions that rest on it.     *)
LEMMA SameLayout ==
  ASSUME layout' = layout
  PROVE  /\ Locks' = Locks
         /\ \A a : BindMods(a)' = BindMods(a) /\ OwnMods(a)' = OwnMods(a)
         /\ \A a : OfModifiers(a)' = OfModifiers(a)
         /\ LocksApart' = LocksApart
         /\ Mods' = ModsOf(held', lockedMods')
         /\ \A a : Backed(a)' <=>
               \/ BindMods(a) = {} \/ NamesLock(a)
               \/ \E keys \in SUBSET held' : ModsOf(keys, {}) \ Locks = BindMods(a)
               \/ \E j, k \in held' : j # k /\ ModifiersOf(layout, j) # {}
                                           /\ ModifiersOf(layout, k) # {}
         /\ \A a : Poised(a)' <=>
               \/ KeyOf[a].keycode = NoKeycode /\ Mods' \ Locks = BindMods(a)
               \/ /\ KeyOf[a].keycode \in held'
                  /\ Mods' \ Locks = OwnMods(a) \ Locks
<1>0. Locks' = Locks
  BY DEF Locks
<1>1. \A a : BindMods(a)' = BindMods(a) /\ OwnMods(a)' = OwnMods(a)
  BY DEF BindMods, OwnMods
<1>2. \A a : OfModifiers(a)' = OfModifiers(a)
  BY DEF OfModifiers, BindMods
<1>3. LocksApart' = LocksApart
  BY <1>0 DEF LocksApart
<1>4. Mods' = ModsOf(held', lockedMods')
  BY DEF Mods, ModsOf
<1>5. \A a : Backed(a)' <=>
               \/ BindMods(a) = {} \/ NamesLock(a)
               \/ \E keys \in SUBSET held' : ModsOf(keys, {}) \ Locks = BindMods(a)
               \/ \E j, k \in held' : j # k /\ ModifiersOf(layout, j) # {}
                                           /\ ModifiersOf(layout, k) # {}
  BY <1>0, <1>1 DEF Backed, NamesLock, ModsOf
<1>6. \A a : Poised(a)' <=>
               \/ KeyOf[a].keycode = NoKeycode /\ Mods' \ Locks = BindMods(a)
               \/ /\ KeyOf[a].keycode \in held'
                  /\ Mods' \ Locks = OwnMods(a) \ Locks
  BY <1>0, <1>1 DEF Poised
<1> QED
  BY <1>0, <1>1, <1>2, <1>3, <1>4, <1>5, <1>6

LEMMA PressKeepsInv ==
  ASSUME EventsInv, NEW key \in Keycodes, PressKey(key)
  PROVE  EventsInv'
<1> DEFINE mods == ModsOf(held, lockedMods)
           next == ModsOf(held', lockedMods')
           own  == ModifiersOf(layout, key)
<1>1. /\ key \notin held /\ held' = held \union {key}
      /\ lockedMods' = LocksAfter(key)
      /\ UNCHANGED <<keyVars, grabbed, stolen>>
  BY DEF PressKey
<1>2. /\ KeysInv /\ EventsShape /\ WaitingBacked /\ TapPoised
      /\ ~ stolen => TapsGuarded
  BY DEF EventsInv
<1>3. layout' = layout /\ activeActions' = activeActions /\ remapped' = remapped
      /\ keyGrabs' = keyGrabs /\ serverKeys' = serverKeys
  BY <1>1 DEF keyVars
<1>4. KeysInv'
  BY <1>1, <1>2, KeysUnchangedInv
<1>5. /\ lockedMods \subseteq Locks /\ lockedMods' \subseteq Locks
      /\ own = {} => lockedMods' = lockedMods
  <2>1. lockedMods \subseteq Locks
    BY <1>2 DEF EventsShape
  <2> QED
    BY <1>1, <2>1 DEF LocksAfter
<1>6. /\ own \subseteq next
      /\ next \ Locks = (mods \ Locks) \union (own \ Locks)
      /\ own = {} => next = mods
      /\ mods \ Locks = ModsOf(held, {}) \ Locks
      /\ next \ Locks = ModsOf(held', {}) \ Locks
  <2>1. /\ \A m : m \in mods <=> m \in lockedMods \/ m \in ModsOf(held, {})
        /\ \A m : m \in next <=> m \in lockedMods' \/ m \in ModsOf(held', {})
    BY ModsAre
  <2>2. \A m : m \in ModsOf(held', {}) <=> m \in ModsOf(held, {}) \/ m \in own
    BY <1>1, ModsAre
  <2> HIDE DEF mods, next, own
  <2> QED
    BY <1>5, <2>1, <2>2
<1>7. PICK e \in IF IsSeen(key) THEN KeyPress(key, mods) ELSE {Unhandled} :
      \E f \in StatePress(e, key, next) :
         /\ waiting' = f.waiting /\ possibleTap' = f.tap
         /\ disturbed' = (f.tap # NoAction /\ ~ f.fresh)
  BY DEF PressKey
<1>8. PICK f \in StatePress(e, key, next) :
         /\ waiting' = f.waiting /\ possibleTap' = f.tap
         /\ disturbed' = (f.tap # NoAction /\ ~ f.fresh)
  BY <1>7
<1> HIDE DEF mods, next, own
<1> DEFINE pressed == {a \in activeActions : PressedBy(a, key, mods)}
           entered == {a \in activeActions : own # {} /\ EnteredBy(a, next)}
(* The press itself.                                                       *)
<1>9. /\ waiting \subseteq e.waiting
      /\ e.waiting \subseteq waiting \union (IF IsSeen(key) THEN pressed ELSE {})
      /\ \/ ~ IsSeen(key) /\ e.tap = possibleTap /\ ~ e.fresh
         \/ IsSeen(key) /\ e.tap = NoAction /\ ~ e.fresh
         \/ e.tap \in pressed /\ e.tap \in e.waiting /\ e.fresh
  <2>1. CASE ~ IsSeen(key)
    BY <1>7, <2>1 DEF Unhandled
  <2>2. CASE IsSeen(key)
    <3> DEFINE u == [Unhandled EXCEPT !.tap = NoAction]
    <3>1. e \in Started(u, pressed)
      BY <1>7, <2>2 DEF KeyPress
    <3>2. u.waiting = waiting /\ u.tap = NoAction /\ ~ u.fresh
      BY DEF Unhandled
    <3> HIDE DEF u, pressed
    <3>3. /\ u.waiting \subseteq e.waiting /\ e.waiting \subseteq u.waiting \union pressed
          /\ \/ e.tap = u.tap /\ (e.fresh <=> u.fresh)
             \/ e.tap \in pressed /\ e.tap \in e.waiting /\ e.fresh
      BY <3>1, <3>2, StartedFrom
    <3> QED
      BY <2>2, <3>2, <3>3
  <2> QED
    BY <2>1, <2>2
(* The change of the modifiers.                                            *)
<1>10. /\ e.waiting \subseteq f.waiting /\ f.waiting \subseteq e.waiting \union entered
       /\ \/ f.tap = e.tap /\ (f.fresh <=> e.fresh)
          \/ f.tap \in entered /\ f.tap \in f.waiting /\ f.fresh
  <2> DEFINE candidates == IF own = {} THEN {}
                           ELSE {a \in activeActions : EnteredBy(a, next)}
  <2>1. f \in Started(e, candidates)
    BY <1>8 DEF StatePress, own
  <2>2. candidates = entered
    OBVIOUS
  <2> HIDE DEF candidates, entered
  <2> QED
    BY <2>1, <2>2, StartedFrom
<1>11. NoAction \notin activeActions
  BY <1>2, NoActionAssumption DEF KeysInv, KeysShape
<1>12. EventsShape'
  <2>1. waiting' \subseteq activeActions
    BY <1>2, <1>8, <1>9, <1>10 DEF EventsShape
  <2>2. possibleTap' \in waiting' \union {NoAction}
    BY <1>2, <1>8, <1>9, <1>10 DEF EventsShape
  <2> QED
    BY <1>1, <1>2, <1>3, <1>5, <2>1, <2>2, SameLayout DEF EventsShape
<1>13. WaitingBacked'
  <2> SUFFICES ASSUME LocksApart, NEW a \in waiting'
               PROVE  Backed(a)'
    BY <1>3, SameLayout DEF WaitingBacked
  <2>1. CASE a \in waiting
    <3>1. Backed(a)
      BY <1>2, <2>1 DEF WaitingBacked
    <3> QED
      BY <1>1, <1>3, <3>1, SameLayout DEF Backed
  <2>2. CASE a \in pressed
    <3> SUFFICES ASSUME BindMods(a) # {}, ~ NamesLock(a)
                 PROVE  Backed(a)'
      BY <1>3, SameLayout
    <3>1. BindMods(a) \intersect Locks = {} /\ OwnMods(a) \intersect Locks = {}
      BY DEF NamesLock
    <3>2. CASE BindMods(a) \ Locks = mods \ Locks
      <4>1. BindMods(a) = mods \ Locks
        BY <3>1, <3>2
      <4> QED
        BY <1>1, <1>3, <1>6, <4>1, SameLayout
    <3>3. ASSUME OwnMods(a) # {},
                 NEW m \in BindMods(a) \intersect own,
                 ((BindMods(a) \ {m}) \union OwnMods(a)) \ Locks = mods \ Locks
          PROVE  Backed(a)'
      <4>1. PICK n \in OwnMods(a) : n \in mods /\ n \notin lockedMods
        BY <1>5, <3>1, <3>3
      <4>2. PICK j \in held : n \in ModifiersOf(layout, j)
        BY <4>1, ModsAre DEF mods
      <4>3. j # key /\ ModifiersOf(layout, j) # {} /\ ModifiersOf(layout, key) # {}
        BY <1>1, <3>3, <4>2 DEF own
      <4> QED
        BY <1>1, <1>3, <4>3, SameLayout
    <3> QED
      BY <2>2, <3>2, <3>3 DEF PressedBy, own
  <2>3. CASE a \in entered
    <3>1. BindMods(a) = next \ Locks
      BY <2>3 DEF EnteredBy
    <3> QED
      BY <1>3, <1>6, <3>1, SameLayout
  <2> QED
    BY <1>8, <1>9, <1>10, <2>1, <2>2, <2>3
<1>14. ~ stolen' => TapsGuarded'
  BY <1>1, <1>2, <1>3 DEF TapsGuarded
<1>15. TapPoised'
  <2> SUFFICES ASSUME ~ stolen, LocksApart, NEW a, a = possibleTap', a # NoAction,
                      OfModifiers(a)
               PROVE  /\ ~ disturbed'
                      /\ \/ KeyOf[a].keycode = NoKeycode /\ next \ Locks = BindMods(a)
                         \/ /\ KeyOf[a].keycode \in held'
                            /\ next \ Locks = OwnMods(a) \ Locks
    BY <1>1, <1>3, SameLayout
       DEF TapPoised, Poised, OfModifiers, BindMods, OwnMods, Mods, ModsOf, next
  <2>2. CASE f.tap \in entered /\ f.fresh
    <3>1. KeyOf[a].keycode = NoKeycode /\ BindMods(a) = next \ Locks
      BY <1>8, <2>2 DEF EnteredBy
    <3> QED
      BY <1>8, <2>2, <3>1
  <2>3. CASE f.tap \in pressed /\ f.fresh
    <3>1. PressedBy(a, key, mods) /\ a \in activeActions
      BY <1>8, <2>3
    <3>2. KeyOf[a].keycode # NoKeycode
      BY <3>1, ActionsAssumption DEF PressedBy, OwnMods, ModifiersOf
    <3>3. BindMods(a) = {}
      BY <3>2 DEF OfModifiers
    <3>4. KeyOf[a].keycode = key /\ mods \ Locks = {}
      BY <3>1, <3>3 DEF PressedBy
    <3>5. next \ Locks = OwnMods(a) \ Locks
      BY <1>6, <3>4 DEF OwnMods, own
    <3> QED
      BY <1>1, <1>8, <2>3, <3>4, <3>5
  <2>4. CASE ~ IsSeen(key) /\ f.tap = possibleTap
    <3>1. possibleTap \in activeActions /\ possibleTap # NoAction
      BY <1>2, <1>8, <2>4 DEF EventsShape
    <3>2. Poised(possibleTap) /\ OfModifiers(possibleTap)
      BY <1>2, <1>8, <2>4, <3>1 DEF TapPoised
    <3>3. IsSeen(key)
      BY <3>1, <3>2, PoisedIsSeen
    <3> QED
      BY <2>4, <3>3
  <2> QED
    BY <1>8, <1>9, <1>10, <2>2, <2>3, <2>4
<1> QED
  BY <1>4, <1>12, <1>13, <1>14, <1>15 DEF EventsInv

LEMMA ReleaseKeepsInv ==
  ASSUME EventsInv, NEW key \in Keycodes, ReleaseKey(key)
  PROVE  EventsInv'
<1> DEFINE mods == ModsOf(held, lockedMods)
           next == ModsOf(held \ {key}, lockedMods)
           own  == ModifiersOf(layout, key)
<1>1. /\ key \in held /\ held' = held \ {key}
      /\ waiting' = waiting \ EndedBy(key)
      /\ possibleTap' = IF possibleTap \in EndedBy(key) THEN NoAction ELSE possibleTap
      /\ disturbed' = (disturbed /\ possibleTap' # NoAction)
      /\ UNCHANGED <<keyVars, lockedMods, grabbed, stolen>>
  BY DEF ReleaseKey
<1>2. /\ KeysInv /\ EventsShape /\ WaitingBacked /\ TapPoised
      /\ ~ stolen => TapsGuarded
  BY DEF EventsInv
<1>3. layout' = layout /\ activeActions' = activeActions /\ remapped' = remapped
      /\ keyGrabs' = keyGrabs /\ serverKeys' = serverKeys
  BY <1>1 DEF keyVars
<1>4. KeysInv'
  BY <1>1, <1>2, KeysUnchangedInv
<1>5. EventsShape'
  BY <1>1, <1>2, <1>3, SameLayout DEF EventsShape, EndedBy
<1>6. /\ mods = next \union own
      /\ own = {} => next = mods
      /\ next \ Locks = ModsOf(held', {}) \ Locks
  <2>1. \A m : m \in mods <=> m \in next \/ m \in own
    BY <1>1, ModsAre
  <2>2. lockedMods \subseteq Locks
    BY <1>2 DEF EventsShape
  <2>3. \A m : m \in next \ Locks <=> m \in ModsOf(held', {}) \ Locks
    BY <1>1, <2>2, ModsAre
  <2> HIDE DEF mods, next, own
  <2> QED
    BY <2>1, <2>3
<1>7. \A a \in waiting \ EndedBy(key) : own # {} => ~ LeftBy(a, key, next)
  BY DEF EndedBy
<1> HIDE DEF mods, next, own
<1>8. WaitingBacked'
  <2> SUFFICES ASSUME LocksApart, NEW a \in waiting'
               PROVE  Backed(a)'
    BY <1>3, SameLayout DEF WaitingBacked
  <2>1. Backed(a)
    BY <1>1, <1>2 DEF WaitingBacked
  <2>2. CASE own = {}
    <3>1. ASSUME NEW keys \in SUBSET held, ModsOf(keys, {}) \ Locks = BindMods(a)
          PROVE  Backed(a)'
      <4>1. ModsOf(keys \ {key}, {}) = ModsOf(keys, {})
        <5>1. \A m : m \in ModsOf(keys \ {key}, {}) <=> m \in ModsOf(keys, {})
          BY <2>2, ModsAre DEF own
        <5> QED
          BY <5>1
      <4>2. keys \ {key} \in SUBSET held'
        BY <1>1
      <4> QED
        BY <1>3, <3>1, <4>1, <4>2, SameLayout
    <3>2. ASSUME NEW j \in held, NEW k \in held, j # k,
                 ModifiersOf(layout, j) # {}, ModifiersOf(layout, k) # {}
          PROVE  Backed(a)'
      <4>1. j \in held' /\ k \in held'
        BY <1>1, <2>2, <3>2 DEF own
      <4> QED
        BY <1>3, <3>2, <4>1, SameLayout
    <3> QED
      BY <1>3, <2>1, <3>1, <3>2, SameLayout DEF Backed
  <2>3. CASE own # {} /\ next # {}
    <3>1. BindMods(a) = next \ Locks
      BY <1>1, <1>7, <2>3 DEF LeftBy
    <3> QED
      BY <1>3, <1>6, <3>1, SameLayout
  <2>4. CASE own # {} /\ next = {}
    <3>1. \A k \in held \ {key} : ModifiersOf(layout, k) = {}
      BY <2>4, ModsAre DEF next
    <3>2. BindMods(a) # own
      BY <1>1, <1>7, <2>4 DEF LeftBy, own
    <3>3. own \intersect Locks = {} \/ own \subseteq Locks
      BY DEF LocksApart, own
    <3>4. ASSUME NEW keys \in SUBSET held, ModsOf(keys, {}) \ Locks = BindMods(a)
          PROVE  BindMods(a) = {}
      <4>1. BindMods(a) = {} \/ BindMods(a) = own \ Locks
        BY <3>1, <3>4, ModsAre DEF own
      <4> QED
        BY <3>2, <3>3, <4>1
    <3>5. BindMods(a) = {} \/ NamesLock(a)
      BY <2>1, <3>1, <3>4 DEF Backed
    <3> QED
      BY <1>3, <3>5, SameLayout
  <2> QED
    BY <2>2, <2>3, <2>4
<1>9. ~ stolen' => TapsGuarded'
  BY <1>1, <1>2, <1>3 DEF TapsGuarded
<1>10. TapPoised'
  <2> SUFFICES ASSUME ~ stolen, LocksApart, NEW a, a = possibleTap', a # NoAction,
                      OfModifiers(a)
               PROVE  /\ ~ disturbed'
                      /\ \/ KeyOf[a].keycode = NoKeycode /\ next \ Locks = BindMods(a)
                         \/ /\ KeyOf[a].keycode \in held'
                            /\ next \ Locks = OwnMods(a) \ Locks
    BY <1>1, <1>3, SameLayout
       DEF TapPoised, Poised, OfModifiers, BindMods, OwnMods, Mods, ModsOf, next
  <2>1. a = possibleTap /\ a \in waiting \ EndedBy(key)
    BY <1>1, <1>2 DEF EventsShape
  <2>2. ~ disturbed /\ Poised(a)
    BY <1>2, <2>1 DEF TapPoised
  <2>3. own # {} => ~ LeftBy(a, key, next)
    BY <1>7, <2>1
  <2>4. own \intersect Locks = {} \/ own \subseteq Locks
    BY DEF LocksApart, own
  <2>5. CASE KeyOf[a].keycode = NoKeycode /\ mods \ Locks = BindMods(a)
    <3>1. next \ Locks = BindMods(a)
      BY <1>6, <2>3, <2>4, <2>5 DEF LeftBy, own
    <3> QED
      BY <1>1, <2>2, <2>5, <3>1
  <2>6. CASE KeyOf[a].keycode \in held /\ mods \ Locks = OwnMods(a) \ Locks
    <3>1. /\ BindMods(a) = {} /\ OwnMods(a) # {} /\ KeyOf[a].keycode # NoKeycode
          /\ OwnMods(a) = ModifiersOf(layout, KeyOf[a].keycode)
      BY <1>2, <2>6, ActionsAssumption DEF OfModifiers, ModifierOnly, OwnMods, EventsShape
    <3>2. KeyOf[a].keycode # key
      <4> SUFFICES ASSUME KeyOf[a].keycode = key
                   PROVE  FALSE
        OBVIOUS
      <4>1. own = OwnMods(a) /\ own # {}
        BY <3>1 DEF own
      <4>2. BindMods(a) \union OwnMods(a) = (next \ Locks) \union own
        BY <1>6, <2>6, <3>1, <4>1
      <4> QED
        BY <2>3, <3>1, <4>1, <4>2 DEF LeftBy, own
    <3>3. KeyOf[a].keycode \in held'
      BY <1>1, <2>6, <3>2
    <3>4. OwnMods(a) \subseteq next
      BY <1>1, <3>1, <3>3, ModsAre DEF next
    <3>5. next \ Locks = OwnMods(a) \ Locks
      BY <1>6, <2>3, <2>6, <3>1, <3>4 DEF LeftBy
    <3> QED
      BY <1>1, <2>2, <3>3, <3>5
  <2> QED
    BY <2>2, <2>5, <2>6 DEF Poised, Mods, mods
<1> QED
  BY <1>4, <1>5, <1>8, <1>9, <1>10 DEF EventsInv

(* A plugin's first grab, or no step at all, changes nothing that counts.  *)
LEMMA RestKeepsInv ==
  ASSUME EventsInv, TakeKeyboard \/ UNCHANGED <<keyVars, eventVars>>
  PROVE  EventsInv'
<1>1. UNCHANGED <<keyVars, held, lockedMods, waiting, possibleTap, disturbed, stolen>>
  BY DEF TakeKeyboard, eventVars
<1>2. KeysInv'
  BY <1>1, KeysUnchangedInv DEF EventsInv
<1>3. layout' = layout /\ activeActions' = activeActions /\ remapped' = remapped
  BY <1>1 DEF keyVars
<1>4. EventsShape'
  BY <1>1, <1>3, SameLayout DEF EventsInv, EventsShape
<1>5. WaitingBacked'
  BY <1>1, <1>3, SameLayout DEF EventsInv, WaitingBacked, Backed
<1>6. ~ stolen' => TapsGuarded'
  BY <1>1 DEF EventsInv, TapsGuarded, keyVars
<1>7. TapPoised'
  BY <1>1 DEF EventsInv, TapPoised, LocksApart, OfModifiers, Poised, Mods, ModsOf, BindMods,
              OwnMods, Locks, keyVars
<1> QED
  BY <1>2, <1>4, <1>5, <1>6, <1>7 DEF EventsInv

LEMMA PluginsKeepInv ==
  ASSUME EventsInv, NEW a \in Actions, ChangePlugins(a)
  PROVE  EventsInv'
<1>1. /\ AddAction(a) \/ RemoveAction(a)
      /\ waiting' = waiting \ {a} /\ possibleTap' = NoAction
      /\ stolen' = (stolen \/ ~ TapsGuarded')
      /\ UNCHANGED <<held, lockedMods, grabbed>>
  BY DEF ChangePlugins
<1>2. KeysInv'
  BY <1>1, AddKeepsInv, RemoveActionKeepsInv DEF EventsInv
<1>3. layout' = layout /\ remapped' = remapped /\ activeActions \ {a} \subseteq activeActions'
  BY <1>1 DEF AddAction, RemoveAction
<1>4. EventsShape'
  BY <1>1, <1>3, SameLayout DEF EventsInv, EventsShape
<1>5. WaitingBacked'
  BY <1>1, <1>3, SameLayout DEF EventsInv, WaitingBacked, Backed
<1>6. (~ stolen' => TapsGuarded') /\ TapPoised'
  BY <1>1 DEF TapPoised
<1> QED
  BY <1>2, <1>4, <1>5, <1>6 DEF EventsInv

THEOREM EventsInvariant == EventsSpec => []EventsInv
<1>1. EventsInv /\ [EventsNext]_<<keyVars, eventVars>> => EventsInv'
  <2> SUFFICES ASSUME EventsInv, [EventsNext]_<<keyVars, eventVars>>
               PROVE  EventsInv'
    OBVIOUS
  <2>1. ASSUME NEW key \in Keycodes, PressKey(key) \/ ReleaseKey(key)
        PROVE  EventsInv'
    BY <2>1, PressKeepsInv, ReleaseKeepsInv
  <2>2. ASSUME NEW a \in Actions, ChangePlugins(a)
        PROVE  EventsInv'
    BY <2>2, PluginsKeepInv
  <2>3. CASE TakeKeyboard \/ UNCHANGED <<keyVars, eventVars>>
    BY <2>3, RestKeepsInv
  <2> QED
    BY <2>1, <2>2, <2>3 DEF EventsNext
<1> QED
  BY EventsInitially, <1>1, PTL DEF EventsSpec

(* Once all keys are up, every action with modifiers has ended, but for    *)
(* bindings that name a lock.                                              *)
THEOREM ActionsEndWithKeys == EventsSpec => []EndsWithKeys
<1>1. EventsInv => EndsWithKeys
  <2> SUFFICES ASSUME WaitingBacked, LocksApart, held = {}, NEW a \in waiting
               PROVE  BindMods(a) = {} \/ NamesLock(a)
    BY DEF EventsInv, EndsWithKeys
  <2>1. \A keys \in SUBSET held : ModsOf(keys, {}) = {}
    BY DEF ModsOf
  <2> QED
    BY <2>1 DEF WaitingBacked, Backed
<1> QED
  BY <1>1, EventsInvariant, PTL

(* What would be reported as a tap was not disturbed by another key.       *)
THEOREM TapsAreAlone == EventsSpec => []TapAlone
<1>1. EventsInv => TapAlone
  BY DEF EventsInv, TapPoised, TapAlone
<1> QED
  BY <1>1, EventsInvariant, PTL

(* Key events and plugins that come and go leave the counts exact.         *)
THEOREM EventsKeepCounts == EventsSpec => [](CountsExact /\ KeysGrabbed)
<1>1. EventsInv => CountsExact /\ KeysGrabbed
  BY CountsFollow DEF EventsInv, KeysInv
<1> QED
  BY <1>1, EventsInvariant, PTL

=============================================================================
