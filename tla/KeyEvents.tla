------------------------------ MODULE KeyEvents ------------------------------
(***************************************************************************)
(* Key events and the actions they start and end (src/src/event.cpp:       *)
(* triggerPress, triggerRelease, the shouldTrigger functions,              *)
(* handleActionEvent, alwaysHandleEvent).                                  *)
(*                                                                         *)
(* compiz sees the press of a key only if it has grabbed the key with the  *)
(* modifiers that are down, or the whole keyboard; changes of modifiers it *)
(* always sees.  An action starts with its key or modifiers and ends when  *)
(* the modifiers do.  A modifier pressed and released with nothing pressed *)
(* in between is a tap; that is why KeyBindings grabs every key with the   *)
(* modifiers of such a binding.  The layout does not change here and no    *)
(* other client has grabs.                                                 *)
(***************************************************************************)
EXTENDS KeyBindings

CONSTANT NoAction  \* possibleTap == NULL

ASSUME NoActionAssumption == NoAction \notin Actions

VARIABLES
    held,         \* keys that are down
    lockedMods,   \* lock modifiers that are on
    grabbed,      \* some plugin has a grab, so compiz has the keyboard
    waiting,      \* actions started and not ended, with StateTermKey set
    possibleTap,
    disturbed,    \* history: a key was pressed since possibleTap was set
    stolen        \* history: a key was ungrabbed that a tap binding needs

eventVars == <<held, lockedMods, grabbed, waiting, possibleTap, disturbed, stolen>>

(* ModifierHandler::ignoredModMask () *)
Locks == IgnoredMods(layout)

EventsTypeOK ==
    /\ held \subseteq Keycodes /\ lockedMods \subseteq Locks
    /\ grabbed \in BOOLEAN /\ disturbed \in BOOLEAN /\ stolen \in BOOLEAN
    /\ waiting \subseteq activeActions
    /\ possibleTap \in Actions \union {NoAction}

EventsInit ==
    /\ KeysInit
    /\ held = {} /\ lockedMods = {} /\ grabbed = FALSE
    /\ waiting = {} /\ possibleTap = NoAction
    /\ disturbed = FALSE /\ stolen = FALSE

-----------------------------------------------------------------------------
(* Which actions an event is for.  Locks are masked out of its modifiers.  *)

BindMods(a) == RealMask(layout, KeyOf[a].mods)

OwnMods(a) == ModifiersOf(layout, KeyOf[a].keycode)

(* shouldTriggerKeyPressAction: the key with its modifiers; if it presses  *)
(* a modifier, also one of the modifiers pressed after it.  The locks are  *)
(* masked out of the binding's modifiers too, only here: <Super><Mod2>k    *)
(* starts without Mod2 where that is Num Lock.                             *)
PressedBy(a, key, mods) ==
    IF KeyOf[a].keycode = key THEN BindMods(a) \ Locks = mods \ Locks
    ELSE /\ OwnMods(a) # {}
         /\ \E m \in BindMods(a) \intersect ModifiersOf(layout, key) :
               ((BindMods(a) \ {m}) \union OwnMods(a)) \ Locks = mods \ Locks

(* shouldTriggerModifierPressAction *)
EnteredBy(a, mods) == KeyOf[a].keycode = NoKeycode /\ BindMods(a) = mods \ Locks

(* Mutant of LeftBy: a release that leaves no modifiers ends nothing.      *)
LeftByMasked(a, key, mods) ==
    \/ mods # {} /\ BindMods(a) # mods \ Locks
    \/ /\ OwnMods(a) # {} /\ KeyOf[a].keycode = key
       /\ BindMods(a) \union OwnMods(a) =
             (mods \ Locks) \union ModifiersOf(layout, key)

(* shouldTriggerModifierReleaseAction                                      *)
LeftBy(a, key, mods) ==
    \/ mods # {} /\ BindMods(a) # mods \ Locks
    \/ mods = {} /\ BindMods(a) = ModifiersOf(layout, key)
    \/ /\ OwnMods(a) # {} /\ KeyOf[a].keycode = key
       /\ BindMods(a) \union OwnMods(a) =
             (mods \ Locks) \union ModifiersOf(layout, key)

-----------------------------------------------------------------------------
(* Handling an event, as steps on a record of what changes; fresh says     *)
(* that possibleTap was set by this event.                                 *)

Unhandled == [waiting |-> waiting, tap |-> possibleTap, fresh |-> FALSE]

(* triggerPress.  The actions are tried in the order of the plugins until  *)
(* one's initiate () says it has handled the event.  Order and answer may  *)
(* be any, so some of the candidates are started, one of them last.        *)
(* Plugins set StateTermKey in initiate () and clear it in terminate ().   *)
Started(e, candidates) ==
    IF candidates = {} THEN {e}
    ELSE {[waiting |-> e.waiting \union started \union {last},
           tap     |-> IF grabbed THEN e.tap ELSE last,
           fresh   |-> e.fresh \/ ~ grabbed] :
              started \in SUBSET candidates, last \in candidates}

ModsOf(keys, locks) == (UNION {ModifiersOf(layout, k) : k \in keys}) \union locks

(* Mutant of KeyPress: the tap is given up only if no grab is active.      *)
KeyPressKeepingTap(key, mods) ==
    Started(Unhandled, {a \in activeActions : PressedBy(a, key, mods)})

(* alwaysHandleEvent, handleActionEvent: the press of a key compiz sees.   *)
KeyPress(key, mods) ==
    Started([Unhandled EXCEPT !.tap = NoAction],
            {a \in activeActions : PressedBy(a, key, mods)})

(* XkbStateNotify for a press, sent if the key presses a modifier.         *)
StatePress(e, key, mods) ==
    Started(e, IF ModifiersOf(layout, key) = {} THEN {}
               ELSE {a \in activeActions : EnteredBy(a, mods)})

IsSeen(key) == grabbed \/ <<key, ModsOf(held, lockedMods)>> \in serverKeys

(* The press of a lock key turns its lock on or off.                       *)
LocksAfter(key) ==
    LET own == ModifiersOf(layout, key) \intersect Locks
    IN  (lockedMods \union own) \ (lockedMods \intersect own)

PressKey(key) ==
    /\ key \notin held
    /\ held' = held \union {key}
    /\ lockedMods' = LocksAfter(key)
    /\ \E e \in IF IsSeen(key) THEN KeyPress(key, ModsOf(held, lockedMods)) ELSE {Unhandled} :
       \E f \in StatePress(e, key, ModsOf(held', lockedMods')) :
          /\ waiting' = f.waiting /\ possibleTap' = f.tap
          /\ disturbed' = (f.tap # NoAction /\ ~ f.fresh)
    /\ UNCHANGED <<keyVars, grabbed, stolen>>

(* The actions ended by a KeyRelease, which compiz sees only with a grab   *)
(* of the keyboard (it lets the passive one go after every press), and by  *)
(* the XkbStateNotify for the release of a modifier: triggerRelease.       *)
EndedBy(key) ==
    {a \in waiting :
        \/ grabbed /\ BindMods(a) \ Locks = {} /\ KeyOf[a].keycode = key
        \/ /\ ModifiersOf(layout, key) # {}
           /\ LeftBy(a, key, ModsOf(held \ {key}, lockedMods))}

ReleaseKey(key) ==
    /\ key \in held
    /\ held' = held \ {key}
    /\ waiting' = waiting \ EndedBy(key)
    /\ possibleTap' = IF possibleTap \in EndedBy(key) THEN NoAction ELSE possibleTap
    /\ disturbed' = (disturbed /\ possibleTap' # NoAction)
    /\ UNCHANGED <<keyVars, lockedMods, grabbed, stolen>>

(* A plugin pushes the first grab or removes the last.                     *)
TakeKeyboard ==
    /\ grabbed' = ~ grabbed
    /\ UNCHANGED <<keyVars, held, lockedMods, waiting, possibleTap, disturbed, stolen>>

(* A binding of modifiers alone has every key grabbed with them.           *)
TapsGuarded ==
    \A entry \in DOMAIN keyGrabs :
        ModifierOnly(layout, entry.keycode) /\ NoMask \notin entry.mods =>
            AllCombinations(layout, entry) \subseteq serverKeys

(* Plugins come and go (processEvents), which also resets the tap.         *)
ChangePlugins(a) ==
    /\ AddAction(a) \/ RemoveAction(a)
    /\ waiting' = waiting \ {a}
    /\ possibleTap' = NoAction /\ disturbed' = FALSE
    /\ stolen' = (stolen \/ ~ TapsGuarded')
    /\ UNCHANGED <<held, lockedMods, grabbed>>

EventsNext ==
    \/ \E key \in Keycodes : PressKey(key) \/ ReleaseKey(key)
    \/ \E a \in Actions : ChangePlugins(a)
    \/ TakeKeyboard

EventsSpec == EventsInit /\ [][EventsNext]_<<keyVars, eventVars>>

-----------------------------------------------------------------------------
(* Properties                                                              *)

(* A key that turns a lock on or off is no other modifier.                 *)
LocksApart ==
    \A key \in Keycodes :
        ModifiersOf(layout, key) \intersect Locks # {} =>
            ModifiersOf(layout, key) \subseteq Locks

(* A binding that names a lock by its modifier or by its key.              *)
NamesLock(a) == (BindMods(a) \union OwnMods(a)) \intersect Locks # {}

(* With no key down every action with modifiers has been ended, in         *)
(* whatever order keys and modifiers were pressed and released, locks      *)
(* turned on and off and grabs taken.  (LeftBy compares the modifiers of   *)
(* the last key released with those of the binding, locks included, so     *)
(* that it fails for a key that is both.  It also fails for a binding that *)
(* names a lock: PressedBy masks the lock, LeftBy does not, and with the   *)
(* lock off the release of Super never ends <Super><Mod2>k.)               *)
EndsWithKeys ==
    LocksApart /\ held = {} => \A a \in waiting : BindMods(a) = {} \/ NamesLock(a)

(* While the release of a modifier would be reported as a tap, no other    *)
(* key has been pressed.  screen.cpp:3581 grabs all keys "so that we can   *)
(* detect taps on individual modifier keys, and know to cancel the tap if  *)
(* <modifier>+k is pressed"; it fails once the removal of a binding of     *)
(* <modifier>+k has ungrabbed that combination.                            *)
TapCancelled ==
    possibleTap # NoAction /\ disturbed =>
        ~ ModifierOnly(layout, KeyOf[possibleTap].keycode)

(* A binding of modifiers only, or of one modifier key.                    *)
OfModifiers(a) ==
    \/ KeyOf[a].keycode = NoKeycode
    \/ ModifierOnly(layout, KeyOf[a].keycode) /\ BindMods(a) = {}

(* TapCancelled for the taps that comment is about, as long as no binding  *)
(* that a tap binding shares a combination with has been removed: then     *)
(* every press after the modifier's is one that compiz sees.  (It fails    *)
(* for <Super>Alt_L, which also starts with Alt_R: release Alt_R, and keys *)
(* pressed with Super are not seen.)                                       *)
TapAlone ==
    ~ stolen /\ LocksApart /\ possibleTap # NoAction /\ OfModifiers(possibleTap)
        => ~ disturbed
=============================================================================
