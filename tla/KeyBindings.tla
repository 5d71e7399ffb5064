---------------------------- MODULE KeyBindings ----------------------------
(***************************************************************************)
(* Passive grabs of key bindings and screen edges of actions               *)
(* (src/src/screen.cpp: GrabManager, addAction, removeAction, enableEdge,  *)
(* disableEdge; src/src/modifierhandler.cpp).                              *)
(*                                                                         *)
(* Bindings name virtual modifiers (Super, ...) that the keyboard layout   *)
(* maps to real ones.  Actions with the same key share an entry with a     *)
(* count.  A key is grabbed once for every combination of the locks that   *)
(* are to be ignored, which the layout also says; if another client has    *)
(* one of them a new binding fails, but an entry that is grabbed again     *)
(* after a change of the layout stays, without the key.                    *)
(* A binding of modifiers alone grabs every key with these modifiers, so   *)
(* that compiz notices when the modifier is used with another key.         *)
(***************************************************************************)
EXTENDS Integers, Sequences, FiniteSets, FiniteSetsExt

CONSTANTS
    Actions,
    KeyOf,         \* action -> [keycode, mods]
    EdgesOf,       \* action -> set of screen edges
    Keycodes,      \* the keys of the keyboard
    NoKeycode,     \* keycode 0: modifiers alone
    Layouts,       \* [mask: virtual modifier -> set of real ones,
                   \*  keys: keycode -> set of real modifiers it presses]
    LockMask,      \* the modifier of Caps Lock
    LockVirtuals,  \* the virtual modifiers of the other locks
    BitOf,         \* real modifier -> number of its bit in a mask
    NoMask,        \* the mark of a virtual modifier that no key has
    ForeignGrabs,  \* combinations another client may grab
    MaxCount       \* bound on the count of an entry, which can leak

ASSUME ActionsAssumption ==
    /\ NoKeycode \notin Keycodes
    /\ \A a \in Actions : KeyOf[a].keycode \in Keycodes \union {NoKeycode}

(* CompNoMask is a bit of its own, which no key sets.                      *)
ASSUME MasksAssumption ==
    /\ \A l \in Layouts : LockVirtuals \subseteq DOMAIN l.mask
    /\ \A l \in Layouts, k \in Keycodes : NoMask \notin l.keys[k]

VARIABLES
    activeActions,  \* actions whose active flag is set
    keyGrabs,       \* GrabManager::keyGrabs: entry -> count
    edgeCount,      \* screenEdge[].count
    layout,         \* what ModifierHandler read last
    serverKeys,     \* combinations the server has grabbed for compiz
    foreignKeys,    \* combinations it has grabbed for another client
    edgesMapped,    \* edge windows that are mapped
    remapped,       \* history: a mask changed while an action was active
    refused         \* history: entries that could not be grabbed again when
                    \* the layout changed, nor since

keyVars == <<activeActions, keyGrabs, edgeCount, layout, serverKeys,
             foreignKeys, edgesMapped, remapped, refused>>

Edges == UNION {EdgesOf[a] : a \in Actions}

(* ModifierHandler::virtualToRealModMask                                   *)
RealMask(l, mods) == UNION {IF m \in DOMAIN l.mask THEN l.mask[m] ELSE {m} : m \in mods}

EntryIn(l, a) == [keycode |-> KeyOf[a].keycode, mods |-> RealMask(l, KeyOf[a].mods)]

Entries(l) == {EntryIn(l, a) : a \in Actions}

AllEntries == UNION {Entries(l) : l \in Layouts}

KeysTypeOK ==
    /\ activeActions \subseteq Actions
    /\ DOMAIN keyGrabs \subseteq AllEntries
    /\ \A e \in DOMAIN keyGrabs : keyGrabs[e] \in 1 .. MaxCount
    /\ edgeCount \in [Edges -> 0 .. Cardinality(Actions)]
    /\ layout \in Layouts
    /\ \A c \in serverKeys : c[1] \in Keycodes
    /\ foreignKeys \subseteq ForeignGrabs
    /\ edgesMapped \subseteq Edges
    /\ remapped \in BOOLEAN
    /\ refused \subseteq DOMAIN keyGrabs

KeysInit ==
    /\ activeActions = {}
    /\ keyGrabs = << >>
    /\ edgeCount = [e \in Edges |-> 0]
    /\ layout \in Layouts
    /\ serverKeys = {} /\ foreignKeys = {}
    /\ edgesMapped = {}
    /\ remapped = FALSE /\ refused = {}

-----------------------------------------------------------------------------
(* Modifiers and combinations                                              *)

(* mIgnoredModMask, which updateModifierMappings sets with the masks.      *)
IgnoredMods(l) ==
    ({LockMask} \union UNION {l.mask[v] : v \in LockVirtuals}) \ {NoMask}

(* The order of masks as numbers: the highest bit they differ in decides.  *)
Below(s, t) == \E m \in t \ s : \A n \in s \ t : BitOf[n] < BitOf[m]

(* keycodeToModifiers *)
ModifiersOf(l, keycode) == IF keycode = NoKeycode THEN {} ELSE l.keys[keycode]

ModifierOnly(l, keycode) == keycode = NoKeycode \/ ModifiersOf(l, keycode) # {}

(* What grabUngrabKeys grabs for an entry with one combination of locks.   *)
Combinations(l, entry, ignored) ==
    LET own == ModifiersOf(l, entry.keycode)
    IN  IF ~ ModifierOnly(l, entry.keycode)
        THEN {<<entry.keycode, entry.mods \union ignored>>}
        ELSE {<<km[1], (entry.mods \ {km[2]}) \union own \union ignored>> :
                  km \in {km \in Keycodes \X entry.mods :
                             km[2] \in ModifiersOf(l, km[1])}}
             \union {<<entry.keycode, entry.mods \union ignored>> :
                        m \in {m \in own \ entry.mods : own = {m}}}
             \union {<<k, entry.mods \union own \union ignored>> : k \in Keycodes}

AllCombinations(l, entry) ==
    UNION {Combinations(l, entry, ignored) : ignored \in SUBSET IgnoredMods(l)}

(* grabUngrabKeys (true) goes through the masks of locks in ascending      *)
(* order, checks for errors after each, and gives up at the first one with *)
(* an error, with what it has.                                             *)
Refused(l, entry, ignored) == Combinations(l, entry, ignored) \intersect foreignKeys # {}

CanGrab(l, entry) == \A ignored \in SUBSET IgnoredMods(l) : ~ Refused(l, entry, ignored)

GrabKeys(l, entry) ==
    LET tried == {ignored \in SUBSET IgnoredMods(l) :
                     \A first \in SUBSET IgnoredMods(l) :
                        Below(first, ignored) => ~ Refused(l, entry, first)}
    IN  (UNION {Combinations(l, entry, ignored) : ignored \in tried}) \ foreignKeys

(* updatePassiveKeyGrabs, which ignores what grabUngrabKeys returns.       *)
GrabEntries(l, entries) ==
    UNION {GrabKeys(l, e) : e \in {e \in entries : NoMask \notin e.mods}}

NotGrabbed(l, entries) == {e \in entries : NoMask \notin e.mods /\ ~ CanGrab(l, e)}

-----------------------------------------------------------------------------
(* Actions                                                                 *)

EntryOf(a) == EntryIn(layout, a)

Edged(a, d) == [e \in Edges |-> IF e \in EdgesOf[a] THEN edgeCount[e] + d ELSE edgeCount[e]]

(* addPassiveKeyGrab succeeds: the entry is there or can be grabbed.       *)
AddAction(a) ==
    LET entry == EntryOf(a)
        known == entry \in DOMAIN keyGrabs
        grab  == ~ known /\ NoMask \notin entry.mods
    IN  /\ a \notin activeActions
        /\ grab => CanGrab(layout, entry)
        /\ known => keyGrabs[entry] < MaxCount
        /\ keyGrabs' = [e \in DOMAIN keyGrabs \union {entry} |->
                           IF e # entry THEN keyGrabs[e]
                           ELSE IF known THEN keyGrabs[e] + 1 ELSE 1]
        /\ serverKeys' = IF grab THEN serverKeys \union GrabKeys(layout, entry)
                         ELSE serverKeys
        /\ edgeCount' = Edged(a, 1)
        /\ edgesMapped' = edgesMapped \union {e \in EdgesOf[a] : edgeCount'[e] = 1}
        /\ activeActions' = activeActions \union {a}
        /\ UNCHANGED <<layout, foreignKeys, remapped, refused>>

(* It fails: what was grabbed before the error stays grabbed.              *)
AddActionFails(a) ==
    LET entry == EntryOf(a)
    IN  /\ a \notin activeActions
        /\ entry \notin DOMAIN keyGrabs /\ NoMask \notin entry.mods
        /\ ~ CanGrab(layout, entry)
        /\ serverKeys' = serverKeys \union GrabKeys(layout, entry)
        /\ UNCHANGED <<activeActions, keyGrabs, edgeCount, layout, foreignKeys,
                       edgesMapped, remapped, refused>>

(* Mutant of LeftAfter: the entry goes with its first user.                *)
LeftAfterErased(entry) == [e \in DOMAIN keyGrabs \ {entry} |-> keyGrabs[e]]

(* removePassiveKeyGrab: the entry goes with its last user, and its        *)
(* combinations with it, also those other entries need; only after a       *)
(* binding of modifiers alone are the other entries grabbed again.         *)
LeftAfter(entry) ==
    IF entry \notin DOMAIN keyGrabs THEN keyGrabs
    ELSE IF keyGrabs[entry] > 1 THEN [keyGrabs EXCEPT ![entry] = @ - 1]
    ELSE [e \in DOMAIN keyGrabs \ {entry} |-> keyGrabs[e]]

(* Mutant of ServerAfter: the other entries are never grabbed again.       *)
ServerAfterUnrefreshed(entry) ==
    IF NoMask \in entry.mods \/ entry \in DOMAIN LeftAfter(entry) THEN serverKeys
    ELSE serverKeys \ AllCombinations(layout, entry)

ServerAfter(entry) ==
    IF NoMask \in entry.mods \/ entry \in DOMAIN LeftAfter(entry) THEN serverKeys
    ELSE IF ModifierOnly(layout, entry.keycode)
         THEN GrabEntries(layout, DOMAIN LeftAfter(entry))
    ELSE IF entry \in DOMAIN keyGrabs THEN serverKeys \ AllCombinations(layout, entry)
    ELSE serverKeys

(* Of the refused entries those that stay, unless they are grabbed now.    *)
RefusedAfter(entry) ==
    LET left == refused \intersect DOMAIN LeftAfter(entry)
        all  == NoMask \notin entry.mods /\ entry \notin DOMAIN LeftAfter(entry)
                  /\ ModifierOnly(layout, entry.keycode)
    IN  IF all THEN NotGrabbed(layout, left) ELSE left

RemoveAction(a) ==
    /\ a \in activeActions
    /\ keyGrabs' = LeftAfter(EntryOf(a))
    /\ serverKeys' = ServerAfter(EntryOf(a))
    /\ edgeCount' = Edged(a, -1)
    /\ edgesMapped' = edgesMapped \ {e \in EdgesOf[a] : edgeCount'[e] = 0}
    /\ activeActions' = activeActions \ {a}
    /\ refused' = RefusedAfter(EntryOf(a))
    /\ UNCHANGED <<layout, foreignKeys, remapped>>

(* updateModifierMappings, on MappingNotify: the entries keep the real     *)
(* modifiers they were made with and are grabbed again, with every mask of *)
(* the locks there are now.  One that another client has in the way stays. *)
ChangeLayout(l) ==
    /\ l # layout
    /\ layout' = l
    /\ serverKeys' = IF l.mask # layout.mask THEN GrabEntries(l, DOMAIN keyGrabs)
                     ELSE serverKeys
    /\ refused' = IF l.mask # layout.mask THEN NotGrabbed(l, DOMAIN keyGrabs) ELSE refused
    /\ remapped' = (remapped \/ (l.mask # layout.mask /\ activeActions # {}))
    /\ UNCHANGED <<activeActions, keyGrabs, edgeCount, foreignKeys, edgesMapped>>

(* Another client grabs or lets go of a key that is free.                  *)
ForeignGrab(c) ==
    /\ c \notin serverKeys
    /\ foreignKeys' = IF c \in foreignKeys THEN foreignKeys \ {c} ELSE foreignKeys \union {c}
    /\ UNCHANGED <<activeActions, keyGrabs, edgeCount, layout, serverKeys,
                   edgesMapped, remapped, refused>>

KeysNext ==
    \/ \E a \in Actions : AddAction(a) \/ AddActionFails(a) \/ RemoveAction(a)
    \/ \E l \in Layouts : ChangeLayout(l)
    \/ \E c \in ForeignGrabs : ForeignGrab(c)

KeysSpec == KeysInit /\ [][KeysNext]_keyVars

-----------------------------------------------------------------------------
(* Properties                                                              *)

(* A key no layout has for a modifier.                                     *)
Plain(keycode) == \A l \in Layouts : ~ ModifierOnly(l, keycode)

(* <Mod2>k and k have combinations in common where Mod2 is Num Lock, and   *)
(* the removal of either binding takes them from the other.                *)
ApartFromLocks(e) ==
    LET locks == IgnoredMods(layout)
    IN  \A f \in AllEntries :
            f.keycode = e.keycode /\ f.mods \ locks = e.mods \ locks => f = e

(* Every entry for a plain key is grabbed with every combination of locks, *)
(* also after a binding of modifiers alone, which grabs and ungrabs all    *)
(* keys, came and went.  A change of the layout moves the locks and may    *)
(* lose the key: another client may have a combination with a new one, and *)
(* updatePassiveKeyGrabs ignores that (screen.cpp:3689); only then, and    *)
(* only until the entry is grabbed again, is an entry without its key.     *)
(* (The converse fails: a refused binding leaves part of its combinations  *)
(* grabbed; so does this for modifiers alone, from which a plain key can   *)
(* be taken.)                                                              *)
KeysGrabbed ==
    \A e \in DOMAIN keyGrabs \ refused :
        Plain(e.keycode) /\ ApartFromLocks(e) /\ NoMask \notin e.mods
            => AllCombinations(layout, e) \subseteq serverKeys

(* Entries count the active actions that use them and edge windows are     *)
(* mapped for the active actions that want them, unless a virtual modifier *)
(* was moved while an action was active: then the entry of a removed       *)
(* action is looked for under its new modifiers and never found.           *)
CountsExact ==
    /\ ~ remapped => \A e \in AllEntries :
           Cardinality({a \in activeActions : EntryOf(a) = e}) =
               IF e \in DOMAIN keyGrabs THEN keyGrabs[e] ELSE 0
    /\ edgesMapped = UNION {EdgesOf[a] : a \in activeActions}

=============================================================================
