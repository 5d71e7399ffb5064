------------------------------ MODULE Plugins ------------------------------
(***************************************************************************)
(* The plugin manager (src/src/screen.cpp: mergedPluginList,               *)
(* updatePlugins; src/src/plugin.cpp; creation and destruction of windows  *)
(* in src/src/window.cpp as far as plugins see them).                      *)
(*                                                                         *)
(* The option active_plugins names the plugins to run above those of the   *)
(* command line.  When it changes the manager pops plugins down to the     *)
(* first difference and pushes what is wanted from there; what does not    *)
(* load or start is blacklisted, and the option is set to what runs.  The  *)
(* first plugin, core, is always there and is left out.                    *)
(***************************************************************************)
EXTENDS PluginClasses, FiniteSets

CONSTANTS
    PluginNames,
    InitialPlugins,  \* plugins of the command line
    OptionLists,     \* values a user may give to active_plugins
    Unloadable,      \* plugins that are not installed
    NeverStarts,     \* plugins whose init or initScreen may return false
    NotForWindows,   \* plugins whose initWindow may return false
    Windows,
    MaxCrossings     \* bound on crossings, after which objects are left behind

ASSUME PluginsAssumption ==
    /\ InitialPlugins \in Seq(PluginNames) /\ OptionLists \subseteq Seq(PluginNames)
    /\ "null" \notin PluginNames
    /\ MaxCrossings \in Nat

VARIABLES
    option,       \* active_plugins
    dirty,        \* dirtyPluginList
    plugins,      \* CompPlugin::plugins, the first pushed first
    blacklist,
    onScreen,     \* plugins with an object for the screen
    destroyedWindows,  \* destroyed, not deleted: somebody has a reference
    storage,      \* the window objects of plugins, see PluginClasses
    crossings     \* history: how often plugins came or went while there was
                  \* a destroyed window

pluginVars == <<option, dirty, plugins, blacklist, onScreen, destroyedWindows,
                storage, crossings>>

PluginsTypeOK ==
    /\ option \in OptionLists \union Seq(PluginNames)
    /\ dirty \in BOOLEAN /\ crossings \in 0 .. MaxCrossings /\ storage.broken \in BOOLEAN
    /\ plugins \in Seq(PluginNames)
    /\ blacklist \subseteq PluginNames
    /\ onScreen \subseteq PluginNames
    /\ destroyedWindows \subseteq Windows
    /\ storage.stacked \subseteq Windows
    /\ DOMAIN storage.slots = storage.stacked \union destroyedWindows
    /\ \A p \in PluginNames : storage.class[p].refs \in Nat

(* initDisplay: no window is managed yet, and initPlugins makes it dirty.  *)
PluginsInit ==
    /\ option \in OptionLists
    /\ dirty = TRUE
    /\ plugins = << >> /\ blacklist = {} /\ onScreen = {}
    /\ destroyedWindows = {}
    /\ storage = StorageOf(PluginNames)
    /\ crossings = 0

-----------------------------------------------------------------------------
(* updatePlugins, as steps on a record of what it changes                  *)

(* A list without some names: what is left of the first n, for every n     *)
Skipping(list, names) ==
    LET left[n \in 0 .. Len(list)] ==
            IF n = 0 THEN << >>
            ELSE IF list[n] \in names THEN left[n - 1]
            ELSE Append(left[n - 1], list[n])
    IN  left[Len(list)]

(* mergedPluginList *)
Wanted == Skipping(InitialPlugins, blacklist)
          \o Skipping(option, blacklist \union ToSet(InitialPlugins))

(* Mutant of Pop: the screen object is forgotten.                          *)
PopKeepingScreen(m) ==
    LET p == Last(m.plugins)
    IN  [m EXCEPT !.plugins = Front(@),
                  !.storage = FiniWindows(@, p, @.stacked)]

(* CompPlugin::pop: finiPluginForScreen, finiScreen, fini.                 *)
Pop(m) ==
    LET p == Last(m.plugins)
    IN  [m EXCEPT !.plugins = Front(@),
                  !.storage = FiniWindows(@, p, @.stacked),
                  !.onScreen = @ \ {p}]

(* push fails because the last of the windows fails: those before it are   *)
(* finished again; the screen object is left, as finiScreen is not called. *)
PushFailsOnWindow(m, p) ==
    LET w      == CHOOSE w \in m.storage.stacked : TRUE
        before == m.storage.stacked \ {w}
        begun  == InitWindows(m.storage, p, before)
    IN  [m EXCEPT !.blacklist = @ \union {p},
                  !.onScreen = @ \union {p},
                  !.storage = FiniWindows(InitWindowFails(begun, p, w), p, before)]

(* Mutant of Push: what does not load or start is tried again every time.  *)
PushUnlisted(m, p, fails) ==
    IF p \in ToSet(m.plugins)
    THEN [m EXCEPT !.blacklist = @ \union {p}, !.storage = Break(@)]
    ELSE IF p \in Unloadable \/ p \in fails \intersect NeverStarts THEN m
    ELSE IF p \in fails \intersect NotForWindows /\ m.storage.stacked # {}
    THEN PushFailsOnWindow(m, p)
    ELSE [m EXCEPT !.plugins = Append(@, p),
                   !.onScreen = @ \union {p},
                   !.storage = InitWindows(@, p, @.stacked)]

(* load and push, or the push of a plugin that is still loaded.  A plugin  *)
(* that runs already is found active, and unload deletes the vtable it     *)
(* shares with the one that runs.                                          *)
Push(m, p, fails) ==
    IF p \in ToSet(m.plugins)
    THEN [m EXCEPT !.blacklist = @ \union {p}, !.storage = Break(@)]
    ELSE IF p \in Unloadable \/ p \in fails \intersect NeverStarts
    THEN [m EXCEPT !.blacklist = @ \union {p}]
    ELSE IF p \in fails \intersect NotForWindows /\ m.storage.stacked # {}
    THEN PushFailsOnWindow(m, p)
    ELSE [m EXCEPT !.plugins = Append(@, p),
                   !.onScreen = @ \union {p},
                   !.storage = InitWindows(@, p, @.stacked)]

Manager == [plugins |-> plugins, blacklist |-> blacklist, onScreen |-> onScreen,
            storage |-> storage]

Kept == Len(LongestCommonPrefix({plugins, Wanted}))

(* Plugins are popped down to the first difference, then what is wanted    *)
(* from there is pushed: the manager after n of these steps.               *)
UpdateSteps == Len(plugins) - Kept + Len(Wanted) - Kept

UpdatedBy(fails) ==
    LET pops == Len(plugins) - Kept
        after[n \in 0 .. UpdateSteps] ==
            IF n = 0 THEN Manager
            ELSE IF n <= pops THEN Pop(after[n - 1])
            ELSE Push(after[n - 1], Wanted[Kept + n - pops], fails)
    IN  after

Updated(fails) == UpdatedBy(fails)[UpdateSteps]

-----------------------------------------------------------------------------
(* Actions                                                                 *)

SetOption(list) ==
    /\ list # option
    /\ option' = list /\ dirty' = TRUE
    /\ UNCHANGED <<plugins, blacklist, onScreen, destroyedWindows, storage, crossings>>

(* processEvents with a dirty list.  Setting the option to what runs makes *)
(* it dirty again if that is not what it was.                              *)
UpdatePlugins(fails) ==
    /\ dirty
    /\ \E m \in {Updated(fails)} :
           /\ plugins' = m.plugins /\ blacklist' = m.blacklist
           /\ onScreen' = m.onScreen /\ storage' = m.storage
           /\ option' = m.plugins
           /\ dirty' = (option # m.plugins)
    /\ crossings' = IF destroyedWindows # {} /\ plugins # Wanted
                    THEN crossings + 1 ELSE crossings
    /\ crossings' <= MaxCrossings
    /\ UNCHANGED destroyedWindows

(* The constructor of CompWindow, with windowInitPlugins.                  *)
CreateWindow(w) ==
    /\ w \notin DOMAIN storage.slots
    /\ storage' = InitPlugins(AddWindow(storage, w), plugins, w)
    /\ UNCHANGED <<option, dirty, plugins, blacklist, onScreen, destroyedWindows, crossings>>

(* CompWindow::destroy                                                     *)
DestroyWindow(w) ==
    /\ w \in storage.stacked
    /\ storage' = Unstack(storage, w)
    /\ destroyedWindows' = destroyedWindows \union {w}
    /\ UNCHANGED <<option, dirty, plugins, blacklist, onScreen, crossings>>

(* removeDestroyed, once the last reference is gone: ~CompWindow with      *)
(* windowFiniPlugins.                                                      *)
DeleteWindow(w) ==
    /\ w \in destroyedWindows
    /\ storage' = DropWindow(FiniPlugins(storage, Reverse(plugins), w), w)
    /\ destroyedWindows' = destroyedWindows \ {w}
    /\ UNCHANGED <<option, dirty, plugins, blacklist, onScreen, crossings>>

(* Nothing is said of what follows the use of memory that was freed.       *)
Undefined == storage.broken /\ UNCHANGED pluginVars

PluginsNext ==
    \/ /\ ~ storage.broken
       /\ \/ \E list \in OptionLists : SetOption(list)
          \/ \E fails \in SUBSET (NeverStarts \union NotForWindows) : UpdatePlugins(fails)
          \/ \E w \in Windows : CreateWindow(w) \/ DestroyWindow(w) \/ DeleteWindow(w)
    \/ Undefined

PluginsSpec == PluginsInit /\ [][PluginsNext]_pluginVars

-----------------------------------------------------------------------------
(* Properties                                                              *)

(* A list that is not dirty is the outcome of its own request: running the *)
(* update once more would change nothing.                                  *)
PluginsSettled ==
    ~ dirty /\ ~ storage.broken => plugins = Wanted /\ option = plugins

(* Exactly the running plugins have a screen object, and those given up in *)
(* the middle, whose screen object is left behind.                         *)
ScreenObjects ==
    ~ storage.broken =>
        /\ ToSet(plugins) \subseteq onScreen
        /\ onScreen \ ToSet(plugins) \subseteq blacklist \intersect NotForWindows

HasObject(p, w) ==
    LET st == Located(storage, p)
    IN  InRange(st, p, w) /\ SlotOf(st, p, w) = [plugin |-> p, alive |-> TRUE]

(* Every running plugin has its own living object on every window of the   *)
(* stack: pluginclasshandler.h says of get "Returns the unique instance of *)
(* the plugin class for this base class".  Alone it fails, see below.      *)
ObjectsLive ==
    \A p \in ToSet(plugins), w \in storage.stacked : ~ storage.broken => HasObject(p, w)

(* So it is as long as no plugin comes or goes between the destruction of  *)
(* a window and its deletion: then freed memory is used only if a plugin   *)
(* that runs was requested twice (and so blacklisted), and a class counts  *)
(* one reference for every window, also for those that wait for deletion.  *)
ObjectsLiveWhenCalm ==
    crossings = 0 =>
        /\ ObjectsLive
        /\ storage.broken => ToSet(plugins) \intersect blacklist # {}
        /\ ~ storage.broken => \A p \in PluginNames :
               storage.class[p].refs = IF p \in ToSet(plugins)
                                       THEN Cardinality(DOMAIN storage.slots) ELSE 0

=============================================================================
