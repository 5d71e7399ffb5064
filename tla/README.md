# A verification development of the compiz core

TLA+ models of the parts of the compiz core (`src/src/`) whose correctness
depends on the order in which things happen, TLC configurations that check
them on small instances, and TLAPS proofs for every instance. Paths below
are relative to the repository unless they start with `src/src/`; `window.cpp`,
`event.cpp`, `screen.cpp` and so on are in `src/src/`.

## 1. The system

compiz is one single-threaded process that is the window manager of an X
server. A glib main loop delivers X events (`event.cpp`), timers
(`timer/`), file descriptors and signals. Plugins are shared objects that
wrap core functions (`paint`, `activate`, `minimize`, ...) and are notified of
changes (`windowNotify`). Concurrency is not between threads but between
compiz, the X server, the clients and time: compiz sends requests, goes on, and
learns later, from events, what became of them. A handler runs to its end
before the next one, so the models have one action per handler or call.

### Inventory

| Component | State | Operations | Talks to | What makes it correct |
|---|---|---|---|---|
| Configure request buffer (`configurerequestbuffer.cpp`) | waiting changes and masks for frame, wrapper and client; lock count; weak pointers to locks | push*, obtainLock, release, queries, forceRelease | window.cpp pushes; opengl and move hold locks; the X server gets the requests | nothing lost, reordered or sent in part; held only while somebody holds; sent when they let go |
| Timers (`timer/src`) | list of started timers with two deadlines, active flags, callbacks | start, stop, setTimes, setCallback; prepare, check, callback | glib; every user of CompTimer, callbacks included | active() is the truth; no early, late, lost or double call; no starvation |
| Window mapping (`window.cpp`, `event.cpp`) | managed, minimized, hidden, shaded, desktop, pendingMaps, pendingUnmaps, unmapRefCnt, frame windows, WM_STATE | MapRequest, MapNotify, UnmapNotify, hide, show, minimize, shade, setDesktop, show desktop, activate | clients, X server, plugins that keep unmapped windows for animations | compiz, server and properties agree once events are handled; a seen window has its frame; only clients withdraw |
| Frame requests (`window.cpp` 1882-2247, 3132-3429, 4060-4167, 6781-6889) | server geometry, extents last sent, queue of pending ConfigureNotify events by serial, sync wait | reconfigureXWindow, moveResize, setWindowFrameExtents, configureFrame, match, sendSyncRequest, handleSyncAlarm | buffer above, X events, client's sync counter | frame, wrapper and client fit; geometry converges to what was asked; every event is matched by its request |
| Window stacks (`screen.cpp` 2970-3250, 4776-4792, `window.cpp` 1292-1371, 1577-1618, 4191-4364) | client-side and server-side lists, frames that are windows of their own, destroyed windows, next and prev pointers | insert, unhook, restack, destroy, removeDestroyed, restackAbove | CreateNotify, ConfigureNotify, UnmapNotify, DestroyNotify | both lists settle to the server's order; no frame is left; no pointer to a deleted window |
| Active grabs (`screen.cpp` 3249-3440) | stack of active grabs with a type and cursor | pushGrab, updateGrab, removeGrab | plugins, X server | the server grabs exactly what the stack asks for, also after a failed push |
| Passive grabs (`screen.cpp` 3484-3865, `modifierhandler.cpp`) | entries with counts, edge counts, modifier mappings | addAction, removeAction, updateModifierMappings | X server, other clients' grabs | counts are the users; what is bound is grabbed |
| Event dispatch and actions (`event.cpp` 160-640, 932-1010, 1292-1307) | state of actions, possibleTap | trigger functions for keys and modifiers | plugins, passive grabs | actions end; a tap is a tap |
| Plugin manager (`screen.cpp` 1005-1153, `plugin.cpp` 239-531) | list of active plugins, loaded plugins, blacklist, the option | updatePlugins, push, pop, initPlugin | loader, options, plugin classes | list and option settle; init and fini pair up, also on failure |
| Plugin classes (`pluginclasshandler/`) | indices taken, a vector of objects per window, a static index and count per class | get, initializeIndex, allocate, free, constructor, destructor | plugin manager, windows | get returns the object of this plugin and window, alive |
| Wrapped interface chains (`include/core/wrapsystem.h`) | vector of interfaces, one index per function | registerWrap, functionSetEnabled, the call | plugins | a call reaches the enabled wrappers and the base |
| Ping and startup feedback (`screen.cpp`, `window.cpp` 5514-5603) | last ping, per window lastPong, alive, close requests, the dialog; startup sequences and a timer | handlePingTimeout, handlePing, close, map | Timers, clients | only silent clients are declared dead; the dialog goes when the client answers |
| Focus and history (`window.cpp`, `screen.cpp`) | active window, time stamps, history rings | moveInputFocusTo, setWindowActiveness | clients | heuristics |
| Geometry, options, matches, regions, sessions | values | conversions and parsing | all | functional |
| Plugins (`plugins/`), decorators (`gtk/`, `libdecoration`), settings (`compizconfig/`) | | | core | outside the core; they appear as environments |

### What is hard about it

* An event tells what happened, not why. An UnmapNotify is compiz's own or a
  client's withdrawal, told apart by a count.
* Requests overtake each other: a second map or hide is issued before the event
  of the first has come.
* Callbacks change what is being iterated: timers start, stop and delete
  timers; a dispatch of the buffer re-arms locks from the destructor of one.
* Resources are held by plugins and released at a time of their choosing:
  buffer locks until the next paint, unmap references until an animation ends.
* Rounding and word width of times.
* The same thing is known several times: the stacking order to the server, as
  last heard and as last asked; the geometry likewise; the grabs to the
  server, to the list of entries and to the actions. Each copy is brought up to date by
  its own event.
* Plugins come and go, or fail to, while windows exist and while destroyed ones
  wait to be deleted.

`PROJECT.json` lists each hazard with its line and the properties that cover it.

## 2. The modules

| Module | Models | Role |
|---|---|---|
| `ConfigureService` | what the buffer promises | abstract specification |
| `ConfigureBuffer` | `configurerequestbuffer.cpp` | detailed specification, implements `ConfigureService` |
| `ConfigureBufferProofs` | | theorems about `ConfigureBuffer` |
| `Timers` | `timer/src/timer.cpp`, `timeouthandler.cpp` | specification |
| `WindowMap` | mapping in `window.cpp`, `event.cpp`, `screen.cpp` | specification |
| `Grabs` | the stack of active grabs in `screen.cpp`, `privatescreen.h` | specification |
| `KeyBindings` | passive key grabs, edges and modifier mappings in `screen.cpp`, `modifierhandler.cpp` | specification |
| `KeyEvents` | key and modifier events in `event.cpp` | specification, extends `KeyBindings` |
| `PluginClasses` | `pluginclasshandler/`, indices in `window.cpp` | operators on a record, used by `Plugins` |
| `Plugins` | the plugin manager in `screen.cpp`, `plugin.cpp` | specification |
| `WindowStack` | both stacks in `screen.cpp`, `window.cpp`, `event.cpp` | specification |
| `FrameRequests` | geometry requests and events in `window.cpp` | specification |
| `WrapChain` | `include/core/wrapsystem.h` | specification |
| `Ping` | pings and close requests in `window.cpp`, `screen.cpp` | specification |
| `ListLemmas` | | lemmas about places in lists, used by the proofs |
| `TimersProofs` | | theorems about `Timers` |
| `WindowMapProofs` | | theorems about `WindowMap` |
| `ScreenProofs` | | theorems about `Grabs`, `WrapChain`, `Ping`, `KeyBindings` and `KeyEvents` |
| `PluginsProofs` | | theorems about `PluginClasses` and `Plugins` |
| `WindowStackProofs` | | theorems about `WindowStack` |
| `FrameRequestsProofs` | | theorems about `FrameRequests` |
| `MCConfigureBuffer`, `MCTimers`, `MCWindowMap`, `MCKeys`, `MCParts` | | instances for TLC |

Operators named `...Always`, `...Quietly`, `...Bare` and so on, with a comment
that begins "Mutant of", are faulty versions of the definition that follows
them. They belong to no specification; each shows that a property does
notice the fault when the definition is replaced.

### ConfigureBuffer

`changes`, `changeMask`, `sendSyntheticConfigure`, `lockCount` and `locks` are
the members of `ConfigureRequestBuffer::Private`. `alive` are the locks whose
shared pointer somebody keeps, `armed` their flags, `server` the
configuration last requested. `requested` is a history variable: what the callers
asked for. XWindowChanges is abstracted to three groups of fields, `position`,
`size` (with the border width) and `stack`: the code tells no more apart.
`DispatchConfigure` is the whole of `dispatchConfigure`, with the loop that re-arms;
the actions are the calls of the interface and of the locks. In `DestroyLock`
the weak pointer has expired before the destructor releases, so the
dispatch cannot arm the lock again; in `ReleaseLock` the flag is cleared after the
dispatch. `requestConfigureOnFrame` puts the server's frame geometry for fields
outside the mask, which are the same; that step is left out.
`NullConfigureBufferLock`, used when a window has no frame, does nothing.

`ConfigureService` says the same without masks and locks: `wanted`, `asked`,
`owed`, `held`, and one rule, that the server goes from what it was asked for last
to all that is wanted now. The refinement maps `wanted` to `requested`,
`asked` to `server`, `owed` to `sendSyntheticConfigure` and `held` to
`lockCount > 0`.

### Timers

`timers` is `mTimers`, each entry with what is left to its two deadlines,
in units of which `Tick` make a millisecond; `mActive`, `mTimes` and `mCallBack`
are the members of `PrivateTimer`. `pc`, `current` and `requeue` are the
local state of `CompTimeoutSource::callback`: the loop over due timers, a
callback that runs (in which any call on any timer is possible), and the
second loop that puts back the timers that asked for it. `Pass` lets time pass
at any point. `InMilliseconds` rounds and cuts to a word of `Word` values
as `minLeft` and `maxLeft` do. A callback must not destroy its own timer or one that
waits in `requeue`: the code would use freed memory, so `Destroy` excludes it.
`spent` and `stopped` are history variables.

### WindowMap

One managed window that is not override-redirect. `win` has the members of
`PrivateWindow` that matter (`hiddenState` and `shadedState` are the bits
of `state`, `shaded` the member), `server` what the X server has: client,
frame and wrapper mapped or not, and the queue of events that compiz has not
handled; `kept` the unmap references of plugins; `wanted`, a history variable,
whether the client asked last to be mapped. A handler is written as a
function from state to state, because `processMap` calls `updateAttributes`, `show`,
`hide`, `unminimize` and others in turn. `pendingMaps` is a truth value: the
code tests it for zero and sets it to zero, never decrements it.
A desktop is `current`, `other` or `all` (0xffffffff).

External: the X server (an XMapWindow of a mapped window makes no event; the
server grab and cleared event masks make reparenting silent), the
client (ICCCM 4.1.4: a withdrawal is an unmap followed by a synthetic
UnmapNotify), and plugins that hold references. These are taken to let
go when the window is shown again at the latest, as the notifications
Show and BeforeMap ask of them. The animation plugin does so for a close; for a minimize
that is reversed it may hold a reference longer, which is not modelled.
`LetGo` gives back all of a plugin's references: all but the last only count down,
and the last is one `Unmap`.
Left out: transients, which are minimized and restored with their parent by
the same functions; focus; stacking; geometry; destruction.

### Grabs

`grabs` is `GrabList::grabs`; `pointerGrab` and `keyboardGrab` are what the X
server has. Each action is one call with all its X requests; in
`PushFailsOnKeyboard` the server refuses the keyboard after it granted the
pointer. `topGrab` searches from the front, so it finds the oldest grab, not
the one pushed last; `updateGrab` and `removeGrab` go by it. `GrabsMatch`: the
server has grabbed exactly what the stack is for. `SoleCursor`: a grab that is
alone shows its own cursor.

### KeyBindings and KeyEvents

`keyGrabs` maps an entry (keycode and real modifiers) to its count, `layout` is what
`ModifierHandler` holds, `serverKeys` and `foreignKeys` are the passive grabs
the server has for compiz and for others. `AddAction`, `AddActionFails`,
`RemoveAction` and `ChangeLayout` are the handlers with every grab and ungrab they
make; a binding of modifiers alone is a grab of every key. Which locks are to be ignored is part of the
layout (`IgnoredMods`: Caps Lock always, Num Lock and Scroll Lock where the layout has them), so a change of
the layout grabs the entries again with other combinations. `updatePassiveKeyGrabs` goes on when
another client has one of these, and the entry stays without its key: `refused` remembers
for which entries this is so. `Below` is the order in which the masks of locks are tried. In
`removePassiveKeyGrab` the loop steps past the entry after an erased one, which has
no effect as entries are unique. Grabs of buttons, the exception for the keycodes of escape and return,
and `StateIgnoreTap` are left out.

`KeyEvents` adds the keyboard: `held` and `lockedMods` are the server's, `waiting`
the actions with StateTermKey, `possibleTap` the member. An event is
handled in the step that causes it, because passive grabs are synchronous: the server waits
for compiz. compiz sees a press it has grabbed, every change of modifiers
(Xkb), and releases of plain keys only while some plugin has the keyboard (a
grab is taken to include it). Which of several candidate actions handles an
event depends on plugins, so `Started` allows any. Layout changes and other clients' grabs are
left to `KeyBindings`; the layout is any from the start. `PressedBy` takes the locks out of the modifiers of the binding as well
as out of those of the event, and `LeftBy` out of the event's only, as in the code. `ChangePlugins` is an addition or removal
when plugins come and go, before which `processEvents` forgets the tap; those by which an option changes its
binding, which do not touch the tap, are left out.

`KeysGrabbed`: an entry for a plain key is grabbed with every combination of the locks, through
bindings of bare modifiers, which grab and ungrab every key, and changes of the layout. It is not said of three
kinds of entries, for which it fails: those that were refused when the layout changed, until all are grabbed again and they
succeed (`refused`); those for a key that is a modifier in some layout
(`Plain`; a change of the layout regrabs it in another way than it was grabbed), and those that differ
only in a lock (`ApartFromLocks`; `<Mod2>k` and `k` share combinations where Mod2 is Num
Lock, and removing one takes them from the other). `CountsExact`: entries and edges count their users.
`EndsWithKeys`: no key down, no action with modifiers running, unless one key turns a lock on
and is another modifier as well (`LocksApart`), or the binding names a lock (`NamesLock`): with Mod2 for Num Lock,
off, `<Super><Mod2>k` starts with Super and k, and the release of Super does not end it. `TapAlone`: a tap that
would be reported had no other key in between, for bindings of modifiers (`OfModifiers`), unless
a combination was taken away from the tap binding (`stolen`); without that
condition (`TapCancelled`) it fails, which is the run `keys_tap`. The comments of the modules
give the sequence of steps behind each exception.

### PluginClasses and Plugins

`PluginClasses` has the bookkeeping of per-window objects as operators on a record:
the vector of taken indices, the vector of pointers of each window, each class's static
index and count, the `ValueHolder`. An access to a slot that is out of range or
to another or a dead object is undefined in C++ and sets `broken`, after
which nothing is said.

`Plugins` is `updatePlugins` as a whole: merge of the command line and the option, pop to the
first difference, push with blacklisting, the option set to what runs, which
makes the list dirty again if that differs. Plugins may fail to load, in init, for the screen,
or for a window after others succeeded; `UpdatePlugins(fails)` chooses who. Windows are
created, destroyed and deleted later. The plugin `core`, always first, is left out; so is a
plugin that fails for a newly created window, on which the code asserts
(`window.cpp:6351`). `dirtyPluginList` is always true when it is tested at `screen.cpp:1151`. Statics are
taken to live on after dlclose, as objects of the same library are made again.

`PluginsSettled`: a list that is not dirty is what its request leads to. `ScreenObjects`: init and fini
of the screen pair up. `ObjectsLiveWhenCalm`: `get` finds the object of every running plugin for every
window and counts are exact, as long as no plugin comes or goes between a window's
destruction and deletion.

### WindowStack

`root` is the server's order, `windows` and `serverWindows` are compiz's two lists,
`events` what it has not read. A client that is mapped gets a frame, whose
CreateNotify comes later; when it loses it the frame becomes a
window in compiz's lists (`manageFrameWindowSeparately`) until its DestroyNotify.
Windows that plugins hold stay in `kept` with the neighbours they had. Each client is
mapped once. Restacks are asked for relative to any window
(which one the layers would choose is left out), subject to the code's
checks: `Lower` for windows without a frame, `RestackPending` and `Asked` against
pending requests. `addWindowStackChanges` looks at pending requests
before it has set the sibling it compares with (`window.cpp:4228`); so does the model.
Shaded windows and windows reparented by others are left out. `Unhooked` is
`unhookWindow` and `unhookServerWindow`, and `LeftOf` the loop of `removeDestroyed`, a recursive function over the
list of destroyed windows.

`OrderAgrees` and `PlanAgrees`: all events handled, both lists are the server's order.
`FramesGoWithClients`: no frame outlives its client's framing. `NeighboursExist`: what a kept window's `next` and
`prev` point at exists (`serverNext` and `serverPrev` are not modelled).

### FrameRequests

One axis of one framed window. `serverGeometry`, `serverFrameGeometry` and
`serverInput` are what was asked for, `xFrame`, `xWrapper`, `xClient` what the server
has, `geometry` what was heard. `Reconfigure` is `reconfigureXWindow` without
stacking: what it finds changed, what it sends to which window, and whether the
buffer of `ConfigureBuffer` may hold it (only a move of the frame). The client's border is never sent while it
has a frame, because `valueMask` is overwritten (`window.cpp:3343`); `Reconfigure` always sets
the wrapper's position, which the code asks for only if the decoration above the client changed: it is the same to the server; the
synthetic ConfigureNotify, sent in the same call, is left out; `resize`
always returns true, so the else branch of `handleSyncAlarm` is not reached; a frame held
and moved back leaves a pending serial without an event. A late answer to a
sync request ends whatever wait is on. `move` for override-redirect windows and ConfigureRequests of
others for the frame are left out.

`WindowsFit`: frame, wrapper and client on the server fit each other after any sequence.
`GeometrySettles`: with nothing under way compiz draws what it asked for. `NotifyExpected`: no event is
one that "should never happen".

### WrapChain

`interface` is `mInterface`, `enabled` the flag of one function, `current` is `mCurrFunction`,
`calls` the C++ stack with each caller's `curr`. A call from a wrapper passes the
call on; the code cannot tell it from a fresh call made inside the wrapper, nor does the
model. A wrapper that does not override the function disables itself and passes on, which is
`FunctionSetEnabled` and `CallFunction`. Wrappers are registered only while no call of the object is
in progress; `functionGetCurrentIndex` and `SetCurrentIndex` are left out. `HeardByAll`:
the base runs after every wrapper that was due has been called, and a call always starts right after the
innermost running wrapper.

### Ping

`PingTimeout` is the timer's callback for all windows, `HandlePing` the answer to any
earlier ping (its number is not looked at), `CloseWindow` a request to
close, `MapWindow` the part of `map ()` that resets the ping. Windows keep their type; `lastPing`
does not wrap. `closeRequests` is reset when a window is declared dead only. `DeadWhenSilent`: a window
declared dead was pinged and has not answered since. `DialogAnswerable`: a window whose dialog is up still has the time of
its last request to close, and is dead unless it was mapped anew while it was dead. An answer takes the dialog down
only if both hold; that of a window mapped anew stays up whatever the client answers.


## 3. The runs

Every property that a passing run checks is also shown to fail under one fault of the code.

| Run | Question | Result |
|---|---|---|
| `buffer` | Does the buffer, with 3 locks, frame and client, position and stack and 2 values, keep `TypeOK`, `LockCountExact`, `HeldByLock`, `NothingForgotten`, `DispatchRearmsOthers`, `HeldIsSent` and implement `ServiceSpec`? | yes, 11 thousand states |
| `buffer_rearm` | Is the lock whose release dispatched armed again, as the test says? | no |
| `timers` | 3 timers, all calls from handlers and callbacks: `QueueExact`, `SortedUpToRounding`, `OncePerDispatch`, `WakesInTime`? | yes, 470 thousand states up to symmetry |
| `timers_live` | 2 timers, with fairness: is a timer that stays started run? | yes |
| `timers_stop` | Does `stop` keep a timer stopped? | no, if it waits to be put back |
| `timers_wrap` | Is a timer never called early? | no, above 2^32 microseconds |
| `map` | All operations of all actors, up to 3 events under way: `ViewAgrees`, `WmStateAgrees`? | yes, 56 thousand states |
| `map_calm` | All operations, each on an empty queue: `FrameAgrees`, `WithdrawnOff`, `OnlyClientWithdraws`, `RequestHeard`? | yes, 13 thousand states |
| `map_frame` | Does `FrameAgrees` hold when requests overtake events? | no |
| `map_withdraw` | Is every withdrawal understood? | no, not for a window unmapped without the hidden state |
| `parts` | `Grabs`, `KeyBindings`, `KeyEvents`, `Plugins`, `WindowStack`, `FrameRequests`, `WrapChain` and `Ping`: all their properties (see section 2) | yes, 1.3 million states |
| `keys_tap` | Is a modifier released after it was used with another key never a tap? | no, once a binding of that key with the modifier was removed |

`parts` checks eight components in one state space. A behaviour names the
component it is of (`part`) in its initial state, takes only that component's
steps, and leaves the variables of the others in one of their initial states. No action of
one component reads a variable of another, so the run shows of each what a run of its
own would. `KeyEvents` extends `KeyBindings` and shares its variables: the
part `keys` has layout changes and other clients' grabs but no key presses,
the part `events` the other way round.

### Bounds

* `buffer`: three locks are the least with which a dispatch started by one
  lock's death meets an armed and a disarmed other. Frame and client differ in which
  of position and stack may wait, so both sides of every condition occur; the
  wrapper's conditions are the client's. Two values tell old from new. No counter is
  bounded, the state space is finite.
* `timers`: three timers let a callback change both the timer ahead of it and
  the one behind it. `Tick = 3` makes rounding up and down both occur; times are 0, a
  pair with slack and a pair without. `Word = 1000` is never reached except
  in `timers_wrap`, where `Tick = 2` and `Word = 8` make a timeout of 5 ms (10
  units) overflow as 72 minutes do in 32 bits. `MaxRequeue` bounds the
  local list, which a callback that restarts its own timer without delay and returns true
  can make as long as it likes. Timers in three positions of the list
  need no more than `MaxRequeue = 2`; `timers_live` uses 3.
* `map`: `MaxEvents` bounds the events waiting when somebody acts (handlers
  add to it), `MaxPending` the uncounted unmaps, `MaxKept` the
  references. Three events are enough for a map, an unmap and a second map to
  be under way, where the faults found begin. With `MaxEvents = 1` nobody acts
  before the queue is empty; `map_calm` separates what the code guarantees
  to a patient user from what it guarantees always.
* `parts`, grabs: three grabs of any type are the least with which one in the
  middle goes while the others differ; two cursors tell which is shown.
* `parts` and `keys_tap`, keys: two actions whose keys are the same only where Super is Mod4, one key, Alt, bound with
  Super and with Mod2, and Super alone. Three layouts: one with Super and an ordinary Mod2; one where Mod2 is Num
  Lock, so that every key is grabbed four times instead of twice and one binding names a lock; one without
  Super and Num Lock, with a Caps Lock key. One combination another client may take, with Num Lock: a
  binding that needs it fails half way, and where Mod2 is no lock it is in nobody's way until the layout changes. Scroll Lock would be one more lock
  of the same kind. `MaxCount = 2` bounds the count of an entry, which leaks after a remap.
* `parts`, plugins: one plugin from the command line and one that is not installed, one
  that may fail to start, one that may fail for a window; lists that reorder, that drop and
  that repeat; two windows, so that a failure comes half way. `MaxCrossings`
  bounds updates of the list while a destroyed window waits: every one may leave
  an object behind.
* `parts`, stack: two clients with frames and an override-redirect window, two restacks
  asked for by compiz and one by the menu, clients acting while fewer than two events wait.
  With `MaxEvents = 3` the state space has 21 million states and the
  same properties hold.
* `parts`, frames: positions 0 and 1, one size asked for (decorations that fill the work area of length
  5 make others), border 0 and 1, three decorations, two gravities, two
  requests for the frame in all, one unanswered sync request at a time. `MaxConfigures = 3`
  passes too.
* `parts`, chain: three wrappers, so that one in the middle is skipped; four calls in
  progress hold a whole chain with its base, or a chain inside a chain.
* `parts`, ping: windows do not interact, so one is enough; five expiries of the
  timer, two requests to close.
* Deadlock is not checked for `MCParts` and `MCKeys`: with `MaxPings`, `MaxConfigures` and the other
  bounds reached a part may stop.
* Deadlock is not checked for `WindowMap`: with the bound on `pendingUnmaps`
  reached everything may stop. (`pendingUnmaps` can indeed stay above zero: two
  calls of `hide` before the UnmapNotify count two unmaps for one event.)

### Fairness

* `HoldersLetGo` in `ConfigureBuffer`: opengl releases its lock whenever it
  paints the window (`plugins/opengl/src/paint.cpp`), move drops its lock
  at the end of its grab.
* `Fairness` in `Timers`: glib runs the source while it is ready, a callback
  returns, the two loops go on, time passes. Nothing is assumed of the order of
  timers or of what callbacks do.
* `FairSpec` in `WindowMap`: compiz handles the events in its queue,
  animations end. Nothing is assumed of clients and users.
* The parts of `parts` have safety properties only; what has to settle is stated of states
  in which nothing is under way (no event unread, list not dirty, no key down).

## 4. The proofs

Each theorem is proved for every value of the constants: any number of windows, timers,
locks, wrappers, actions, events under way. The bounds of the runs (`MaxEvents`, `MaxCount`, ...) are
constants like the others. The assumptions are the named `ASSUME`s of the modules, which say that
markers such as `NoKeycode` are not members of the sets they mark the absence from, that bounds are natural
numbers, that a word and a millisecond are not empty, that every layout says which modifiers the locks are and no
key presses `CompNoMask` (`MasksAssumption`), that sizes are
positive (`SizesAssumption`) and that ids of windows and frames differ (`IdsAssumption`). A
theorem that needs more names it in its statement: `TimesFit` and `MaxEvents <= 1`.

The pattern is always the same: an inductive invariant as a conjunction of named parts, a
lemma for each operator the actions share, one lemma for each action, and the theorem.

**ConfigureBufferProofs.** `BufferInvariant` (with `BufferIsTyped`, `LocksAreCounted`,
`OnlyLocksHoldBack`), `DispatchRearmsOthersHolds`, and `BufferImplementsService`: `Spec =>
ServiceSpec`. The inductive invariant `IInv` is the conjunction of `TypeOK`,
`LockCountExact`, `HeldByLock` and `NothingForgotten`. None of the parts is inductive alone:
the count after a dispatch is exact only because `locks` is finite and armed
locks are alive; that an undispatched request is held by a lock needs the count to be exact; and that
nothing is forgotten needs that what is not dispatched is kept under its mask. All actions but
`ObtainLock` go through `DispatchConfigure`, so `DispatchKeepsInv` proves the invariant for a
dispatch with any arguments, and each action meets its hypotheses:
`PushMerges` (merging is what the callers asked for), `NothingReleased` and
`OneReleased` (the count of armed locks). The
refinement rests on `DispatchServes`: a dispatch leaves the server with all
that is wanted, or, only with a counted lock, as it was.

**TimersProofs.** `ListIsExact` (`QueueExact`) and `TimersRunOnce` (`OncePerDispatch`) hold whatever
the times are. `TimersInv` adds that nothing was run when no dispatch is
under way, and that a timer that waits to be put back has a callback; the list is described by which
timers are in it, each once, and `Removed` and `Added` by what they do to that.
`ListStaysSorted`, `SleepEndsInTime` and `NeverEarlyUnlessCut` assume `TimesFit`: the
microseconds of every time fit a word (71 minutes in 32 bits). The run
`timers_wrap` shows that without it a timer is called early; with it, `NeverEarly`, which that
run refutes, is proved. `OrderInv` says that each entry's deadlines are in order and fit a
word, and that of two entries the first is due at most half a millisecond after the second, which
is all that survives the rounding when the clock moves between two insertions (`Rounding`).

**WindowMapProofs.** `ViewFollowsServer` (`ViewAgrees`) and `WmStateFollowsView`
(`WmStateAgrees`) hold for any number of requests that overtake the events. Both are about states in
which all is heard; the invariant (`View`) says the same of every state: the events under way tell a
story (`Story`) that begins with what compiz has heard, in which every MapNotify
or UnmapNotify says the opposite of the one before (`Alternates`, `FirstIsNews`),
and whose last one says what the server has (`LastIsTrue`). With an empty queue what was heard is what
the server has. The unmap references have to be counted (`RefsCounted`), because a window a plugin
keeps viewable has been heard to be unmapped. `SeenIsFramed` (`FrameAgrees`), `UnmanagedIsOff`
(`WithdrawnOff`) and `OnlyItsClientWithdraws` assume `MaxEvents <= 1`, that nobody acts
before the queue is empty: the run `map_frame` shows that the first fails otherwise, and so
do the other two in `MCWindowMap_calm.cfg` with `MaxEvents = 3`. Their invariant `Calm` lists what can be under
way then: nothing or a map compiz asked for (`Poised`), an unmap of its own that is
counted (`Hiding`), or what one request of the client brings.

**ScreenProofs.** Components that have nothing to do with each other, but for the keys.
`DevicesMatchStack` and `OnlyGrabShowsItsCursor` for `Grabs`, where the second needs that no two grabs
have the same handle (`HandlesUnique`). `CallsAreHeardByAll` for `WrapChain`: the index a
call saves is where its callers stood (`Positions`), so that restoring it goes on where it was, and who has not
heard of a call is still ahead of it (`StillAhead`), with nested calls of any depth.
`DialogsComeDown` and `TheDeadWereSilent` for `Ping`: the first says that an answer leaves a dialog up only if its
window is alive and was mapped anew while it was dead.

`PlainKeysStayGrabbed` (`KeysGrabbed`) and `CountsStayExact` for `KeyBindings`, from `KeysInv`:
no combination is grabbed for compiz and another client (`OwnKeys`), and entries and edges have exact
counts (`EntriesCounted`, `EdgesCounted`). `ActionsEndWithKeys` (`EndsWithKeys`), `TapsAreAlone`
(`TapAlone`) and `EventsKeepCounts` for `KeyEvents`, from `EventsInv`: an action that waits for its end
has the modifiers of some keys that are down, or the first of two modifier keys to go will end it
(`WaitingBacked`), and while a tap is possible its modifiers are
down and every further press is one that compiz sees (`TapPoised`, `TapsGuarded`).

**PluginsProofs.** `PluginsTyped`, `PluginsSettle` (`PluginsSettled`), `PluginsOnScreen` (`ScreenObjects`)
and `ObjectsStayLive` (`ObjectsLiveWhenCalm`) for any plugins, lists, failures and windows. What an update does is a
recursion over lists of any length, so the proofs begin with what one push or pop keeps and go on by
induction over lists (`ListsGrow`) and over counts (`CountingUp`) that the
recursive functions have solutions and that what one step keeps, all of them keep. `PluginsInv` has three
parts: the types (`PluginsShape`), that init and fini of the screen pair up
(`PluginsRight`), and that a list which is not dirty is the outcome of its request.
For `ObjectsStayLive` that is not enough: that a plugin finds its object depends on which index each class
got and which slots were filled and cleared since. `Coherent` says, of the storage and the list of
plugins, that indices were given out in the order of the list and are in use for no one else (`IndexedBy`),
that a slot holds an object only where the list says so (`FilledBy`) and that the counts of references are
those of living objects (`CountsMatch`). It is kept by a push that succeeds, and by one that fails for the
screen or for any window, whatever it had done before; by a pop; by a new, destroyed or deleted window; it is
lost only when a plugin that runs is pushed again (`Regular`), and then the plugin is in the blacklist, as the
invariant says. What one push or pop does to all windows, in whatever order they are visited, is said for a
column of slots (`Spread`, `Columns`).

**WindowStackProofs.** `FramesGo` (`FramesGoWithClients`), `NeighboursStay` (`NeighboursExist`) and
`StackStaysTyped` (no list names a window twice), all from `StackInvariant`, an invariant of
windows' lives. `Births`: nothing is heard of a window before its CreateNotify, a client asks once to be
mapped, and its frame is no window of compiz's lists while it is framed; without it an insertion could name a
window a second time. `Server`: after its DestroyNotify nothing is heard of a client, and a framed client is
mapped, or its unmapping is under way or held by a plugin; this is what takes
every frame away but those in `forgotten`. `OneUnmap`: it is unmapped once. `Kept`: a kept window points at
a live window or at one destroyed after it. `NeighboursStay` is then about `removeDestroyed`, which repairs
neighbours one deletion after another (`LeftOfSteps`).

`OrderStaysAgreed` (`OrderAgrees`) is about states in which all is heard; its invariant, `ToldInv`, is about
every state. `Told`: there are orders, one before and one after each event under way, the last of which is the
server's, such that each event tells how its two orders differ (`Tells`), and compiz has what the first one
shows (`Shows`). Compiz may have more than that: windows whose end is under way (`Explained`). A client is
among the orders until its frame is announced, and the frame from then on (`FramesSeen`), so that compiz,
which knows only one of the two, can tell which one an event is about (`WindowIn`). Steps of the server add an
order at the end, and a handler drops the first (`Later`, `More`). That the window a restack names can be found
by then, or no longer matters, needs to know what else is under way: `Orderly` says that a frame is announced before its client
goes (`Announced`), that a framed client that left its frame is reported destroyed (`Mourned`), and that the restack of
a client that lost its frame comes when compiz has the frame as a window above it (`PutBack`). With an empty queue first and last
order are one.

`PlanStaysAgreed` (`PlanAgrees`) tells a story of the same kind (`Heard`) about the order compiz plans with, in
which a restack of a frame tells nothing, because the request that caused it was applied when it was made
(`Planned`, `PlanInv`). A request changes the server and the plan at once. When it is not `Stale`, nothing is under way
but losses (`OnlyLosses`), which say what the server's order has lost already (`Ended`), so the old story comes down
to the server's order (`OnlyLost`), and the new one is that order all along (`NothingMoreLost`). When a client leaves
its frame, the plan has both before the client's restack is read: the client sits directly
below the frame until then (`Resting`), is in no order before (`NotBackYet`), and its frame is not reported destroyed
first (`PutBackBefore`); other windows may move meanwhile without coming between the two (`SitsBeside`).

**FrameRequestsProofs.** `WindowsAlwaysFit` (`WindowsFit`), `NotifiesAreExpected` (`NotifyExpected`)
and `GeometryAgreesInTheEnd` (`GeometrySettles`) for any positions, sizes, borders and
decorations. `FitInv` says that the frame asked for is the one that belongs to the geometry asked for
(`FrameFollows`); `SerialsGrow` that the events under way have growing serials, without which one event could
take the pending request of another; `LastTells` that the last of them says where the frame
is, and `Heard` that, when it is handled, compiz has made the right geometry of it. Every
operation goes through `Reconfigure`, whose effect is proved once for each part.

**ListLemmas.** What `Min`, `RemoveAt` and `InsertAt` do to the places of members, and induction over a count
(`CountingUp`), cited by the others.

Only model-checked:

* `HeldIsSent`, `StartedRuns`, `RequestHeard`: liveness under fairness, and ENABLED, are out of the
  prover's reach.
* `PartsTypeOK` as a whole: of its eight parts those of `WindowStack` and `Plugins` are theorems and that of
  `Grabs` part of an invariant; bounds such as `MaxCount` are in the guards of the actions the others
  are about, and their invariants state types of their own (`NumbersFit`, `KeysShape`, ...).

## 5. Where code and documents disagree

Six runs end in a counterexample (`PROJECT.json`, "findings"): the lock that is
not armed again; a stopped timer that comes back; long timeouts that come early; a
window seen without a frame; a withdrawal that is not heard; a tap reported although
another key was pressed. Each quotes the comment, test or option text it contradicts.

Met while modelling, kept as the code has them, and excepted by name in a property:

* a restack computed while a CreateNotify or a client's restack is unread leaves the
  order compiz plans with different from the server's (`raced` in `PlanAgrees`);
* the frame of a client destroyed while a plugin holds its unmapping is never destroyed:
  `destroy ()` sets `serverFrame` to 0 (`window.cpp:1348`) before `unmap ()`
  reads it (`forgotten` in `FramesGoWithClients`);
* a window with a border, a shaded one, and one that moved inside a frame that stayed
  put are drawn with a geometry other than asked for (`GeometrySettles`):
  `configureFrame` adds twice the border (`window.cpp:1945`), takes the decoration off a
  height that never had it (1942), and is not called when no event comes;
* the destructor of a plugin object leaves its pointer in the window's vector, and the
  vectors of destroyed windows are not resized; when plugins come or go while a
  destroyed window is kept, a plugin may miss its object or find a dead one (`crossings` in `ObjectsLiveWhenCalm`);
* a plugin named twice in the option is found active at its second `push`, unloaded and
  blacklisted (`screen.cpp:1130`), although it runs and shares the vtable (`Break` in `Push`);
* the screen object of a plugin that failed for a window is not finished (`ScreenObjects`);
* entries of key grabs added before a change of the layout are looked for under the new
  modifiers (`remapped` in `CountsExact`), and one that another client keeps from being grabbed again stays without its
  key (`screen.cpp:3689`; `refused` in `KeysGrabbed`);
* an action whose binding names a lock starts with the lock off and is not ended by any release
  (`event.cpp:410` against 504 and 564-577; `NamesLock` in `EndsWithKeys`);
* with several pointer grabs, the cursor that comes back is the oldest grab's
  (`SoleCursor`);
* a dialog to force a client to quit stays up when the window is mapped again
  (`excused` in `DialogAnswerable`).

Not modelled: the server is left grabbed when `reparent` meets an override-redirect
window, until the next ungrab (`window.cpp:6962`); `untrackLock` has no caller and
does not erase.

## 6. Plan

In this order; each module is written to be proved about (no RECURSIVE, named
assumptions, invariants as conjunctions of named parts).

1. Done: `ConfigureService`, `ConfigureBuffer` with proofs, `Timers`, `WindowMap`.
2. Done: `Grabs`, `KeyBindings`, `KeyEvents`, `PluginClasses`, `Plugins`, `WindowStack`,
   `FrameRequests`, `WrapChain`, `Ping`.
3. Done: proofs about all of them: every invariant and action property that the runs check,
   but `PartsTypeOK` as a whole.

The runs stay within what TLC does in a few minutes: two to three of each kind of
thing (locks, timers, windows, grabs, plugins), two to three events under way.

### Not modelled

* Which sibling a raise or lower goes to (layers, docks, transients,
  `findSiblingBelow`); focus and activation: decisions on data without
  a protocol.
* Buttons and bells as bindings, delays of screen edges, cancelling and committing actions.
* Startup sequences: a list and a timer that runs while it is not empty.
* Override-redirect windows in `FrameRequests`, requests by others for a frame,
  ReparentNotify by others and reused X ids in `WindowStack`.
* Match and option parsing, geometry arithmetic, rendering, session management, settings,
  decorators and the plugins: they have no protocol of their own, or are
outside the core.
