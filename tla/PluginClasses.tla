--------------------------- MODULE PluginClasses ---------------------------
(***************************************************************************)
(* Per-window objects of plugins (src/src/pluginclasshandler:              *)
(* PluginClassHandler, PluginClassStorage, ValueHolder; the template       *)
(* initWindow and finiWindow of src/include/core/plugin.h; the plugin      *)
(* class indices of src/src/window.cpp).                                   *)
(*                                                                         *)
(* Every window has a vector of pointers to objects of plugins.  A plugin  *)
(* gets an index into all of them with its first object and gives it back  *)
(* with its last.  Vectors are resized for the windows in the stack only,  *)
(* and the destructor of an object leaves its pointer where it is.         *)
(*                                                                         *)
(* The storage is a record, each operator a step of it:                    *)
(*   indices   windowPluginClassIndices: which indices are taken           *)
(*   slots     window -> its vector pluginClasses                          *)
(*   stacked   the windows that are in the stack                           *)
(*   class     plugin -> its static mIndex; fresh: pcIndex is current      *)
(*   holder    ValueHolder: plugin -> index                                *)
(*   broken    freed or foreign memory was used: undefined from here on    *)
(***************************************************************************)
EXTENDS Naturals, Sequences, SequencesExt, Functions

Null == [plugin |-> "null", alive |-> FALSE]

Unready == [index |-> 0, refs |-> 0, ready |-> FALSE, fresh |-> FALSE]

StorageOf(plugins) ==
    [indices |-> << >>, slots |-> << >>, stacked |-> {},
     class |-> [p \in plugins |-> Unready], holder |-> << >>, broken |-> FALSE]

Resized(vector, n) ==
    [i \in 1 .. n |-> IF i \in DOMAIN vector THEN vector[i] ELSE Null]

(* The foreach over screen->windows () after the indices have changed.     *)
ResizeSlots(st) ==
    [st EXCEPT !.slots = [w \in DOMAIN st.slots |->
        IF w \in st.stacked THEN Resized(st.slots[w], Len(st.indices)) ELSE st.slots[w]]]

(* pluginClassHandlerIndex was incremented.                                *)
AllStale(st) ==
    [st EXCEPT !.class = [p \in DOMAIN st.class |-> [st.class[p] EXCEPT !.fresh = FALSE]]]

FreeIndices(st) == {i \in 1 .. Len(st.indices) + 1 :
                       i \in DOMAIN st.indices => ~ st.indices[i]}

(* allocPluginClassIndex *)
AllocIndex(st, i) ==
    ResizeSlots([st EXCEPT !.indices = IF i \in DOMAIN st.indices
                                       THEN [st.indices EXCEPT ![i] = TRUE]
                                       ELSE Append(st.indices, TRUE)])

(* Mutant of FreeIndex: the vectors of the windows keep their size.        *)
FreeIndexUnresized(st, i) ==
    [st EXCEPT !.indices = IF i = Len(st.indices) THEN Front(st.indices)
                           ELSE [st.indices EXCEPT ![i] = FALSE]]

(* freePluginClassIndex: only the last one makes the vectors shorter.      *)
FreeIndex(st, i) ==
    ResizeSlots([st EXCEPT !.indices = IF i = Len(st.indices) THEN Front(st.indices)
                                       ELSE [st.indices EXCEPT ![i] = FALSE]])

(* A map with an entry more.                                               *)
WithValue(f, x, y) == [z \in DOMAIN f \union {x} |-> IF z = x THEN y ELSE f[z]]

(* initializeIndex.  If the name is in the ValueHolder already, because an *)
(* object was left behind, the old index stays there.                      *)
InitializeIndex(st, p) ==
    LET i     == CHOOSE i \in FreeIndices(st) : \A j \in FreeIndices(st) : i <= j
        ready == [AllocIndex(st, i) EXCEPT !.class[p].index = i,
                                           !.class[p].ready = TRUE, !.class[p].fresh = TRUE]
    IN  IF p \in DOMAIN st.holder THEN ready
        ELSE AllStale([ready EXCEPT !.holder = WithValue(st.holder, p, i)])

(* PluginClassHandler::get up to getInstance: the index is looked up again *)
(* when any index was allocated or freed since.                            *)
Located(st, p) ==
    LET s == IF st.class[p].ready THEN st ELSE InitializeIndex(st, p)
    IN  IF s.class[p].fresh THEN s
        ELSE [s EXCEPT !.class[p].index = s.holder[p], !.class[p].fresh = TRUE]

InRange(st, p, w) == st.class[p].index \in DOMAIN st.slots[w]

SlotOf(st, p, w) == st.slots[w][st.class[p].index]

(* The constructor of an object of plugin p for window w.                  *)
Construct(st, p, w) ==
    [st EXCEPT !.class[p].refs = @ + 1,
               !.slots[w][st.class[p].index] = [plugin |-> p, alive |-> TRUE]]

(* Its destructor.  The pointer stays; the last object frees the index.    *)
Destruct(st, p, w) ==
    LET i == st.class[p].index
        s == [st EXCEPT !.class[p].refs = @ - 1, !.slots[w][i].alive = FALSE]
    IN  IF s.class[p].refs # 0 THEN s
        ELSE AllStale([FreeIndex(s, i) EXCEPT
                          !.class[p].ready = FALSE,
                          !.holder = Restrict(st.holder, DOMAIN st.holder \ {p})])

Break(st) == [st EXCEPT !.broken = TRUE]

(* initWindow: an object is made unless there seems to be one.             *)
InitWindow(st, p, w) ==
    LET s == Located(st, p)
    IN  IF st.broken THEN st
        ELSE IF ~ InRange(s, p, w) THEN Break(s)
        ELSE IF SlotOf(s, p, w) = Null THEN Construct(s, p, w)
        ELSE s

(* initWindow of a plugin whose constructor gives up (setFailed).          *)
InitWindowFails(st, p, w) ==
    LET s == Located(st, p)
    IN  IF st.broken THEN st
        ELSE IF ~ InRange(s, p, w) \/ SlotOf(s, p, w) # Null THEN Break(s)
        ELSE Destruct(Construct(s, p, w), p, w)

(* finiWindow: get makes an object if there is none, which is deleted.     *)
FiniWindow(st, p, w) ==
    LET s == Located(st, p)
    IN  IF st.broken THEN st
        ELSE IF ~ InRange(s, p, w) THEN Break(s)
        ELSE IF SlotOf(s, p, w) = Null THEN Destruct(Construct(s, p, w), p, w)
        ELSE IF SlotOf(s, p, w) = [plugin |-> p, alive |-> TRUE] THEN Destruct(s, p, w)
        ELSE Break(s)

(* Such calls one after the other: the storage after the last of them.     *)
Task(init, p, w) == [init |-> init, plugin |-> p, window |-> w]

Carried(st, tasks) ==
    LET after[n \in 0 .. Len(tasks)] ==
            IF n = 0 THEN st
            ELSE IF tasks[n].init
            THEN InitWindow(after[n - 1], tasks[n].plugin, tasks[n].window)
            ELSE FiniWindow(after[n - 1], tasks[n].plugin, tasks[n].window)
    IN  after[Len(tasks)]

(* windowManager.forEachWindow and the loop of _initPluginForScreen, in    *)
(* some fixed order of the windows.                                        *)
ForWindows(init, p, windows) ==
    [i \in DOMAIN SetToSeq(windows) |-> Task(init, p, SetToSeq(windows)[i])]

InitWindows(st, p, windows) == Carried(st, ForWindows(TRUE, p, windows))
FiniWindows(st, p, windows) == Carried(st, ForWindows(FALSE, p, windows))

(* windowInitPlugins and windowFiniPlugins                                 *)
ForPlugins(init, list, w) == [i \in DOMAIN list |-> Task(init, list[i], w)]

InitPlugins(st, list, w) == Carried(st, ForPlugins(TRUE, list, w))
FiniPlugins(st, list, w) == Carried(st, ForPlugins(FALSE, list, w))

(* The CompWindow constructor inserts the window with a vector of the size *)
(* of the moment.                                                          *)
AddWindow(st, w) ==
    [st EXCEPT !.slots = WithValue(st.slots, w, Resized(<< >>, Len(st.indices))),
               !.stacked = @ \union {w}]

(* CompWindow::destroy takes it out of the stack, its destructor away.     *)
Unstack(st, w) == [st EXCEPT !.stacked = @ \ {w}]

DropWindow(st, w) == [st EXCEPT !.slots = Restrict(st.slots, DOMAIN st.slots \ {w})]

=============================================================================
