----------------------------- MODULE WindowStack -----------------------------
(***************************************************************************)
(* The stacking order of the top-level windows, known three times: to the  *)
(* X server, to compiz as of the last event it handled (windows) and to    *)
(* compiz as of the last request it sent (serverWindows).  From            *)
(* src/src/screen.cpp, src/src/window.cpp and src/src/event.cpp.           *)
(*                                                                         *)
(* Clients create, map, unmap and destroy their windows while compiz gives *)
(* them frames and takes the frames away; the events about it arrive one   *)
(* by one.  A window is named by its X id; the frame of client c is        *)
(* FrameOf[c], and becomes a window of its own in compiz's lists when c    *)
(* loses it, until the server reports it destroyed.                        *)
(***************************************************************************)
EXTENDS Naturals, Sequences, SequencesExt

CONSTANTS
    Managed,      \* clients that ask to be mapped, once each
    Overrides,    \* override-redirect windows, which stack themselves
    FrameOf,      \* Managed -> the id of the frame compiz will create
    Nothing,      \* the X id None
    Animated,     \* clients a plugin may hold an unmap reference of
    Keepable,     \* windows a plugin may hold a destroy reference of
    MaxEvents,    \* bound on the events that clients let wait
    MaxRequests,  \* bound on the stacking requests compiz makes
    MaxMoves      \* bound on the restacks of override-redirect windows

Clients == Managed \cup Overrides
Frames  == {FrameOf[c] : c \in Managed}
Ids     == Clients \cup Frames

ASSUME IdsAssumption ==
    /\ Nothing \notin Ids
    /\ Managed \cap Overrides = {} /\ Clients \cap Frames = {}
    /\ \A c, d \in Managed : FrameOf[c] = FrameOf[d] => c = d
    /\ MaxRequests \in Nat /\ MaxMoves \in Nat

VARIABLES
    root,           \* the server: children of the root, bottom first
    wrapped,        \* the server: clients inside their frames
    shown,          \* the server: clients inside their frames and mapped
    born, asked,    \* clients that were created, that asked to be mapped
    events,         \* events compiz has not read
    windows, serverWindows,
    framed,         \* windows with a serverFrame
    known,          \* windows with a frame: its CreateNotify was handled
    pendings,       \* pendingConfigures, the restacks in them
    kept,           \* destroyedWindows
    unmapHeld,      \* plugins hold an unmap reference of these windows
    forgotten,      \* history: windows destroyed while unmapHeld
    serial,         \* requests made so far
    moves,          \* restacks of override-redirect windows so far
    raced           \* history: a request was computed on a stale order

serverVars == <<root, wrapped, shown, born, asked, moves>>
listVars   == <<windows, serverWindows, framed, known, pendings>>
stackVars  == <<serverVars, events, listVars, kept, unmapHeld, forgotten,
                serial, raced>>

Event == [type : {"Create", "MapRequest", "Unmap", "Destroy"}, win : Ids]
           \cup [type : {"Configure"}, win : Ids, above : Ids \cup {Nothing},
                 serial : 0 .. MaxRequests]

Distinct(s) == \A i, j \in DOMAIN s : s[i] = s[j] => i = j

StackTypeOK ==
    /\ \A s \in {root, windows, serverWindows} : s \in Seq(Ids) /\ Distinct(s)
    /\ shown \subseteq wrapped /\ wrapped \subseteq asked
    /\ asked \subseteq Managed /\ born \subseteq Clients
    /\ events \in Seq(Event)
    /\ known \subseteq framed /\ framed \subseteq Managed
    /\ \A w \in Managed : pendings[w] \subseteq
          [serial : 1 .. MaxRequests, sibling : Ids \cup {Nothing}]
    /\ \A i \in DOMAIN kept : kept[i] \in
          [win : Ids, prev : Ids \cup {Nothing}, next : Ids \cup {Nothing},
           released : BOOLEAN]
    /\ unmapHeld \subseteq framed /\ forgotten \subseteq Managed
    /\ serial \in 0 .. MaxRequests /\ moves \in 0 .. MaxMoves
    /\ raced \in BOOLEAN

StackInit ==
    /\ root = <<>> /\ windows = <<>> /\ serverWindows = <<>> /\ kept = <<>>
    /\ wrapped = {} /\ shown = {} /\ born = {} /\ asked = {}
    /\ framed = {} /\ known = {} /\ unmapHeld = {} /\ forgotten = {}
    /\ pendings = [w \in Managed |-> {}]
    /\ events = <<>> /\ serial = 0 /\ moves = 0 /\ raced = FALSE

-----------------------------------------------------------------------------
(* Orders                                                                  *)

IndexIn(s, e) == CHOOSE i \in DOMAIN s : s[i] = e
PrevIn(s, e)  == IF IndexIn(s, e) = 1 THEN Nothing ELSE s[IndexIn(s, e) - 1]
NextIn(s, e)  == IF IndexIn(s, e) = Len(s) THEN Nothing
                 ELSE s[IndexIn(s, e) + 1]

(* unhookWindow and unhookServerWindow                                     *)
Unhooked(s, e) == IF Contains(s, e) THEN RemoveAt(s, IndexIn(s, e)) ELSE s

(* The server moves e directly above another window, or to the bottom.     *)
MovedAbove(s, e, above) ==
    LET rest == Unhooked(s, e)
    IN  InsertAt(rest,
                 IF above = Nothing THEN 1 ELSE IndexIn(rest, above) + 1, e)

(* insertWindow and insertServerWindow: the entry to insert above is found *)
(* by its own id or by the id of its frame, if it is among withFrame.  A   *)
(* window whose neighbour is not found is in the list no more.             *)
Inserted(s, w, above, withFrame) ==
    LET Found(i) == \/ s[i] = above
                    \/ s[i] \in withFrame /\ FrameOf[s[i]] = above
    IN  IF above = Nothing \/ s = <<>> THEN <<w>> \o s
        ELSE IF \E i \in DOMAIN s : Found(i)
             THEN InsertAt(s, 1 + CHOOSE i \in DOMAIN s : Found(i), w)
             ELSE s

(* ROOTPARENT                                                              *)
RootParent(w) == IF w \in framed THEN FrameOf[w] ELSE w

Configure(order, x, n) ==
    [type |-> "Configure", win |-> x, above |-> PrevIn(order, x), serial |-> n]

-----------------------------------------------------------------------------
(* The clients                                                             *)

Quiet == Len(events) < MaxEvents

ClientCreates(c) ==
    /\ Quiet
    /\ c \in Clients \ born
    /\ born' = born \cup {c}
    /\ root' = Append(root, c)
    /\ events' = Append(events, [type |-> "Create", win |-> c])
    /\ UNCHANGED <<wrapped, shown, asked, moves, listVars, kept, unmapHeld,
                   forgotten, serial, raced>>

(* The client asks to be mapped; compiz gets a MapRequest.                 *)
ClientMaps(c) ==
    /\ Quiet
    /\ c \in Managed \ asked
    /\ Contains(root, c)
    /\ asked' = asked \cup {c}
    /\ events' = Append(events, [type |-> "MapRequest", win |-> c])
    /\ UNCHANGED <<root, wrapped, shown, born, moves, listVars, kept,
                   unmapHeld, forgotten, serial, raced>>

ClientUnmaps(c) ==
    /\ Quiet
    /\ c \in shown
    /\ shown' = shown \ {c}
    /\ events' = Append(events, [type |-> "Unmap", win |-> c])
    /\ UNCHANGED <<root, wrapped, born, asked, moves, listVars, kept,
                   unmapHeld, forgotten, serial, raced>>

(* An override-redirect window is restacked without asking compiz.         *)
OverrideMoves(o, above) ==
    /\ Quiet
    /\ o \in Overrides /\ Contains(root, o)
    /\ moves < MaxMoves
    /\ above # o /\ above # PrevIn(root, o)
    /\ above = Nothing \/ Contains(root, above)
    /\ moves' = moves + 1
    /\ root' = MovedAbove(root, o, above)
    /\ events' = Append(events, Configure(root', o, 0))
    /\ UNCHANGED <<wrapped, shown, born, asked, listVars, kept, unmapHeld,
                   forgotten, serial, raced>>

ClientDestroys(c) ==
    /\ Quiet
    /\ c \in Clients
    /\ Contains(root, c) \/ c \in wrapped
    /\ root' = Unhooked(root, c)
    /\ wrapped' = wrapped \ {c}
    /\ shown' = shown \ {c}
    /\ events' = events
          \o (IF c \in shown THEN <<[type |-> "Unmap", win |-> c]>> ELSE <<>>)
          \o <<[type |-> "Destroy", win |-> c]>>
    /\ UNCHANGED <<born, asked, moves, listVars, kept, unmapHeld, forgotten,
                   serial, raced>>

-----------------------------------------------------------------------------
(* compiz restacks a window                                                *)

(* Events whose effect on serverWindows is still to come.                  *)
Stale == \E i \in DOMAIN events :
            \/ events[i].type = "Create"
            \/ events[i].type = "Configure" /\ events[i].win \notin Frames

(* A request on the frame of c: the server obeys at once, for compiz holds *)
(* the server grab, and says so only if something moved.                   *)
Request(c, sibling) ==
    LET f == FrameOf[c]
    IN  /\ serial < MaxRequests
        /\ serial' = serial + 1
        /\ root' = MovedAbove(root, f, sibling)
        /\ events' = IF root' = root THEN events
                     ELSE Append(events, Configure(root', f, serial'))
        /\ pendings' = [pendings EXCEPT ![c] = @ \cup
                          {[serial |-> serial', sibling |-> sibling]}]
        /\ serverWindows' = Inserted(Unhooked(serverWindows, c), c, sibling,
                                     framed)
        /\ raced' = (raced \/ Stale)
        /\ UNCHANGED <<wrapped, shown, born, asked, moves, windows, framed,
                       known, kept, unmapHeld, forgotten>>

CanRestack(c) == c \in framed /\ Contains(serverWindows, c)

(* addWindowStackChanges without a sibling                                 *)
Lower(c) ==
    /\ CanRestack(c)
    /\ PrevIn(serverWindows, c) # Nothing
    /\ Request(c, Nothing)

RestackPending(w) == w \in Managed /\ pendings[w] # {}
Asked(c, sibling) == \E p \in pendings[c] : p.sibling = sibling

(* addWindowStackChanges, then reconfigureXWindow: a window that is above  *)
(* s already is left alone unless the window below it is being restacked.  *)
(* The first check for a request made before reads xwc->sibling before it  *)
(* is set, and so finds requests to go to the bottom.                      *)
NeedsRequest(c, s) ==
    LET below == PrevIn(serverWindows, c)
    IN  below = s => /\ RestackPending(below)
                     /\ ~ Asked(c, Nothing)
                     /\ ~ Asked(c, RootParent(s))

RestackAbove(c, s) ==
    /\ CanRestack(c) /\ CanRestack(s) /\ c # s
    /\ NeedsRequest(c, s)
    /\ Request(c, RootParent(s))

-----------------------------------------------------------------------------
(* Handlers of events                                                      *)

Reads(type) == events # <<>> /\ Head(events).type = type
Subject    == Head(events).win

(* CreateNotify: a frame compiz is waiting for, or a new window, which is  *)
(* put on top of both lists wherever it is by now.                         *)
HandleCreate ==
    LET owners == {w \in framed : FrameOf[w] = Subject}
    IN  /\ Reads("Create")
        /\ events' = Tail(events)
        /\ IF owners # {}
           THEN known' = known \cup owners /\ UNCHANGED <<windows, serverWindows>>
           ELSE /\ windows' = Append(windows, Subject)
                /\ serverWindows' = Append(serverWindows, Subject)
                /\ UNCHANGED known
        /\ UNCHANGED <<serverVars, framed, pendings, kept, unmapHeld,
                       forgotten, serial, raced>>

(* MapRequest: reparent puts a new frame where the client is in the        *)
(* server's order and the client inside it.  The root's event mask lets    *)
(* only the frame's CreateNotify through.                                  *)
HandleMapRequest ==
    LET c == Subject
    IN  /\ Reads("MapRequest")
        /\ IF Contains(windows, c) /\ Contains(root, c)
           THEN /\ root' = ReplaceAll(root, c, FrameOf[c])
                /\ wrapped' = wrapped \cup {c}
                /\ shown' = shown \cup {c}
                /\ framed' = framed \cup {c}
                /\ events' = Append(Tail(events),
                                [type |-> "Create", win |-> FrameOf[c]])
           ELSE /\ events' = Tail(events)
                /\ UNCHANGED <<root, wrapped, shown, framed>>
        /\ UNCHANGED <<born, asked, moves, windows, serverWindows, known,
                       pendings, kept, unmapHeld, forgotten, serial, raced>>

WithoutFrame(list, c, withFrame) == list

(* manageFrameWindowSeparately: the frame becomes a window above c.        *)
WithFrame(list, c, withFrame) ==
    IF c \in known THEN Inserted(list, FrameOf[c], c, withFrame) ELSE list

(* unreparent: the client, if it lives, goes back to the root below its    *)
(* frame and is moved to its place; the frame is destroyed.                *)
Unreparent(c, queue) ==
    LET f     == FrameOf[c]
        below == InsertAt(root, IndexIn(root, f), c)
    IN  /\ root' = IF c \in wrapped THEN ReplaceAll(root, f, c)
                   ELSE Unhooked(root, f)
        /\ wrapped' = wrapped \ {c}
        /\ shown' = shown \ {c}
        /\ events' = queue
              \o (IF c \in wrapped THEN <<Configure(below, c, 0)>> ELSE <<>>)
              \o <<[type |-> "Destroy", win |-> f]>>
        /\ windows' = WithFrame(windows, c, known)
        /\ serverWindows' = WithFrame(serverWindows, c, framed)
        /\ framed' = framed \ {c}
        /\ known' = known \ {c}
        /\ pendings' = [pendings EXCEPT ![c] = {}]
        /\ UNCHANGED <<born, asked, moves, kept, serial, raced>>

LosesFrameIfAlive(c, held) == c \in framed \cap wrapped /\ ~ held
LosesFrame(c, held)        == c \in framed /\ ~ held

(* UnmapNotify: unmap () takes the frame away, unless a plugin that is to  *)
(* animate it holds a reference.                                           *)
HandleUnmap(held) ==
    LET c == Subject
    IN  /\ Reads("Unmap")
        /\ held => c \in Animated
        /\ IF LosesFrame(c, held)
           THEN Unreparent(c, Tail(events)) /\ UNCHANGED unmapHeld
           ELSE /\ unmapHeld' = IF held THEN unmapHeld \cup ({c} \cap framed)
                                        ELSE unmapHeld
                /\ events' = Tail(events)
                /\ UNCHANGED <<serverVars, listVars, kept, serial, raced>>
        /\ UNCHANGED forgotten

(* The plugin calls unmap () itself when it has done.                      *)
PluginUnmaps(c) ==
    /\ c \in unmapHeld
    /\ unmapHeld' = unmapHeld \ {c}
    /\ Unreparent(c, events)
    /\ UNCHANGED forgotten

(* destroy (): the window leaves both lists but remembers its neighbours   *)
(* for as long as a plugin keeps it.  Its frame, which nobody destroys     *)
(* any more, becomes a window.  What is left of pendingConfigures is never *)
(* read again, and a later unmap () finds no frame.                        *)
HandleDestroy(keep) ==
    LET w == Subject
    IN  /\ Reads("Destroy")
        /\ keep => w \in Keepable
        /\ events' = Tail(events)
        /\ IF Contains(windows, w)
           THEN /\ windows' = Unhooked(WithFrame(windows, w, known), w)
                /\ serverWindows' = Unhooked(WithFrame(serverWindows, w, framed), w)
                /\ framed' = framed \ {w}
                /\ known' = known \ {w}
                /\ kept' = Append(kept,
                      [win |-> w, prev |-> PrevIn(windows, w),
                       next |-> NextIn(windows, w), released |-> ~ keep])
                /\ pendings' = [c \in Managed |->
                                 IF c = w THEN {} ELSE pendings[c]]
                /\ unmapHeld' = unmapHeld \ {w}
                /\ forgotten' = forgotten \cup ({w} \cap unmapHeld)
           ELSE UNCHANGED <<listVars, kept, unmapHeld, forgotten>>
        /\ UNCHANGED <<serverVars, serial, raced>>

(* PrivateWindow::restack                                                  *)
RestackIsVoid(w, above) ==
    LET prev == PrevIn(windows, w)
    IN  \/ above # Nothing /\ above \in {w, RootParent(w)}
        \/ prev # Nothing /\ above # Nothing
             /\ (above = prev \/ (prev \in known /\ above = FrameOf[prev]))
        \/ prev = Nothing /\ above = Nothing /\ NextIn(windows, w) = Nothing
        \/ above # Nothing /\ ~ Contains(windows, above)
             /\ (\A c \in framed : FrameOf[c] = above => ~ Contains(windows, c))

RestackOne(w, above) ==
    /\ windows' = Inserted(Unhooked(windows, w), w, above, known)
    /\ UNCHANGED serverWindows

RestackUnchecked(w, above) ==
    /\ windows' = Inserted(Unhooked(windows, w), w, above, known)
    /\ serverWindows' = IF w \in Overrides \cup Frames
                        THEN Inserted(Unhooked(serverWindows, w), w, above, framed)
                        ELSE serverWindows

Restack(w, above) ==
    IF RestackIsVoid(w, above) THEN UNCHANGED <<windows, serverWindows>>
    ELSE RestackUnchecked(w, above)

(* configureFrame: the event belongs to a pending request, or else every   *)
(* pending request is forgotten.                                           *)
Matched(c, n) ==
    LET rest == {p \in pendings[c] : p.serial # n}
    IN  IF rest = pendings[c] THEN {} ELSE rest

HandleConfigure ==
    LET x      == Subject
        above  == Head(events).above
        owners == {c \in known : FrameOf[c] = x /\ Contains(windows, c)}
    IN  /\ Reads("Configure")
        /\ events' = Tail(events)
        /\ IF Contains(windows, x) /\ x \notin known
           THEN /\ Restack(x, above)
                /\ raced' = (raced \/ (x \in Frames /\ windows' # windows))
                /\ UNCHANGED pendings
           ELSE IF owners # {}
           THEN \E c \in owners :
                   /\ pendings' = [pendings EXCEPT ![c] =
                                     Matched(c, Head(events).serial)]
                   /\ Restack(c, above)
                   /\ UNCHANGED raced
           ELSE UNCHANGED <<windows, serverWindows, pendings, raced>>
        /\ UNCHANGED <<serverVars, framed, known, kept, unmapHeld, forgotten,
                       serial>>

-----------------------------------------------------------------------------
(* Windows plugins keep                                                    *)

PluginReleases(i) ==
    /\ i \in DOMAIN kept /\ ~ kept[i].released
    /\ kept' = [kept EXCEPT ![i].released = TRUE]
    /\ UNCHANGED <<serverVars, events, listVars, unmapHeld, forgotten, serial,
                   raced>>

KeptPlace(list, w) == CHOOSE i \in DOMAIN list : list[i].win = w

DeletedUnrepaired(list, w) == RemoveAt(list, KeptPlace(list, w))

(* ~CompWindow: kept windows that point at w point at its neighbours now.  *)
Deleted(list, w) ==
    LET gone   == list[KeptPlace(list, w)]
        others == RemoveAt(list, KeptPlace(list, w))
        Past(n, neighbour) == IF n = w THEN neighbour ELSE n
    IN  [i \in DOMAIN others |->
            [others[i] EXCEPT !.prev = Past(@, gone.prev), !.next = Past(@, gone.next)]]

(* removeDestroyed, after a batch of events: the released windows go one   *)
(* after the other.  What is left after those among the first n:           *)
LeftOf(list) ==
    LET left[n \in 0 .. Len(list)] ==
            IF n = 0 THEN list
            ELSE IF list[n].released THEN Deleted(left[n - 1], list[n].win)
            ELSE left[n - 1]
    IN  left

RemoveDestroyed ==
    /\ \E i \in DOMAIN kept : kept[i].released
    /\ kept' = LeftOf(kept)[Len(kept)]
    /\ UNCHANGED <<serverVars, events, listVars, unmapHeld, forgotten, serial,
                   raced>>

StackNext ==
    \/ \E c \in Clients : \/ ClientCreates(c) \/ ClientMaps(c)
                          \/ ClientUnmaps(c) \/ ClientDestroys(c)
    \/ \E o \in Overrides, a \in Ids \cup {Nothing} : OverrideMoves(o, a)
    \/ \E c \in Managed : Lower(c) \/ PluginUnmaps(c)
    \/ \E c, s \in Managed : RestackAbove(c, s)
    \/ HandleCreate
    \/ HandleMapRequest
    \/ \E held \in BOOLEAN : HandleUnmap(held)
    \/ \E keep \in BOOLEAN : HandleDestroy(keep)
    \/ HandleConfigure
    \/ \E i \in DOMAIN kept : PluginReleases(i)
    \/ RemoveDestroyed

StackSpec == StackInit /\ [][StackNext]_stackVars

-----------------------------------------------------------------------------
(* Properties                                                              *)

AsOnServer(list) == [i \in DOMAIN list |-> RootParent(list[i])]
Calm == events = <<>>

(* Once every event is handled, compiz's order is the server's: through    *)
(* frames that come and go, windows that died before they were heard of    *)
(* and restacks relative to either, no window is lost, doubled or          *)
(* misplaced (restack, manageFrameWindowSeparately).                       *)
OrderAgrees == Calm => AsOnServer(windows) = root

(* The order compiz plans with is the server's too, provided no request    *)
(* was made while a new window's CreateNotify or a restack by a client was *)
(* still to be read: those are applied as if they came after the request.  *)
PlanAgrees == Calm /\ ~ raced => AsOnServer(serverWindows) = root

(* A frame stays without its client for good only if the client was        *)
(* destroyed while a plugin held back the unmapping: then destroy ()       *)
(* forgets the frame before unmap () can destroy it.                       *)
FramesGoWithClients ==
    Calm => \A c \in Managed :
        Contains(root, FrameOf[c]) => c \in wrapped \cup unmapHeld \cup forgotten

(* The neighbours a kept window remembers exist, although they may be      *)
(* destroyed and deleted before it is (~CompWindow repairs the links).     *)
NeighboursExist ==
    \A i \in DOMAIN kept : \A n \in {kept[i].prev, kept[i].next} :
        \/ n = Nothing
        \/ Contains(windows, n)
        \/ \E j \in DOMAIN kept : kept[j].win = n
=============================================================================
