---------------------------- MODULE FrameRequests ----------------------------
(***************************************************************************)
(* The geometry of a managed window on its way between compiz, the X       *)
(* server and the client (src/src/window.cpp).                             *)
(*                                                                         *)
(* compiz plans in terms of the client (serverGeometry), derives the frame *)
(* around it (serverFrameGeometry), sends what changed of frame, wrapper   *)
(* and client, and learns from the ConfigureNotify events of the frame     *)
(* what the window looks like (geometry).  A request that only moves the   *)
(* frame may be held back (module ConfigureBuffer; here the buffer is held *)
(* or not), and a client that takes part in _NET_WM_SYNC_REQUEST delays    *)
(* the adoption of a new size.                                             *)
(*                                                                         *)
(* One axis stands for both: position and size are what the code calls y   *)
(* and height.  The window has its frame and is mapped throughout.         *)
(***************************************************************************)
EXTENDS Integers, Sequences, FiniteSets

CONSTANTS
    Places, Sizes, Widths,  \* what positions, sizes and border widths
                            \* clients and plugins ask for
    Decorations,   \* extents [top, bottom] the decorator asks for
    Gravities,     \* subset of {"north", "south"}
    WorkArea,      \* the length of the work area, which starts at 0
    MaxConfigures, \* bound on requests sent for the frame
    MaxSyncs       \* bound on sync requests the client has not answered

ASSUME SizesAssumption ==
    /\ Places \subseteq Int /\ Sizes \subseteq Nat \ {0} /\ Widths \subseteq Nat
    /\ Decorations \subseteq [top : Int, bottom : Int]
    /\ WorkArea \in Int /\ MaxConfigures \in Nat

VARIABLES
    serverGeometry,       \* position, size, border: as last requested
    serverFrameGeometry,  \* position, size: the frame's
    serverInput,          \* extents of the decoration, lastServerInput too
    geometry,             \* as of the last ConfigureNotify
    gravity, shaded, alreadyDecorated,
    frameHeld,            \* the buffer has a change of the frame's position
    locked,               \* the buffer is held
    pendingConfigures,    \* serials of requests
    configures,           \* serial of the last request
    syncWait, syncGeometry,
    syncOwed,             \* sync requests the client has not answered
    xFrame, xWrapper, xClient,  \* the server's windows
    arriving,             \* events not read yet
    unanswered            \* history: serverGeometry changed and the frame
                          \* stayed as it was, so that no event tells of it

planVars  == <<serverGeometry, serverFrameGeometry, serverInput, shaded,
               alreadyDecorated, frameHeld, pendingConfigures, configures,
               xFrame, xWrapper, xClient, unanswered>>
syncVars  == <<syncWait, syncGeometry, syncOwed>>
frameVars == <<planVars, syncVars, geometry, gravity, locked, arriving>>

Geometries == [pos : Int, size : Int, border : Widths]
Spans      == [pos : Int, size : Int]

FramesTypeOK ==
    /\ {serverGeometry, geometry, syncGeometry} \subseteq Geometries
    /\ {serverFrameGeometry, xFrame, xWrapper} \subseteq Spans
    /\ xClient \in Int /\ serverInput \in Decorations
    /\ gravity \in Gravities
    /\ {shaded, alreadyDecorated, frameHeld, locked, syncWait, unanswered}
          \subseteq BOOLEAN
    /\ configures \in 0 .. MaxConfigures
    /\ pendingConfigures \subseteq 1 .. configures
    /\ syncOwed \in 0 .. MaxSyncs
    /\ \A i \in DOMAIN arriving :
          \/ arriving[i] = [type |-> "Alarm"]
          \/ arriving[i] \in [type : {"Configure"}, span : Spans,
                              serial : 1 .. configures]

(* After reparent (): no decoration, no border.                            *)
FramesInit ==
    /\ serverGeometry \in [pos : Places, size : Sizes, border : {0}]
    /\ geometry = serverGeometry /\ syncGeometry = serverGeometry
    /\ serverFrameGeometry = [pos  |-> serverGeometry.pos,
                              size |-> serverGeometry.size]
    /\ serverInput = [top |-> 0, bottom |-> 0]
    /\ xFrame = serverFrameGeometry
    /\ xWrapper = [pos |-> 0, size |-> serverGeometry.size]
    /\ xClient = serverGeometry.size
    /\ gravity \in Gravities
    /\ shaded = FALSE /\ alreadyDecorated = FALSE
    /\ frameHeld = FALSE /\ locked = FALSE
    /\ pendingConfigures = {} /\ configures = 0
    /\ syncWait = FALSE /\ syncOwed = 0
    /\ arriving = <<>> /\ unanswered = FALSE

-----------------------------------------------------------------------------
(* Sending requests                                                        *)

Extent(e) == e.top + e.bottom

(* The frame around geometry g with extents e.                             *)
FrameAround(g, e, isShaded) ==
    [pos  |-> g.pos - g.border - e.top,
     size |-> (IF isShaded THEN 0 ELSE g.size) + 2 * g.border + Extent(e)]

(* requestConfigureOnFrame: the request asks for what serverFrameGeometry  *)
(* is by now.  The server reports a change, and only a change.             *)
SendFrame(frame) ==
    /\ configures < MaxConfigures
    /\ configures' = configures + 1
    /\ pendingConfigures' = pendingConfigures \cup {configures'}
    /\ frameHeld' = FALSE
    /\ xFrame' = frame
    /\ arriving' = IF frame = xFrame THEN arriving
                   ELSE Append(arriving, [type |-> "Configure", span |-> frame,
                                          serial |-> configures'])

(* The height of the wrapper and the client is sent if that of the frame   *)
(* changes or what the decoration takes of it does.                        *)
HeightByFrame(frame, e) == frame.size # serverFrameGeometry.size

HeightChanges(frame, e) ==
    \/ frame.size # serverFrameGeometry.size
    \/ Extent(e) # Extent(serverInput)

(* reconfigureXWindow for geometry g, extents e and shading: only requests *)
(* for a position of the frame can be held back.                           *)
Reconfigure(g, e, isShaded) ==
    LET frame  == FrameAround(g, e, isShaded)
        moves  == frame.pos # serverFrameGeometry.pos
        sizes  == frame.size # serverFrameGeometry.size
        height == HeightChanges(frame, e)
        urgent == height \/ e.top # serverInput.top
    IN  /\ serverGeometry' = g
        /\ serverInput' = e
        /\ shaded' = isShaded
        /\ serverFrameGeometry' = frame
        /\ xWrapper' = [pos  |-> e.top,
                        size |-> IF height THEN g.size ELSE xWrapper.size]
        /\ xClient' = IF height THEN g.size ELSE xClient
        /\ IF moves \/ sizes \/ frameHeld
           THEN IF locked /\ ~ urgent
                THEN /\ frameHeld' = TRUE
                     /\ UNCHANGED <<xFrame, configures, pendingConfigures,
                                    arriving>>
                ELSE SendFrame(frame)
           ELSE UNCHANGED <<xFrame, configures, pendingConfigures, arriving,
                            frameHeld>>
        /\ unanswered' = IF xFrame' # xFrame THEN FALSE
                         ELSE unanswered \/ (~ frameHeld' /\ g # serverGeometry)

(* sendSyncRequest: what is known so far is kept for when the client has   *)
(* caught up.                                                              *)
SendSyncRequest ==
    IF syncWait THEN UNCHANGED syncVars
    ELSE /\ syncOwed < MaxSyncs
         /\ syncOwed' = syncOwed + 1
         /\ syncWait' = TRUE
         /\ syncGeometry' = serverGeometry

(* moveResize; takesPart: the client has a sync counter.                   *)
MoveResize(p, s, takesPart) ==
    /\ <<p, s>> # <<serverGeometry.pos, serverGeometry.size>>
    /\ IF takesPart /\ s # serverGeometry.size THEN SendSyncRequest
       ELSE UNCHANGED syncVars
    /\ Reconfigure([serverGeometry EXCEPT !.pos = p, !.size = s], serverInput,
                   shaded)
    /\ UNCHANGED <<geometry, gravity, locked, alreadyDecorated>>

(* A client asks for another border width.  Only the frame is adapted to   *)
(* it: the request for the client keeps no more than the size.             *)
SetBorder(b) ==
    /\ b # serverGeometry.border
    /\ Reconfigure([serverGeometry EXCEPT !.border = b], serverInput, shaded)
    /\ UNCHANGED <<syncVars, geometry, gravity, locked, alreadyDecorated>>

(* updateFrameWindow after shading or unshading                            *)
Shade(on) ==
    /\ on # shaded
    /\ Reconfigure(serverGeometry, serverInput, on)
    /\ UNCHANGED <<syncVars, geometry, gravity, locked, alreadyDecorated>>

Shift(e) == IF gravity = "north" THEN e.top ELSE - e.bottom

(* setWindowFrameExtents, the first time: a window that would stick out of *)
(* the work area is drawn back by what the decoration adds, d, and a       *)
(* larger one shrinks.                                                     *)
DrawnBack(p, movement, d) ==
    LET back == IF p - d < 0 THEN movement ELSE p - d
    IN  IF back - d < 0 THEN back + d ELSE back

IntoWorkArea(g, movement, d) ==
    [g EXCEPT !.pos  = IF @ + g.size > WorkArea
                       THEN DrawnBack(@, movement, d) ELSE @,
              !.size = IF @ + d > WorkArea THEN WorkArea - d ELSE @]

(* setWindowFrameExtents: the client moves as its gravity says, and loses  *)
(* what the decoration gains if it fills the space there is.  The extents  *)
(* for placement (border) are taken to be those for input, as decorators   *)
(* without shadows to grab have them.                                      *)
SetExtents(e, fills) ==
    LET movement == Shift(e) - Shift(serverInput)
        d        == Extent(e) - Extent(serverInput)
        g        == [serverGeometry EXCEPT !.pos  = @ + movement,
                                           !.size = IF fills THEN @ - d ELSE @]
        placed   == IF alreadyDecorated THEN g ELSE IntoWorkArea(g, movement, d)
    IN  /\ e # serverInput
        /\ placed.size > 0
        /\ alreadyDecorated' = TRUE
        /\ Reconfigure(placed, e, shaded)
        /\ UNCHANGED <<syncVars, geometry, gravity, locked>>

-----------------------------------------------------------------------------
(* The buffer                                                              *)

HoldBuffer ==
    /\ ~ locked
    /\ locked' = TRUE
    /\ UNCHANGED <<planVars, syncVars, geometry, gravity, arriving>>

ReleaseBuffer ==
    /\ locked
    /\ locked' = FALSE
    /\ IF frameHeld THEN SendFrame(serverFrameGeometry)
       ELSE UNCHANGED <<configures, pendingConfigures, frameHeld, xFrame,
                        arriving>>
    /\ unanswered' = (unanswered /\ xFrame' = xFrame)
    /\ UNCHANGED <<serverGeometry, serverFrameGeometry, serverInput, geometry,
                   gravity, shaded, alreadyDecorated, xWrapper, xClient,
                   syncVars>>

-----------------------------------------------------------------------------
(* Hearing of it                                                           *)

(* What configureFrame makes of the frame's span.  syncGeometry is only    *)
(* read while syncWait is set; otherwise it is kept equal to geometry.     *)
ClientWithin(span) ==
    [pos    |-> span.pos + serverInput.top,
     size   |-> (IF shaded THEN serverGeometry.size ELSE span.size)
                   + 2 * serverGeometry.border - Extent(serverInput),
     border |-> 0]

AdoptUnlessWaiting(g) ==
    /\ syncGeometry' = IF syncWait THEN syncGeometry ELSE g
    /\ geometry' = IF syncWait THEN geometry ELSE g

Adopt(g) ==
    /\ syncGeometry' = g
    /\ geometry' = IF syncWait THEN geometry ELSE g

NoneLeft(serial) == {}

(* PendingEventQueue::match; an event that no request announced makes      *)
(* compiz forget all of them.                                              *)
PendingAfter(serial) ==
    IF serial \in pendingConfigures THEN pendingConfigures \ {serial} ELSE {}

(* configureFrame                                                          *)
HandleFrameConfigure ==
    /\ arriving # <<>> /\ Head(arriving).type = "Configure"
    /\ arriving' = Tail(arriving)
    /\ pendingConfigures' = PendingAfter(Head(arriving).serial)
    /\ Adopt(ClientWithin(Head(arriving).span))
    /\ UNCHANGED <<serverGeometry, serverFrameGeometry, serverInput, gravity,
                   shaded, alreadyDecorated, frameHeld, locked, configures,
                   syncWait, syncOwed, xFrame, xWrapper, xClient, unanswered>>

(* The client has drawn itself and increments its counter.                 *)
ClientAnswers ==
    /\ syncOwed > 0
    /\ syncOwed' = syncOwed - 1
    /\ arriving' = Append(arriving, [type |-> "Alarm"])
    /\ UNCHANGED <<planVars, syncWait, syncGeometry, geometry, gravity, locked>>

(* handleSyncAlarm, which cannot tell an answer to this request from one   *)
(* to a request that was given up before.                                  *)
EndSync ==
    /\ syncWait' = FALSE
    /\ geometry' = syncGeometry
    /\ UNCHANGED <<planVars, syncGeometry, gravity, locked>>

HandleAlarm ==
    /\ arriving # <<>> /\ Head(arriving).type = "Alarm"
    /\ arriving' = Tail(arriving)
    /\ EndSync
    /\ UNCHANGED syncOwed

(* syncWaitTimer: the client had its second.                               *)
SyncTimeout ==
    /\ syncWait
    /\ EndSync
    /\ UNCHANGED <<arriving, syncOwed>>

FramesNext ==
    \/ \E p \in Places, s \in Sizes, t \in BOOLEAN : MoveResize(p, s, t)
    \/ \E b \in Widths : SetBorder(b)
    \/ \E on \in BOOLEAN : Shade(on)
    \/ \E e \in Decorations, fills \in BOOLEAN : SetExtents(e, fills)
    \/ HoldBuffer \/ ReleaseBuffer
    \/ HandleFrameConfigure \/ HandleAlarm
    \/ ClientAnswers \/ SyncTimeout

FramesSpec == FramesInit /\ [][FramesNext]_frameVars

-----------------------------------------------------------------------------
(* Properties                                                              *)

(* The three windows of a managed window fit into each other on the server *)
(* after any sequence of moves, resizes, decorations, shadings and held    *)
(* requests: reconfigureXWindow leaves out of each request what it takes   *)
(* for unchanged, and a client that fills its space changes size while its *)
(* frame does not.  Only the frame's position may be behind, and only      *)
(* while it is held.  What is inside a shaded window may be out of date.   *)
WindowsFit ==
    LET around == FrameAround(serverGeometry, serverInput, shaded)
    IN  /\ xFrame.size = around.size
        /\ ~ frameHeld => xFrame.pos = around.pos
        /\ xWrapper.pos = serverInput.top
        /\ ~ shaded => xWrapper.size = serverGeometry.size
                       /\ xClient = serverGeometry.size

(* When everything is sent and every event handled, the geometry compiz    *)
(* draws with is the one it asked for, whatever answers to sync requests   *)
(* came, came late or did not come.  Not so for a window with a border or  *)
(* a shaded one (configureFrame adds twice the border it should take away, *)
(* and takes the decoration off a size that never included it), nor when   *)
(* the client moved inside a frame that stayed put.                        *)
GeometrySettles ==
    /\ arriving = <<>> /\ ~ frameHeld /\ ~ syncWait
    /\ ~ unanswered /\ ~ shaded /\ serverGeometry.border = 0
    => geometry = serverGeometry

(* A ConfigureNotify of the frame is always one compiz waits for: "this    *)
(* should never happen" is never logged, and requests under way are not    *)
(* forgotten.                                                              *)
NotifyExpected ==
    \A i \in DOMAIN arriving : arriving[i].type = "Configure" =>
        arriving[i].serial \in pendingConfigures
=============================================================================
