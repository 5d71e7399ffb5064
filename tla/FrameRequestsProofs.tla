------------------------- MODULE FrameRequestsProofs -------------------------
(***************************************************************************)
(* Theorems about FrameRequests for any positions, sizes, borders,         *)
(* decorations and gravities.  Every change of the window goes through     *)
(* Reconfigure, so what it does is proved once (ReconfigureFits,           *)
(* ReconfigureExpects, ReconfigureHeard) and each operation only has to    *)
(* meet its hypotheses.                                                    *)
(***************************************************************************)
EXTENDS FrameRequests, SequenceTheorems, TLAPS

Shapes  == [pos : Int, size : Int, border : Int]
Extents == [top : Int, bottom : Int]

Messages == {[type |-> "Alarm"]} \union [type : {"Configure"}, span : Spans, serial : Nat]

(* The events of the frame that are still to be read                       *)
Tells(i) == arriving[i].type = "Configure"

NumbersFit ==
    /\ serverGeometry \in Shapes /\ geometry \in Shapes /\ syncGeometry \in Shapes
    /\ serverGeometry.size > 0
    /\ serverFrameGeometry \in Spans /\ xFrame \in Spans
    /\ serverInput \in Extents
    /\ arriving \in Seq(Messages)
    /\ configures \in Nat /\ pendingConfigures \subseteq Nat
    /\ ~ alreadyDecorated => serverInput.top = 0 /\ serverInput.bottom = 0

(* serverFrameGeometry has no life of its own.                             *)
FrameFollows == serverFrameGeometry = FrameAround(serverGeometry, serverInput, shaded)

FitInv == NumbersFit /\ FrameFollows /\ WindowsFit

(* NotifyExpected is not inductive without it: an event that took the      *)
(* serial of another would take the request of the other with it.          *)
SerialsGrow ==
    /\ \A i \in DOMAIN arriving : Tells(i) => arriving[i].serial <= configures
    /\ \A i, j \in DOMAIN arriving :
          i < j /\ Tells(i) /\ Tells(j) => arriving[i].serial < arriving[j].serial

(* The last event of the frame tells where the frame is.                   *)
LastTells ==
    \A i \in DOMAIN arriving :
        Tells(i) /\ (\A j \in DOMAIN arriving : i < j => ~ Tells(j))
        => arriving[i].span = xFrame

SyncKept == ~ syncWait => geometry = syncGeometry

(* With the last event of the frame handled, what compiz made of it is     *)
(* what it would make of the frame now, unless the client moved inside it  *)
(* since.  A held request, which moves the frame only, leaves this alone.  *)
Heard ==
    (\A i \in DOMAIN arriving : ~ Tells(i))
    /\ ~ unanswered /\ ~ shaded /\ serverGeometry.border = 0
    => syncGeometry = ClientWithin(xFrame)

FramesInv ==
    FitInv /\ SerialsGrow /\ NotifyExpected /\ LastTells /\ SyncKept /\ Heard

-----------------------------------------------------------------------------
(* Records                                                                 *)

LEMMA ShapeWith ==
  ASSUME NEW g \in Shapes, NEW p, NEW s
  PROVE  [g EXCEPT !.pos = p, !.size = s] = [pos |-> p, size |-> s, border |-> g.border]
<1> DEFINE fields == {"pos", "size", "border"}
           value(f) == IF f = "pos" THEN p ELSE IF f = "size" THEN s ELSE g.border
<1>1. DOMAIN g = fields
  BY DEF Shapes
<1>2. [g EXCEPT !.pos = p, !.size = s] = [f \in fields |-> value(f)]
  BY <1>1
<1>3. [pos |-> p, size |-> s, border |-> g.border] = [f \in fields |-> value(f)]
  OBVIOUS
<1> QED
  BY <1>2, <1>3

LEMMA ShapeWithBorder ==
  ASSUME NEW g \in Shapes, NEW b
  PROVE  [g EXCEPT !.border = b] = [pos |-> g.pos, size |-> g.size, border |-> b]
<1> DEFINE fields == {"pos", "size", "border"}
           value(f) == IF f = "pos" THEN g.pos ELSE IF f = "size" THEN g.size ELSE b
<1>1. DOMAIN g = fields
  BY DEF Shapes
<1>2. [g EXCEPT !.border = b] = [f \in fields |-> value(f)]
  BY <1>1
<1>3. [pos |-> g.pos, size |-> g.size, border |-> b] = [f \in fields |-> value(f)]
  OBVIOUS
<1> QED
  BY <1>2, <1>3

LEMMA ShapesEqual ==
  ASSUME NEW g \in Shapes, NEW h \in Shapes,
         g.pos = h.pos, g.size = h.size, g.border = h.border
  PROVE  g = h
BY DEF Shapes

LEMMA FrameAroundType ==
  ASSUME NEW g \in Shapes, NEW e \in Extents, NEW isShaded
  PROVE  /\ FrameAround(g, e, isShaded) \in Spans
         /\ FrameAround(g, e, isShaded).pos = g.pos - g.border - e.top
         /\ FrameAround(g, e, isShaded).size =
              (IF isShaded THEN 0 ELSE g.size) + 2 * g.border + e.top + e.bottom
<1>1. g.pos \in Int /\ g.size \in Int /\ g.border \in Int /\ e.top \in Int /\ e.bottom \in Int
  BY DEF Shapes, Extents
<1>2. (IF isShaded THEN 0 ELSE g.size) \in Int
  BY <1>1
<1> QED
  BY <1>1, <1>2 DEF FrameAround, Extent, Spans

-----------------------------------------------------------------------------
(* What requests do to the three windows                                   *)

(* An operation changes the border alone, or the shading alone.            *)
OneThing(g, e, isShaded) ==
    /\ g.border = serverGeometry.border \/ (g.size = serverGeometry.size /\ e = serverInput)
    /\ isShaded = shaded \/ (g = serverGeometry /\ e = serverInput)

(* The height of wrapper and client is left out of the requests only if it *)
(* is what it was: in a frame of the same size the client changes size     *)
(* only when the decoration does.                                          *)
LEMMA SameHeight ==
  ASSUME NumbersFit, FrameFollows,
         NEW g \in Shapes, NEW e \in Extents, NEW isShaded, g.size > 0,
         OneThing(g, e, isShaded),
         ~ HeightChanges(FrameAround(g, e, isShaded), e), ~ isShaded
  PROVE  /\ ~ shaded /\ g.size = serverGeometry.size
         /\ g.border = serverGeometry.border
         /\ Extent(e) = Extent(serverInput)
<1> DEFINE old == serverGeometry
<1>1. old \in Shapes /\ serverInput \in Extents /\ old.size > 0
  BY DEF NumbersFit
<1>2. /\ old.size \in Int /\ old.border \in Int /\ g.size \in Int /\ g.border \in Int
      /\ Extent(e) \in Int /\ Extent(serverInput) \in Int
  BY <1>1 DEF Shapes, Extents, Extent
<1>3. Extent(e) = Extent(serverInput)
  BY DEF HeightChanges
<1>4. FrameAround(g, e, isShaded).size = serverFrameGeometry.size
  BY DEF HeightChanges
<1>5. g.size + 2 * g.border + Extent(e) =
         (IF shaded THEN 0 ELSE old.size) + 2 * old.border + Extent(serverInput)
  BY <1>4 DEF FrameFollows, FrameAround
<1> HIDE DEF old
<1>6. old.border = g.border
  BY <1>2, <1>3, <1>5 DEF OneThing, old
<1>7. ~ shaded
  BY <1>1, <1>2, <1>3, <1>5, <1>6 DEF OneThing, old
<1> QED
  BY <1>2, <1>3, <1>5, <1>6, <1>7 DEF old

(* What a request does to the frame: nothing, or it is where it is wanted. *)
LEMMA FrameAfterRequest ==
  ASSUME FitInv, NEW g \in Shapes, NEW e \in Extents, NEW isShaded,
         Reconfigure(g, e, isShaded)
  PROVE  /\ serverFrameGeometry' = FrameAround(g, e, isShaded)
         /\ \/ /\ SendFrame(FrameAround(g, e, isShaded))
               /\ ~ frameHeld' /\ xFrame' = FrameAround(g, e, isShaded)
            \/ /\ UNCHANGED <<xFrame, configures, pendingConfigures, arriving>>
               /\ \/ /\ frameHeld'
                     /\ ~ HeightChanges(FrameAround(g, e, isShaded), e)
                     /\ e.top = serverInput.top
                  \/ /\ ~ frameHeld' /\ ~ frameHeld
                     /\ xFrame = FrameAround(g, e, isShaded)
<1> DEFINE frame == FrameAround(g, e, isShaded)
<1>1. frame \in Spans /\ serverFrameGeometry \in Spans /\ xFrame \in Spans
  BY FrameAroundType DEF FitInv, NumbersFit
<1>2. ~ frameHeld => xFrame = serverFrameGeometry
  BY <1>1 DEF FitInv, WindowsFit, FrameFollows, Spans
<1> HIDE DEF frame
<1>3. serverFrameGeometry' = frame
  BY DEF Reconfigure, frame
<1>4. CASE frame.pos # serverFrameGeometry.pos \/ frame.size # serverFrameGeometry.size
           \/ frameHeld
  <2>1. CASE locked /\ ~ (HeightChanges(frame, e) \/ e.top # serverInput.top)
    BY <1>3, <1>4, <2>1 DEF Reconfigure, frame
  <2>2. CASE ~ (locked /\ ~ (HeightChanges(frame, e) \/ e.top # serverInput.top))
    <3>1. SendFrame(frame)
      BY <1>4, <2>2 DEF Reconfigure, frame
    <3>2. ~ frameHeld' /\ xFrame' = frame
      BY <3>1 DEF SendFrame
    <3> QED
      BY <1>3, <3>1, <3>2 DEF frame
  <2> QED
    BY <2>1, <2>2
<1>5. CASE ~ (frame.pos # serverFrameGeometry.pos \/ frame.size # serverFrameGeometry.size
              \/ frameHeld)
  <2>1. frame = serverFrameGeometry
    BY <1>1, <1>5 DEF Spans
  <2>2. UNCHANGED <<xFrame, configures, pendingConfigures, arriving, frameHeld>>
    BY <1>5 DEF Reconfigure, frame
  <2> QED
    BY <1>2, <1>3, <1>5, <2>1, <2>2 DEF frame
<1> QED
  BY <1>4, <1>5

LEMMA SendFrameTypes ==
  ASSUME FitInv, NEW frame \in Spans, SendFrame(frame)
  PROVE  /\ arriving' \in Seq(Messages) /\ xFrame' \in Spans
         /\ configures' \in Nat /\ pendingConfigures' \subseteq Nat
<1>1. configures' = configures + 1 /\ configures \in Nat
  BY DEF SendFrame, FitInv, NumbersFit
<1> DEFINE e == [type |-> "Configure", span |-> frame, serial |-> configures']
<1>2. e \in Messages
  BY <1>1 DEF Messages
<1>3. arriving' = arriving \/ arriving' = Append(arriving, e)
  BY DEF SendFrame
<1> HIDE DEF e
<1> QED
  BY <1>1, <1>2, <1>3 DEF SendFrame, FitInv, NumbersFit

LEMMA ReconfigureFits ==
  ASSUME FitInv, NEW g \in Shapes, NEW e \in Extents, NEW isShaded,
         g.size > 0, OneThing(g, e, isShaded), Reconfigure(g, e, isShaded),
         geometry' \in Shapes, syncGeometry' \in Shapes,
         ~ alreadyDecorated' => e.top = 0 /\ e.bottom = 0
  PROVE  FitInv'
<1> DEFINE frame == FrameAround(g, e, isShaded)
           height == HeightChanges(frame, e)
<1>1. frame \in Spans
  BY FrameAroundType
<1>2. /\ serverGeometry' = g /\ serverInput' = e /\ shaded' = isShaded
      /\ xWrapper' = [pos  |-> e.top,
                      size |-> IF height THEN g.size ELSE xWrapper.size]
      /\ xClient' = IF height THEN g.size ELSE xClient
  BY DEF Reconfigure
<1>3. serverFrameGeometry' = frame
  BY FrameAfterRequest
<1>4. FrameFollows'
  BY <1>2, <1>3 DEF FrameFollows
<1>5. NumbersFit'
  <2>1. /\ arriving' \in Seq(Messages) /\ xFrame' \in Spans
        /\ configures' \in Nat /\ pendingConfigures' \subseteq Nat
    <3>1. CASE SendFrame(frame)
      BY <1>1, <3>1, SendFrameTypes
    <3>2. CASE UNCHANGED <<xFrame, configures, pendingConfigures, arriving>>
      BY <3>2 DEF FitInv, NumbersFit
    <3> QED
      BY <3>1, <3>2, FrameAfterRequest
  <2> QED
    BY <1>1, <1>2, <1>3, <2>1 DEF NumbersFit
<1>6. xFrame'.size = frame.size /\ (~ frameHeld' => xFrame'.pos = frame.pos)
  <2>1. CASE xFrame' = frame
    BY <2>1
  <2>2. CASE xFrame' = xFrame /\ frameHeld' /\ ~ height
    <3>1. xFrame.size = serverFrameGeometry.size
      BY DEF FitInv, WindowsFit, FrameFollows
    <3> QED
      BY <2>2, <3>1 DEF HeightChanges
  <2> QED
    BY <2>1, <2>2, FrameAfterRequest
<1>7. ASSUME ~ isShaded
      PROVE  xWrapper'.size = g.size /\ xClient' = g.size
  <2>1. CASE height
    BY <1>2, <2>1
  <2>2. CASE ~ height
    <3>1. ~ shaded /\ g.size = serverGeometry.size
      BY <1>7, <2>2, SameHeight DEF FitInv
    <3> QED
      BY <1>2, <2>2, <3>1 DEF FitInv, WindowsFit
  <2> QED
    BY <2>1, <2>2
<1> HIDE DEF frame
<1>8. xWrapper'.pos = e.top
  BY <1>2
<1>9. WindowsFit'
  <2>1. FrameAround(serverGeometry', serverInput', shaded') = frame
    BY <1>2 DEF frame
  <2> QED
    BY <1>2, <1>6, <1>7, <1>8, <2>1 DEF WindowsFit
<1> QED
  BY <1>4, <1>5, <1>9 DEF FitInv

-----------------------------------------------------------------------------
(* What the events of the frame tell                                       *)

TellsInv == SerialsGrow /\ NotifyExpected /\ LastTells

LEMMA SendFrameTells ==
  ASSUME NumbersFit, TellsInv, NEW frame, SendFrame(frame)
  PROVE  TellsInv'
<1> USE DEF TellsInv
<1>1. /\ configures' = configures + 1 /\ configures \in Nat
      /\ pendingConfigures' = pendingConfigures \union {configures'}
      /\ xFrame' = frame
  BY DEF SendFrame, NumbersFit
<1>2. CASE frame = xFrame
  <2>1. arriving' = arriving /\ xFrame' = xFrame
    BY <1>1, <1>2 DEF SendFrame
  <2>2. \A i \in DOMAIN arriving : Tells(i) => arriving[i].serial \in Nat
    <3> SUFFICES ASSUME NEW i \in DOMAIN arriving, Tells(i)
                 PROVE  arriving[i].serial \in Nat
      OBVIOUS
    <3>1. arriving[i] \in Messages
      BY DEF NumbersFit
    <3> QED
      BY <3>1 DEF Messages, Tells
  <2>3. SerialsGrow'
    BY <1>1, <2>1, <2>2 DEF SerialsGrow, Tells
  <2>4. NotifyExpected'
    BY <1>1, <2>1 DEF NotifyExpected
  <2>5. LastTells'
    BY <2>1 DEF LastTells, Tells
  <2> QED
    BY <2>3, <2>4, <2>5
<1>3. CASE frame # xFrame
  <2> DEFINE n == Len(arriving) + 1
             e == [type |-> "Configure", span |-> frame, serial |-> configures']
  <2>1. arriving' = Append(arriving, e)
    BY <1>1, <1>3 DEF SendFrame
  <2>2. e.type = "Configure" /\ e.span = frame /\ e.serial = configures'
    OBVIOUS
  <2> HIDE DEF e
  <2>3. /\ arriving \in Seq(Messages) /\ Len(arriving) \in Nat
        /\ DOMAIN arriving = 1 .. Len(arriving)
        /\ DOMAIN arriving' = 1 .. n
        /\ arriving'[n] = e
        /\ \A i \in 1 .. Len(arriving) : arriving'[i] = arriving[i]
    BY <2>1 DEF NumbersFit
  <2>4. \A i \in 1 .. Len(arriving) : Tells(i) => arriving[i].serial \in Nat
    <3> SUFFICES ASSUME NEW i \in 1 .. Len(arriving), Tells(i)
                 PROVE  arriving[i].serial \in Nat
      OBVIOUS
    <3>1. arriving[i] \in Messages
      BY <2>3
    <3> QED
      BY <3>1 DEF Messages, Tells
  <2>5. \A i \in 1 .. n : i = n \/ i \in 1 .. Len(arriving)
    BY <2>3
  <2>6. SerialsGrow'
    BY <1>1, <2>2, <2>3, <2>4, <2>5 DEF SerialsGrow, Tells
  <2>7. NotifyExpected'
    BY <1>1, <2>2, <2>3, <2>5 DEF NotifyExpected, Tells
  <2>8. LastTells'
    <3> SUFFICES ASSUME NEW i \in 1 .. n, \A j \in 1 .. n : i < j => ~ Tells(j)'
                 PROVE  arriving'[i].span = xFrame'
      BY <2>3 DEF LastTells, Tells
    <3>1. i = n
      BY <2>2, <2>3, <2>5 DEF Tells
    <3> QED
      BY <1>1, <2>2, <2>3, <3>1
  <2> QED
    BY <2>6, <2>7, <2>8
<1> QED
  BY <1>2, <1>3

LEMMA TellsUnchanged ==
  ASSUME TellsInv, UNCHANGED <<xFrame, configures, pendingConfigures, arriving>>
  PROVE  TellsInv'
BY DEF TellsInv, SerialsGrow, NotifyExpected, LastTells, Tells

(* A request that leaves the frame where it is, and the client too, or is  *)
(* held back, leaves what compiz would make of the frame alone.            *)
LEMMA ReconfigureHeard ==
  ASSUME FitInv, Heard, NEW g \in Shapes, NEW e \in Extents, NEW isShaded,
         g.size > 0, OneThing(g, e, isShaded), Reconfigure(g, e, isShaded),
         g = serverGeometry /\ Extent(e) = Extent(serverInput) => e.top = serverInput.top,
         syncGeometry' = syncGeometry
            \/ (isShaded = shaded /\ e = serverInput /\ g.size # serverGeometry.size
                /\ g.border = serverGeometry.border)
  PROVE  Heard'
<1> DEFINE frame == FrameAround(g, e, isShaded)
<1> SUFFICES ASSUME \A i \in DOMAIN arriving' : ~ Tells(i)',
                    ~ unanswered', ~ shaded', g.border = 0
             PROVE  syncGeometry' = ClientWithin(xFrame)'
  BY DEF Heard, Reconfigure
<1>1. /\ serverGeometry' = g /\ serverInput' = e /\ shaded' = isShaded
      /\ ~ isShaded
      /\ unanswered' = IF xFrame' # xFrame THEN FALSE
                       ELSE unanswered \/ (~ frameHeld' /\ g # serverGeometry)
  BY DEF Reconfigure
<1>2. xFrame' = xFrame /\ arriving' = arriving
  <2>1. CASE SendFrame(frame) /\ frame # xFrame
    <3> DEFINE m == [type |-> "Configure", span |-> frame, serial |-> configures']
    <3>1. arriving' = Append(arriving, m) /\ arriving \in Seq(Messages)
      BY <2>1 DEF SendFrame, FitInv, NumbersFit
    <3>2. m.type = "Configure"
      OBVIOUS
    <3> HIDE DEF m
    <3>3. Len(arriving) + 1 \in DOMAIN arriving' /\ arriving'[Len(arriving) + 1] = m
      BY <3>1
    <3> QED
      BY <3>2, <3>3 DEF Tells
  <2>2. CASE SendFrame(frame) /\ frame = xFrame
    BY <2>2 DEF SendFrame
  <2> QED
    BY <2>1, <2>2, FrameAfterRequest
<1>3. ~ unanswered /\ (frameHeld' \/ g = serverGeometry)
  BY <1>1, <1>2
<1> DEFINE old == serverGeometry
<1>4. /\ old \in Shapes /\ old.size > 0 /\ serverInput \in Extents
      /\ xFrame.size = FrameAround(old, serverInput, shaded).size
  BY DEF FitInv, NumbersFit, WindowsFit
<1>5. /\ old.size \in Int /\ old.border \in Int /\ g.size \in Int /\ g.border \in Int
      /\ Extent(e) \in Int /\ Extent(serverInput) \in Int
      /\ serverInput.top \in Int /\ e.top \in Int
  BY <1>4 DEF Shapes, Extents, Extent
<1>6. /\ ~ shaded /\ g.size = old.size /\ g.border = old.border
      /\ Extent(e) = Extent(serverInput) /\ e.top = serverInput.top
  <2>1. CASE frameHeld' /\ ~ HeightChanges(frame, e) /\ e.top = serverInput.top
    BY <1>1, <2>1, SameHeight DEF FitInv
  <2>2. CASE ~ frameHeld' /\ xFrame = frame
    <3>1. g = old
      BY <1>3, <2>2
    <3>2. g.size + 2 * g.border + Extent(e) =
             (IF shaded THEN 0 ELSE old.size) + 2 * old.border + Extent(serverInput)
      BY <1>1, <1>4, <2>2 DEF FrameAround
    <3> HIDE DEF old
    <3>3. (IF shaded THEN 0 ELSE old.size) + Extent(serverInput) = g.size + Extent(e)
      <4>1. (IF shaded THEN 0 ELSE old.size) \in Int
        BY <1>5
      <4> QED
        BY <1>5, <3>1, <3>2, <4>1
    <3>4. ~ shaded
      <4>1. CASE e = serverInput
        BY <1>4, <1>5, <3>1, <3>3, <4>1
      <4>2. CASE e # serverInput
        BY <1>1, <4>2 DEF OneThing
      <4> QED
        BY <4>1, <4>2
    <3>5. Extent(e) = Extent(serverInput)
      BY <1>5, <3>1, <3>3, <3>4
    <3> QED
      BY <3>1, <3>4, <3>5 DEF old
  <2> QED
    BY <1>2, <2>1, <2>2, FrameAfterRequest
<1>7. syncGeometry' = syncGeometry
  BY <1>6
<1>8. syncGeometry = ClientWithin(xFrame)
  BY <1>2, <1>3, <1>6 DEF Heard, Tells
<1>9. ClientWithin(xFrame)' = ClientWithin(xFrame)
  BY <1>1, <1>2, <1>6 DEF ClientWithin
<1> QED
  BY <1>7, <1>8, <1>9

-----------------------------------------------------------------------------
(* The operations                                                          *)

LEMMA ReconfigureTells ==
  ASSUME FitInv, TellsInv, NEW g \in Shapes, NEW e \in Extents, NEW isShaded,
         Reconfigure(g, e, isShaded)
  PROVE  TellsInv'
<1>1. CASE SendFrame(FrameAround(g, e, isShaded))
  BY <1>1, SendFrameTells DEF FitInv
<1>2. CASE UNCHANGED <<xFrame, configures, pendingConfigures, arriving>>
  BY <1>2, TellsUnchanged
<1> QED
  BY <1>1, <1>2, FrameAfterRequest

(* What a request has to meet, and what then holds after it.               *)
LEMMA RequestKeepsInv ==
  ASSUME FramesInv, NEW g \in Shapes, NEW e \in Extents, NEW isShaded,
         g.size > 0, OneThing(g, e, isShaded), Reconfigure(g, e, isShaded),
         g = serverGeometry /\ Extent(e) = Extent(serverInput) => e.top = serverInput.top,
         ~ alreadyDecorated' => e.top = 0 /\ e.bottom = 0,
         \/ UNCHANGED syncVars
         \/ /\ isShaded = shaded /\ e = serverInput
            /\ g.size # serverGeometry.size /\ g.border = serverGeometry.border
            /\ syncWait' /\ syncGeometry' = serverGeometry,
         geometry' = geometry
  PROVE  FramesInv'
<1>1. FitInv /\ TellsInv /\ SyncKept /\ Heard
  BY DEF FramesInv, TellsInv
<1>2. geometry' \in Shapes /\ syncGeometry' \in Shapes
  BY <1>1 DEF FitInv, NumbersFit, syncVars
<1>3. FitInv'
  BY <1>1, <1>2, ReconfigureFits
<1>4. TellsInv'
  BY <1>1, ReconfigureTells
<1>5. Heard'
  BY <1>1, ReconfigureHeard DEF syncVars
<1>6. SyncKept'
  BY <1>1 DEF SyncKept, syncVars
<1> QED
  BY <1>3, <1>4, <1>5, <1>6 DEF FramesInv, TellsInv

LEMMA MoveResizeKeepsInv ==
  ASSUME FramesInv, NEW p \in Places, NEW s \in Sizes, NEW t \in BOOLEAN, MoveResize(p, s, t)
  PROVE  FramesInv'
<1> DEFINE g == [pos |-> p, size |-> s, border |-> serverGeometry.border]
<1>1. /\ serverGeometry \in Shapes /\ serverInput \in Extents
      /\ p \in Int /\ s \in Nat \ {0}
      /\ ~ alreadyDecorated => serverInput.top = 0 /\ serverInput.bottom = 0
  BY SizesAssumption DEF FramesInv, FitInv, NumbersFit
<1>2. g \in Shapes /\ g.size > 0 /\ g.border = serverGeometry.border
  BY <1>1 DEF Shapes
<1>3. Reconfigure(g, serverInput, shaded)
  BY <1>1, ShapeWith DEF MoveResize
<1>4. g.size = s
  OBVIOUS
<1> HIDE DEF g
<1>5. /\ geometry' = geometry /\ alreadyDecorated' = alreadyDecorated
      /\ \/ UNCHANGED syncVars
         \/ /\ g.size # serverGeometry.size
            /\ syncWait' /\ syncGeometry' = serverGeometry
  BY <1>4 DEF MoveResize, SendSyncRequest
<1>6. OneThing(g, serverInput, shaded)
  BY <1>2 DEF OneThing
<1> QED
  BY <1>1, <1>2, <1>3, <1>5, <1>6, RequestKeepsInv

LEMMA SetBorderKeepsInv ==
  ASSUME FramesInv, NEW b \in Widths, SetBorder(b)
  PROVE  FramesInv'
<1> DEFINE g == [pos |-> serverGeometry.pos, size |-> serverGeometry.size, border |-> b]
<1>1. /\ serverGeometry \in Shapes /\ serverInput \in Extents /\ b \in Int
      /\ serverGeometry.size > 0
      /\ ~ alreadyDecorated => serverInput.top = 0 /\ serverInput.bottom = 0
  BY SizesAssumption DEF FramesInv, FitInv, NumbersFit
<1>2. g \in Shapes /\ g.size > 0 /\ g.size = serverGeometry.size
  BY <1>1 DEF Shapes
<1>3. Reconfigure(g, serverInput, shaded)
  BY <1>1, ShapeWithBorder DEF SetBorder
<1> HIDE DEF g
<1>4. /\ geometry' = geometry /\ alreadyDecorated' = alreadyDecorated
      /\ UNCHANGED syncVars
  BY DEF SetBorder
<1>5. OneThing(g, serverInput, shaded)
  BY <1>2 DEF OneThing
<1> QED
  BY <1>1, <1>2, <1>3, <1>4, <1>5, RequestKeepsInv

LEMMA ShadeKeepsInv ==
  ASSUME FramesInv, NEW on \in BOOLEAN, Shade(on)
  PROVE  FramesInv'
<1>1. /\ serverGeometry \in Shapes /\ serverInput \in Extents
      /\ serverGeometry.size > 0
      /\ ~ alreadyDecorated => serverInput.top = 0 /\ serverInput.bottom = 0
  BY DEF FramesInv, FitInv, NumbersFit
<1>2. /\ Reconfigure(serverGeometry, serverInput, on)
      /\ geometry' = geometry /\ alreadyDecorated' = alreadyDecorated
      /\ UNCHANGED syncVars
  BY DEF Shade
<1>3. OneThing(serverGeometry, serverInput, on)
  BY DEF OneThing
<1> QED
  BY <1>1, <1>2, <1>3, RequestKeepsInv

LEMMA IntoWorkAreaIs ==
  ASSUME NEW g \in Shapes, NEW movement, NEW d
  PROVE  IntoWorkArea(g, movement, d) =
            [pos    |-> IF g.pos + g.size > WorkArea
                        THEN DrawnBack(g.pos, movement, d) ELSE g.pos,
             size   |-> IF g.size + d > WorkArea THEN WorkArea - d ELSE g.size,
             border |-> g.border]
<1> DEFINE p == IF g.pos + g.size > WorkArea THEN DrawnBack(g.pos, movement, d) ELSE g.pos
           s == IF g.size + d > WorkArea THEN WorkArea - d ELSE g.size
<1>1. IntoWorkArea(g, movement, d) = [g EXCEPT !.pos = p, !.size = s]
  BY DEF IntoWorkArea
<1> HIDE DEF p, s
<1>2. IntoWorkArea(g, movement, d) = [pos |-> p, size |-> s, border |-> g.border]
  BY <1>1, ShapeWith
<1> QED
  BY <1>2 DEF p, s

(* A decoration that takes as much as the one before moves the client,     *)
(* unless it is as high on top: then neither has anything to hear of.      *)
LEMMA SetExtentsKeepsInv ==
  ASSUME FramesInv, NEW e \in Decorations, NEW fills \in BOOLEAN, SetExtents(e, fills)
  PROVE  FramesInv'
<1> DEFINE old == serverGeometry
           movement == Shift(e) - Shift(serverInput)
           d == Extent(e) - Extent(serverInput)
           size == IF fills THEN old.size - d ELSE old.size
           g == [pos |-> old.pos + movement, size |-> size, border |-> old.border]
           pulled == [pos    |-> IF g.pos + g.size > WorkArea
                                 THEN DrawnBack(g.pos, movement, d) ELSE g.pos,
                      size   |-> IF g.size + d > WorkArea THEN WorkArea - d ELSE g.size,
                      border |-> old.border]
           placed == IF alreadyDecorated THEN g ELSE pulled
<1>1. /\ old \in Shapes /\ serverInput \in Extents /\ e \in Extents
      /\ ~ alreadyDecorated => serverInput.top = 0 /\ serverInput.bottom = 0
      /\ WorkArea \in Int
  BY SizesAssumption DEF FramesInv, FitInv, NumbersFit, Extents
<1>2. /\ old.pos \in Int /\ old.size \in Int /\ old.border \in Int
      /\ e.top \in Int /\ e.bottom \in Int
      /\ serverInput.top \in Int /\ serverInput.bottom \in Int
  BY <1>1 DEF Shapes, Extents
<1>3. /\ movement \in Int /\ d \in Int /\ size \in Int
      /\ Extent(e) \in Int /\ Extent(serverInput) \in Int
  BY <1>2 DEF Shift, Extent
<1> HIDE DEF movement, d, size
<1>4. g \in Shapes
  BY <1>2, <1>3 DEF Shapes
<1>5. pulled \in Shapes
  <2>1. /\ g.pos \in Int /\ g.size \in Int
    BY <1>4 DEF Shapes
  <2>2. DrawnBack(g.pos, movement, d) \in Int
    BY <1>3, <2>1 DEF DrawnBack
  <2> QED
    BY <1>1, <1>2, <1>3, <2>1, <2>2 DEF Shapes
<1>6. /\ e # serverInput /\ placed.size > 0
      /\ alreadyDecorated'
      /\ Reconfigure(placed, e, shaded)
      /\ geometry' = geometry /\ UNCHANGED syncVars
  <2>1. [old EXCEPT !.pos = @ + movement, !.size = IF fills THEN @ - d ELSE @] = g
    BY <1>1, ShapeWith DEF size
  <2>2. IntoWorkArea(g, movement, d) = pulled
    BY <1>4, IntoWorkAreaIs
  <2> QED
    BY <2>1, <2>2 DEF SetExtents, movement, d
<1>7. placed \in Shapes /\ placed.border = old.border
  BY <1>4, <1>5
<1>8. ASSUME placed = old, Extent(e) = Extent(serverInput)
      PROVE  e.top = serverInput.top
  <2>1. d = 0 /\ size = old.size
    BY <1>2, <1>3, <1>8 DEF d, size
  <2>2. movement = 0
    <3>1. CASE alreadyDecorated
      <4>1. old.pos + movement = old.pos
        BY <1>8, <3>1
      <4> QED
        BY <1>2, <1>3, <4>1
    <3>2. CASE ~ alreadyDecorated
      <4>1. pulled = old /\ g.size = old.size /\ g.pos = old.pos + movement
        BY <1>8, <2>1, <3>2
      <4>2. ~ (old.size > WorkArea)
        BY <1>1, <1>2, <2>1, <4>1
      <4>3. old.pos = IF old.pos + movement + old.size > WorkArea
                      THEN DrawnBack(old.pos + movement, movement, 0) ELSE old.pos + movement
        BY <2>1, <4>1
      <4> QED
        BY <1>1, <1>2, <1>3, <4>2, <4>3 DEF DrawnBack
    <3> QED
      BY <3>1, <3>2
  <2>3. Shift(e) = Shift(serverInput)
    BY <1>2, <2>2 DEF movement, Shift
  <2> QED
    BY <1>2, <1>8, <2>3 DEF Shift, Extent
<1>9. OneThing(placed, e, shaded)
  BY <1>7 DEF OneThing
<1> HIDE DEF placed
<1> QED
  BY <1>1, <1>6, <1>7, <1>8, <1>9, RequestKeepsInv

-----------------------------------------------------------------------------
(* The buffer and the events                                               *)

LEMMA ReleaseBufferKeepsInv ==
  ASSUME FramesInv, ReleaseBuffer
  PROVE  FramesInv'
<1>1. FitInv /\ TellsInv /\ SyncKept /\ Heard
  BY DEF FramesInv, TellsInv
<1>2. UNCHANGED <<serverGeometry, serverFrameGeometry, serverInput, geometry,
                  gravity, shaded, alreadyDecorated, xWrapper, xClient,
                  syncWait, syncGeometry>>
  BY DEF ReleaseBuffer, syncVars
<1>3. serverFrameGeometry \in Spans
  BY <1>1 DEF FitInv, NumbersFit
<1>4. CASE SendFrame(serverFrameGeometry)
  <2>1. xFrame' = serverFrameGeometry /\ ~ frameHeld'
    BY <1>4 DEF SendFrame
  <2>2. NumbersFit'
    BY <1>1, <1>2, <1>3, <1>4, SendFrameTypes DEF FitInv, NumbersFit
  <2>3. FrameFollows'
    BY <1>1, <1>2 DEF FitInv, FrameFollows
  <2>4. WindowsFit'
    <3>1. serverFrameGeometry = FrameAround(serverGeometry', serverInput', shaded')
      BY <1>1, <1>2 DEF FitInv, FrameFollows
    <3> QED
      BY <1>1, <1>2, <2>1, <3>1 DEF FitInv, WindowsFit
  <2>5. TellsInv'
    BY <1>1, <1>4, SendFrameTells DEF FitInv
  <2>6. Heard'
    <3>1. CASE xFrame' = xFrame
      <4>1. arriving' = arriving /\ (unanswered' <=> unanswered)
        BY <1>4, <2>1, <3>1 DEF SendFrame, ReleaseBuffer
      <4> QED
        BY <1>1, <1>2, <3>1, <4>1 DEF Heard, Tells, ClientWithin
    <3>2. CASE xFrame' # xFrame
      <4> DEFINE m == [type |-> "Configure", span |-> serverFrameGeometry,
                       serial |-> configures']
      <4>1. arriving' = Append(arriving, m) /\ arriving \in Seq(Messages)
        BY <1>1, <1>4, <2>1, <3>2 DEF SendFrame, FitInv, NumbersFit
      <4>2. m.type = "Configure"
        OBVIOUS
      <4> HIDE DEF m
      <4>3. Len(arriving) + 1 \in DOMAIN arriving' /\ arriving'[Len(arriving) + 1] = m
        BY <4>1
      <4> QED
        BY <4>2, <4>3 DEF Heard, Tells
    <3> QED
      BY <3>1, <3>2
  <2>7. SyncKept'
    BY <1>1, <1>2 DEF SyncKept
  <2> QED
    BY <2>2, <2>3, <2>4, <2>5, <2>6, <2>7 DEF FramesInv, FitInv, TellsInv
<1>5. CASE UNCHANGED <<configures, pendingConfigures, frameHeld, xFrame, arriving>>
  <2>1. unanswered' <=> unanswered
    BY <1>5 DEF ReleaseBuffer
  <2>2. FitInv'
    BY <1>1, <1>2, <1>5 DEF FitInv, NumbersFit, FrameFollows, WindowsFit
  <2>3. TellsInv'
    BY <1>1, <1>5, TellsUnchanged
  <2>4. Heard' /\ SyncKept'
    BY <1>1, <1>2, <1>5, <2>1 DEF Heard, SyncKept, Tells, ClientWithin
  <2> QED
    BY <2>2, <2>3, <2>4 DEF FramesInv, TellsInv
<1> QED
  BY <1>4, <1>5 DEF ReleaseBuffer

(* The first event is read.                                                *)
LEMMA TailPlaces ==
  ASSUME arriving \in Seq(Messages), arriving # << >>, arriving' = Tail(arriving)
  PROVE  /\ arriving' \in Seq(Messages) /\ Len(arriving) \in Nat \ {0}
         /\ DOMAIN arriving = 1 .. Len(arriving)
         /\ DOMAIN arriving' = 1 .. Len(arriving) - 1
         /\ arriving[1] \in Messages /\ Head(arriving) = arriving[1]
         /\ \A i \in 1 .. Len(arriving) - 1 : arriving'[i] = arriving[i + 1]
         /\ \A i \in 1 .. Len(arriving) : i = 1 \/ i - 1 \in 1 .. Len(arriving) - 1
OBVIOUS

LEMMA HandleFrameConfigureKeepsInv ==
  ASSUME FramesInv, HandleFrameConfigure
  PROVE  FramesInv'
<1>1. FitInv /\ TellsInv /\ SyncKept /\ Heard
  BY DEF FramesInv, TellsInv
<1>2. /\ arriving # << >> /\ arriving' = Tail(arriving)
      /\ pendingConfigures' = PendingAfter(Head(arriving).serial)
      /\ UNCHANGED <<serverGeometry, serverFrameGeometry, serverInput, shaded,
                     alreadyDecorated, frameHeld, configures, syncWait,
                     xFrame, xWrapper, xClient, unanswered>>
  BY DEF HandleFrameConfigure
<1>3. arriving \in Seq(Messages)
  BY <1>1 DEF FitInv, NumbersFit
<1> DEFINE first == arriving[1]
           n == Len(arriving) - 1
<1>4. /\ arriving' \in Seq(Messages) /\ Len(arriving) \in Nat \ {0}
      /\ DOMAIN arriving = 1 .. Len(arriving) /\ DOMAIN arriving' = 1 .. n
      /\ first \in Messages /\ Head(arriving) = first
      /\ \A i \in 1 .. n : arriving'[i] = arriving[i + 1]
      /\ \A i \in 1 .. Len(arriving) : i = 1 \/ i - 1 \in 1 .. n
  BY <1>2, <1>3, TailPlaces
<1>5. /\ first.type = "Configure" /\ first.span \in Spans /\ first.serial \in Nat
  <2>1. first.type = "Configure"
    BY <1>4 DEF HandleFrameConfigure
  <2>2. first \in [type : {"Configure"}, span : Spans, serial : Nat]
    <3>1. "Alarm" # "Configure"
      OBVIOUS
    <3> QED
      BY <1>4, <2>1, <3>1 DEF Messages
  <2> QED
    BY <2>1, <2>2
<1>6. Tells(1) /\ 1 \in DOMAIN arriving
  BY <1>4, <1>5 DEF Tells
<1>7. pendingConfigures' = pendingConfigures \ {first.serial}
  <2>1. first.serial \in pendingConfigures
    BY <1>1, <1>6 DEF TellsInv, NotifyExpected, Tells
  <2> QED
    BY <1>2, <1>4, <2>1 DEF PendingAfter
<1>8. /\ ClientWithin(first.span) \in Shapes
      /\ syncGeometry' = ClientWithin(first.span)
      /\ geometry' = IF syncWait THEN geometry ELSE syncGeometry'
  <2>1. /\ serverGeometry.size \in Int /\ serverGeometry.border \in Int
        /\ serverInput.top \in Int /\ serverInput.bottom \in Int
    BY <1>1 DEF FitInv, NumbersFit, Shapes, Extents
  <2>2. first.span.pos \in Int /\ first.span.size \in Int
    BY <1>5 DEF Spans
  <2>3. ClientWithin(first.span) \in Shapes
    BY <2>1, <2>2 DEF ClientWithin, Shapes, Extent
  <2> QED
    BY <1>4, <2>3 DEF HandleFrameConfigure, Adopt
<1> HIDE DEF first, n
<1>9. FitInv'
  <2>1. NumbersFit'
    BY <1>1, <1>2, <1>4, <1>7, <1>8 DEF FitInv, NumbersFit
  <2>2. FrameFollows' /\ WindowsFit'
    BY <1>1, <1>2 DEF FitInv, FrameFollows, WindowsFit
  <2> QED
    BY <2>1, <2>2 DEF FitInv
<1>10. \A i \in 1 .. n : i + 1 \in DOMAIN arriving /\ (Tells(i)' <=> Tells(i + 1))
  BY <1>4 DEF Tells, n
<1>11. SerialsGrow'
  <2>1. \A i \in 1 .. n : Tells(i)' => arriving'[i].serial <= configures'
    BY <1>1, <1>2, <1>4, <1>10 DEF TellsInv, SerialsGrow
  <2>2. ASSUME NEW i \in 1 .. n, NEW j \in 1 .. n, i < j, Tells(i)', Tells(j)'
        PROVE  arriving'[i].serial < arriving'[j].serial
    <3>1. i + 1 < j + 1 /\ i + 1 \in DOMAIN arriving /\ j + 1 \in DOMAIN arriving
      BY <1>10, <2>2
    <3>2. arriving[i + 1].serial < arriving[j + 1].serial
      BY <1>1, <1>10, <2>2, <3>1 DEF TellsInv, SerialsGrow
    <3> QED
      BY <1>4, <3>2
  <2> QED
    BY <1>4, <2>1, <2>2 DEF SerialsGrow, Tells
<1>12. NotifyExpected'
  <2> SUFFICES ASSUME NEW i \in 1 .. n, arriving'[i].type = "Configure"
               PROVE  arriving'[i].serial \in pendingConfigures'
    BY <1>4 DEF NotifyExpected
  <2>1. Tells(i + 1) /\ i + 1 \in DOMAIN arriving /\ 1 < i + 1
    BY <1>4, <1>10 DEF Tells
  <2>2. first.serial < arriving[i + 1].serial
    BY <1>1, <1>6, <2>1 DEF TellsInv, SerialsGrow, first
  <2>3. arriving[i + 1].serial \in pendingConfigures
    BY <1>1, <2>1 DEF TellsInv, NotifyExpected, Tells
  <2>4. arriving[i + 1].serial \in Nat
    BY <1>1, <2>3 DEF FitInv, NumbersFit
  <2> QED
    BY <1>4, <1>5, <1>7, <2>2, <2>3, <2>4
<1>13. LastTells'
  <2> SUFFICES ASSUME NEW i \in 1 .. n, Tells(i)',
                      \A j \in 1 .. n : i < j => ~ Tells(j)'
               PROVE  arriving'[i].span = xFrame'
    BY <1>4 DEF LastTells, Tells
  <2>1. i + 1 \in DOMAIN arriving /\ Tells(i + 1)
    BY <1>10
  <2>2. ASSUME NEW j \in DOMAIN arriving, i + 1 < j
        PROVE  ~ Tells(j)
    <3>1. j - 1 \in 1 .. n /\ i < j - 1 /\ (j - 1) + 1 = j
      BY <1>4, <2>2
    <3> QED
      BY <1>10, <3>1
  <2>3. arriving[i + 1].span = xFrame
    BY <1>1, <2>1, <2>2 DEF TellsInv, LastTells
  <2> QED
    BY <1>2, <1>4, <2>3
<1>14. Heard'
  <2> SUFFICES ASSUME \A i \in DOMAIN arriving' : ~ Tells(i)'
               PROVE  syncGeometry' = ClientWithin(xFrame)'
    BY DEF Heard
  <2>1. ASSUME NEW j \in DOMAIN arriving, 1 < j
        PROVE  ~ Tells(j)
    <3>1. j \in 1 .. Len(arriving) /\ j # 1 /\ (j - 1) + 1 = j
      BY <1>4, <2>1
    <3>2. j - 1 \in 1 .. n
      BY <1>4, <3>1
    <3> QED
      BY <1>4, <1>10, <3>1, <3>2
  <2>2. first.span = xFrame
    BY <1>1, <1>6, <2>1 DEF TellsInv, LastTells, first
  <2> QED
    BY <1>2, <1>8, <2>2 DEF ClientWithin
<1>15. SyncKept'
  BY <1>1, <1>2, <1>8 DEF SyncKept
<1> QED
  BY <1>9, <1>11, <1>12, <1>13, <1>14, <1>15 DEF FramesInv, TellsInv

LEMMA AlarmsKeepInv ==
  ASSUME FramesInv, HandleAlarm \/ SyncTimeout \/ ClientAnswers \/ HoldBuffer
  PROVE  FramesInv'
<1>1. FitInv /\ TellsInv /\ SyncKept /\ Heard
  BY DEF FramesInv, TellsInv
<1>2. UNCHANGED <<planVars, gravity, syncGeometry>>
  BY DEF HandleAlarm, SyncTimeout, ClientAnswers, HoldBuffer, EndSync, syncVars
<1>3. SyncKept' /\ geometry' \in Shapes
  <2>1. CASE HandleAlarm \/ SyncTimeout
    BY <1>1, <1>2, <2>1 DEF HandleAlarm, SyncTimeout, EndSync, SyncKept, FitInv, NumbersFit
  <2>2. CASE ClientAnswers \/ HoldBuffer
    BY <1>1, <2>2 DEF ClientAnswers, HoldBuffer, syncVars, SyncKept, FitInv, NumbersFit
  <2> QED
    BY <2>1, <2>2
<1>4. ASSUME arriving' \in Seq(Messages)
      PROVE  FitInv'
  BY <1>1, <1>2, <1>3, <1>4 DEF FitInv, NumbersFit, FrameFollows, WindowsFit, planVars
<1>5. ASSUME arriving' = arriving
      PROVE  FramesInv'
  <2>1. FitInv'
    BY <1>1, <1>4, <1>5 DEF FitInv, NumbersFit
  <2>2. TellsInv'
    BY <1>1, <1>2, <1>5, TellsUnchanged DEF planVars
  <2>3. Heard'
    BY <1>1, <1>2, <1>5 DEF Heard, Tells, ClientWithin, planVars
  <2> QED
    BY <1>3, <2>1, <2>2, <2>3 DEF FramesInv, TellsInv
<1>6. CASE HandleAlarm
  <2>1. /\ arriving # << >> /\ arriving' = Tail(arriving)
        /\ arriving \in Seq(Messages)
    BY <1>1, <1>6 DEF HandleAlarm, FitInv, NumbersFit
  <2> DEFINE n == Len(arriving) - 1
  <2>2. /\ arriving' \in Seq(Messages) /\ Len(arriving) \in Nat \ {0}
        /\ DOMAIN arriving = 1 .. Len(arriving) /\ DOMAIN arriving' = 1 .. n
        /\ Head(arriving) = arriving[1]
        /\ \A i \in 1 .. n : arriving'[i] = arriving[i + 1]
        /\ \A i \in 1 .. Len(arriving) : i = 1 \/ i - 1 \in 1 .. n
    BY <2>1, TailPlaces
  <2>3. ~ Tells(1)
    BY <1>6, <2>2 DEF HandleAlarm, Tells
  <2>4. \A i \in 1 .. n : i + 1 \in DOMAIN arriving /\ (Tells(i)' <=> Tells(i + 1))
    BY <2>2 DEF Tells
  <2> HIDE DEF n
  <2>5. ASSUME NEW j \in DOMAIN arriving, Tells(j)
        PROVE  j - 1 \in 1 .. n /\ (j - 1) + 1 = j
    BY <2>2, <2>3, <2>5
  <2>6. SerialsGrow'
    <3>1. \A i \in 1 .. n : Tells(i)' => arriving'[i].serial <= configures'
      BY <1>1, <1>2, <2>2, <2>4 DEF TellsInv, SerialsGrow, planVars
    <3>2. ASSUME NEW i \in 1 .. n, NEW j \in 1 .. n, i < j, Tells(i)', Tells(j)'
          PROVE  arriving'[i].serial < arriving'[j].serial
      <4>1. i + 1 < j + 1 /\ i + 1 \in DOMAIN arriving /\ j + 1 \in DOMAIN arriving
        BY <2>4, <3>2
      <4>2. arriving[i + 1].serial < arriving[j + 1].serial
        BY <1>1, <2>4, <3>2, <4>1 DEF TellsInv, SerialsGrow
      <4> QED
        BY <2>2, <4>2
    <3> QED
      BY <2>2, <3>1, <3>2 DEF SerialsGrow, Tells
  <2>7. NotifyExpected'
    <3> SUFFICES ASSUME NEW i \in 1 .. n, arriving'[i].type = "Configure"
                 PROVE  arriving'[i].serial \in pendingConfigures'
      BY <2>2 DEF NotifyExpected
    <3>1. Tells(i + 1) /\ i + 1 \in DOMAIN arriving
      BY <2>2, <2>4 DEF Tells
    <3> QED
      BY <1>1, <1>2, <2>2, <3>1 DEF TellsInv, NotifyExpected, Tells, planVars
  <2>8. LastTells'
    <3> SUFFICES ASSUME NEW i \in 1 .. n, Tells(i)',
                        \A j \in 1 .. n : i < j => ~ Tells(j)'
                 PROVE  arriving'[i].span = xFrame'
      BY <2>2 DEF LastTells, Tells
    <3>1. i + 1 \in DOMAIN arriving /\ Tells(i + 1)
      BY <2>4
    <3>2. ASSUME NEW j \in DOMAIN arriving, i + 1 < j
          PROVE  ~ Tells(j)
      <4>1. Tells(j) => j - 1 \in 1 .. n /\ i < j - 1 /\ (j - 1) + 1 = j
        BY <2>2, <2>5, <3>2
      <4> QED
        BY <2>4, <4>1
    <3>3. arriving[i + 1].span = xFrame
      BY <1>1, <3>1, <3>2 DEF TellsInv, LastTells
    <3> QED
      BY <1>2, <2>2, <3>3 DEF planVars
  <2>9. Heard'
    <3>1. ASSUME \A i \in DOMAIN arriving' : ~ Tells(i)', NEW j \in DOMAIN arriving
          PROVE  ~ Tells(j)
      <4>1. Tells(j) => j - 1 \in 1 .. n /\ (j - 1) + 1 = j
        BY <2>5
      <4> QED
        BY <2>2, <2>4, <3>1, <4>1
    <3>2. ClientWithin(xFrame)' = ClientWithin(xFrame)
      BY <1>2 DEF ClientWithin, planVars
    <3> QED
      BY <1>1, <1>2, <3>1, <3>2 DEF Heard, planVars
  <2> QED
    BY <1>3, <1>4, <2>2, <2>6, <2>7, <2>8, <2>9 DEF FramesInv, TellsInv
<1>7. CASE ClientAnswers
  <2> DEFINE m == [type |-> "Alarm"]
             n == Len(arriving) + 1
  <2>1. arriving' = Append(arriving, m) /\ arriving \in Seq(Messages) /\ m \in Messages
    BY <1>1, <1>7 DEF ClientAnswers, FitInv, NumbersFit, Messages
  <2>2. m.type # "Configure"
    OBVIOUS
  <2> HIDE DEF m
  <2>3. /\ arriving' \in Seq(Messages) /\ Len(arriving) \in Nat
        /\ DOMAIN arriving = 1 .. Len(arriving) /\ DOMAIN arriving' = 1 .. n
        /\ arriving'[n] = m
        /\ \A i \in 1 .. Len(arriving) : arriving'[i] = arriving[i]
        /\ \A i \in 1 .. n : i = n \/ i \in 1 .. Len(arriving)
        /\ \A i \in 1 .. Len(arriving) : i \in 1 .. n
    BY <2>1
  <2> HIDE DEF n
  <2>4. arriving'[n].type # "Configure"
    BY <2>2, <2>3
  <2>5. \A i \in 1 .. Len(arriving) : Tells(i)' <=> Tells(i)
    BY <2>3 DEF Tells
  <2>6. SerialsGrow'
    <3>1. ASSUME NEW i \in 1 .. n, Tells(i)'
          PROVE  i \in 1 .. Len(arriving) /\ Tells(i) /\ arriving'[i] = arriving[i]
      BY <2>3, <2>4, <2>5, <3>1 DEF Tells
    <3>2. \A i \in 1 .. n : Tells(i)' => arriving'[i].serial <= configures'
      BY <1>1, <1>2, <2>3, <3>1 DEF TellsInv, SerialsGrow, planVars
    <3>3. ASSUME NEW i \in 1 .. n, NEW j \in 1 .. n, i < j, Tells(i)', Tells(j)'
          PROVE  arriving'[i].serial < arriving'[j].serial
      BY <1>1, <2>3, <3>1, <3>3 DEF TellsInv, SerialsGrow
    <3> QED
      BY <2>3, <3>2, <3>3 DEF SerialsGrow, Tells
  <2>7. NotifyExpected'
    BY <1>1, <1>2, <2>2, <2>3 DEF TellsInv, NotifyExpected, planVars
  <2>8. LastTells'
    <3> SUFFICES ASSUME NEW i \in 1 .. n, Tells(i)',
                        \A j \in 1 .. n : i < j => ~ Tells(j)'
                 PROVE  arriving'[i].span = xFrame'
      BY <2>3 DEF LastTells, Tells
    <3>1. i \in 1 .. Len(arriving) /\ Tells(i)
      BY <2>3, <2>4, <2>5 DEF Tells
    <3>2. \A j \in DOMAIN arriving : i < j => ~ Tells(j)
      BY <2>3, <2>5
    <3> QED
      BY <1>1, <1>2, <2>3, <3>1, <3>2 DEF TellsInv, LastTells, planVars
  <2>9. Heard'
    <3>1. ASSUME \A i \in DOMAIN arriving' : ~ Tells(i)', NEW j \in DOMAIN arriving
          PROVE  ~ Tells(j)
      BY <2>3, <2>5, <3>1
    <3>2. ClientWithin(xFrame)' = ClientWithin(xFrame)
      BY <1>2 DEF ClientWithin, planVars
    <3> QED
      BY <1>1, <1>2, <3>1, <3>2 DEF Heard, planVars
  <2> QED
    BY <1>3, <1>4, <2>3, <2>6, <2>7, <2>8, <2>9 DEF FramesInv, TellsInv
<1>8. CASE SyncTimeout \/ HoldBuffer
  <2>1. arriving' = arriving
    BY <1>8 DEF SyncTimeout, HoldBuffer
  <2> QED
    BY <1>5, <2>1
<1> QED
  BY <1>6, <1>7, <1>8

LEMMA FramesInitially == FramesInit => FramesInv
<1> SUFFICES ASSUME FramesInit
             PROVE  FramesInv
  OBVIOUS
<1>1. /\ serverGeometry \in Shapes /\ serverGeometry.size > 0 /\ serverGeometry.border = 0
      /\ serverGeometry.pos \in Int /\ serverGeometry.size \in Int
  <2>1. serverGeometry \in [pos : Places, size : Sizes, border : {0}]
    BY DEF FramesInit
  <2>2. Places \subseteq Int /\ Sizes \subseteq Nat \ {0}
    BY SizesAssumption
  <2>3. /\ serverGeometry.pos \in Int /\ serverGeometry.size \in Nat \ {0}
        /\ serverGeometry.border = 0
    BY <2>1, <2>2
  <2>4. serverGeometry \in Shapes
    BY <2>1, <2>3 DEF Shapes
  <2> QED
    BY <2>3, <2>4
<1>2. /\ geometry = serverGeometry /\ syncGeometry = serverGeometry
      /\ serverInput = [top |-> 0, bottom |-> 0]
      /\ serverFrameGeometry = [pos |-> serverGeometry.pos, size |-> serverGeometry.size]
      /\ xFrame = serverFrameGeometry
      /\ xWrapper = [pos |-> 0, size |-> serverGeometry.size]
      /\ xClient = serverGeometry.size /\ ~ shaded /\ ~ alreadyDecorated
      /\ pendingConfigures = {} /\ configures = 0 /\ arriving = << >>
  BY DEF FramesInit
<1>3. arriving \in Seq(Messages) /\ DOMAIN arriving = {}
  BY <1>2
<1>4. FrameAround(serverGeometry, serverInput, shaded) = serverFrameGeometry
  BY <1>1, <1>2 DEF FrameAround, Extent
<1>5. FitInv
  BY <1>1, <1>2, <1>3, <1>4 DEF FitInv, NumbersFit, FrameFollows, WindowsFit, Spans, Extents
<1>6. ClientWithin(xFrame) = serverGeometry
  <2>1. ClientWithin(xFrame) =
           [pos |-> serverGeometry.pos, size |-> serverGeometry.size, border |-> 0]
    BY <1>1, <1>2 DEF ClientWithin, Extent
  <2> QED
    BY <1>1, <2>1 DEF Shapes
<1> QED
  BY <1>2, <1>3, <1>5, <1>6 DEF FramesInv, SerialsGrow, NotifyExpected, LastTells,
                                SyncKept, Heard

LEMMA FramesStep == FramesInv /\ [FramesNext]_frameVars => FramesInv'
<1> SUFFICES ASSUME FramesInv, [FramesNext]_frameVars
             PROVE  FramesInv'
  OBVIOUS
<1>1. CASE UNCHANGED frameVars
  BY <1>1 DEF frameVars, planVars, syncVars, FramesInv, FitInv, NumbersFit, FrameFollows,
              WindowsFit, SerialsGrow, NotifyExpected, LastTells, SyncKept, Heard,
              Tells, ClientWithin
<1> QED
  BY <1>1, MoveResizeKeepsInv, SetBorderKeepsInv, ShadeKeepsInv, SetExtentsKeepsInv,
     ReleaseBufferKeepsInv, HandleFrameConfigureKeepsInv, AlarmsKeepInv DEF FramesNext

THEOREM FramesInvariant == FramesSpec => []FramesInv
<1>1. FramesInit => FramesInv
  BY FramesInitially
<1>2. FramesInv /\ [FramesNext]_frameVars => FramesInv'
  BY FramesStep
<1> QED
  BY <1>1, <1>2, PTL DEF FramesSpec

(* Whatever reconfigureXWindow leaves out of its requests, the server's    *)
(* three windows fit into each other, but for a held move of the frame.    *)
THEOREM WindowsAlwaysFit == FramesSpec => []WindowsFit
<1>1. FramesInv => WindowsFit
  BY DEF FramesInv, FitInv
<1> QED
  BY <1>1, FramesInvariant, PTL

(* configureFrame expects every event of the frame it reads.               *)
THEOREM NotifiesAreExpected == FramesSpec => []NotifyExpected
<1>1. FramesInv => NotifyExpected
  BY DEF FramesInv
<1> QED
  BY <1>1, FramesInvariant, PTL

(* With everything sent and heard, compiz draws the window where and as    *)
(* large as it asked for, whatever became of the sync requests: for a      *)
(* window without border, not shaded, whose client did not move inside its *)
(* frame since.                                                            *)
THEOREM GeometryAgreesInTheEnd == FramesSpec => []GeometrySettles
<1>1. FramesInv => GeometrySettles
  <2> SUFFICES ASSUME FramesInv, arriving = << >>, ~ frameHeld, ~ syncWait,
                      ~ unanswered, ~ shaded, serverGeometry.border = 0
               PROVE  geometry = serverGeometry
    BY DEF GeometrySettles
  <2>1. geometry = ClientWithin(xFrame)
    BY DEF FramesInv, SyncKept, Heard
  <2>2. /\ serverGeometry \in Shapes /\ serverInput \in Extents
        /\ serverGeometry.pos \in Int /\ serverGeometry.size \in Int
        /\ serverInput.top \in Int /\ serverInput.bottom \in Int
    BY DEF FramesInv, FitInv, NumbersFit, Shapes, Extents
  <2>3. /\ xFrame.pos = serverGeometry.pos - serverInput.top
        /\ xFrame.size = serverGeometry.size + (serverInput.top + serverInput.bottom)
    BY <2>2 DEF FramesInv, FitInv, WindowsFit, FrameAround, Extent
  <2>4. ClientWithin(xFrame) =
           [pos |-> serverGeometry.pos, size |-> serverGeometry.size, border |-> 0]
    BY <2>2, <2>3 DEF ClientWithin, Extent
  <2> QED
    BY <2>1, <2>2, <2>4 DEF Shapes
<1> QED
  BY <1>1, FramesInvariant, PTL
=============================================================================
