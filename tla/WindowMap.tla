------------------------------ MODULE WindowMap ------------------------------
(***************************************************************************)
(* Mapping, hiding and withdrawing one managed window (src/src/window.cpp: *)
(* map, unmap, withdraw, hide, show, minimize, processMap, reparent,       *)
(* unreparent; src/src/event.cpp: MapRequest, MapNotify, UnmapNotify).     *)
(*                                                                         *)
(* The X server is asynchronous: compiz asks it to map or unmap a window   *)
(* and learns from an event, later, that this has happened; meanwhile the  *)
(* client and the user go on.  What an UnmapNotify means (compiz hid the   *)
(* window, or its client withdrew it) is told from a count of the unmaps   *)
(* compiz asked for.  A plugin may keep a window viewable after it was     *)
(* unmapped, to animate it, by holding a reference.                        *)
(*                                                                         *)
(* Handlers run to the end before the next one, so each is one action; it  *)
(* is written as a function of the state s = [win, server, kept] because a *)
(* handler calls show and hide several times.                              *)
(***************************************************************************)
EXTENDS Integers, Sequences

CONSTANTS
    Operations, \* what users and plugins do to the window in this instance
    Desktops,   \* "current", "other" or "all": where a window can be
    MaxEvents,  \* bound on the events waiting in the queue when one is added
    MaxPending, \* bound on pendingUnmaps when somebody acts on the window
    MaxKept     \* bound on the unmap references plugins hold

ASSUME BoundsAssumption == MaxEvents \in Nat /\ MaxPending \in Nat /\ MaxKept \in Nat
ASSUME DesktopsAssumption ==
    "current" \in Desktops /\ Desktops \subseteq {"current", "other", "all"}

VARIABLES
    win,    \* the PrivateWindow
    server, \* what the X server knows of the window, and the event queue
    kept,   \* unmap references held by plugins
    wanted  \* history: the client asked for the window to be mapped

vars == <<win, server, kept, wanted>>

States == {"Normal", "Iconic", "Withdrawn"}
Events == {"MapRequest", "MapNotify", "UnmapNotify", "SyntheticUnmap"}

Windows == [managed : BOOLEAN, unmanaging : BOOLEAN,
            minimized : BOOLEAN, hidden : BOOLEAN,
            inShowDesktopMode : BOOLEAN,
            desktop : Desktops,
            hiddenState : BOOLEAN, shadedState : BOOLEAN, shaded : BOOLEAN,
            serverFrame : BOOLEAN, viewable : BOOLEAN,
            pendingMaps : BOOLEAN, pendingUnmaps : Nat, unmapRefCnt : Int,
            wmState : States]
Servers == [client : BOOLEAN, frame : BOOLEAN, wrapper : BOOLEAN,
            events : Seq(Events)]

TypeOK ==
    /\ win \in Windows /\ server \in Servers
    /\ kept \in 0 .. MaxKept
    /\ wanted \in BOOLEAN

Now == [win |-> win, server |-> server, kept |-> kept]

Become(s) == win' = s.win /\ server' = s.server /\ kept' = s.kept

-----------------------------------------------------------------------------
(* What compiz asks of the server                                          *)

Queue(s, e) == [s EXCEPT !.server.events = Append(@, e)]

(* XMapWindow and XUnmapWindow on the client window: an event only if the  *)
(* window was not already so.                                              *)
MapClient(s) ==
    IF s.server.client THEN s
    ELSE Queue([s EXCEPT !.server.client = TRUE], "MapNotify")

UnmapClient(s) ==
    IF ~ s.server.client THEN s
    ELSE Queue([s EXCEPT !.server.client = FALSE], "UnmapNotify")

(* PrivateWindow::reparent: a frame and a mapped wrapper around the client *)
(* window.  Event masks are cleared around it: it leaves no event behind.  *)
Reparent(s) ==
    IF s.win.serverFrame THEN s
    ELSE [s EXCEPT !.win.serverFrame = TRUE,
                   !.server.wrapper  = TRUE,
                   !.server.frame    = s.server.client \/ s.win.shaded]

(* PrivateWindow::unreparent: the client goes back to the root window,     *)
(* mapped or not as it was, and frame and wrapper are destroyed.           *)
Unreparent(s) ==
    [s EXCEPT !.win.serverFrame = FALSE,
              !.server.wrapper  = FALSE,
              !.server.frame    = FALSE]

-----------------------------------------------------------------------------
(* CompWindow::map, unmap and PrivateWindow::withdraw                      *)

Map(s) ==
    IF s.win.viewable THEN s
    ELSE [s EXCEPT !.win.pendingMaps = FALSE,
                   !.win.unmapRefCnt = 1,
                   !.win.viewable    = TRUE,
                   !.win.wmState     = "Normal",
                   !.win.shaded      = FALSE]

(* Mutant of Unmap: it returns once the gravity was reverted.              *)
UnmapEarly(s, keep) ==
    LET shaded == s.win.shaded
        off    == [s EXCEPT !.win.unmapRefCnt = @ + keep - 1,
                            !.kept            = @ + keep,
                            !.server.wrapper  = FALSE,
                            !.server.frame    = @ /\ shaded]
        bare   == IF s.win.serverFrame /\ ~ shaded THEN Unreparent(off) ELSE off
    IN  IF off.win.unmapRefCnt > 0 THEN off
        ELSE IF off.win.unmanaging THEN [off EXCEPT !.win.unmanaging = FALSE]
        ELSE [bare EXCEPT !.win.viewable = FALSE]

(* unmap: frame and wrapper are taken off the screen at once; the rest     *)
(* happens when the last reference is gone.  keep references are added by  *)
(* plugins in the BeforeUnmap and Close notifications.                     *)
Unmap(s, keep) ==
    LET shaded == s.win.shaded
        off    == [s EXCEPT !.win.unmapRefCnt = @ + keep - 1,
                            !.kept            = @ + keep,
                            !.server.wrapper  = FALSE,
                            !.server.frame    = @ /\ shaded]
        bare   == IF s.win.serverFrame /\ ~ shaded THEN Unreparent(off) ELSE off
    IN  IF off.win.unmapRefCnt > 0 THEN off
        ELSE [bare EXCEPT !.win.unmanaging = FALSE, !.win.viewable = FALSE]

Withdraw(s) ==
    [s EXCEPT !.win.wmState    = "Withdrawn",
              !.win.unmanaging = s.win.managed,
              !.win.managed    = FALSE]

(* Mutant of LetGo: the references are dropped and unmap is not called.    *)
LetGoForgotten(s) == [s EXCEPT !.kept = 0]

(* A plugin that holds references drops them all, each with unmap ().  All *)
(* unmap () does but count is the same done once or again, so this is one  *)
(* unmap () of a window with the last of them left.                        *)
LetGo(s) ==
    IF s.kept = 0 THEN s
    ELSE [Unmap([s EXCEPT !.win.unmapRefCnt = @ - (s.kept - 1)], 0) EXCEPT !.kept = 0]

-----------------------------------------------------------------------------
(* PrivateWindow::hide and show                                            *)

OnCurrentDesktop(w) == w.desktop # "other"

(* A reason to keep the window off the screen that is compiz's own.        *)
PutAway(w) == w.minimized \/ w.inShowDesktopMode \/ w.hidden

(* Mutant of Hide: the unmap is not counted.                               *)
HideUncounted(s) ==
    LET w      == s.win
        shaded == ~ PutAway(w) /\ OnCurrentDesktop(w)
        unroll == [s EXCEPT !.win.shaded   = shaded,
                            !.server.frame = @ /\ (shaded \/ ~ w.shadedState)]
    IN  IF ~ w.managed \/ (shaded /\ ~ w.shadedState) THEN s
        ELSE IF ~ w.pendingMaps /\ ~ w.viewable THEN unroll
        ELSE UnmapClient([unroll EXCEPT
                 !.win.hiddenState = @ \/ PutAway(w) \/ shaded,
                 !.server.frame    = @ /\ shaded])

(* hide: does nothing when there is no reason to hide; a window that is    *)
(* hidden because it is shaded keeps its frame.                            *)
Hide(s) ==
    LET w      == s.win
        shaded == ~ PutAway(w) /\ OnCurrentDesktop(w)
        unroll == [s EXCEPT !.win.shaded   = shaded,
                            !.server.frame = @ /\ (shaded \/ ~ w.shadedState)]
    IN  IF ~ w.managed \/ (shaded /\ ~ w.shadedState) THEN s
        ELSE IF ~ w.pendingMaps /\ ~ w.viewable THEN unroll
        ELSE UnmapClient([unroll EXCEPT
                 !.win.pendingUnmaps = @ + 1,
                 !.win.hiddenState   = @ \/ PutAway(w) \/ shaded,
                 !.server.frame      = @ /\ shaded])

(* show: only when nothing else keeps the window away; a shaded window     *)
(* gets no more than its frame.                                            *)
Show(s) ==
    LET w == s.win
    IN  IF ~ w.managed THEN s
        ELSE IF PutAway(w) \/ ~ OnCurrentDesktop(w)
        THEN [s EXCEPT !.win.hiddenState = @ /\ PutAway(w)]
        ELSE IF w.shadedState
        THEN [s EXCEPT !.win.shaded = TRUE, !.server.frame = w.serverFrame]
        ELSE LET free == LetGo(s)
             IN  MapClient([free EXCEPT !.win.pendingMaps = TRUE,
                                        !.win.hiddenState = FALSE,
                                        !.server.frame    = free.win.serverFrame,
                                        !.server.wrapper  = free.win.serverFrame])

Minimize(s) ==
    IF ~ s.win.managed \/ s.win.minimized THEN s
    ELSE Hide([s EXCEPT !.win.minimized = TRUE])

Unminimize(s) ==
    IF ~ s.win.minimized THEN s
    ELSE Show([s EXCEPT !.win.minimized = FALSE])

LeaveShowDesktopMode(s) ==
    IF ~ s.win.inShowDesktopMode THEN s
    ELSE Show([s EXCEPT !.win.inShowDesktopMode = FALSE])

(* showOrHideForDesktop: the window's desktop is now where d says.         *)
ShowOrHideForDesktop(s, d) ==
    IF d = "other" THEN Hide([s EXCEPT !.win.desktop = d])
    ELSE Show([s EXCEPT !.win.desktop = d])

(* setCurrentDesktop to the desktop of the window.                         *)
ShowItsDesktop(s) ==
    IF OnCurrentDesktop(s.win) THEN s ELSE ShowOrHideForDesktop(s, "current")

(* updateAttributes, the part that shades and unshades.                    *)
UpdateAttributes(s) ==
    IF ~ s.win.managed THEN s
    ELSE IF s.win.shadedState /\ ~ s.win.shaded THEN Hide(s)
    ELSE IF s.win.shaded THEN Show(s)
    ELSE s

(* processMap.  iconic: the hints ask for the iconic state; focus: the     *)
(* window may take the focus, which brings its desktop along.              *)
ProcessMap(s, iconic, focus) ==
    LET initiallyMinimized == iconic /\ ~ s.win.minimized
        framed   == IF initiallyMinimized THEN s ELSE Reparent(s)
        managed  == UpdateAttributes([framed EXCEPT !.win.managed = TRUE])
        restored == LeaveShowDesktopMode(
                       IF initiallyMinimized THEN managed ELSE Unminimize(managed))
        here     == IF focus THEN ShowItsDesktop(restored) ELSE restored
    IN  IF initiallyMinimized
        THEN [Minimize(restored) EXCEPT !.win.hiddenState = TRUE]
        ELSE IF here.win.hiddenState THEN here ELSE Show(here)

-----------------------------------------------------------------------------
(* Initial states: the window compiz finds or sees created (the CompWindow *)
(* constructor): a new one, one that is mapped already, one mapped that    *)
(* another window manager left iconic, and one iconic and unmapped, which  *)
(* _NET_WM_STATE may say is hidden.                                        *)

Created == [managed |-> FALSE, unmanaging |-> FALSE, minimized |-> FALSE,
            hidden |-> FALSE, inShowDesktopMode |-> FALSE,
            desktop |-> "current", hiddenState |-> FALSE,
            shadedState |-> FALSE, shaded |-> FALSE, serverFrame |-> FALSE,
            viewable |-> FALSE, pendingMaps |-> FALSE, pendingUnmaps |-> 0,
            unmapRefCnt |-> 1, wmState |-> "Withdrawn"]

Adopted(client, state, hidden) ==
    LET found  == [win    |-> [Created EXCEPT !.wmState = state],
                   server |-> [client |-> client, frame |-> FALSE,
                               wrapper |-> FALSE, events |-> <<>>],
                   kept   |-> 0]
        framed == [Reparent(found) EXCEPT !.win.managed = TRUE]
        shown  == Map([framed EXCEPT !.win.minimized   = (state = "Iconic"),
                                     !.win.pendingMaps = TRUE])
    IN  CASE ~ client /\ state # "Iconic" -> found
          [] ~ client /\ state = "Iconic" ->
                [framed EXCEPT !.win.minimized = hidden, !.win.hiddenState = hidden]
          [] client /\ state # "Iconic" -> shown
          [] client /\ state = "Iconic" ->
                UnmapClient([shown EXCEPT !.win.hiddenState   = TRUE,
                                          !.win.pendingUnmaps = 1,
                                          !.server.frame      = FALSE])

Init ==
    \E client, hidden \in BOOLEAN, state \in {"Withdrawn", "Iconic"} :
        LET s == Adopted(client, state, hidden)
        IN  /\ win = s.win /\ server = s.server /\ kept = s.kept
            /\ wanted = (client \/ state = "Iconic")

-----------------------------------------------------------------------------
(* The client                                                              *)

Room == Len(server.events) < MaxEvents

(* XMapWindow by the client is redirected to compiz.                       *)
ClientMap ==
    /\ Room /\ win.pendingUnmaps < MaxPending
    /\ ~ wanted
    /\ wanted' = TRUE
    /\ Become(IF server.client THEN Now ELSE Queue(Now, "MapRequest"))

(* XWithdrawWindow: an unmap and, whether or not it had an effect, a       *)
(* synthetic UnmapNotify (ICCCM 4.1.4).                                    *)
ClientWithdraw ==
    /\ Room
    /\ wanted
    /\ wanted' = FALSE
    /\ Become(Queue(UnmapClient(Now), "SyntheticUnmap"))

-----------------------------------------------------------------------------
(* Events                                                                  *)

Received == [Now EXCEPT !.server.events = Tail(@)]

Arrives(e) == server.events # <<>> /\ Head(server.events) = e /\ UNCHANGED wanted

(* Mutant of HandleMapRequest: a window that is not managed is unknown.    *)
HandleMapRequestUnknown(iconic, focus) ==
    /\ Arrives("MapRequest")
    /\ LET s == Received
           process == s.win.hiddenState => s.win.minimized \/ s.win.inShowDesktopMode
       IN  Become(IF ~ s.win.managed THEN MapClient(s)
                  ELSE IF process THEN ProcessMap(s, iconic, focus) ELSE s)

(* A window that is hidden by anything but minimizing or show desktop is   *)
(* only noted to be managed.                                               *)
HandleMapRequest(iconic, focus) ==
    /\ Arrives("MapRequest")
    /\ LET s == Received
           process == s.win.hiddenState => s.win.minimized \/ s.win.inShowDesktopMode
       IN  Become([(IF process THEN ProcessMap(s, iconic, focus) ELSE s)
                      EXCEPT !.win.managed = TRUE])

(* Mutant of HandleMapNotify: the window is not framed again.              *)
HandleMapNotifyBare ==
    /\ Arrives("MapNotify")
    /\ LET s == Received
           known == IF s.win.pendingMaps THEN [s EXCEPT !.win.managed = TRUE] ELSE s
       IN  Become(Map(LetGo(known)))

(* The window comes up.  A window that was unmapped, and so lost its frame,*)
(* gets another one, but only when compiz waits for a map.                 *)
HandleMapNotify ==
    /\ Arrives("MapNotify")
    /\ LET s == Received
           framed == IF ~ s.win.pendingMaps THEN s
                     ELSE [Reparent(s) EXCEPT !.win.managed = TRUE]
       IN  Become(Map(LetGo(framed)))

(* Mutant of Understood: WM_STATE stays Normal when compiz hides it.       *)
UnderstoodQuietly(s, synthetic) ==
    IF s.win.pendingUnmaps > 0
    THEN [s EXCEPT !.win.pendingUnmaps = @ - 1]
    ELSE IF s.win.hiddenState
    THEN Withdraw([s EXCEPT !.win.minimized = FALSE, !.win.hiddenState = FALSE])
    ELSE IF synthetic THEN s ELSE Withdraw(s)

(* Mutant of Understood: the count goes down whatever it is.               *)
UnderstoodUnguarded(s, synthetic) ==
    LET counted == [s EXCEPT !.win.pendingUnmaps = @ - 1]
    IN  IF s.win.pendingUnmaps > 0
        THEN [counted EXCEPT !.win.wmState = "Iconic"]
        ELSE IF s.win.hiddenState
        THEN Withdraw([counted EXCEPT !.win.minimized = FALSE, !.win.hiddenState = FALSE])
        ELSE IF synthetic THEN counted ELSE Withdraw(counted)

(* What an UnmapNotify says about the window: an unmap compiz asked for    *)
(* makes it iconic, any other withdraws it; a synthetic one counts only    *)
(* for a hidden window, because the real one was seen before it otherwise. *)
Understood(s, synthetic) ==
    IF s.win.pendingUnmaps > 0
    THEN [s EXCEPT !.win.wmState = "Iconic", !.win.pendingUnmaps = @ - 1]
    ELSE IF s.win.hiddenState
    THEN Withdraw([s EXCEPT !.win.minimized = FALSE, !.win.hiddenState = FALSE])
    ELSE IF synthetic THEN s ELSE Withdraw(s)

HandleUnmapNotify(keep) ==
    /\ Arrives("UnmapNotify")
    /\ kept + keep <= MaxKept
    /\ Become(Unmap(Understood(Received, FALSE), keep))

HandleSyntheticUnmap ==
    /\ Arrives("SyntheticUnmap")
    /\ Become(Understood(Received, TRUE))

(* The animation ends.                                                     *)
PluginLetsGo ==
    /\ kept > 0
    /\ Become(LetGo(Now))
    /\ UNCHANGED wanted

-----------------------------------------------------------------------------
(* The user and the plugins                                                *)

Operate(operation, s) ==
    /\ operation \in Operations
    /\ Room
    /\ win.pendingUnmaps < MaxPending
    /\ Become(s)
    /\ UNCHANGED wanted

(* WM_CHANGE_STATE, the minimize bindings, a pager.                        *)
MinimizeWindow   == win.managed /\ Operate("minimize", Minimize(Now))
UnminimizeWindow == win.minimized /\ Operate("minimize", Unminimize(Now))

(* CompWindow::hide and show, for plugins.                                 *)
HideWindow == Operate("hide", Hide([Now EXCEPT !.win.hidden = TRUE]))
ShowWindow == Operate("hide", Show([Now EXCEPT !.win.hidden = FALSE]))

(* CompWindow::focus, which decides whether show desktop takes a window.   *)
Focusable ==
    /\ win.managed /\ ~ win.unmanaging
    /\ OnCurrentDesktop(win)
    /\ win.shaded \/ ~ win.hiddenState

EnterShowDesktop ==
    /\ ~ win.inShowDesktopMode /\ Focusable
    /\ Operate("showdesktop", Hide([Now EXCEPT !.win.inShowDesktopMode = TRUE]))

LeaveShowDesktop ==
    /\ win.inShowDesktopMode
    /\ Operate("showdesktop", LeaveShowDesktopMode(Now))

(* setDesktop moves the window, setCurrentDesktop the user.                *)
SetDesktop(d) ==
    /\ d # win.desktop
    /\ Operate("desktop", ShowOrHideForDesktop(Now, d))

SetCurrentDesktop(d) ==
    /\ win.desktop # "all" /\ d # "all"
    /\ win.desktop = "current" => d = "other"
    /\ Operate("desktop", ShowOrHideForDesktop(Now, d))

(* shadeWin and the shaded bit of _NET_WM_STATE.                           *)
ToggleShade ==
    Operate("shade", UpdateAttributes([Now EXCEPT !.win.shadedState = ~ @]))

(* CompWindow::activate, without the focus and the transients.             *)
Activate ==
    LET shown == LeaveShowDesktopMode(Unminimize(ShowItsDesktop(Now)))
        bare  == [shown EXCEPT !.win.shadedState = FALSE]
    IN  Operate("activate",
            IF ~ shown.win.hiddenState THEN UpdateAttributes(shown)
            ELSE LET last == IF bare.win.shaded THEN Show(bare) ELSE bare
                 IN  IF last.win.hiddenState \/ ~ OnCurrentDesktop(last.win)
                     THEN last ELSE UpdateAttributes(last))

Handle ==
    \/ \E iconic, focus \in BOOLEAN : HandleMapRequest(iconic, focus)
    \/ HandleMapNotify
    \/ \E keep \in 0 .. MaxKept : HandleUnmapNotify(keep)
    \/ HandleSyntheticUnmap

Next ==
    \/ ClientMap \/ ClientWithdraw
    \/ Handle
    \/ PluginLetsGo
    \/ MinimizeWindow \/ UnminimizeWindow
    \/ HideWindow \/ ShowWindow
    \/ EnterShowDesktop \/ LeaveShowDesktop
    \/ \E d \in Desktops : SetDesktop(d)
    \/ \E d \in Desktops : SetCurrentDesktop(d)
    \/ ToggleShade
    \/ Activate

Spec == Init /\ [][Next]_vars

(* compiz handles the events of the server, and animations end.            *)
FairSpec == Spec /\ WF_vars(Handle) /\ WF_vars(PluginLetsGo)

-----------------------------------------------------------------------------
(* Properties                                                              *)

(* Everything the server did has been heard of, and no animation runs.     *)
Settled == server.events = <<>> /\ kept = 0

(* Once all is heard, compiz takes the window for viewable exactly when    *)
(* its client window is mapped: however the client, the user, plugins and  *)
(* late events overlap, nothing invisible is painted or focused and        *)
(* nothing mapped is left unpainted (map, unmap and their references).     *)
ViewAgrees == Settled => (win.viewable <=> server.client)

(* Once all is heard, the WM_STATE of a managed window, which pagers and   *)
(* the client read, is Normal exactly when it is viewable, although map (),*)
(* the count of pending unmaps and withdraw () each write it on their own. *)
WmStateAgrees ==
    Settled /\ win.managed => (win.viewable <=> win.wmState = "Normal")

(* A window that can be seen has its frame: "when it re-maps we need to    *)
(* reparent it" (the MapNotify handler).  Wherever the window was kept and *)
(* whoever unmapped it, reparent () and the two unmaps of the frame in     *)
(* hide () and unmap () leave it framed, with frame and wrapper mapped.    *)
FrameAgrees ==
    Settled /\ win.viewable => win.serverFrame /\ server.frame /\ server.wrapper

(* A window compiz does not manage is not on the screen: no order of       *)
(* withdrawing, animating and hiding leaves it there.                      *)
WithdrawnOff == Settled /\ ~ win.managed => ~ win.viewable

(* Only its client can withdraw a window: compiz stops managing it only    *)
(* while the synthetic UnmapNotify of a withdrawal is on its way, so no    *)
(* unmap compiz asked for is mistaken for one (pendingUnmaps).             *)
OnlyClientWithdraws ==
    [][win.managed /\ ~ win'.managed
          => \E i \in DOMAIN server.events : server.events[i] = "SyntheticUnmap"]_vars

(* A client that asks for its window to be mapped gets it managed, unless  *)
(* it thinks better of it, whatever state the window was left in.          *)
RequestHeard == wanted ~> (win.managed \/ ~ wanted)

(* "Iconic -> Withdrawn: The window is already unmapped so we need to      *)
(* check the synthetic UnmapNotify that comes and withdraw the window      *)
(* here" (the UnmapNotify handler): a window its client has withdrawn is   *)
(* not managed once all is heard.                                          *)
WithdrawalSeen == Settled /\ ~ wanted => ~ win.managed

=============================================================================
