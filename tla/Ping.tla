-------------------------------- MODULE Ping --------------------------------
(***************************************************************************)
(* Pinging clients and the force-quit dialog (src/src/window.cpp: close,   *)
(* handlePingTimeout, handlePing, map; src/src/screen.cpp: the ping timer; *)
(* src/src/event.cpp: the answer).                                         *)
(*                                                                         *)
(* At every expiry of a timer compiz declares dead the windows that have   *)
(* not answered since the last expiry, and pings those that take part.     *)
(* The answer carries the ping's number, which is not looked at: any       *)
(* answer counts for the latest ping.  A window asked to close that does   *)
(* not answer gets a dialog; the toolkit that shows it is external.        *)
(***************************************************************************)
EXTENDS Naturals

CONSTANTS
    Pinged,     \* windows of type normal
    MaxPings,   \* bound: expiries of the ping timer
    MaxCloses   \* bound: requests to close each window

ASSUME PingAssumption == MaxPings \in Nat \ {0} /\ MaxCloses \in Nat

VARIABLES
    lastPing,              \* the number of the last ping
    lastPong,              \* per window, the ping it is known to have answered
    alive,                 \* the windows that are not declared dead
    viewable, takesPings,  \* map_state; WM_PROTOCOLS has the ping protocol
    transient,             \* transientFor is set
    closeRequests,         \* per window, requests since it was last dead
    lastCloseRequestTime,  \* the windows whose time is not 0
    dialog,                \* the windows the toolkit shows the dialog of
    awaited,               \* per window, pings on their way and not answered
    closes,                \* per window, the requests made, for the bound
    heard, pinged,         \* history: answered, pinged at the last expiry or after
    excused                \* history: mapped while dead, so declared alive
                           \* without an answer; or joined after the last expiry

pingVars == <<lastPing, lastPong, alive, viewable, takesPings, transient,
              closeRequests, lastCloseRequestTime, dialog, awaited, closes,
              heard, pinged, excused>>

PingTypeOK ==
    /\ lastPing \in 1 .. MaxPings + 1
    /\ lastPong \in [Pinged -> 1 .. MaxPings + 1]
    /\ closeRequests \in [Pinged -> 0 .. MaxCloses]
    /\ awaited \in [Pinged -> 0 .. MaxPings]
    /\ closes \in [Pinged -> 0 .. MaxCloses]
    /\ \A windows \in {alive, viewable, takesPings, transient,
                       lastCloseRequestTime, dialog, heard, pinged} :
          windows \subseteq Pinged
    /\ excused \in [remapped : SUBSET Pinged, joined : SUBSET Pinged]

PingInit ==
    /\ lastPing = 1 /\ lastPong = [w \in Pinged |-> 1]
    /\ alive = Pinged /\ viewable = {}
    /\ takesPings \in SUBSET Pinged /\ transient = {}
    /\ closeRequests = [w \in Pinged |-> 0] /\ lastCloseRequestTime = {}
    /\ dialog = {} /\ awaited = [w \in Pinged |-> 0]
    /\ closes = [w \in Pinged |-> 0]
    /\ heard = {} /\ pinged = {}
    /\ excused = [remapped |-> {}, joined |-> {}]

-----------------------------------------------------------------------------
(* handlePingTimeout: for every window that takes part, then the ping.     *)

TakesPart == {w \in viewable \cap takesPings : w \notin transient}

Silent == {w \in TakesPart \cap alive : lastPong[w] < lastPing}

Mourned == {w \in Silent : closeRequests[w] > 0}

(* Mutant of DeclareDead: with the dialog up, the time of the last request *)
(* to close is forgotten instead of their number.                          *)
DeclareDeadTimeless ==
    /\ alive' = alive \ Silent
    /\ dialog' = dialog \union Mourned
    /\ lastCloseRequestTime' = lastCloseRequestTime \ Mourned
    /\ UNCHANGED closeRequests

DeclareDead ==
    /\ alive' = alive \ Silent
    /\ dialog' = dialog \union Mourned
    /\ closeRequests' = [w \in Pinged |->
                            IF w \in Silent THEN 0 ELSE closeRequests[w]]
    /\ UNCHANGED lastCloseRequestTime

PingTimeout ==
    /\ lastPing <= MaxPings
    /\ DeclareDead
    /\ lastPing' = lastPing + 1
    /\ awaited' = [w \in Pinged |->
                         awaited[w] + IF w \in TakesPart THEN 1 ELSE 0]
    /\ heard' = {} /\ pinged' = TakesPart
    /\ excused' = [excused EXCEPT !.joined = {}]
    /\ UNCHANGED <<lastPong, viewable, takesPings, transient, closes>>

(* handlePing.  An answer to an earlier ping may arrive long after it.     *)
HandlePing(w) ==
    /\ awaited[w] > 0
    /\ awaited' = [awaited EXCEPT ![w] = @ - 1]
    /\ lastPong' = [lastPong EXCEPT ![w] = lastPing]
    /\ alive' = alive \union {w}
    /\ IF w \in alive THEN UNCHANGED <<dialog, lastCloseRequestTime>>
       ELSE /\ dialog' = IF w \in lastCloseRequestTime THEN dialog \ {w} ELSE dialog
            /\ lastCloseRequestTime' = lastCloseRequestTime \ {w}
    /\ heard' = heard \union {w}
    /\ excused' = IF w \in alive THEN excused
                  ELSE [excused EXCEPT !.remapped = @ \ {w}]
    /\ UNCHANGED <<lastPing, viewable, takesPings, transient, closeRequests,
                   closes, pinged>>

(* close.  A live window is asked or killed, which does not matter here; a *)
(* dead one gets the dialog at once.                                       *)
CloseWindow(w) ==
    /\ closes[w] < MaxCloses
    /\ closes' = [closes EXCEPT ![w] = @ + 1]
    /\ lastCloseRequestTime' = lastCloseRequestTime \union {w}
    /\ IF w \in alive
       THEN /\ closeRequests' = [closeRequests EXCEPT ![w] = @ + 1]
            /\ UNCHANGED dialog
       ELSE dialog' = dialog \union {w} /\ UNCHANGED closeRequests
    /\ UNCHANGED <<lastPing, lastPong, alive, viewable, takesPings, transient,
                   awaited, heard, pinged, excused>>

(* Mutant of MapWindow: lastPong is not brought up to date.                *)
MapWindowUnheard(w) ==
    /\ w \notin viewable
    /\ viewable' = viewable \union {w}
    /\ alive' = alive \union {w}
    /\ excused' = IF w \in alive THEN excused
                  ELSE [excused EXCEPT !.remapped = @ \union {w}]
    /\ UNCHANGED <<lastPing, lastPong, takesPings, transient, closeRequests,
                   lastCloseRequestTime, dialog, awaited, closes, heard, pinged>>

(* map.  The window starts afresh, but for a dialog that is up.            *)
MapWindow(w) ==
    /\ w \notin viewable
    /\ viewable' = viewable \union {w}
    /\ alive' = alive \union {w}
    /\ lastPong' = [lastPong EXCEPT ![w] = lastPing]
    /\ excused' = IF w \in alive THEN excused
                  ELSE [excused EXCEPT !.remapped = @ \union {w}]
    /\ UNCHANGED <<lastPing, takesPings, transient, closeRequests,
                   lastCloseRequestTime, dialog, awaited, closes, heard, pinged>>

UnmapWindow(w) ==
    /\ w \in viewable
    /\ viewable' = viewable \ {w}
    /\ UNCHANGED <<lastPing, lastPong, alive, takesPings, transient,
                   closeRequests, lastCloseRequestTime, dialog, awaited,
                   closes, heard, pinged, excused>>

(* The client changes WM_PROTOCOLS or WM_TRANSIENT_FOR.                    *)
ChangeProperty(w) ==
    /\ \/ /\ takesPings' = (takesPings \union {w}) \ (takesPings \cap {w})
          /\ UNCHANGED transient
       \/ /\ transient' = (transient \union {w}) \ (transient \cap {w})
          /\ UNCHANGED takesPings
    /\ excused' = [excused EXCEPT !.joined = @ \union {w}]
    /\ UNCHANGED <<lastPing, lastPong, alive, viewable, closeRequests,
                   lastCloseRequestTime, dialog, awaited, closes, heard, pinged>>

PingNext ==
    \/ PingTimeout
    \/ \E w \in Pinged :
          \/ HandlePing(w) \/ CloseWindow(w)
          \/ MapWindow(w) \/ UnmapWindow(w) \/ ChangeProperty(w)

PingSpec == PingInit /\ [][PingNext]_pingVars

-----------------------------------------------------------------------------
(* A window whose dialog is up is dead, or was mapped anew while it was    *)
(* dead, which leaves the dialog alone; and when it answers, the time of   *)
(* the last request, without which the dialog would not be taken down, is  *)
(* still there.                                                            *)
DialogAnswerable ==
    \A w \in dialog : w \in lastCloseRequestTime /\ (w \in alive => w \in excused.remapped)

(* A window is declared dead only when it was pinged at the last expiry of *)
(* the timer and did not answer since, whether that ping or an older one;  *)
(* a window that came to take part since then, by a change of its          *)
(* properties, is excepted: the code does not know it was not pinged.      *)
DeadWhenSilent ==
    [][\A w \in alive \ alive' :
          w \notin heard /\ (w \in pinged \/ w \in excused.joined)]_pingVars
=============================================================================
