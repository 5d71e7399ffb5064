------------------------------- MODULE Grabs -------------------------------
(***************************************************************************)
(* The stack of active grabs (src/src/screen.cpp: pushGrabGeneric,         *)
(* updateGrab, removeGrab; src/src/privatescreen.h: GrabList).             *)
(*                                                                         *)
(* Plugins push grabs of the pointer, the keyboard or both, each with a    *)
(* cursor, and remove them in any order.  compiz is one client of the X    *)
(* server, so it grabs each device once and has to remember what to keep,  *)
(* what to let go and which cursor to show.  Either device may be refused, *)
(* because another client has it.                                          *)
(***************************************************************************)
EXTENDS Naturals, Sequences, SequencesExt, FiniteSetsExt

CONSTANTS
    Handles,  \* the Grab objects that may exist at a time
    Cursors,
    NoCursor  \* what the server shows when the pointer is not grabbed

ASSUME CursorsAssumption == NoCursor \notin Cursors

VARIABLES
    grabs,         \* GrabList::grabs, the latest last
    pointerGrab,   \* the cursor of the server's pointer grab, or NoCursor
    keyboardGrab   \* the server has grabbed the keyboard for compiz

grabsVars == <<grabs, pointerGrab, keyboardGrab>>

GrabTypes == {{"pointer"}, {"keyboard"}, {"pointer", "keyboard"}}

Grab == [handle : Handles, type : GrabTypes, cursor : Cursors]

GrabsTypeOK ==
    /\ grabs \in Seq(Grab)
    /\ pointerGrab \in Cursors \union {NoCursor}
    /\ keyboardGrab \in BOOLEAN

GrabsInit ==
    /\ grabs = << >>
    /\ pointerGrab = NoCursor
    /\ keyboardGrab = FALSE

-----------------------------------------------------------------------------

HandlesOf(stack) == {stack[i].handle : i \in DOMAIN stack}

(* The positions of the grabs of a device.                                 *)
OfType(stack, device) == {i \in DOMAIN stack : device \in stack[i].type}

Has(stack, device) == OfType(stack, device) # {}

(* GrabList::topGrab.  Its find_if starts at the bottom of the list, so it *)
(* finds the oldest grab of the device.                                    *)
TopGrab(stack, device) == stack[Min(OfType(stack, device))]

PlaceOf(stack, handle) == CHOOSE i \in DOMAIN stack : stack[i].handle = handle

Without(stack, handle) == RemoveAt(stack, PlaceOf(stack, handle))

Named(stack, handle) == stack[PlaceOf(stack, handle)]

(* The cursor after the pointer was given up: that of the grab below, and  *)
(* without one the pointer is ungrabbed.                                   *)
CursorBelow(stack) ==
    IF Has(stack, "pointer") THEN TopGrab(stack, "pointer").cursor ELSE NoCursor

-----------------------------------------------------------------------------
(* pushGrabGeneric.  A device is asked for only if no grab has it; the     *)
(* pointer of a grab that has it already only changes its cursor.  With an *)
(* empty stack the code asks for both, which is the same.  If XGrabPointer *)
(* fails nothing changes.                                                  *)

Pushed(handle, type, cursor) ==
    /\ grabs' = Append(grabs, [handle |-> handle, type |-> type, cursor |-> cursor])
    /\ pointerGrab' = IF "pointer" \in type THEN cursor ELSE pointerGrab
    /\ keyboardGrab' = (keyboardGrab \/ "keyboard" \in type)

PushGrab(type, cursor) ==
    \E handle \in Handles \ HandlesOf(grabs) : Pushed(handle, type, cursor)

(* Mutant of PushFailsOnKeyboard: the pointer is always ungrabbed, as with *)
(* an empty stack.                                                         *)
PushFailsUngrabbing(type, cursor) ==
    /\ "keyboard" \in type /\ ~ Has(grabs, "keyboard")
    /\ pointerGrab' = IF "pointer" \in type THEN NoCursor ELSE pointerGrab
    /\ UNCHANGED <<grabs, keyboardGrab>>

(* XGrabPointer succeeded or was not needed, XGrabKeyboard fails: the      *)
(* pointer goes back to what it was and the caller gets no handle.         *)
PushFailsOnKeyboard(type, cursor) ==
    /\ "keyboard" \in type /\ ~ Has(grabs, "keyboard")
    /\ pointerGrab' = IF "pointer" \in type THEN CursorBelow(grabs) ELSE pointerGrab
    /\ UNCHANGED <<grabs, keyboardGrab>>

UpdateGrab(handle, cursor) ==
    /\ handle \in HandlesOf(grabs)
    /\ "pointer" \in Named(grabs, handle).type
    /\ pointerGrab' = IF TopGrab(grabs, "pointer").handle = handle
                      THEN cursor ELSE pointerGrab
    /\ grabs' = [i \in DOMAIN grabs |-> IF grabs[i].handle = handle
                                        THEN [grabs[i] EXCEPT !.cursor = cursor]
                                        ELSE grabs[i]]
    /\ UNCHANGED keyboardGrab

(* Mutant of RemoveGrab: the cursor stays when another grab has the pointer. *)
RemoveGrabQuietly(handle) ==
    /\ handle \in HandlesOf(grabs)
    /\ LET type == Named(grabs, handle).type
           rest == Without(grabs, handle)
       IN  /\ grabs' = rest
           /\ pointerGrab' = IF Has(rest, "pointer") THEN pointerGrab ELSE NoCursor
           /\ keyboardGrab' = IF "keyboard" \in type THEN Has(rest, "keyboard")
                              ELSE keyboardGrab

(* removeGrab: the server keeps what the rest of the stack needs.          *)
RemoveGrab(handle) ==
    /\ handle \in HandlesOf(grabs)
    /\ LET type == Named(grabs, handle).type
           rest == Without(grabs, handle)
       IN  /\ grabs' = rest
           /\ pointerGrab' = IF "pointer" \in type THEN CursorBelow(rest)
                             ELSE pointerGrab
           /\ keyboardGrab' = IF "keyboard" \in type THEN Has(rest, "keyboard")
                              ELSE keyboardGrab

GrabsNext ==
    \/ \E type \in GrabTypes, cursor \in Cursors :
           PushGrab(type, cursor) \/ PushFailsOnKeyboard(type, cursor)
    \/ \E handle \in Handles :
           RemoveGrab(handle) \/ \E cursor \in Cursors : UpdateGrab(handle, cursor)

GrabsSpec == GrabsInit /\ [][GrabsNext]_grabsVars

-----------------------------------------------------------------------------
(* Properties                                                              *)

(* The X server grabs for compiz exactly the devices that some grab of the *)
(* stack is for, however grabs are nested, removed out of order, or fail   *)
(* half way: a device left grabbed would lock out every other client, one  *)
(* let go would leave a plugin waiting for events.                         *)
GrabsMatch ==
    /\ Has(grabs, "pointer") <=> pointerGrab # NoCursor
    /\ Has(grabs, "keyboard") <=> keyboardGrab

(* A single grab of the pointer shows its own cursor, whatever was pushed, *)
(* updated and removed before it was alone.  Of several, updateGrab and    *)
(* removeGrab take the oldest for the one on top (see TopGrab), so that    *)
(* the cursor is not always that of the latest.                            *)
SoleCursor ==
    \A i \in DOMAIN grabs :
        OfType(grabs, "pointer") = {i} => pointerGrab = grabs[i].cursor

=============================================================================
