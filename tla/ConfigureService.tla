-------------------------- MODULE ConfigureService --------------------------
(***************************************************************************)
(* What compiz's per-window request buffer promises to the code above it,  *)
(* stated without masks, locks or dispatching.                             *)
(*                                                                         *)
(* A window is up to three X windows (frame, wrapper and client).  The     *)
(* window manager keeps the configuration it wants each to have; the X     *)
(* server keeps the one it was last asked for.  While the service is held  *)
(* (somebody asked for requests to be batched until the next frame is      *)
(* painted) a request may be deferred.  Whatever happens, the server moves *)
(* in one way only: from what it was asked for last to everything that is  *)
(* wanted now, never to a part of it.                                      *)
(***************************************************************************)

CONSTANTS Targets,      \* the X windows a managed window consists of
          Fields,       \* the groups of fields of an XConfigureWindow
          Values,       \* what a field can be set to
          Urgent(_, _)  \* Urgent(t, f): a change of f on t is never deferred

VARIABLES wanted,       \* what each target should look like
          asked,        \* what the server was last asked to make of it
          owed,         \* a synthetic ConfigureNotify is still to be sent
          held          \* somebody holds requests back

vars == <<wanted, asked, owed, held>>

Configurations == [Targets -> [Fields -> Values]]

Init ==
    /\ wanted \in Configurations
    /\ asked = wanted
    /\ owed = FALSE
    /\ held = FALSE

(* The server is asked for everything that is wanted, all at once.         *)
CatchUp ==
    /\ asked' = wanted'
    /\ owed' = FALSE

(* Ask for the fields fs of t to become v.  Only a held service may defer  *)
(* it, and no urgent field may be among what is deferred.                  *)
Request(t, fs, v) ==
    /\ wanted' = [wanted EXCEPT ![t] =
                    [f \in Fields |-> IF f \in fs THEN v[f] ELSE @[f]]]
    /\ held' \in BOOLEAN
    /\ \/ CatchUp
       \/ /\ held
          /\ held'
          /\ \A f \in fs : ~ Urgent(t, f)
          /\ UNCHANGED <<asked, owed>>

(* Ask for a synthetic ConfigureNotify.                                    *)
Notify ==
    /\ UNCHANGED wanted
    /\ held' \in BOOLEAN
    /\ \/ CatchUp
       \/ /\ held
          /\ held'
          /\ owed' = TRUE
          /\ UNCHANGED asked

(* Holds come and go.  When the last one goes, the server catches up.      *)
Hold ==
    /\ UNCHANGED wanted
    /\ held' \in BOOLEAN
    /\ \/ CatchUp
       \/ held' /\ UNCHANGED <<asked, owed>>

Next ==
    \/ \E t \in Targets, fs \in SUBSET Fields, v \in [Fields -> Values] :
          Request(t, fs, v)
    \/ Notify
    \/ Hold

Spec == Init /\ [][Next]_vars
=============================================================================
