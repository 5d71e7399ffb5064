------------------------------ MODULE MCParts ------------------------------
(***************************************************************************)
(* The components that are checked on their own, in one state space: a     *)
(* behaviour is one of the component that part names, and the variables of *)
(* the others rest in one of their initial states.  No action of one part  *)
(* reads what another changes, so this shows of each what a run of its own *)
(* would.  Of the parts, keys is KeyBindings alone, with changes of the    *)
(* layout and other clients' grabs; events is KeyEvents, which extends it. *)
(***************************************************************************)
EXTENDS MCKeys, Grabs, Plugins, WindowStack, FrameRequests, WrapChain, Ping

CONSTANTS a, b, o, fa, fb  \* X ids: two clients, a menu, the clients' frames

VARIABLE part

(* gone is on the command line but not installed; ccp takes over the list  *)
(* of plugins; a list may name a plugin twice.                             *)
MCInitial == <<"ccp", "gone">>
MCLists == {<<"ccp", "fade", "move">>, <<"fade", "ccp">>, <<"move", "move">>}

MCFrameOf == [client \in {a, b} |-> IF client = a THEN fa ELSE fb]

MCDecorations == {[top |-> 0, bottom |-> 0], [top |-> 1, bottom |-> 1],
                  [top |-> 2, bottom |-> 0]}

-----------------------------------------------------------------------------

(* Of several initial states, a component that is not part has one.        *)
PartsInit ==
    /\ part \in {"grabs", "keys", "events", "plugins", "stack", "frames", "chain", "ping"}
    /\ GrabsInit /\ StackInit /\ ChainInit
    /\ EventsInit
    /\ part \in {"keys", "events"} \/ layout = MCNoSuper
    /\ PluginsInit
    /\ part = "plugins" \/ option = <<"fade", "ccp">>
    /\ FramesInit
    /\ part = "frames" \/ (serverGeometry.pos = 0 /\ gravity = "north")
    /\ PingInit
    /\ part = "ping" \/ takesPings = {}

PartsNext ==
    \/ /\ part = "grabs" /\ GrabsNext
       /\ UNCHANGED <<part, keyVars, eventVars, pluginVars, stackVars, frameVars, chainVars, pingVars>>
    \/ /\ part = "keys" /\ KeysNext
       /\ UNCHANGED <<part, eventVars, grabsVars, pluginVars, stackVars, frameVars, chainVars, pingVars>>
    \/ /\ part = "events" /\ EventsNext
       /\ UNCHANGED <<part, grabsVars, pluginVars, stackVars, frameVars, chainVars, pingVars>>
    \/ /\ part = "plugins" /\ PluginsNext
       /\ UNCHANGED <<part, grabsVars, keyVars, eventVars, stackVars, frameVars, chainVars, pingVars>>
    \/ /\ part = "stack" /\ StackNext
       /\ UNCHANGED <<part, grabsVars, keyVars, eventVars, pluginVars, frameVars, chainVars, pingVars>>
    \/ /\ part = "frames" /\ FramesNext
       /\ UNCHANGED <<part, grabsVars, keyVars, eventVars, pluginVars, stackVars, chainVars, pingVars>>
    \/ /\ part = "chain" /\ ChainNext
       /\ UNCHANGED <<part, grabsVars, keyVars, eventVars, pluginVars, stackVars, frameVars, pingVars>>
    \/ /\ part = "ping" /\ PingNext
       /\ UNCHANGED <<part, grabsVars, keyVars, eventVars, pluginVars, stackVars, frameVars, chainVars>>

PartsSpec ==
    PartsInit /\ [][PartsNext]_<<part, grabsVars, keyVars, eventVars, pluginVars, stackVars,
                                 frameVars, chainVars, pingVars>>

(* Every component's variables have their types.                           *)
PartsTypeOK ==
    /\ GrabsTypeOK /\ KeysTypeOK /\ EventsTypeOK /\ PluginsTypeOK /\ StackTypeOK
    /\ FramesTypeOK /\ ChainTypeOK /\ PingTypeOK
=============================================================================
