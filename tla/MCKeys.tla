------------------------------- MODULE MCKeys -------------------------------
(* A key held with Super, the same key with the real modifier that may be  *)
(* Super, the key Alt held with Super or with Mod2, and Super alone.       *)
EXTENDS KeyEvents

MCActions == {"open", "close", "chord", "numbered", "tap"}
MCKeyOf ==
    [action \in MCActions |->
        CASE action = "open"  -> [keycode |-> "k", mods |-> {"Super"}]
          [] action = "close" -> [keycode |-> "k", mods |-> {"mod4"}]
          [] action = "chord" -> [keycode |-> "alt", mods |-> {"Super"}]
          [] action = "numbered" -> [keycode |-> "alt", mods |-> {"mod2"}]
          [] action = "tap"   -> [keycode |-> "none", mods |-> {"Super"}]]
MCEdgesOf ==
    [action \in MCActions |->
        CASE action = "open" -> {"left"}
          [] action = "tap"  -> {"left", "top"}
          [] OTHER           -> {}]

(* The key sup is Super or nothing, and aux a modifier like others, Num    *)
(* Lock or Caps Lock.                                                      *)
MCLayout(super, numLock, sup, aux) ==
    [mask |-> [v \in {"Super", "NumLock"} |-> IF v = "Super" THEN super ELSE numLock],
     keys |-> [k \in {"k", "sup", "alt", "aux"} |->
                  CASE k = "k"   -> {}
                    [] k = "sup" -> sup
                    [] k = "alt" -> {"mod1"}
                    [] k = "aux" -> aux]]

MCPlain == MCLayout({"mod4"}, {"NoMask"}, {"mod4"}, {"mod2"})
MCNumLock == MCLayout({"mod4"}, {"mod2"}, {"mod4"}, {"mod2"})
MCNoSuper == MCLayout({"NoMask"}, {"NoMask"}, {}, {"lock"})
MCLayouts == {MCPlain, MCNumLock, MCNoSuper}

(* ShiftMask, LockMask, ControlMask, Mod1Mask, ...                         *)
MCBitOf == [m \in {"lock", "mod1", "mod2", "mod4"} |->
               CASE m = "lock" -> 1 [] m = "mod1" -> 3 [] m = "mod2" -> 4 [] m = "mod4" -> 6]
MCForeign == {<<"k", {"mod4", "mod2"}>>}
=============================================================================
