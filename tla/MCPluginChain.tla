--------------------------- MODULE MCPluginChain ---------------------------
(***************************************************************************)
(* A small instance of PluginChain for TLC: three plugins; the second has  *)
(* two listeners for a command and one for errors.                         *)
(***************************************************************************)
EXTENDS PluginChain

ThreePlugins == <<"p1", "p2", "p3">>
SomeListeners ==
    [p \in {"p1", "p2", "p3"} |-> [ev \in AllEvents |->
        CASE ev = "onBroadcast" -> IF p = "p2" THEN {1, 2} ELSE {1}
          [] ev = "onError" -> IF p = "p2" THEN {1} ELSE {}
          [] ev \in {"onAudit", "onStart"} -> IF p = "p3" THEN {1} ELSE {}
          [] OTHER -> {}]]
=============================================================================
