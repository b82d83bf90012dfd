---------------------------- MODULE MCServerGroup ----------------------------
(***************************************************************************)
(* Instances of ServerGroup for TLC: the proxy with an HTTP and an HTTPS     *)
(* listener, and a metrics server with one listener; a third server has both *)
(* addresses disabled.                                                      *)
(***************************************************************************)
EXTENDS ServerGroup

ThreeListeners == [l \in Listeners |-> IF l = "metrics" THEN "metricsServer" ELSE "appServer"]
=============================================================================
