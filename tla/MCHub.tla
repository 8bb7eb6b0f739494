------------------------------- MODULE MCHub -------------------------------
(* The hub on small instances: which user opens which session. *)
EXTENDS Hub, TLC

CONSTANTS alice, bob, a1, a2, b1

UserOfSession == a1 :> alice @@ a2 :> alice @@ b1 :> bob

UserOfActive == [s \in Sessions |-> UserOfSession[s]]
============================================================================
