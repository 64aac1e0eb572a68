--------------------------- MODULE MCHubSessions ---------------------------
(* Three connection attempts of two nodes, two of them of the same node. *)
EXTENDS HubSessions, TLC

MCNodeOf == ("s1" :> "n1") @@ ("s2" :> "n1") @@ ("s3" :> "n2")
=============================================================================
