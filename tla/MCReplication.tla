--------------------------- MODULE MCReplication ---------------------------
(* Instances of Replication for TLC. *)
EXTENDS Replication, TLC

CONSTANTS n1, n2, n3, k1, k2, small, large

\* One key with three replicas, n1 first.
MCThreeReplicas == [k \in Keys |-> <<n1, n2, n3>>]

\* Two nodes; n1 is primary for every key.
MCTwoReplicas == [k \in Keys |-> <<n1, n2>>]

\* ClusterClient routes to the primary.
MCToPrimary == [k \in Keys |-> {Primary(k)}]

\* Only n2 has a limit that the large value exceeds.
MCRefused == [n \in Nodes |-> IF n = n2 THEN {large} ELSE {}]

MCOneRestart == [n \in Nodes |-> IF n \in {n1, n2} THEN 1 ELSE 0]

MCNoRestarts == [n \in Nodes |-> 0]

MCNoneRefused == [n \in Nodes |-> {}]
=============================================================================
