-------------------------- MODULE MCClusterClient --------------------------
(* Instances of ClusterClient for TLC. *)
EXTENDS ClusterClient

CONSTANTS ids, addresses

\* Two configurations, one with ids and one with addresses for ids, whose rings order the nodes
\* differently.
MCWalk == [config \in Configs |-> IF config = ids THEN <<1, 2, 3>> ELSE <<2, 1, 3>>]

AllAgree == [walk |-> MCWalk, client |-> [c \in Clients |-> ids],
             node |-> [n \in Nodes |-> ids], route |-> [c \in Clients |-> Null]]

\* The first client routes by modulo, to a node that does not replicate; the second one and
\* the second node have no ids, and both the first and the second node find themselves primary.
NoneAgree == [walk |-> MCWalk, client |-> [c \in Clients |-> IF c = 1 THEN ids ELSE addresses],
              node |-> [n \in Nodes |-> CASE n = 1 -> ids [] n = 2 -> addresses [] n = 3 -> Null],
              route |-> [c \in Clients |-> IF c = 1 THEN 3 ELSE Null]]

\* The first node refuses the second call, if that is a write.
MCRefused == {<<2, 1>>}

MCSetups == {AllAgree, NoneAgree}
=============================================================================
