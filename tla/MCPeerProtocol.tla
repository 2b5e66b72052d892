-------------------------- MODULE MCPeerProtocol --------------------------
(* PeerProtocol with model values for nodes and workers. *)
EXTENDS PeerProtocol, TLC

CONSTANTS a, b, c

(* Everybody has a name of his own: the name is written as the node. *)
OwnNames == [n \in Nodes |-> n]

(* What the users may type. *)
Anybody == Nodes \X Nodes

(* Every pair of connections but two to oneself, up to the names. *)
Shapes  == {<<a, a>>, <<a, b>>, <<b, a>>, <<b, c>>, <<c, b>>}
JoinC   == {<<a, c>>, <<b, c>>}
Cross   == {<<a, b>>, <<b, a>>}

PeerSymmetry == Permutations(Nodes) \cup Permutations(Workers)
=============================================================================
