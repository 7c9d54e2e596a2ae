----------------------------- MODULE MCP2PNode ------------------------------
(* Instances of P2PNode for TLC. *)
EXTENDS P2PNode, TLC

CONSTANTS n1, n2, t1, server

(* Every upload has a content of its own. *)
DistinctFiles == [t \in Txs |-> t]

(* A client uploads to any node, or t1 is uploaded to n2, the rest to n1. *)
AnyNode   == [t \in Txs |-> Nodes]
OneToEach == [t \in Txs |-> IF t = t1 THEN {n2} ELSE {n1}]

(* n1 asks for less work than the others, or all ask for the same. *)
UnequalDifficulty == [n \in Nodes |-> IF n = n1 THEN 0 ELSE 1]
EqualDifficulty   == [n \in Nodes |-> 1]

(* Every node has an address, written as the node here.  Without a name of *)
(* its own a node calls itself by it; the program names all "server:6000". *)
OwnAddress == [n \in Nodes |-> n]
OneName    == [n \in Nodes |-> server]

(* The host name "server" is known to no machine, or it is that of n1. *)
ServerIsNobody == [n \in Nodes |-> [a \in Addresses |-> IF a = server THEN Nobody ELSE a]]
ServerIsFirst  == [n \in Nodes |-> [a \in Addresses |-> IF a = server THEN n1 ELSE a]]

(* Nodes of one difficulty and files that are all loaded or all not, and  *)
(* uploads with contents of their own, can be exchanged for one another.  *)
Symmetry == Permutations(Nodes) \cup Permutations(Txs)
=============================================================================
