-------------------------- MODULE MCPatchedServer ---------------------------
(* Instances of PatchedServer for TLC. *)
EXTENDS PatchedServer, TLC

CONSTANTS srv, net, t1, t2, f1

(* t1 and t2 are of one content, uploaded here and to another server. *)
SharedContent == [t \in Txs |-> f1]

EqualWork == [n \in Nodes |-> 1]
=============================================================================
