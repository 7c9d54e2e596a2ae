---------------------------- MODULE LongestChain ----------------------------
(***************************************************************************)
(* What the network promises about its ledgers, without saying how blocks  *)
(* and chains travel: a node puts one valid block on its chain, or takes   *)
(* over a longer valid chain, or, having no file, starts again.  The nodes *)
(* of P2PNode implement it.                                                *)
(***************************************************************************)
EXTENDS Integers, Sequences

CONSTANTS Nodes, Difficulty

VARIABLES
    chain,  \* chain[n]: the chain of node n
    saved   \* saved[n]: a restart of n finds that chain in a file

(* Block b may stand at position i, after the block before. *)
Follows(b, before, i, d) ==
    /\ b.index = i - 1
    /\ b.prev = before.hash
    /\ b.work >= d

Others(n) == \A m \in Nodes \ {n} : chain'[m] = chain[m] /\ saved'[m] = saved[m]

-----------------------------------------------------------------------------

Init == \A n \in Nodes : Len(chain[n]) = 1

(* The new block may come from this node's miner or from a peer. *)
Extend(n) ==
    LET len == Len(chain[n])
        b   == chain'[n][len + 1]
    IN  /\ Len(chain'[n]) = len + 1
        /\ chain'[n] = Append(chain[n], b)
        /\ Follows(b, chain[n][len], len + 1, Difficulty[n])
        /\ Others(n)

Adopt(n) ==
    /\ Len(chain'[n]) > Len(chain[n])
    /\ \A i \in 2..Len(chain'[n]) :
          Follows(chain'[n][i], chain'[n][i - 1], i, Difficulty[n])
    /\ Others(n)

Reset(n) ==
    /\ ~saved[n]
    /\ Len(chain'[n]) = 1
    /\ Others(n)

Next == \E n \in Nodes : Extend(n) \/ Adopt(n) \/ Reset(n)

Spec == Init /\ [][Next]_<<chain, saved>>
=============================================================================
