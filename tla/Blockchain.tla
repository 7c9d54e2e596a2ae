----------------------------- MODULE Blockchain -----------------------------
(***************************************************************************)
(* The ledger of src/blockchain.py: blocks, proof of work, the pool of     *)
(* pending transactions, chain validation and the longest-chain rule.      *)
(*                                                                         *)
(* Everything here is an operator on a chain, a sequence of blocks.  The   *)
(* Python list is 0-based: self.chain[i] is chain[i + 1] here, and the     *)
(* genesis block is chain[1].                                              *)
(*                                                                         *)
(* SHA-256 is abstracted to a collision-free name.  The k-th hash that     *)
(* node m ever produces is <<m, k>>, so two blocks have one hash only if   *)
(* they are one block.  How many leading zeros the hash has, all that the  *)
(* proof of work looks at, is the field work.  A block is never altered    *)
(* after it is made, so the test hash = compute_hash() always succeeds.    *)
(***************************************************************************)
EXTENDS Integers, Sequences

CONSTANTS
    Nodes,       \* the P2P nodes
    Founder,     \* maker of a chain file from before the P2P network
    Txs,         \* upload transactions; each is made once, with its timestamp
    Files,       \* content hashes of files (field file_hash)
    FileHash,    \* FileHash[t] is the content hash of the file t records
    Difficulty,  \* Difficulty[n] is the proof-of-work difficulty of node n
    MaxWork      \* a hash has at most this many leading zeros

ASSUME FileHashAssumption == FileHash \in [Txs -> Files]

ASSUME FounderAssumption == Founder \notin Nodes

ASSUME DifficultyAssumption ==
    /\ Difficulty \in [Nodes -> Nat]
    /\ MaxWork \in Nat

-----------------------------------------------------------------------------

Hash == (Nodes \cup {Founder}) \X Nat

(* The previous_hash of a genesis block, "0" * 64. *)
ZeroHash == <<>>

(* The reward transaction a miner adds has no file_hash and is not kept; *)
(* the miner it names is the first part of the block's hash.             *)
Block == [ index : Nat,
           prev  : Hash \cup {ZeroHash},
           hash  : Hash,
           txs   : SUBSET Txs,
           work  : Nat ]

(* A chain has its genesis block at least. *)
Chain == Seq(Block) \ {<<>>}

Genesis(h) ==
    [index |-> 0, prev |-> ZeroHash, hash |-> h, txs |-> {}, work |-> 0]

LastBlock(c) == c[Len(c)]

(* Variant: a node that takes any proof of work. *)
AnyProof(b, d) == TRUE

IsValidProof(b, d) == b.work >= d

(* Variant: the index counts from one. *)
MinedBlockFromOne(c, h, txs, w) ==
    [index |-> Len(c) + 1, prev |-> LastBlock(c).hash, hash |-> h,
     txs |-> txs, work |-> w]

(* The block that mine_pending_transactions puts on top of chain c. *)
MinedBlock(c, h, txs, w) ==
    [index |-> Len(c), prev |-> LastBlock(c).hash, hash |-> h,
     txs |-> txs, work |-> w]

(* Variant: is_valid looks at the links alone. *)
IsLinked(c, d) == \A i \in 2..Len(c) : c[i].prev = c[i - 1].hash

(* is_valid: the genesis block is compared with nothing. *)
IsValid(c, d) ==
    \A i \in 2..Len(c) :
        /\ c[i].prev = c[i - 1].hash
        /\ IsValidProof(c[i], d)

(* Variants: a chain as long as the own one wins, or one block more does not. *)
AsLong(new, c)      == Len(new) >= Len(c)
LongerByTwo(new, c) == Len(new) > Len(c) + 1

(* The two tests of replace_chain: strictly longer, and valid. *)
Longer(new, c) == Len(new) > Len(c)

Replaces(new, c, d) == Longer(new, c) /\ IsValid(new, d)

(* What _receive_block keeps of the pool once block b is accepted: the  *)
(* transactions whose file is not one that b records.                   *)
StillPending(pool, b) ==
    {t \in pool : FileHash[t] \notin {FileHash[u] : u \in b.txs}}

(* All transactions recorded in chain c. *)
OnChain(c) == UNION {c[i].txs : i \in DOMAIN c}
=============================================================================
