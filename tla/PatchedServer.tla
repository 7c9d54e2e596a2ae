---------------------------- MODULE PatchedServer ----------------------------
(***************************************************************************)
(* The upload server of src/cloudmer_SRV_p2p_patch.py, whose ledger is a   *)
(* node of src/p2p.py in the same process: an upload is answered once its  *)
(* record is in the pool, and it is mined, and saved, later.               *)
(*                                                                         *)
(* P2PNode saves a chain in one step.  Here the threads of one node save   *)
(* it as the code does, step by step and mostly outside _chain_lock, so    *)
(* that they overwrite each other's file, and the process may die between  *)
(* any two steps.  The other nodes are chains that this one may be told.   *)
(***************************************************************************)
EXTENDS Blockchain, SequencesExt

CONSTANTS
    Server,       \* this node
    Peer,         \* the maker of all blocks of other nodes
    Uploads,      \* the records of uploads to this server; the rest of Txs
                  \* are records of other servers
    Miner,        \* the mining thread
    Receiver,     \* the threads that handle NEW_BLOCK: they hold the lock
                  \* throughout, so that one at a time has any state
    Syncs,        \* threads that may replace the chain: syncs, CHAIN messages
    NoOne,        \* no thread
    NoFile,       \* the chain file does not exist
    Torn,         \* the chain file holds text that is not JSON
    MaxPeerBlocks,  \* bound on the blocks of other nodes
    MaxCrashes      \* bound on the crashes of a behaviour

Writers == {Miner, Receiver} \cup Syncs

ASSUME RolesAssumption ==
    /\ Nodes = {Server, Peer}
    /\ Server # Peer
    /\ Uploads \subseteq Txs
    /\ Miner # Receiver
    /\ {Miner, Receiver} \cap Syncs = {}
    /\ NoOne \notin Writers

(* A text that is not JSON is not a chain, and is in a file. *)
ASSUME TornAssumption == Torn \notin Chain \cup {NoFile}

ASSUME PatchedBounds ==
    /\ MaxPeerBlocks \in Nat
    /\ MaxCrashes \in Nat

VARIABLES
    chain,      \* p2p_node.blockchain.chain
    pool,       \* p2p_node.blockchain.pending_transactions
    lock,       \* the thread that holds _chain_lock
    thread,     \* thread[w]: where a thread that writes the chain is
    file,       \* the chain file
    record,     \* record[t]: how far the upload of t, or its NEW_TX, has come
    offers,     \* the chains that other nodes hold or have held
    minted,     \* minted[n]: hashes that n has produced
    up,         \* the process runs
    overlapped, \* the last save to end had another one beside it
    cut,        \* a crash has cut a save short
    crashes     \* crashes so far

ledger == <<chain, pool, lock, minted>>
ghosts == <<overlapped, cut>>
vars == <<ledger, thread, file, record, offers, up, ghosts, crashes>>

-----------------------------------------------------------------------------

NewHash(n) == <<n, minted[n] + 1>>

Mints(n) == minted' = [minted EXCEPT ![n] = @ + 1]

(* NEW_TX of a record has been sent to the other nodes. *)
Broadcast == (Txs \ Uploads) \cup {t \in Uploads : record[t] = "answered"}

Resting == [at |-> "idle", block |-> NoOne, snap |-> <<>>, alone |-> TRUE]

At(w, s) == up /\ thread[w].at = s

Goes(w, next) == thread' = [thread EXCEPT ![w] = next]

Free == lock = NoOne

Init ==
    /\ chain = <<Genesis(<<Server, 1>>)>>
    /\ pool = {}
    /\ lock = NoOne
    /\ thread = [w \in Writers |-> Resting]
    /\ file = NoFile
    /\ record = [t \in Txs |-> "none"]
    /\ offers = {}
    /\ minted = [n \in Nodes |-> 1]
    /\ up = TRUE
    /\ overlapped = FALSE
    /\ cut = FALSE
    /\ crashes = 0

-----------------------------------------------------------------------------
(* handle_upload_done. *)

Proceeds(t, s, next) ==
    /\ up
    /\ record[t] = s
    /\ record' = [record EXCEPT ![t] = next]

(* Every chunk is there and the digest is right: the file is written.  An  *)
(* upload that is refused, or whose missing chunk raises KeyError, changes *)
(* nothing here.                                                           *)
StoreFile(t) ==
    /\ t \in Uploads
    /\ Proceeds(t, "none", "stored")
    /\ UNCHANGED <<ledger, thread, file, offers, up, ghosts, crashes>>

(* submit_transaction: the record is in the pool, and DONE~OK goes out as  *)
(* soon as the peers that can be reached have been told.                   *)
Submit(t) ==
    /\ Proceeds(t, "stored", "answered")
    /\ Free
    /\ pool' = pool \cup {t}
    /\ UNCHANGED <<chain, lock, minted, thread, file, offers, up, ghosts, crashes>>

(* NEW_TX of a record of another server. *)
AddIncomingTx(t) ==
    /\ t \notin Uploads
    /\ Proceeds(t, "none", "heard")
    /\ Free
    /\ pool' = pool \cup {t}
    /\ UNCHANGED <<chain, lock, minted, thread, file, offers, up, ghosts, crashes>>

-----------------------------------------------------------------------------
(* _mining_loop. *)

(* Variant: one record more than the threshold is asked for. *)
TwoRecords == \E t, u \in pool : t # u

(* AUTO_MINE_THRESHOLD is one. *)
WorthMining == pool # {}

(* The pool is looked at under the lock, which is then released. *)
SeeWork ==
    /\ At(Miner, "idle")
    /\ Free
    /\ WorthMining
    /\ Goes(Miner, [Resting EXCEPT !.at = "polled"])
    /\ UNCHANGED <<ledger, file, record, offers, up, ghosts, crashes>>

(* ValueError: the pool became empty between the look and the lock. *)
GiveUp ==
    /\ At(Miner, "polled")
    /\ Free
    /\ pool = {}
    /\ Goes(Miner, Resting)
    /\ UNCHANGED <<ledger, file, record, offers, up, ghosts, crashes>>

(* The block of the pool and the tip as they are now. *)
MakesBlock(w) ==
    /\ At(Miner, "polled")
    /\ Free
    /\ pool # {}
    /\ Goes(Miner, [Resting EXCEPT !.at = "mining",
              !.block = MinedBlock(chain, NewHash(Server), pool, w)])
    /\ Mints(Server)
    /\ UNCHANGED <<chain, pool, file, record, offers, up, ghosts, crashes>>

(* Variant: the lock is not held while the nonce is searched. *)
StartMiningUnlocked(w) == MakesBlock(w) /\ UNCHANGED lock

(* mine_pending_transactions up to the search for the nonce. *)
StartMining(w) == MakesBlock(w) /\ lock' = Miner

(* The nonce is found: the block goes on the chain, the pool is emptied. *)
FinishMining ==
    /\ At(Miner, "mining")
    /\ chain' = Append(chain, thread[Miner].block)
    /\ pool' = {}
    /\ lock' = NoOne
    /\ Goes(Miner, [Resting EXCEPT !.at = "changed"])
    /\ UNCHANGED <<minted, file, record, offers, up, ghosts, crashes>>

-----------------------------------------------------------------------------
(* Blocks and chains of other nodes. *)

(* Another node mines on a chain that it has, or that this node has told. *)
PeerMines(c, txs, w) ==
    /\ minted[Peer] <= MaxPeerBlocks
    /\ c \in offers \cup {chain}
    /\ offers' = offers \cup {Append(c, MinedBlock(c, NewHash(Peer), txs, w))}
    /\ Mints(Peer)
    /\ UNCHANGED <<chain, pool, lock, thread, file, record, up, ghosts, crashes>>

(* _receive_block, of a block that links to the tip: the lock is held from *)
(* the tests to the end of the save.  A block that does not link is        *)
(* ignored or starts a sync thread, which ReplaceChain stands for.         *)
AcceptBlock(b) ==
    /\ At(Receiver, "idle")
    /\ Free
    /\ IsValidProof(b, Difficulty[Server])
    /\ b.index > LastBlock(chain).index
    /\ b.prev = LastBlock(chain).hash
    /\ chain' = Append(chain, b)
    /\ pool' = StillPending(pool, b)
    /\ lock' = Receiver
    /\ Goes(Receiver, [Resting EXCEPT !.at = "changed"])
    /\ UNCHANGED <<minted, file, record, offers, up, ghosts, crashes>>

(* Thread w puts chain c in the place of its own. *)
Adopts(w, c) ==
    /\ At(w, "idle")
    /\ Free
    /\ Replaces(c, chain, Difficulty[Server])
    /\ chain' = c
    /\ UNCHANGED <<pool, minted, file, record, offers, up, ghosts, crashes>>

(* Variants: the new chain is not saved; it is saved with the lock held,   *)
(* which nobody releases.                                                  *)
ReplaceUnsaved(w, c) == Adopts(w, c) /\ UNCHANGED <<lock, thread>>
ReplaceLocked(w, c)  == Adopts(w, c) /\ lock' = w /\ Goes(w, [Resting EXCEPT !.at = "changed"])

(* replace_chain in sync_chain and in _dispatch of CHAIN.  What was on the *)
(* old chain alone does not return to the pool.                            *)
ReplaceChain(w, c) ==
    /\ Adopts(w, c)
    /\ Goes(w, [Resting EXCEPT !.at = "changed"])
    /\ UNCHANGED lock

-----------------------------------------------------------------------------
(* _persist_chain: the chain is copied, the file is opened, which empties  *)
(* it, and the copy is written.  Only the receiver has the lock meanwhile. *)

Saving(v) == thread[v].at \in {"copied", "writing", "mixing"}

Open(v) == thread[v].at \in {"writing", "mixing"}

CopyChain(w) ==
    /\ At(w, "changed")
    /\ thread' = [v \in Writers |->
           IF v = w THEN [thread[w] EXCEPT !.at = "copied", !.snap = chain,
                             !.alone = \A x \in Writers : ~ Saving(x)]
           ELSE IF Saving(v) THEN [thread[v] EXCEPT !.alone = FALSE]
           ELSE thread[v]]
    /\ UNCHANGED <<ledger, file, record, offers, up, ghosts, crashes>>

(* Threads that have the file open at the same time write into each other. *)
OpenFile(w) ==
    /\ At(w, "copied")
    /\ thread' = [v \in Writers |->
           IF v = w THEN [thread[w] EXCEPT !.at =
                             IF \E x \in Writers : Open(x) THEN "mixing" ELSE "writing"]
           ELSE IF Open(v) THEN [thread[v] EXCEPT !.at = "mixing"]
           ELSE thread[v]]
    /\ file' = Torn
    /\ UNCHANGED <<ledger, record, offers, up, ghosts, crashes>>

(* What a thread leaves in the file when it closes it; a mixture of two    *)
(* texts may happen to be one of them.                                     *)
Written(w) ==
    IF thread[w].at = "mixing" THEN {thread[w].snap, Torn} ELSE {thread[w].snap}

(* Variant: the receiver returns with the lock. *)
KeepsLock(w) == UNCHANGED lock

(* The receiver leaves its "with" block. *)
LeavesLock(w) == lock' = IF w = Receiver THEN NoOne ELSE lock

CloseFile(w) ==
    /\ up
    /\ Open(w)
    /\ file' \in Written(w)
    /\ overlapped' = ~ thread[w].alone
    /\ LeavesLock(w)
    /\ Goes(w, Resting)
    /\ UNCHANGED <<chain, pool, minted, record, offers, up, cut, crashes>>

-----------------------------------------------------------------------------
(* The process dies, and starts again with what is in the chain file. *)

(* A thread that dies with the file open may have written part of its text. *)
Crash ==
    LET cuts == \E w \in Writers : Open(w)
    IN  /\ up
        /\ crashes < MaxCrashes
        /\ crashes' = crashes + 1
        /\ up' = FALSE
        /\ cut' = cuts
        /\ file' \in IF cuts THEN {file, Torn} ELSE {file}
        /\ pool' = {}
        /\ lock' = NoOne
        /\ thread' = [w \in Writers |-> Resting]
        /\ record' = [t \in Txs |-> IF record[t] = "stored" THEN "failed" ELSE record[t]]
        /\ UNCHANGED <<chain, minted, offers, overlapped>>

(* P2PNode.__init__.  A file that is no JSON raises an exception there, and *)
(* the server does not start.                                               *)
Start ==
    /\ ~ up
    /\ file # Torn
    /\ up' = TRUE
    /\ IF file = NoFile THEN chain' = <<Genesis(NewHash(Server))>> /\ Mints(Server)
       ELSE chain' = file /\ UNCHANGED minted
    /\ UNCHANGED <<pool, lock, thread, file, record, offers, ghosts, crashes>>

Mining ==
    \/ SeeWork \/ GiveUp \/ FinishMining
    \/ \E w \in Difficulty[Server]..MaxWork : StartMining(w)

Save(w) == CopyChain(w) \/ OpenFile(w) \/ CloseFile(w)

Next ==
    \/ \E t \in Txs : StoreFile(t) \/ Submit(t) \/ AddIncomingTx(t)
    \/ Mining
    \/ \E c \in offers \cup {chain}, txs \in SUBSET Broadcast \ {{}},
          w \in Difficulty[Peer]..MaxWork : PeerMines(c, txs, w)
    \/ \E c \in offers : \E i \in DOMAIN c : AcceptBlock(c[i])
    \/ \E w \in Syncs, c \in offers : ReplaceChain(w, c)
    \/ \E w \in Writers : Save(w)
    \/ Crash
    \/ Start

Spec == Init /\ [][Next]_vars

(* Threads are scheduled.  What clients and other nodes do, crashes and   *)
(* starts need never happen.                                              *)
Fairness ==
    /\ WF_vars(Mining)
    /\ \A w \in Writers : WF_vars(Save(w))
    /\ \A t \in Txs : WF_vars(Submit(t))

FairSpec == Spec /\ Fairness

-----------------------------------------------------------------------------
(* Properties. *)

Stages == {"idle", "polled", "mining", "changed", "copied", "writing", "mixing"}

(* Every variable has its type. *)
TypeOK ==
    /\ chain \in Chain
    /\ pool \subseteq Txs
    /\ lock \in {NoOne, Miner, Receiver}
    /\ thread \in [Writers -> [at : Stages, block : Block \cup {NoOne},
                               snap : Seq(Block), alone : BOOLEAN]]
    /\ file \in Chain \cup {NoFile, Torn}
    /\ record \in [Txs -> {"none", "stored", "answered", "failed", "heard"}]
    /\ offers \subseteq Chain
    /\ minted \in [Nodes -> Nat]
    /\ up \in BOOLEAN /\ overlapped \in BOOLEAN /\ cut \in BOOLEAN
    /\ crashes \in 0..MaxCrashes

(* The chain, and the one in the file, are valid from end to end whatever  *)
(* happens between the start of a search for a nonce and its end: the tip  *)
(* is still the one the block was made for.  load checks nothing.          *)
ChainIsValid ==
    /\ IsValid(chain, Difficulty[Server])
    /\ file \notin {NoFile, Torn} => IsValid(file, Difficulty[Server])

(* Once every thread has saved, the file holds the chain, unless the last  *)
(* save to end had another beside it.  Then the file may hold an older     *)
(* chain, or no JSON, until the next save: _persist_chain is called inside *)
(* the lock by one thread and outside it by the others.  And a server that *)
(* is down can start again, unless a save was cut short or overlapped.     *)
FileFollowsChain ==
    \/ overlapped
    \/ up /\ \E w \in Writers : thread[w].at = "changed" \/ Saving(w)
    \/ ~ up /\ (cut \/ file # Torn)
    \/ up /\ (file = chain \/ (file = NoFile /\ Len(chain) = 1))

(* What the node still knows. *)
Known(t) == t \in pool \cup OnChain(chain)

Extends(new, old) == IsPrefix(old, new)

(* The record of an upload that was answered with DONE~OK is forgotten     *)
(* only by a crash, by the adoption of a longer chain without it, or when  *)
(* a block that is received records a file of the same content.  No        *)
(* interleaving of uploads with the mining thread loses one.               *)
AnsweredIsKept ==
    [][\A t \in Txs : record[t] = "answered" /\ Known(t) /\ ~ Known(t)' =>
           \/ ~ up \/ ~ up'
           \/ ~ Extends(chain', chain)
           \/ /\ lock' = Receiver
              /\ FileHash[t] \in {FileHash[u] : u \in LastBlock(chain').txs}]_vars

(* handle_file_metadata: get_file_metadata gives one of these, the records *)
(* of the file in the newest block that has any.                           *)
FileMetadata(c, f) ==
    {t \in OnChain(c) :
        /\ FileHash[t] = f
        /\ \E i \in DOMAIN c : t \in c[i].txs /\
               \A j \in i + 1..Len(c) : \A u \in c[j].txs : FileHash[u] # f}

(* A file whose record is in the pool is found by FMTA some day, although  *)
(* the record itself may give way to another of the same content, unless   *)
(* the process dies first.                                                 *)
FoundInTheEnd ==
    \A t \in Uploads : t \in pool ~> (FileMetadata(chain, FileHash[t]) # {} \/ ~ up)

(* An upload whose file is written is answered, and its record is in the   *)
(* chain file some day, however long blocks are mined and saved with the   *)
(* lock held, unless it is forgotten, the process dies, or saves overlap.  *)
SavedInTheEnd ==
    \A t \in Uploads : record[t] = "stored" ~>
        \/ file \notin {NoFile, Torn} /\ t \in OnChain(file)
        \/ record[t] = "answered" /\ ~ Known(t)
        \/ ~ up
        \/ overlapped

(* While the process runs, its chain changes as LongestChain says: the     *)
(* network model, which saves in one step, covers this server too.         *)
Network == INSTANCE LongestChain WITH
    Nodes <- {Server},
    chain <- [n \in {Server} |-> chain],
    saved <- [n \in {Server} |-> TRUE]

RunsLongestChain == [][up /\ up' => Network!Next \/ UNCHANGED chain]_vars
=============================================================================
