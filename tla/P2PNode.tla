------------------------------ MODULE P2PNode -------------------------------
(***************************************************************************)
(* The nodes of src/p2p.py and the messages between them: transactions     *)
(* and blocks are broadcast, every node mines its own pool, blocks are     *)
(* validated and gossiped, and chains are pulled from peers under the      *)
(* longest-chain rule.                                                     *)
(*                                                                         *)
(* Each node runs many threads: one that mines, one that syncs on a timer, *)
(* one per incoming connection, one per gossiped block and one per sync    *)
(* that an unlinked block starts.  An action below is one stretch of such  *)
(* a thread between two points at which another thread or node can act: a  *)
(* critical section under _chain_lock, a message sent or handled, a reply  *)
(* received.                                                               *)
(***************************************************************************)
EXTENDS Blockchain

CONSTANTS
    Addresses,    \* strings host:port that a node may dial
    NodeId,       \* NodeId[n]: what n calls itself, and names in its HELLO
    Nobody,       \* no node
    Host,         \* Host[n][a]: the node n reaches at address a, or Nobody
    UploadedTo,   \* UploadedTo[t]: nodes whose upload server may be given t
    Persistent,   \* nodes started with a chain_path
    Loaded,       \* those that find a file there when they first start
    MaxHeight,    \* bound on the length of a chain that is mined on
    MaxFailures,  \* bound on failed connections and replies of a behaviour
    MaxConnects,  \* bound on the HELLO handshakes of a behaviour
    MaxRestarts   \* bound on the restarts of a behaviour

(* What a node calls itself need not be an address that leads to it: the   *)
(* program starts every node under the name "server:6000".                 *)
ASSUME AddressAssumption ==
    /\ NodeId \in [Nodes -> Addresses]
    /\ Nobody \notin Nodes
    /\ Host \in [Nodes -> [Addresses -> Nodes \cup {Nobody}]]

ASSUME UploadAssumption == UploadedTo \in [Txs -> SUBSET Nodes]

ASSUME PersistentAssumption == Persistent \subseteq Nodes /\ Loaded \subseteq Persistent

ASSUME BoundsAssumption ==
    /\ MaxHeight \in Nat
    /\ MaxFailures \in Nat
    /\ MaxConnects \in Nat
    /\ MaxRestarts \in Nat

VARIABLES
    chain,      \* chain[n]: blockchain.chain
    pending,    \* pending[n]: blockchain.pending_transactions
    peers,      \* peers[n]: the addresses of the peers n knows
    seen,       \* seen[n]: _seen_block_hashes
    saved,      \* saved[n]: the chain file of n exists, and holds chain[n]
    sending,    \* sending[n]: broadcasts under way
    inbox,      \* one-way messages that are sent and not yet handled
    syncing,    \* syncing[n]: addresses the sync threads of n have still to ask
    replies,    \* chains sent in reply to GET_CHAIN and not yet processed
    minted,     \* minted[n]: number of hashes n has produced
    submitted,  \* transactions handed to some node so far
    failures,   \* failures so far, at most MaxFailures
    connects,   \* handshakes so far, at most MaxConnects
    restarts    \* restarts so far, at most MaxRestarts

ledgerVars == <<chain, saved, minted>>
poolVars   == <<pending, submitted>>
syncVars   == <<syncing, replies>>
boundVars  == <<failures, connects, restarts>>
vars == <<chain, pending, peers, seen, saved, sending, inbox,
          syncing, replies, minted, submitted, failures, connects, restarts>>

-----------------------------------------------------------------------------
(* Messages that get no reply, and the threads that send them. *)

TxMsg(t)    == [cmd |-> "NEW_TX", tx |-> t]
BlockMsg(b) == [cmd |-> "NEW_BLOCK", block |-> b]

Message == [cmd : {"NEW_TX"}, tx : Txs] \cup [cmd : {"NEW_BLOCK"}, block : Block]

Thread == {"upload", "miner", "gossip"}

(* Thread th of node n begins to broadcast message m, to the peers that it *)
(* knows now.  Without peers the broadcast is over at once.                *)
Broadcast(n, th, m) ==
    sending' = IF peers[n] = {} THEN sending ELSE
        [sending EXCEPT ![n] = @ \cup
           {[by |-> th, msg |-> m, todo |-> peers[n], dead |-> {}]}]

(* Variant: the block is broadcast by a thread of its own. *)
MinerPolls(n) == TRUE

(* The mining thread broadcasts its block itself before it polls again. *)
MinerIdle(n) ==
    \A task \in sending[n] : task.by # "miner"

(* The pool holds AUTO_MINE_THRESHOLD transactions, which is one. *)
ThresholdReached(n) == pending[n] # {}

-----------------------------------------------------------------------------

(* The loaded files are copies of one, with a genesis block by Founder;   *)
(* each of the other nodes makes a genesis block of its own.              *)
Init ==
    /\ chain = [n \in Nodes |->
                  IF n \in Loaded THEN <<Genesis(<<Founder, 0>>)>>
                                  ELSE <<Genesis(<<n, 1>>)>>]
    /\ saved = [n \in Nodes |-> n \in Loaded]
    /\ minted = [n \in Nodes |-> 1]
    /\ pending = [n \in Nodes |-> {}]
    /\ peers = [n \in Nodes |-> {}]
    /\ seen = [n \in Nodes |-> {}]
    /\ sending = [n \in Nodes |-> {}]
    /\ syncing = [n \in Nodes |-> {}]
    /\ inbox = {}
    /\ replies = {}
    /\ submitted = {}
    /\ failures = 0
    /\ connects = 0
    /\ restarts = 0

(* _persist_chain after the chain of n has changed. *)
Persist(n) == saved' = [saved EXCEPT ![n] = n \in Persistent]

(* One more connection or answer fails. *)
Fail ==
    /\ failures < MaxFailures
    /\ failures' = failures + 1

(* The addresses at which n finds somebody, perhaps itself. *)
Answering(n) == {a \in Addresses : Host[n][a] # Nobody}

(* A connection fails always where nobody listens, and else now and then. *)
ConnectionFails(n, a) == IF a \in Answering(n) THEN Fail ELSE UNCHANGED failures

-----------------------------------------------------------------------------
(* Transactions. *)

(* submit_transaction, called by the upload server. *)
Submit(n, t) ==
    /\ n \in UploadedTo[t]
    /\ t \notin submitted
    /\ submitted' = submitted \cup {t}
    /\ pending' = [pending EXCEPT ![n] = @ \cup {t}]
    /\ Broadcast(n, "upload", TxMsg(t))
    /\ UNCHANGED <<ledgerVars, peers, seen, inbox, syncVars, boundVars>>

(* _dispatch of NEW_TX: a transaction is a duplicate if it is in the pool. *)
(* Nothing is answered and nothing is passed on.                           *)
AddIncomingTx(n, t) ==
    /\ [to |-> n, msg |-> TxMsg(t)] \in inbox
    /\ inbox' = inbox \ {[to |-> n, msg |-> TxMsg(t)]}
    /\ pending' = [pending EXCEPT ![n] = @ \cup {t}]
    /\ UNCHANGED <<ledgerVars, submitted, peers, seen, sending, syncVars, boundVars>>

(* _mining_loop: mine the whole pool, save, and queue the new block.      *)
(* _chain_lock is held for as long as the nonce is searched.              *)
Mine(n) ==
    /\ MinerIdle(n)
    /\ ThresholdReached(n)
    /\ Len(chain[n]) < MaxHeight
    /\ \E w \in Difficulty[n]..MaxWork :
         LET b == MinedBlock(chain[n], <<n, minted[n] + 1>>, pending[n], w)
         IN  /\ chain' = [chain EXCEPT ![n] = Append(@, b)]
             /\ seen' = [seen EXCEPT ![n] = @ \cup {b.hash}]
             /\ Broadcast(n, "miner", BlockMsg(b))
    /\ minted' = [minted EXCEPT ![n] = @ + 1]
    /\ pending' = [pending EXCEPT ![n] = {}]
    /\ Persist(n)
    /\ UNCHANGED <<submitted, peers, inbox, syncVars, boundVars>>

-----------------------------------------------------------------------------
(* broadcast and _gossip_block: one peer after the other, from a copy of  *)
(* the peer set.  The origin that _gossip_block leaves out is the address *)
(* of the incoming connection, which is never the address of a peer.      *)

(* Variant: an address that gives no answer is tried again. *)
TriedAgain(task, a) == [task EXCEPT !.dead = @ \cup {a}]

(* The broadcast task once address a has been tried: send_to_peer returns *)
(* None whether nobody is there or a peer took a message without reply.   *)
Tried(task, a) == [task EXCEPT !.todo = @ \ {a}, !.dead = @ \cup {a}]

(* send_to_peer of a one-way message that is delivered. *)
Deliver(n, task, a) ==
    /\ task \in sending[n]
    /\ a \in task.todo \cap Answering(n)
    /\ sending' = [sending EXCEPT ![n] = (@ \ {task}) \cup {Tried(task, a)}]
    /\ inbox' = inbox \cup {[to |-> Host[n][a], msg |-> task.msg]}
    /\ UNCHANGED <<ledgerVars, poolVars, peers, seen, syncVars, boundVars>>

(* send_to_peer when the connection fails: the peer is dropped at once. *)
DeliveryFails(n, task, a) ==
    /\ ConnectionFails(n, a)
    /\ task \in sending[n]
    /\ a \in task.todo
    /\ sending' = [sending EXCEPT ![n] = (@ \ {task}) \cup {Tried(task, a)}]
    /\ peers' = [peers EXCEPT ![n] = @ \ {a}]
    /\ UNCHANGED <<ledgerVars, poolVars, seen, inbox, syncVars, connects, restarts>>

(* The end of the loop: self.peers -= dead. *)
EndBroadcast(n, task) ==
    /\ task \in sending[n]
    /\ task.todo = {}
    /\ sending' = [sending EXCEPT ![n] = @ \ {task}]
    /\ peers' = [peers EXCEPT ![n] = @ \ task.dead]
    /\ UNCHANGED <<ledgerVars, poolVars, seen, inbox, syncVars, boundVars>>

-----------------------------------------------------------------------------
(* _receive_block.  The hash is marked as seen before anything is checked. *)

Received(n, b) ==
    /\ [to |-> n, msg |-> BlockMsg(b)] \in inbox
    /\ inbox' = inbox \ {[to |-> n, msg |-> BlockMsg(b)]}
    /\ seen' = [seen EXCEPT ![n] = @ \cup {b.hash}]

(* Seen before, too little work, or not above the tip. *)
Stale(n, b) ==
    \/ b.hash \in seen[n]
    \/ ~IsValidProof(b, Difficulty[n])
    \/ b.index <= LastBlock(chain[n]).index

(* Variants: linkage is not checked, or only the index is. *)
LinkedAnyhow(n, b)  == TRUE
LinkedByIndex(n, b) == b.index = LastBlock(chain[n]).index + 1

Linked(n, b) == b.prev = LastBlock(chain[n]).hash

IgnoreBlock(n, b) ==
    /\ Received(n, b)
    /\ Stale(n, b)
    /\ UNCHANGED <<ledgerVars, poolVars, peers, sending, syncVars, boundVars>>

(* A block above the tip that does not link to it starts a sync thread. *)
SyncForBlock(n, b) ==
    /\ Received(n, b)
    /\ ~Stale(n, b)
    /\ ~Linked(n, b)
    /\ syncing' = [syncing EXCEPT ![n] = @ \cup peers[n]]
    /\ UNCHANGED <<ledgerVars, poolVars, peers, sending, replies, boundVars>>

AcceptBlock(n, b) ==
    /\ Received(n, b)
    /\ ~Stale(n, b)
    /\ Linked(n, b)
    /\ chain' = [chain EXCEPT ![n] = Append(@, b)]
    /\ pending' = [pending EXCEPT ![n] = StillPending(@, b)]
    /\ Persist(n)
    /\ Broadcast(n, "gossip", BlockMsg(b))
    /\ UNCHANGED <<minted, submitted, peers, syncVars, boundVars>>

-----------------------------------------------------------------------------
(* sync_chain. *)

(* No sync thread of n is at work. *)
SyncIdle(n) == syncing[n] = {} /\ \A r \in replies : r.to # n

(* _sync_loop: the periodic sweep, which starts only if there is a peer.  *)
(* The threads that sync are not told apart: a sweep waits for all.       *)
StartSync(n) ==
    /\ peers[n] # {}
    /\ SyncIdle(n)
    /\ syncing' = [syncing EXCEPT ![n] = @ \cup peers[n]]
    /\ UNCHANGED <<ledgerVars, poolVars, peers, seen, sending, inbox, replies, boundVars>>

(* The node at address a answers GET_CHAIN with a copy of its chain. *)
FetchChain(n, a) ==
    /\ a \in syncing[n] \cap Answering(n)
    /\ syncing' = [syncing EXCEPT ![n] = @ \ {a}]
    /\ replies' = replies \cup {[to |-> n, chain |-> chain[Host[n][a]]]}
    /\ UNCHANGED <<ledgerVars, poolVars, peers, seen, sending, inbox, boundVars>>

(* No answer: the peer is dropped if the connection failed, and kept if it *)
(* was only slow.                                                          *)
FetchFails(n, a) ==
    /\ ConnectionFails(n, a)
    /\ a \in syncing[n]
    /\ syncing' = [syncing EXCEPT ![n] = @ \ {a}]
    /\ \/ peers' = [peers EXCEPT ![n] = @ \ {a}]
       \/ a \in Answering(n) /\ UNCHANGED peers
    /\ UNCHANGED <<ledgerVars, poolVars, seen, sending, inbox, replies, connects, restarts>>

(* replace_chain on the answer, against the chain n has by now.  The pool *)
(* and the set of seen hashes are left as they are.                       *)
ApplyChain(n, r) ==
    /\ r \in replies
    /\ r.to = n
    /\ replies' = replies \ {r}
    /\ IF Replaces(r.chain, chain[n], Difficulty[n])
         THEN /\ chain' = [chain EXCEPT ![n] = r.chain]
              /\ Persist(n)
         ELSE UNCHANGED <<chain, saved>>
    /\ UNCHANGED <<minted, poolVars, peers, seen, sending, inbox, syncing, boundVars>>

-----------------------------------------------------------------------------
(* Membership and lifecycle. *)

(* The peers of all nodes once p has handled the HELLO of n.  No test     *)
(* keeps p from adding its own name, which is also the name of n if both  *)
(* are servers as the program starts them.                                *)
Greeted(n, p) == [peers EXCEPT ![p] = @ \cup {NodeId[n]}]

(* What n adds once p has answered at address a: a and all that p knows, *)
(* but not the name of n.                                                 *)
Learned(n, a, p) == {a} \cup (Greeted(n, p)[p] \ {NodeId[n]})

(* connect_to_peer: p adds n, n adds a and the peers p names, then syncs. *)
(* Only the name of n is refused, and p may be n under another address.   *)
Connect(n, a) ==
    /\ connects < MaxConnects
    /\ a \in Answering(n) \ {NodeId[n]}
    /\ connects' = connects + 1
    /\ LET p == Host[n][a]
       IN  peers' = [Greeted(n, p) EXCEPT ![n] = @ \cup Learned(n, a, p)]
    /\ syncing' = [syncing EXCEPT ![n] = @ \cup peers'[n]]
    /\ UNCHANGED <<ledgerVars, poolVars, seen, sending, inbox, replies, failures, restarts>>

(* The HELLO reaches a node and its answer is lost, or it reaches nobody. *)
ConnectFails(n, a) ==
    /\ ConnectionFails(n, a)
    /\ connects < MaxConnects
    /\ a # NodeId[n]
    /\ connects' = connects + 1
    /\ \/ a \in Answering(n) /\ peers' = Greeted(n, Host[n][a])
       \/ peers' = [peers EXCEPT ![n] = @ \ {a}]
    /\ UNCHANGED <<ledgerVars, poolVars, seen, sending, inbox, syncVars, restarts>>

(* The process of n stops and starts again: the chain is what the file     *)
(* holds, or a new genesis block if there is no file.  The pool, the peers *)
(* and all threads and connections of n are gone.                          *)
Restart(n) ==
    /\ restarts < MaxRestarts
    /\ restarts' = restarts + 1
    /\ IF saved[n]
         THEN UNCHANGED <<chain, minted>>
         ELSE /\ chain' = [chain EXCEPT ![n] = <<Genesis(<<n, minted[n] + 1>>)>>]
              /\ minted' = [minted EXCEPT ![n] = @ + 1]
    /\ pending' = [pending EXCEPT ![n] = {}]
    /\ peers' = [peers EXCEPT ![n] = {}]
    /\ seen' = [seen EXCEPT ![n] = {}]
    /\ sending' = [sending EXCEPT ![n] = {}]
    /\ syncing' = [syncing EXCEPT ![n] = {}]
    /\ inbox' = {m \in inbox : m.to # n}
    /\ replies' = {r \in replies : r.to # n}
    /\ UNCHANGED <<saved, submitted, failures, connects>>

-----------------------------------------------------------------------------

HandleBlock(n) ==
    \E m \in inbox :
        /\ m.to = n
        /\ m.msg.cmd = "NEW_BLOCK"
        /\ \/ IgnoreBlock(n, m.msg.block)
           \/ SyncForBlock(n, m.msg.block)
           \/ AcceptBlock(n, m.msg.block)

Broadcasting(n) ==
    \E task \in sending[n] :
        \/ \E a \in task.todo : Deliver(n, task, a) \/ DeliveryFails(n, task, a)
        \/ EndBroadcast(n, task)

Syncing(n) ==
    \/ \E a \in syncing[n] : FetchChain(n, a) \/ FetchFails(n, a)
    \/ \E r \in replies : ApplyChain(n, r)

Next ==
    \E n \in Nodes :
        \/ \E t \in Txs : Submit(n, t) \/ AddIncomingTx(n, t)
        \/ Mine(n)
        \/ Broadcasting(n)
        \/ HandleBlock(n)
        \/ StartSync(n)
        \/ Syncing(n)
        \/ \E a \in Addresses : Connect(n, a) \/ ConnectFails(n, a)
        \/ Restart(n)

Spec == Init /\ [][Next]_vars

(* Threads are scheduled, a sent message is handled, and a peer that is   *)
(* asked for its chain again and again answers in the end; an address at  *)
(* which nobody is fails.  Uploads, handshakes, other failures and        *)
(* restarts need never happen.                                            *)
Fairness ==
    \A n \in Nodes :
        /\ WF_vars(Mine(n))
        /\ WF_vars(Broadcasting(n))
        /\ WF_vars(HandleBlock(n))
        /\ \A t \in Txs : WF_vars(AddIncomingTx(n, t))
        /\ WF_vars(StartSync(n))
        /\ \A a \in Answering(n) : SF_vars(FetchChain(n, a))
        /\ \A a \in Addresses \ Answering(n) : WF_vars(FetchFails(n, a))
        /\ WF_vars(\E r \in replies : ApplyChain(n, r))

FairSpec == Spec /\ Fairness

-----------------------------------------------------------------------------
(* Properties. *)

Task == [by : Thread, msg : Message, todo : SUBSET Addresses, dead : SUBSET Addresses]

(* One thread mines, and it broadcasts one block at a time. *)
OneBlockOut ==
    \A n \in Nodes : \A x, y \in sending[n] :
        x.by = "miner" /\ y.by = "miner" => x = y

(* Type invariant. *)
TypeOK ==
    /\ chain \in [Nodes -> Chain]
    /\ pending \in [Nodes -> SUBSET Txs]
    /\ peers \in [Nodes -> SUBSET Addresses]
    /\ seen \in [Nodes -> SUBSET Hash]
    /\ saved \in [Nodes -> BOOLEAN]
    /\ sending \in [Nodes -> SUBSET Task]
    /\ OneBlockOut
    /\ inbox \subseteq [to : Nodes, msg : Message]
    /\ syncing \in [Nodes -> SUBSET Addresses]
    /\ replies \subseteq [to : Nodes, chain : Chain]
    /\ minted \in [Nodes -> Nat]
    /\ submitted \subseteq Txs
    /\ failures \in 0..MaxFailures
    /\ connects \in 0..MaxConnects
    /\ restarts \in 0..MaxRestarts

(* Chains that some node holds or is about to process. *)
Chains == {chain[n] : n \in Nodes} \cup {r.chain : r \in replies}

(* Every chain a node holds would pass its own is_valid at any moment:    *)
(* every block links to its predecessor and has the work this node asks   *)
(* for, whether it was mined, gossiped, pulled from a node that asks for  *)
(* less, or loaded after a restart.                                       *)
ChainsValid ==
    \A n \in Nodes : \A i \in DOMAIN chain[n] : i > 1 =>
        /\ chain[n][i].prev = chain[n][i - 1].hash
        /\ chain[n][i].work >= Difficulty[n]

(* The index of a block is its position, although neither is_valid nor    *)
(* _receive_block compares the two.  _receive_block's "we already have    *)
(* this block" and get_file_history rely on it.                           *)
IndexIsPosition ==
    \A c \in Chains : \A i \in DOMAIN c : c[i].index = i - 1

(* A block fixes its whole past: two chains that share a block hold it at *)
(* the same position and agree on everything before it.  This is what     *)
(* makes linking by hash an audit trail, whoever mined or relayed what.   *)
PrefixAgreement ==
    \A c1, c2 \in Chains : \A i \in DOMAIN c1 : \A j \in DOMAIN c2 :
        c1[i].hash = c2[j].hash =>
            /\ i = j
            /\ \A k \in 1..i : c1[k] = c2[k]

(* Whatever arrives in whatever order, the chain of a node changes only   *)
(* by one valid block put on it or by a longer valid chain in its place,  *)
(* and starts again only at the restart of a node that has no chain file. *)
Ledger == INSTANCE LongestChain WITH
    Nodes <- Nodes, Difficulty <- Difficulty, chain <- chain, saved <- saved

ImplementsLongestChain == Ledger!Spec

(* A file that a node has submitted is never forgotten while nothing      *)
(* restarts and no two uploads are of one file, also if it comes while the *)
(* miner is away broadcasting a block, to peers or to addresses at which   *)
(* nobody is: in the end it is in a block of some node.                    *)
SubmittedIsMined ==
    \A t \in Txs : (t \in submitted) ~> \E n \in Nodes : t \in OnChain(chain[n])

(* A node that keeps the address of a peer long enough catches up with    *)
(* that peer: answers may be lost, gossip stops at nodes that know no     *)
(* peer, but the sweeps go on and apply whatever longer chain comes.      *)
CatchUp ==
    \A n \in Nodes : \A a \in Answering(n) :
        <>[](a \in peers[n]) => <>[](Len(chain[n]) >= Len(chain[Host[n][a]]))

-----------------------------------------------------------------------------
(* What comments of p2p.py say and the code does not do. *)

(* "fire-and-forget, removes dead peers": an address that leads to a node  *)
(* is dropped only when a connection fails or this node restarts.  But no  *)
(* answer is sent to NEW_TX or NEW_BLOCK, so that every peer that takes    *)
(* one is dropped.                                                         *)
LivePeersKept ==
    [][\A n \in Nodes :
          \/ peers[n] \cap Answering(n) \subseteq peers'[n]
          \/ failures' # failures
          \/ restarts' # restarts]_vars

(* "Deduplicate by tx timestamp + file_hash": no transaction is in two    *)
(* blocks of one chain.  But NEW_TX is compared with the pool only, not    *)
(* with the chain, and a pool outlives the adoption of another chain.      *)
TxOnceOnChain ==
    \A n \in Nodes : \A i, j \in DOMAIN chain[n] :
        i # j => chain[n][i].txs \cap chain[n][j].txs = {}
=============================================================================
