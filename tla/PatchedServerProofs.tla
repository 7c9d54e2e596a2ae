------------------------ MODULE PatchedServerProofs -------------------------
(***************************************************************************)
(* Proofs about PatchedServer, for any transactions, any number of threads *)
(* that replace the chain, and any bounds.                                 *)
(***************************************************************************)
EXTENDS PatchedServer, BlockchainProofs

-----------------------------------------------------------------------------
(* Who holds the lock, and what that thread relies on. *)

(* The block being mined is the block of the tip and the pool of now. *)
MinedFor(b) ==
    /\ b \in Block
    /\ b.index = Len(chain)
    /\ b.prev = LastBlock(chain).hash
    /\ b.work >= Difficulty[Server]
    /\ b.txs = pool

(* The miner holds the lock while it searches for a nonce, the receiver    *)
(* until it has saved; nobody else does either.                            *)
LockIsHeld ==
    /\ lock = Miner <=> thread[Miner].at = "mining"
    /\ lock = Receiver <=> thread[Receiver].at \notin {"idle", "polled", "mining"}
    /\ \A w \in Writers \ {Miner} : thread[w].at \notin {"polled", "mining"}
    /\ thread[Miner].at = "mining" => MinedFor(thread[Miner].block)

DownIsIdle == ~ up => thread = [w \in Writers |-> Resting] /\ lock = NoOne

(* A thread that saves has a chain to save. *)
SnapsAreChains == \A w \in Writers : Saving(w) => thread[w].snap \in Chain

LockInv == TypeOK /\ LockIsHeld /\ DownIsIdle /\ SnapsAreChains

ThreadState ==
    [at : Stages, block : Block \cup {NoOne}, snap : Seq(Block), alone : BOOLEAN]

(* Who the threads and the nodes are. *)
LEMMA Roles ==
    /\ Server \in Nodes /\ Peer \in Nodes /\ Server # Peer
    /\ Miner \in Writers /\ Receiver \in Writers /\ Miner # Receiver
    /\ Miner # NoOne /\ Receiver # NoOne
    /\ Syncs \subseteq Writers
    /\ \A w \in Syncs : w # Miner /\ w # Receiver
    /\ Difficulty[Server] \in Nat
BY RolesAssumption, DifficultyAssumption DEF Writers

(* The states that a thread takes up are states of a thread. *)
LEMMA RestingType ==
    /\ Resting \in ThreadState
    /\ \A s \in Stages : [Resting EXCEPT !.at = s] \in ThreadState
    /\ \A s \in Stages : [Resting EXCEPT !.at = s].at = s
    /\ \A s \in Stages, b \in Block :
          /\ [Resting EXCEPT !.at = s, !.block = b] \in ThreadState
          /\ [Resting EXCEPT !.at = s, !.block = b].at = s
          /\ [Resting EXCEPT !.at = s, !.block = b].block = b
    /\ Resting.at = "idle"
<1>1. <<>> \in Seq(Block) /\ "idle" \in Stages
  BY EmptySeq DEF Stages
<1> QED
  BY <1>1 DEF Resting, ThreadState

Moved(x, s) == [x EXCEPT !.at = s]

(* A thread that moves on keeps all but its place. *)
LEMMA MovedThread ==
    ASSUME NEW x \in ThreadState, NEW s \in Stages
    PROVE  /\ Moved(x, s) \in ThreadState
           /\ Moved(x, s).snap = x.snap
           /\ Moved(x, s).block = x.block
           /\ Moved(x, s).alone = x.alone
           /\ Moved(x, s).at = s
BY DEF ThreadState, Moved

(* What a thread that copies the chain does to the states of the threads. *)
LEMMA CopiedThreads ==
    ASSUME TypeOK, NEW w \in Writers, CopyChain(w)
    PROVE  \A v \in Writers :
             /\ thread'[v] \in ThreadState
             /\ v # w => /\ thread'[v].at = thread[v].at
                         /\ thread'[v].snap = thread[v].snap
                         /\ thread'[v].block = thread[v].block
                         /\ thread'[v].alone => thread[v].alone /\ ~ Saving(v)
             /\ v = w => /\ thread'[v].at = "copied"
                         /\ thread'[v].snap = chain
                         /\ thread'[v].alone => \A x \in Writers : ~ Saving(x)
<1> DEFINE lone == \A x \in Writers : ~ Saving(x)
<1>1. /\ lone \in BOOLEAN
      /\ thread' = [v \in Writers |->
           IF v = w THEN [thread[w] EXCEPT !.at = "copied", !.snap = chain, !.alone = lone]
           ELSE IF Saving(v) THEN [thread[v] EXCEPT !.alone = FALSE]
           ELSE thread[v]]
  BY DEF CopyChain
<1>2. \A v \in Writers : thread[v] \in ThreadState
  BY DEF TypeOK, ThreadState
<1>3. chain \in Seq(Block) /\ "copied" \in Stages
  BY DEF TypeOK, Chain, Stages
<1>4. ASSUME NEW v \in Writers, v # w
      PROVE  /\ thread'[v] \in ThreadState
             /\ thread'[v].at = thread[v].at
             /\ thread'[v].snap = thread[v].snap
             /\ thread'[v].block = thread[v].block
             /\ thread'[v].alone => thread[v].alone /\ ~ Saving(v)
  <2> HIDE DEF lone
  <2> QED
    BY <1>1, <1>2, <1>4 DEF ThreadState
<1>5. thread'[w] \in ThreadState /\ thread'[w].at = "copied" /\ thread'[w].snap = chain
  <2> HIDE DEF lone
  <2> QED
    BY <1>1, <1>2, <1>3 DEF ThreadState
<1>6. thread'[w].alone = lone
  <2> HIDE DEF lone
  <2> QED
    BY <1>1, <1>2 DEF ThreadState
<1> QED
  BY <1>4, <1>5, <1>6

(* What a thread that opens the file does to the states of the threads. *)
LEMMA OpenedThreads ==
    ASSUME TypeOK, NEW w \in Writers, OpenFile(w)
    PROVE  \A v \in Writers :
             /\ thread'[v] \in ThreadState
             /\ thread'[v].snap = thread[v].snap
             /\ thread'[v].block = thread[v].block
             /\ thread'[v].alone = thread[v].alone
             /\ \/ thread'[v].at = thread[v].at
                \/ Saving(v) /\ thread'[v].at \in {"writing", "mixing"}
<1>1. \A v \in Writers : thread[v] \in ThreadState
  BY DEF TypeOK, ThreadState
<1>2. {"writing", "mixing"} \subseteq Stages
  BY DEF Stages
<1>3. \A v \in Writers :
        \/ thread'[v] = thread[v]
        \/ Saving(v) /\ \E s \in {"writing", "mixing"} : thread'[v] = Moved(thread[v], s)
  BY DEF OpenFile, At, Saving, Open, Moved
<1> SUFFICES ASSUME NEW v \in Writers
             PROVE  /\ thread'[v] \in ThreadState
                    /\ thread'[v].snap = thread[v].snap
                    /\ thread'[v].block = thread[v].block
                    /\ thread'[v].alone = thread[v].alone
                    /\ \/ thread'[v].at = thread[v].at
                       \/ Saving(v) /\ thread'[v].at \in {"writing", "mixing"}
  OBVIOUS
<1> DEFINE x == thread[v]
           y == thread'[v]
<1>4. /\ x \in ThreadState
      /\ \/ y = x
         \/ Saving(v) /\ \E s \in {"writing", "mixing"} : y = Moved(x, s)
  BY <1>1, <1>3
<1>5. CASE y = x
  BY <1>4, <1>5
<1>6. ASSUME NEW s \in {"writing", "mixing"}, y = Moved(x, s)
      PROVE  /\ y \in ThreadState
             /\ y.snap = x.snap /\ y.block = x.block /\ y.alone = x.alone /\ y.at = s
  <2>1. s \in Stages
    BY <1>2
  <2> QED
    BY <1>4, <1>6, <2>1, MovedThread
<1> QED
  BY <1>4, <1>5, <1>6

(* What is on offer are chains of blocks. *)
LEMMA OfferedBlocks ==
    ASSUME TypeOK, NEW c \in offers, NEW i \in DOMAIN c
    PROVE  c[i] \in Block
BY ChainFacts DEF TypeOK

(* The initial states satisfy the invariant of the lock. *)
LEMMA LockInit == Init => LockInv
<1> SUFFICES ASSUME Init PROVE LockInv
  OBVIOUS
<1> USE DEF Init
<1>1. chain \in Chain /\ minted \in [Nodes -> Nat]
  <2>1. <<Server, 1>> \in Hash
    BY Roles DEF Hash
  <2> QED
    BY <2>1, GenesisFacts
<1>2. thread \in [Writers -> ThreadState] /\ \A w \in Writers : thread[w].at = "idle"
  BY RestingType
<1>3. TypeOK
  <2>1. crashes \in 0..MaxCrashes
    BY PatchedBounds
  <2>2. /\ pool \subseteq Txs /\ offers \subseteq Chain
        /\ record \in [Txs -> {"none", "stored", "answered", "failed", "heard"}]
        /\ up \in BOOLEAN /\ overlapped \in BOOLEAN /\ cut \in BOOLEAN
    OBVIOUS
  <2>3. lock = NoOne /\ file = NoFile
    OBVIOUS
  <2> QED
    BY <1>1, <1>2, <2>1, <2>2, <2>3 DEF TypeOK, ThreadState
<1> QED
  BY <1>2, <1>3, Roles DEF LockInv, LockIsHeld, DownIsIdle, SnapsAreChains, Saving

(* Every step preserves the invariant of the lock. *)
LEMMA LockNext == LockInv /\ [Next]_vars => LockInv'
<1> SUFFICES ASSUME LockInv, [Next]_vars PROVE LockInv'
  OBVIOUS
<1> USE Roles DEF LockInv
<1>1. CASE UNCHANGED vars
  BY <1>1 DEF vars, ledger, ghosts, TypeOK, LockIsHeld, MinedFor, DownIsIdle, SnapsAreChains,
              Saving
<1>2. ASSUME NEW t \in Txs, StoreFile(t)
      PROVE  LockInv'
  <2>1. TypeOK'
    BY <1>2 DEF StoreFile, Proceeds, ledger, ghosts, TypeOK
  <2>2. UNCHANGED <<chain, pool, lock, thread, up>>
    BY <1>2 DEF StoreFile, Proceeds, ledger
  <2> QED
    BY <2>1, <2>2 DEF LockIsHeld, MinedFor, DownIsIdle, SnapsAreChains, Saving
<1>3. ASSUME NEW t \in Txs, Submit(t) \/ AddIncomingTx(t)
      PROVE  LockInv'
  <2>1. TypeOK'
    BY <1>3 DEF Submit, AddIncomingTx, Proceeds, ghosts, TypeOK
  <2>2. UNCHANGED <<chain, lock, thread, up>> /\ lock = NoOne
    BY <1>3 DEF Submit, AddIncomingTx, Proceeds, Free
  <2> QED
    BY <2>1, <2>2 DEF LockIsHeld, DownIsIdle, SnapsAreChains, Saving
<1>4. ASSUME SeeWork \/ GiveUp
      PROVE  LockInv'
  <2>1. PICK r \in ThreadState :
          /\ r.at \in {"idle", "polled"}
          /\ thread' = [thread EXCEPT ![Miner] = r]
          /\ up /\ lock = NoOne
          /\ UNCHANGED <<ledger, file, record, offers, up, ghosts, crashes>>
    BY <1>4, RestingType DEF SeeWork, GiveUp, Goes, At, Stages, Free
  <2>2. TypeOK'
    BY <2>1 DEF TypeOK, ThreadState, ledger, ghosts
  <2> QED
    BY <2>1, <2>2 DEF LockIsHeld, DownIsIdle, SnapsAreChains, Saving, ledger, TypeOK
<1>5. ASSUME NEW w \in Difficulty[Server]..MaxWork, StartMining(w)
      PROVE  LockInv'
  <2>1. PICK b \in Block :
          /\ MinedFor(b)
          /\ thread' = [thread EXCEPT ![Miner] =
                           [Resting EXCEPT !.at = "mining", !.block = b]]
    <3> DEFINE h == NewHash(Server)
               b == MinedBlock(chain, h, pool, w)
    <3>1. h \in Hash
      BY DEF NewHash, Hash, TypeOK
    <3>2. b \in Block /\ w >= Difficulty[Server]
      BY <3>1, WorkType, MinedIsBlock DEF TypeOK
    <3>3. MinedFor(b)
      BY <3>2 DEF MinedFor, MinedBlock
    <3> QED
      BY <1>5, <3>2, <3>3 DEF StartMining, MakesBlock, Goes
  <2> DEFINE r == [Resting EXCEPT !.at = "mining", !.block = b]
  <2>2. r \in ThreadState /\ r.at = "mining" /\ r.block = b
    BY RestingType DEF Stages
  <2>3. /\ thread' = [thread EXCEPT ![Miner] = r]
        /\ minted' = [minted EXCEPT ![Server] = @ + 1]
        /\ lock = NoOne /\ lock' = Miner /\ up
        /\ UNCHANGED <<chain, pool, file, record, offers, up, ghosts, crashes>>
    BY <1>5, <2>1 DEF StartMining, MakesBlock, Mints, Free, At
  <2> HIDE DEF r
  <2>4. TypeOK'
    BY <2>2, <2>3 DEF TypeOK, ThreadState, ghosts
  <2>5. MinedFor(b)'
    BY <2>1, <2>3 DEF MinedFor
  <2> QED
    BY <2>2, <2>3, <2>4, <2>5 DEF LockIsHeld, DownIsIdle, SnapsAreChains, Saving, TypeOK
<1>6. CASE FinishMining
  <2> DEFINE r == [Resting EXCEPT !.at = "changed"]
  <2>1. r \in ThreadState /\ r.at = "changed"
    BY RestingType DEF Stages
  <2>2. /\ thread[Miner].at = "mining" /\ up
        /\ chain' = Append(chain, thread[Miner].block) /\ pool' = {} /\ lock' = NoOne
        /\ thread' = [thread EXCEPT ![Miner] = r]
        /\ UNCHANGED <<minted, file, record, offers, up, ghosts, crashes>>
    BY <1>6 DEF FinishMining, Goes, At
  <2> HIDE DEF r
  <2>3. chain' \in Chain
    BY <2>2, AppendFacts DEF LockIsHeld, MinedFor, TypeOK
  <2>4. TypeOK'
    BY <2>1, <2>2, <2>3 DEF TypeOK, ThreadState, ghosts
  <2> QED
    BY <2>1, <2>2, <2>4 DEF LockIsHeld, DownIsIdle, SnapsAreChains, Saving, TypeOK
<1>7. ASSUME NEW c \in offers \cup {chain}, NEW txs \in SUBSET Txs,
             NEW w \in Difficulty[Peer]..MaxWork, PeerMines(c, txs, w)
      PROVE  LockInv'
  <2> DEFINE h == NewHash(Peer)
             b == MinedBlock(c, h, txs, w)
  <2>1. c \in Chain /\ h \in Hash
    BY DEF NewHash, Hash, TypeOK
  <2>2. Append(c, b) \in Chain
    BY <2>1, WorkType, MinedIsBlock, AppendFacts
  <2>3. /\ offers' = offers \cup {Append(c, b)}
        /\ minted' = [minted EXCEPT ![Peer] = @ + 1]
        /\ UNCHANGED <<chain, pool, lock, thread, file, record, up, ghosts, crashes>>
    BY <1>7 DEF PeerMines, Mints
  <2> HIDE DEF b, h
  <2>4. offers' \subseteq Chain /\ minted' \in [Nodes -> Nat]
    <3>1. offers \subseteq Chain /\ minted \in [Nodes -> Nat]
      BY DEF TypeOK
    <3>2. offers' \subseteq Chain
      BY <2>2, <2>3, <3>1
    <3>3. minted' \in [Nodes -> Nat]
      BY <2>3, <3>1
    <3> QED
      BY <3>2, <3>3
  <2>5. TypeOK'
    BY <2>3, <2>4 DEF TypeOK, ghosts
  <2> QED
    BY <2>3, <2>5 DEF LockIsHeld, MinedFor, DownIsIdle, SnapsAreChains, Saving
<1>8. ASSUME NEW c \in offers, NEW i \in DOMAIN c, AcceptBlock(c[i])
      PROVE  LockInv'
  <2> DEFINE r == [Resting EXCEPT !.at = "changed"]
  <2>1. r \in ThreadState /\ r.at = "changed"
    BY RestingType DEF Stages
  <2>2. /\ thread[Receiver].at = "idle" /\ lock = NoOne /\ lock' = Receiver /\ up
        /\ chain' = Append(chain, c[i]) /\ pool' = StillPending(pool, c[i])
        /\ thread' = [thread EXCEPT ![Receiver] = r]
        /\ UNCHANGED <<minted, file, record, offers, up, ghosts, crashes>>
    BY <1>8 DEF AcceptBlock, Goes, At, Free
  <2> HIDE DEF r
  <2>3. chain' \in Chain /\ pool' \subseteq pool
    BY <2>2, OfferedBlocks, AppendFacts DEF TypeOK, StillPending
  <2>4. TypeOK'
    BY <2>1, <2>2, <2>3 DEF TypeOK, ThreadState, ghosts
  <2> QED
    BY <2>1, <2>2, <2>4 DEF LockIsHeld, DownIsIdle, SnapsAreChains, Saving, TypeOK
<1>9. ASSUME NEW w \in Syncs, NEW c \in offers, ReplaceChain(w, c)
      PROVE  LockInv'
  <2> DEFINE r == [Resting EXCEPT !.at = "changed"]
  <2>1. r \in ThreadState /\ r.at = "changed"
    BY RestingType DEF Stages
  <2>2. /\ lock = NoOne /\ lock' = lock /\ up
        /\ chain' = c
        /\ thread' = [thread EXCEPT ![w] = r]
        /\ UNCHANGED <<pool, minted, file, record, offers, up, ghosts, crashes>>
    BY <1>9 DEF ReplaceChain, Adopts, Goes, At, Free
  <2> HIDE DEF r
  <2>3. TypeOK'
    BY <2>1, <2>2 DEF TypeOK, ThreadState, ghosts
  <2> QED
    BY <2>1, <2>2, <2>3 DEF LockIsHeld, DownIsIdle, SnapsAreChains, Saving, TypeOK
<1>10. ASSUME NEW w \in Writers, CopyChain(w)
       PROVE  LockInv'
  <2>1. /\ up /\ thread[w].at = "changed"
        /\ UNCHANGED <<ledger, file, record, offers, up, ghosts, crashes>>
    BY <1>10 DEF CopyChain, At
  <2>2. \A v \in Writers :
          /\ thread'[v] \in ThreadState
          /\ v # w => /\ thread'[v].at = thread[v].at
                      /\ thread'[v].snap = thread[v].snap
                      /\ thread'[v].block = thread[v].block
          /\ v = w => thread'[v].at = "copied" /\ thread'[v].snap = chain
    BY <1>10, CopiedThreads
  <2>3. thread' \in [Writers -> ThreadState]
    BY <1>10, <2>2 DEF CopyChain
  <2>4. TypeOK'
    BY <2>1, <2>3 DEF TypeOK, ThreadState, ledger, ghosts
  <2> QED
    BY <2>1, <2>2, <2>4 DEF LockIsHeld, MinedFor, DownIsIdle, SnapsAreChains, Saving, TypeOK, ledger
<1>11. ASSUME NEW w \in Writers, OpenFile(w)
       PROVE  LockInv'
  <2>1. /\ up /\ thread[w].at = "copied" /\ file' = Torn
        /\ UNCHANGED <<ledger, record, offers, up, ghosts, crashes>>
    BY <1>11 DEF OpenFile, At
  <2>2. \A v \in Writers :
          /\ thread'[v] \in ThreadState
          /\ thread'[v].snap = thread[v].snap
          /\ thread'[v].block = thread[v].block
          /\ \/ thread'[v].at = thread[v].at
             \/ Saving(v) /\ thread'[v].at \in {"writing", "mixing"}
    BY <1>11, OpenedThreads
  <2>3. thread' \in [Writers -> ThreadState]
    BY <1>11, <2>2 DEF OpenFile
  <2>4. TypeOK'
    BY <2>1, <2>3 DEF TypeOK, ThreadState, ledger, ghosts
  <2> QED
    BY <2>1, <2>2, <2>4 DEF LockIsHeld, MinedFor, DownIsIdle, SnapsAreChains, Saving, TypeOK, ledger
<1>12. ASSUME NEW w \in Writers, CloseFile(w)
       PROVE  LockInv'
  <2>1. /\ up /\ Saving(w) /\ file' \in Written(w) /\ overlapped' \in BOOLEAN
        /\ lock' = IF w = Receiver THEN NoOne ELSE lock
        /\ thread' = [thread EXCEPT ![w] = Resting]
        /\ UNCHANGED <<chain, pool, minted, record, offers, up, cut, crashes>>
    BY <1>12 DEF CloseFile, LeavesLock, Goes, Open, Saving
  <2>2. Resting \in ThreadState /\ Resting.at = "idle"
    BY RestingType
  <2>3. file' \in Chain \cup {Torn}
    BY <2>1 DEF Written, SnapsAreChains
  <2>4. TypeOK'
    BY <2>1, <2>2, <2>3 DEF TypeOK, ThreadState
  <2> QED
    BY <2>1, <2>2, <2>4 DEF LockIsHeld, MinedFor, DownIsIdle, SnapsAreChains, Saving, TypeOK
<1>13. CASE Crash
  <2>1. thread' = [w \in Writers |-> Resting] /\ lock' = NoOne
    BY <1>13 DEF Crash
  <2>2. Resting \in ThreadState /\ Resting.at = "idle"
    BY RestingType
  <2>3. crashes' \in 0..MaxCrashes
    BY <1>13, PatchedBounds DEF Crash, TypeOK
  <2>4. file' \in Chain \cup {NoFile, Torn} /\ cut' \in BOOLEAN
    BY <1>13 DEF Crash, TypeOK
  <2>5. record' \in [Txs -> {"none", "stored", "answered", "failed", "heard"}]
    BY <1>13 DEF Crash, TypeOK
  <2>6. thread' \in [Writers -> ThreadState]
    BY <2>1, <2>2
  <2>7. /\ up' = FALSE /\ pool' = {}
        /\ UNCHANGED <<chain, minted, offers, overlapped>>
    BY <1>13 DEF Crash
  <2>8. TypeOK'
    BY <2>1, <2>3, <2>4, <2>5, <2>6, <2>7 DEF TypeOK, ThreadState
  <2> QED
    BY <2>1, <2>2, <2>8 DEF LockIsHeld, DownIsIdle, SnapsAreChains, Saving
<1>14. CASE Start
  <2>1. /\ UNCHANGED <<pool, lock, thread, file, record, offers, ghosts, crashes>>
        /\ up' = TRUE /\ lock = NoOne
    BY <1>14 DEF Start, DownIsIdle
  <2>2. chain' \in Chain /\ minted' \in [Nodes -> Nat]
    <3>1. NewHash(Server) \in Hash
      BY DEF NewHash, Hash, TypeOK
    <3>2. CASE file = NoFile
      <4>1. chain' = <<Genesis(NewHash(Server))>> /\ minted' = [minted EXCEPT ![Server] = @ + 1]
        BY <1>14, <3>2 DEF Start, Mints
      <4>2. <<Genesis(NewHash(Server))>> \in Chain
        BY <3>1, GenesisFacts
      <4>3. minted' \in [Nodes -> Nat]
        BY <4>1 DEF TypeOK
      <4> QED
        BY <4>1, <4>2, <4>3
    <3>3. CASE file # NoFile
      BY <1>14, <3>3 DEF Start, TypeOK
    <3> QED
      BY <3>2, <3>3
  <2>3. TypeOK'
    BY <2>1, <2>2 DEF TypeOK, ghosts
  <2> QED
    BY <2>1, <2>3 DEF LockIsHeld, DownIsIdle, SnapsAreChains, Saving
<1> QED
  <2>1. Broadcast \subseteq Txs
    BY Roles, RolesAssumption DEF Broadcast
  <2> QED
    BY <1>1, <1>2, <1>3, <1>4, <1>5, <1>6, <1>7, <1>8, <1>9, <1>10, <1>11, <1>12,
       <1>13, <1>14, <2>1 DEF Next, Mining, Save

(* The state of the server has its type at all times. *)
THEOREM TypeCorrect == Spec => []TypeOK
<1>1. LockInv => TypeOK
  BY DEF LockInv
<1> QED
  BY <1>1, LockInit, LockNext, PTL DEF Spec

(* The miner and the receiver hold the lock as the code says, and the     *)
(* block that is mined is one of the tip and the pool of now.              *)
THEOREM LockCorrect == Spec => []LockInv
BY LockInit, LockNext, PTL DEF Spec

-----------------------------------------------------------------------------
(* The chains of this server, in memory, in the file, on their way to it,  *)
(* and the one that it will have when the nonce is found.                  *)

Copies == {thread[w].snap : w \in {x \in Writers : Saving(x)}}

Mined == {Append(chain, thread[w].block) : w \in {x \in {Miner} : thread[x].at = "mining"}}

Own == {chain} \cup ({file} \ {NoFile, Torn}) \cup Copies \cup Mined

Chains == Own \cup offers

(* No chain comes from outside, and no hash is new. *)
Still == Own' \subseteq Own /\ UNCHANGED <<offers, minted>>

LedgerStep ==
    \/ \E w \in Difficulty[Server]..MaxWork : StartMining(w)
    \/ \E c \in offers \cup {chain}, txs \in SUBSET Txs, w \in Difficulty[Peer]..MaxWork :
          PeerMines(c, txs, w)
    \/ \E c \in offers : \E i \in DOMAIN c : AcceptBlock(c[i])
    \/ \E w \in Syncs, c \in offers : ReplaceChain(w, c)
    \/ Start /\ file = NoFile

(* All of these are chains. *)
LEMMA OwnAreChains ==
    ASSUME LockInv
    PROVE  Own \subseteq Chain
<1>1. Mined \subseteq Chain
  <2>1. thread[Miner].at = "mining" => Append(chain, thread[Miner].block) \in Chain
    BY AppendFacts DEF LockInv, LockIsHeld, MinedFor, TypeOK
  <2> QED
    BY <2>1 DEF Mined
<1>2. Copies \subseteq Chain
  BY DEF LockInv, SnapsAreChains, Copies
<1> QED
  BY <1>1, <1>2 DEF Own, LockInv, TypeOK

(* Saves, crashes, and starts from the file only move chains about, and so *)
(* does the end of the search for a nonce.                                 *)
LEMMA StepKinds ==
    ASSUME LockInv, [Next]_vars
    PROVE  Still \/ LedgerStep
<1> USE Roles DEF LockInv
<1>1. CASE UNCHANGED vars
  BY <1>1 DEF vars, ledger, ghosts, Still, Own, Copies, Mined, Saving
<1>2. ASSUME NEW t \in Txs, StoreFile(t) \/ Submit(t) \/ AddIncomingTx(t)
      PROVE  Still
  BY <1>2 DEF StoreFile, Submit, AddIncomingTx, ledger, ghosts,
              Still, Own, Copies, Mined, Saving
<1>3. CASE SeeWork \/ GiveUp
  <2>1. PICK r \in ThreadState :
          /\ r.at \in {"idle", "polled"}
          /\ thread' = [thread EXCEPT ![Miner] = r]
          /\ UNCHANGED <<ledger, file, offers>>
    BY <1>3, RestingType DEF SeeWork, GiveUp, Goes, Stages
  <2>2. Copies' \subseteq Copies /\ Mined' = {}
    BY <2>1 DEF Copies, Mined, Saving, TypeOK
  <2> QED
    BY <2>1, <2>2 DEF Still, Own, ledger
<1>4. CASE FinishMining
  <2> DEFINE r == [Resting EXCEPT !.at = "changed"]
  <2>1. /\ thread[Miner].at = "mining"
        /\ chain' = Append(chain, thread[Miner].block)
        /\ thread' = [thread EXCEPT ![Miner] = r]
        /\ UNCHANGED <<minted, file, offers>>
    BY <1>4 DEF FinishMining, Goes, At
  <2>2. r.at = "changed"
    BY RestingType DEF Stages
  <2> HIDE DEF r
  <2>3. Copies' \subseteq Copies /\ Mined' = {}
    BY <2>1, <2>2 DEF Copies, Mined, Saving, TypeOK
  <2>4. chain' \in Mined
    BY <2>1 DEF Mined
  <2> QED
    BY <2>1, <2>3, <2>4 DEF Still, Own
<1>5. ASSUME NEW w \in Writers, CopyChain(w)
      PROVE  Still
  <2>1. /\ thread[w].at = "changed"
        /\ UNCHANGED <<ledger, file, offers>>
    BY <1>5 DEF CopyChain, At
  <2>2. \A v \in Writers :
          /\ v # w => /\ thread'[v].at = thread[v].at
                      /\ thread'[v].snap = thread[v].snap
                      /\ thread'[v].block = thread[v].block
          /\ v = w => thread'[v].at = "copied" /\ thread'[v].snap = chain
    BY <1>5, CopiedThreads
  <2>3. Copies' \subseteq Copies \cup {chain}
    BY <2>2 DEF Copies, Saving
  <2>4. Mined' \subseteq Mined
    BY <2>1, <2>2 DEF Mined, ledger
  <2> QED
    BY <2>1, <2>3, <2>4 DEF Still, Own, ledger
<1>6. ASSUME NEW w \in Writers, OpenFile(w)
      PROVE  Still
  <2>1. UNCHANGED <<ledger, offers>> /\ file' = Torn
    BY <1>6 DEF OpenFile
  <2>2. \A v \in Writers :
          /\ thread'[v].snap = thread[v].snap
          /\ thread'[v].block = thread[v].block
          /\ \/ thread'[v].at = thread[v].at
             \/ Saving(v) /\ thread'[v].at \in {"writing", "mixing"}
    BY <1>6, OpenedThreads
  <2>3. Copies' \subseteq Copies
    BY <2>2 DEF Copies, Saving
  <2>4. Mined' \subseteq Mined
    BY <2>1, <2>2 DEF Mined, ledger
  <2> QED
    BY <2>1, <2>3, <2>4 DEF Still, Own, ledger
<1>7. ASSUME NEW w \in Writers, CloseFile(w)
      PROVE  Still
  <2>1. /\ thread' = [thread EXCEPT ![w] = Resting]
        /\ UNCHANGED <<chain, minted, offers>>
        /\ Saving(w) /\ file' \in {thread[w].snap, Torn}
    BY <1>7 DEF CloseFile, Goes, Open, Saving, Written
  <2>2. \A v \in Writers : thread'[v] = thread[v] \/ thread'[v].at = "idle"
    BY <2>1, RestingType DEF TypeOK
  <2>3. Copies' \subseteq Copies
    BY <2>2 DEF Copies, Saving
  <2>4. Mined' \subseteq Mined
    BY <2>1, <2>2 DEF Mined
  <2>5. {file'} \ {NoFile, Torn} \subseteq Copies
    BY <2>1 DEF Copies
  <2> QED
    BY <2>1, <2>3, <2>4, <2>5 DEF Still, Own
<1>8. CASE Crash
  <2>1. /\ thread' = [w \in Writers |-> Resting]
        /\ UNCHANGED <<chain, minted, offers>>
        /\ file' \in {file, Torn}
    BY <1>8 DEF Crash
  <2>2. Copies' = {} /\ Mined' = {}
    BY <2>1, RestingType DEF Copies, Mined, Saving
  <2> QED
    BY <2>1, <2>2 DEF Still, Own
<1>9. CASE Start
  <2>1. CASE file = NoFile
    BY <1>9, <2>1 DEF LedgerStep
  <2>2. CASE file # NoFile
    <3>1. chain' = file /\ file # Torn /\ UNCHANGED <<minted, thread, file, offers>>
      BY <1>9, <2>2 DEF Start
    <3>2. thread = [w \in Writers |-> Resting]
      BY <1>9 DEF Start, DownIsIdle
    <3>3. Copies' = {} /\ Mined' = {}
      BY <3>1, <3>2, RestingType DEF Copies, Mined, Saving
    <3> QED
      BY <2>2, <3>1, <3>3 DEF Still, Own
  <2> QED
    BY <2>1, <2>2
<1> QED
  <2>1. Broadcast \subseteq Txs
    BY Roles, RolesAssumption DEF Broadcast
  <2> QED
    BY <1>1, <1>2, <1>3, <1>4, <1>5, <1>6, <1>7, <1>8, <1>9, <2>1
    DEF Next, Mining, Save, LedgerStep

-----------------------------------------------------------------------------
(* Chains stay valid. *)

(* Each of its own chains is valid, the one to be also. *)
OwnAreValid == \A c \in Own : IsValid(c, Difficulty[Server])

(* At first there is only the genesis block. *)
LEMMA ValidInit == Init => OwnAreValid
<1> SUFFICES ASSUME Init PROVE OwnAreValid
  OBVIOUS
<1>1. <<Server, 1>> \in Hash
  BY Roles DEF Hash
<1>2. IsValid(chain, Difficulty[Server])
  BY <1>1, GenesisValid DEF Init
<1>3. Copies = {} /\ Mined = {}
  BY RestingType, Roles DEF Init, Copies, Mined, Saving
<1> QED
  BY <1>2, <1>3 DEF Own, OwnAreValid, Init

(* The chain that a change of the chain leads to. *)
LEMMA OwnNext ==
    ASSUME LockInv
    PROVE  /\ \A w : StartMining(w) =>
                 Own' \subseteq Own \cup
                    {Append(chain, MinedBlock(chain, NewHash(Server), pool, w))}
           /\ \A c \in offers : \A i \in DOMAIN c : AcceptBlock(c[i]) =>
                 Own' \subseteq Own \cup {Append(chain, c[i])}
           /\ \A w \in Syncs, c \in offers : ReplaceChain(w, c) => Own' \subseteq Own \cup {c}
           /\ \A c, txs, w : PeerMines(c, txs, w) => Own' = Own
           /\ Start /\ file = NoFile => Own' \subseteq {<<Genesis(NewHash(Server))>>}
<1> USE Roles DEF LockInv
<1>1. ASSUME NEW w, StartMining(w)
      PROVE  Own' \subseteq Own \cup
                {Append(chain, MinedBlock(chain, NewHash(Server), pool, w))}
  <2> DEFINE b == MinedBlock(chain, NewHash(Server), pool, w)
             r == [Resting EXCEPT !.at = "mining", !.block = b]
  <2>1. /\ thread' = [thread EXCEPT ![Miner] = r]
        /\ UNCHANGED <<chain, file>>
    BY <1>1 DEF StartMining, MakesBlock, Goes
  <2>2. r.at = "mining" /\ r.block = b
    BY DEF Resting
  <2> HIDE DEF r, b
  <2>3. \A v \in Writers : v # Miner => thread'[v] = thread[v]
    BY <2>1 DEF TypeOK
  <2>4. thread'[Miner].at = "mining" /\ thread'[Miner].block = b
    BY <2>1, <2>2 DEF TypeOK
  <2>5. Copies' \subseteq Copies
    BY <2>3, <2>4 DEF Copies, Saving
  <2>6. Mined' \subseteq {Append(chain, b)}
    BY <2>1, <2>4 DEF Mined
  <2> QED
    BY <2>1, <2>5, <2>6 DEF Own, b
<1>2. ASSUME NEW w \in Writers \ {Miner}, NEW c, up,
             thread[w].at = "idle", lock = NoOne, chain' = c,
             Goes(w, [Resting EXCEPT !.at = "changed"]), UNCHANGED file
      PROVE  Own' \subseteq Own \cup {c}
  <2> DEFINE r == [Resting EXCEPT !.at = "changed"]
  <2>1. r.at = "changed"
    BY RestingType DEF Stages
  <2>2. thread' = [thread EXCEPT ![w] = r]
    BY <1>2 DEF Goes
  <2> HIDE DEF r
  <2>3. \A v \in Writers : thread'[v] = thread[v] \/ thread'[v].at = "changed"
    BY <2>1, <2>2 DEF TypeOK
  <2>4. thread'[Miner].at # "mining"
    BY <1>2, <2>3 DEF LockIsHeld
  <2>5. Copies' \subseteq Copies /\ Mined' = {}
    BY <2>3, <2>4 DEF Copies, Mined, Saving
  <2> QED
    BY <1>2, <2>5 DEF Own
<1>3. ASSUME NEW c, NEW txs, NEW w, PeerMines(c, txs, w)
      PROVE  Own' = Own
  BY <1>3 DEF PeerMines, Own, Copies, Mined, Saving
<1>4. ASSUME Start, file = NoFile
      PROVE  Own' \subseteq {<<Genesis(NewHash(Server))>>}
  <2>1. /\ chain' = <<Genesis(NewHash(Server))>>
        /\ UNCHANGED <<thread, file>>
    BY <1>4 DEF Start
  <2>2. thread' = [v \in Writers |-> Resting]
    BY <1>4, <2>1 DEF Start, DownIsIdle
  <2>3. Copies' = {} /\ Mined' = {}
    BY <2>2, RestingType DEF Copies, Mined, Saving
  <2> QED
    BY <1>4, <2>1, <2>3 DEF Own
<1>5. ASSUME NEW c \in offers, NEW i \in DOMAIN c, AcceptBlock(c[i])
      PROVE  Own' \subseteq Own \cup {Append(chain, c[i])}
  BY <1>2, <1>5 DEF AcceptBlock, At, Free
<1>6. ASSUME NEW w \in Syncs, NEW c \in offers, ReplaceChain(w, c)
      PROVE  Own' \subseteq Own \cup {c}
  BY <1>2, <1>6 DEF ReplaceChain, Adopts, At, Free
<1> QED
  BY <1>1, <1>3, <1>4, <1>5, <1>6

(* Every step keeps all of its chains valid. *)
LEMMA ValidNext == LockInv /\ OwnAreValid /\ [Next]_vars => OwnAreValid'
<1> SUFFICES ASSUME LockInv, OwnAreValid, [Next]_vars PROVE OwnAreValid'
  OBVIOUS
<1> DEFINE d == Difficulty[Server]
<1>1. d \in Nat /\ chain \in Chain /\ chain \in Own /\ NewHash(Server) \in Hash
  BY Roles DEF LockInv, TypeOK, Own, NewHash, Hash
<1>2. CASE Still
  BY <1>2 DEF Still, OwnAreValid
<1>3. ASSUME NEW w \in Difficulty[Server]..MaxWork, StartMining(w)
      PROVE  OwnAreValid'
  <2> DEFINE b == MinedBlock(chain, NewHash(Server), pool, w)
  <2>1. /\ b \in Block
        /\ b.prev = chain[Len(chain)].hash
        /\ b.work = w
        /\ w >= d
    BY <1>1, Roles, MinedIsBlock, WorkType DEF MinedBlock, LastBlock, LockInv, TypeOK
  <2> HIDE DEF b
  <2>2. IsValid(Append(chain, b), d)
    BY <1>1, <2>1, AppendValid DEF OwnAreValid
  <2> QED
    BY <1>3, <2>2, OwnNext DEF OwnAreValid, b
<1>4. ASSUME NEW c \in offers, NEW i \in DOMAIN c, AcceptBlock(c[i])
      PROVE  OwnAreValid'
  <2>1. /\ c[i] \in Block
        /\ c[i].prev = chain[Len(chain)].hash
        /\ c[i].work >= d
    BY <1>4, OfferedBlocks DEF LockInv, AcceptBlock, LastBlock, IsValidProof
  <2>2. IsValid(Append(chain, c[i]), d)
    BY <1>1, <2>1, AppendValid DEF OwnAreValid
  <2> QED
    BY <1>4, <2>2, OwnNext DEF OwnAreValid
<1>5. ASSUME NEW w \in Syncs, NEW c \in offers, ReplaceChain(w, c)
      PROVE  OwnAreValid'
  <2>1. IsValid(c, d)
    BY <1>5 DEF ReplaceChain, Adopts, Replaces
  <2> QED
    BY <1>5, <2>1, OwnNext DEF OwnAreValid
<1>6. ASSUME NEW c, NEW txs, NEW w, PeerMines(c, txs, w)
      PROVE  OwnAreValid'
  BY <1>6, OwnNext DEF OwnAreValid
<1>7. CASE Start /\ file = NoFile
  BY <1>1, <1>7, OwnNext, GenesisValid DEF OwnAreValid
<1> QED
  BY <1>2, <1>3, <1>4, <1>5, <1>6, <1>7, StepKinds DEF LedgerStep

(* The chain, and the one in the file, are valid at all times. *)
THEOREM ChainsAlwaysValid == Spec => []ChainIsValid
<1>1. OwnAreValid => ChainIsValid
  BY DEF OwnAreValid, Own, ChainIsValid
<1> QED
  BY <1>1, LockInit, LockNext, ValidInit, ValidNext, PTL DEF Spec

-----------------------------------------------------------------------------
(* Blocks and their past: what the index of a block on offer says.         *)

Produced == Numbered(minted)

HistoryInv == History(Chains, {}, Produced)

(* At first there is one genesis block, with a hash of its own. *)
LEMMA HistoryInit == Init => HistoryInv
<1> SUFFICES ASSUME Init PROVE HistoryInv
  OBVIOUS
<1> DEFINE h == <<Server, 1>>
<1>1. h \in Hash /\ h \in Produced /\ Chains = {<<Genesis(h)>>}
  <2>1. h \in Hash
    BY Roles DEF Hash
  <2>2. h \in Produced
    BY <2>1, Roles DEF Init, Produced, Numbered
  <2>3. Copies = {} /\ Mined = {}
    BY RestingType, Roles DEF Init, Copies, Mined, Saving
  <2> QED
    BY <2>1, <2>2, <2>3 DEF Init, Chains, Own
<1>2. History({}, {}, {})
  BY DEF History, BlocksOf, HashesProduced, OneBlockPerHash, IndexAbovePrev, WellLinked
<1> HIDE DEF h
<1>3. History({} \cup {<<Genesis(h)>>}, {}, {} \cup {h})
  BY <1>1, <1>2, HistoryBegins
<1>4. {<<Genesis(h)>>} \in SUBSET ({} \cup {<<Genesis(h)>>}) /\ {} \cup {h} \subseteq Produced
  BY <1>1
<1>5. History({<<Genesis(h)>>}, {}, Produced)
  BY <1>3, <1>4, HistoryShrinks
<1> QED
  BY <1>1, <1>5 DEF HistoryInv

(* A block that is received or mined has the position it will stand at for *)
(* its index.                                                              *)
LEMMA AcceptedIndex ==
    ASSUME LockInv, HistoryInv, NEW c \in offers, NEW i \in DOMAIN c, AcceptBlock(c[i])
    PROVE  /\ c[i] \in Block
           /\ c[i] \in BlocksOf(Chains, {})
           /\ c[i].prev = chain[Len(chain)].hash
           /\ c[i].index > chain[Len(chain)].index
           /\ c[i].index = Len(chain)
<1> DEFINE b   == c[i]
           tip == chain[Len(chain)]
<1>1. b \in Block /\ b \in BlocksOf(Chains, {})
  BY OfferedBlocks DEF LockInv, BlocksOf, Chains
<1>2. b.prev = tip.hash /\ b.index > tip.index
  BY DEF AcceptBlock, LastBlock
<1>3. /\ chain \in Chains /\ Len(chain) \in Nat \ {0} /\ Len(chain) \in DOMAIN chain
      /\ tip \in Block
  BY ChainFacts DEF Chains, Own, LockInv, TypeOK
<1>4. tip \in BlocksOf(Chains, {}) /\ tip.index = Len(chain) - 1
  BY <1>3 DEF BlocksOf, HistoryInv, History, WellLinked
<1>5. b.index > 0
  BY <1>1, <1>2, <1>3 DEF Block
<1>6. b.index = tip.index + 1
  BY <1>1, <1>2, <1>4, <1>5 DEF HistoryInv, History, IndexAbovePrev
<1> QED
  BY <1>1, <1>2, <1>3, <1>4, <1>6

(* Every step keeps the history of all chains. *)
LEMMA HistoryNext == LockInv /\ HistoryInv /\ [Next]_vars => HistoryInv'
<1> SUFFICES ASSUME LockInv, HistoryInv, [Next]_vars PROVE HistoryInv'
  OBVIOUS
<1>1. /\ chain \in Chains /\ chain \in Chain
      /\ minted \in [Nodes -> Nat]
  BY DEF Chains, Own, LockInv, TypeOK
<1>2. CASE Still
  <2>1. Chains' \subseteq Chains /\ Produced \subseteq Produced'
    BY <1>2 DEF Still, Chains, Produced
  <2> QED
    BY <2>1, HistoryShrinks DEF HistoryInv
<1>3. ASSUME NEW n \in Nodes, NEW c \in Chains, NEW txs \in SUBSET Txs, NEW w \in Nat,
             Mints(n),
             Chains' \subseteq Chains \cup {Append(c, MinedBlock(c, NewHash(n), txs, w))}
      PROVE  HistoryInv'
  <2> DEFINE h == NewHash(n)
             b == MinedBlock(c, h, txs, w)
  <2>1. h \in Hash /\ h \notin Produced /\ Produced \cup {h} \subseteq Produced'
    BY <1>1, <1>3, NextIsNew DEF NewHash, Mints, Produced
  <2>2. c \in Chain
    BY DEF HistoryInv, History
  <2>3. b \in Block
    BY <2>1, <2>2, MinedIsBlock
  <2>4. b.hash = h /\ b.prev = c[Len(c)].hash /\ b.index = Len(c)
    BY DEF MinedBlock, LastBlock
  <2> HIDE DEF b, h
  <2>5. History(Chains \cup {Append(c, b)}, {} \cup {b}, Produced \cup {b.hash})
    BY <2>1, <2>3, <2>4, HistoryMines DEF HistoryInv
  <2>6. Chains' \in SUBSET (Chains \cup {Append(c, b)})
    BY <1>3 DEF b, h
  <2>7. {} \subseteq {} \cup {b} /\ Produced \cup {b.hash} \subseteq Produced'
    BY <2>1, <2>4
  <2> QED
    BY <2>5, <2>6, <2>7, HistoryShrinks DEF HistoryInv
<1>4. ASSUME NEW w \in Difficulty[Server]..MaxWork, StartMining(w)
      PROVE  HistoryInv'
  <2>1. Chains' \subseteq Chains \cup
           {Append(chain, MinedBlock(chain, NewHash(Server), pool, w))}
    BY <1>4, OwnNext DEF Chains, StartMining, MakesBlock
  <2>2. Server \in Nodes /\ w \in Nat /\ pool \in SUBSET Txs /\ Mints(Server)
    BY <1>4, Roles, WorkType DEF LockInv, TypeOK, StartMining, MakesBlock
  <2> QED
    BY <1>1, <1>3, <2>1, <2>2
<1>5. ASSUME NEW c \in offers \cup {chain}, NEW txs \in SUBSET Txs,
             NEW w \in Difficulty[Peer]..MaxWork, PeerMines(c, txs, w)
      PROVE  HistoryInv'
  <2>1. Chains' \subseteq Chains \cup {Append(c, MinedBlock(c, NewHash(Peer), txs, w))}
    BY <1>5, OwnNext DEF Chains, PeerMines
  <2>2. Peer \in Nodes /\ w \in Nat /\ Mints(Peer) /\ c \in Chains
    BY <1>1, <1>5, Roles, WorkType DEF PeerMines, Chains
  <2> QED
    BY <1>3, <2>1, <2>2
<1>6. ASSUME NEW c \in offers, NEW i \in DOMAIN c, AcceptBlock(c[i])
      PROVE  HistoryInv'
  <2>1. Chains' \subseteq Chains \cup {Append(chain, c[i])} /\ Produced' = Produced
    BY <1>6, OwnNext DEF Chains, AcceptBlock, Produced
  <2>2. History(Chains \cup {Append(chain, c[i])}, {}, Produced)
    BY <1>1, <1>6, AcceptedIndex, HistoryLinks DEF HistoryInv
  <2> QED
    BY <2>1, <2>2, HistoryShrinks DEF HistoryInv
<1>7. ASSUME NEW w \in Syncs, NEW c \in offers, ReplaceChain(w, c)
      PROVE  HistoryInv'
  <2>1. Chains' \subseteq Chains /\ Produced' = Produced
    BY <1>7, OwnNext DEF Chains, ReplaceChain, Adopts, Produced
  <2> QED
    BY <2>1, HistoryShrinks DEF HistoryInv
<1>8. CASE Start /\ file = NoFile
  <2> DEFINE h == NewHash(Server)
  <2>1. h \in Hash /\ h \notin Produced /\ Produced \cup {h} \subseteq Produced'
    BY <1>1, <1>8, NextIsNew, Roles DEF NewHash, Start, Mints, Produced
  <2>2. History(Chains \cup {<<Genesis(h)>>}, {}, Produced \cup {h})
    BY <2>1, HistoryBegins DEF HistoryInv
  <2>3. Chains' \in SUBSET (Chains \cup {<<Genesis(h)>>})
    BY <1>8, OwnNext DEF Chains, Start
  <2> QED
    BY <2>1, <2>2, <2>3, HistoryShrinks DEF HistoryInv
<1> QED
  BY <1>2, <1>4, <1>5, <1>6, <1>7, <1>8, StepKinds DEF LedgerStep

(* Of all chains held or on offer: chains that share a block share its     *)
(* past, and the index of a block is its position, although no code        *)
(* compares the two.                                                       *)
THEOREM HistoryCorrect == Spec => []HistoryInv
BY LockInit, LockNext, HistoryInit, HistoryNext, PTL DEF Spec

-----------------------------------------------------------------------------
(* While the process runs, it follows the longest-chain rule. *)

(* A block that follows the tip is an extension. *)
LEMMA ExtendStep ==
    ASSUME NEW b, chain \in Chain, b \in Block,
           b.index = Len(chain),
           b.prev = chain[Len(chain)].hash,
           b.work >= Difficulty[Server],
           chain' = Append(chain, b)
    PROVE  Network!Next
<1> DEFINE len == Len(chain)
<1>1. len \in Nat \ {0} /\ Len(chain') = len + 1 /\ chain'[len + 1] = b
  BY ChainFacts, AppendFacts
<1>2. Network!Follows(b, chain[len], len + 1, Difficulty[Server])
  BY <1>1 DEF Network!Follows
<1>3. Network!Others(Server)
  BY DEF Network!Others
<1>4. Network!Extend(Server)
  BY <1>1, <1>2, <1>3 DEF Network!Extend
<1> QED
  BY <1>4 DEF Network!Next

(* A longer valid chain that is on offer is an adoption. *)
LEMMA AdoptStep ==
    ASSUME HistoryInv, NEW c \in Chains, c \in Chain,
           Replaces(c, chain, Difficulty[Server]),
           chain' = c
    PROVE  Network!Next
<1>1. Len(c) > Len(chain) /\ IsValid(c, Difficulty[Server])
  BY DEF Replaces, Longer
<1>2. ASSUME NEW i \in 2..Len(c)
      PROVE  Network!Follows(c[i], c[i - 1], i, Difficulty[Server])
  <2>1. i \in DOMAIN c
    BY ChainFacts
  <2>2. c[i].index = i - 1
    BY <2>1 DEF HistoryInv, History, WellLinked
  <2> QED
    BY <1>1, <2>2 DEF IsValid, IsValidProof, Network!Follows
<1>3. Network!Others(Server)
  BY DEF Network!Others
<1>4. Network!Adopt(Server)
  BY <1>1, <1>2, <1>3 DEF Network!Adopt
<1> QED
  BY <1>4 DEF Network!Next

(* Every step of a running server is one of the longest-chain rule. *)
LEMMA NetworkNext ==
    LockInv /\ HistoryInv /\ [Next]_vars
      => [up /\ up' => Network!Next \/ UNCHANGED chain]_vars
<1> SUFFICES ASSUME LockInv, HistoryInv, Next, up, up'
             PROVE  Network!Next \/ UNCHANGED chain
  OBVIOUS
<1>1. chain \in Chain /\ offers \subseteq Chain /\ offers \subseteq Chains
  BY DEF LockInv, TypeOK, Chains
<1>2. CASE FinishMining
  <2>1. MinedFor(thread[Miner].block) /\ chain' = Append(chain, thread[Miner].block)
    BY <1>2 DEF FinishMining, At, LockInv, LockIsHeld
  <2> QED
    BY <1>1, <2>1, ExtendStep DEF MinedFor, LastBlock
<1>3. ASSUME NEW c \in offers, NEW i \in DOMAIN c, AcceptBlock(c[i])
      PROVE  Network!Next
  <2>1. chain' = Append(chain, c[i]) /\ c[i].work >= Difficulty[Server]
    BY <1>3 DEF AcceptBlock, IsValidProof
  <2> QED
    BY <1>1, <1>3, <2>1, AcceptedIndex, ExtendStep
<1>4. ASSUME NEW w \in Syncs, NEW c \in offers, ReplaceChain(w, c)
      PROVE  Network!Next
  BY <1>1, <1>4, AdoptStep DEF ReplaceChain, Adopts
<1>5. ASSUME NEW t \in Txs, StoreFile(t) \/ Submit(t) \/ AddIncomingTx(t)
      PROVE  UNCHANGED chain
  BY <1>5 DEF StoreFile, Submit, AddIncomingTx, ledger
<1>6. ASSUME NEW w, SeeWork \/ GiveUp \/ StartMining(w) \/ Save(w)
      PROVE  UNCHANGED chain
  BY <1>6 DEF SeeWork, GiveUp, StartMining, MakesBlock, Save, CopyChain, OpenFile,
              CloseFile, ledger
<1>7. ASSUME NEW c, NEW txs, NEW w, PeerMines(c, txs, w)
      PROVE  UNCHANGED chain
  BY <1>7 DEF PeerMines
<1>8. ~ Crash /\ ~ Start
  BY DEF Crash, Start
<1> QED
  BY <1>2, <1>3, <1>4, <1>5, <1>6, <1>7, <1>8 DEF Next, Mining

(* While the server runs, it extends its chain by a block that follows,   *)
(* or adopts a longer valid one: the steps of saving, and the lock that is *)
(* held in pieces, change nothing in what LongestChain promises.           *)
THEOREM ServerRunsLongestChain == Spec => RunsLongestChain
BY LockInit, LockNext, HistoryInit, HistoryNext, NetworkNext, PTL
DEF Spec, RunsLongestChain

-----------------------------------------------------------------------------
(* What became of a record that was answered. *)

(* What is on a chain is on every chain that extends it. *)
LEMMA PrefixOnChain ==
    ASSUME NEW c \in Chain, NEW d \in Chain, Extends(d, c)
    PROVE  OnChain(c) \subseteq OnChain(d)
<1>1. /\ Len(c) \in Nat /\ DOMAIN c = 1..Len(c)
      /\ Len(d) \in Nat /\ DOMAIN d = 1..Len(d)
      /\ \A i \in DOMAIN c : c[i] \in Block
      /\ \A i \in DOMAIN d : d[i] \in Block
  BY ChainFacts
<1>2. Len(c) <= Len(d) /\ SubSeq(c, 1, Len(c)) = SubSeq(d, 1, Len(c))
  BY DEF Extends, IsPrefix
<1>3. \A i \in 1..Len(c) : SubSeq(c, 1, Len(c))[i] = c[i]
  BY <1>1, SubSeqProperties
<1>4. \A i \in 1..Len(c) : SubSeq(d, 1, Len(c))[i] = d[i]
  BY <1>1, <1>2, SubSeqProperties
<1>5. \A i \in DOMAIN c : i \in DOMAIN d /\ d[i] = c[i]
  BY <1>1, <1>2, <1>3, <1>4
<1> QED
  BY <1>5 DEF OnChain

(* A block adds its transactions to those on the chain. *)
LEMMA AppendOnChain ==
    ASSUME NEW c \in Chain, NEW b \in Block
    PROVE  OnChain(Append(c, b)) = OnChain(c) \cup b.txs
<1> DEFINE c2 == Append(c, b)
<1>1. /\ Len(c) \in Nat /\ DOMAIN c = 1..Len(c)
      /\ DOMAIN c2 = 1..(Len(c) + 1)
      /\ \A i \in DOMAIN c : c2[i] = c[i]
      /\ c2[Len(c) + 1] = b
  BY ChainFacts, AppendFacts
<1> HIDE DEF c2
<1>2. \A i \in DOMAIN c2 : i \in DOMAIN c \/ i = Len(c) + 1
  BY <1>1
<1>3. DOMAIN c \subseteq DOMAIN c2 /\ Len(c) + 1 \in DOMAIN c2
  BY <1>1
<1>4. OnChain(c2) = OnChain(c) \cup b.txs
  BY <1>1, <1>2, <1>3 DEF OnChain
<1> QED
  BY <1>4 DEF c2

Forgotten(t) ==
    \/ ~ up \/ ~ up'
    \/ ~ Extends(chain', chain)
    \/ /\ lock' = Receiver
       /\ FileHash[t] \in {FileHash[u] : u \in LastBlock(chain').txs}

(* A step that forgets a record is one of those named. *)
LEMMA KeptNext ==
    ASSUME LockInv, Next, NEW t, Known(t), ~ Known(t)'
    PROVE  Forgotten(t)
<1>1. chain \in Chain /\ offers \subseteq Chain
  BY DEF LockInv, TypeOK
<1>2. ASSUME OnChain(chain) \subseteq OnChain(chain)', pool \subseteq pool' \cup OnChain(chain)'
      PROVE  FALSE
  BY <1>2 DEF Known
<1>3. CASE FinishMining
  <2>1. MinedFor(thread[Miner].block) /\ chain' = Append(chain, thread[Miner].block)
    BY <1>3 DEF FinishMining, At, LockInv, LockIsHeld
  <2>2. OnChain(chain)' = OnChain(chain) \cup pool
    BY <1>1, <2>1, AppendOnChain DEF MinedFor
  <2> QED
    BY <1>2, <2>2
<1>4. ASSUME NEW c \in offers, NEW i \in DOMAIN c, AcceptBlock(c[i])
      PROVE  Forgotten(t)
  <2> DEFINE b == c[i]
  <2>1. b \in Block
    BY OfferedBlocks DEF LockInv
  <2>2. chain' = Append(chain, b) /\ pool' = StillPending(pool, b) /\ lock' = Receiver
    BY <1>4 DEF AcceptBlock
  <2>3. LastBlock(chain') = b
    <3>1. Len(Append(chain, b)) = Len(chain) + 1 /\ Append(chain, b)[Len(chain) + 1] = b
      BY <1>1, <2>1, AppendFacts
    <3> QED
      BY <2>2, <3>1 DEF LastBlock
  <2>4. OnChain(chain)' = OnChain(chain) \cup b.txs
    BY <1>1, <2>1, <2>2, AppendOnChain
  <2>5. t \in pool /\ t \notin pool'
    BY <2>4 DEF Known
  <2> QED
    BY <2>2, <2>3, <2>5 DEF StillPending, Forgotten
<1>5. ASSUME NEW w \in Syncs, NEW c \in offers, ReplaceChain(w, c)
      PROVE  Forgotten(t)
  <2>1. chain' = c /\ pool' = pool
    BY <1>5 DEF ReplaceChain, Adopts
  <2>2. CASE Extends(c, chain)
    BY <1>1, <1>2, <2>1, <2>2, PrefixOnChain
  <2> QED
    BY <2>1, <2>2 DEF Forgotten
<1>6. ASSUME NEW u \in Txs, StoreFile(u) \/ Submit(u) \/ AddIncomingTx(u)
      PROVE  FALSE
  BY <1>2, <1>6 DEF StoreFile, Submit, AddIncomingTx, ledger
<1>7. ASSUME NEW w, SeeWork \/ GiveUp \/ StartMining(w) \/ Save(w)
      PROVE  FALSE
  <2>1. UNCHANGED <<chain, pool>>
    BY <1>7 DEF SeeWork, GiveUp, StartMining, MakesBlock, Save, CopyChain, OpenFile,
                CloseFile, ledger
  <2> QED
    BY <1>2, <2>1
<1>8. ASSUME NEW c, NEW txs, NEW w, PeerMines(c, txs, w)
      PROVE  FALSE
  BY <1>2, <1>8 DEF PeerMines
<1>9. CASE Crash \/ Start
  BY <1>9 DEF Crash, Start, Forgotten
<1> QED
  BY <1>3, <1>4, <1>5, <1>6, <1>7, <1>8, <1>9 DEF Next, Mining

(* A record that was answered with DONE~OK is forgotten in three ways and *)
(* no other, whatever the interleaving of uploads, mining and the network. *)
THEOREM AnsweredRecordsAreKept == Spec => AnsweredIsKept
<1>1. LockInv /\ [Next]_vars =>
        [\A t \in Txs : record[t] = "answered" /\ Known(t) /\ ~ Known(t)' =>
            \/ ~ up \/ ~ up'
            \/ ~ Extends(chain', chain)
            \/ /\ lock' = Receiver
               /\ FileHash[t] \in {FileHash[u] : u \in LastBlock(chain').txs}]_vars
  BY KeptNext DEF Forgotten
<1> QED
  BY <1>1, LockInit, LockNext, PTL DEF Spec, AnsweredIsKept

-----------------------------------------------------------------------------
(* What the chain file holds. *)

Changed(w) == thread[w].at = "changed"

(* A save that has had no other beside it carries the chain of now, unless *)
(* a thread has changed the chain since and is about to save too.          *)
AloneIsFresh ==
    \A w \in Writers : Saving(w) /\ thread[w].alone =>
        /\ \A v \in Writers : Saving(v) => v = w
        /\ thread[w].at # "mixing"
        /\ thread[w].snap = chain \/ \E v \in Writers : Changed(v)

(* A file that is no JSON is being written, or was left by a crash or by   *)
(* saves that overlapped.                                                  *)
TornHasCause ==
    file = Torn => \/ overlapped
                   \/ up /\ \E w \in Writers : Open(w)
                   \/ ~ up /\ cut

(* Nobody has the chain still to save. *)
Settled == up /\ \A w \in Writers : ~ Changed(w) /\ ~ Saving(w)

SettledIsSaved ==
    Settled /\ ~ overlapped => file = chain \/ (file = NoFile /\ Len(chain) = 1)

FileInv == AloneIsFresh /\ TornHasCause /\ SettledIsSaved

(* At first there is no file, and a genesis block that is not saved. *)
LEMMA FileInit == Init => FileInv
<1> SUFFICES ASSUME Init PROVE FileInv
  OBVIOUS
<1>1. \A w \in Writers : thread[w].at = "idle"
  BY RestingType DEF Init
<1>2. file = NoFile /\ file # Torn
  BY TornAssumption DEF Init
<1>3. Len(chain) = 1
  <2>1. <<Server, 1>> \in Hash
    BY Roles DEF Hash
  <2> QED
    BY <2>1, GenesisFacts DEF Init
<1> QED
  BY <1>1, <1>2, <1>3
  DEF FileInv, AloneIsFresh, TornHasCause, SettledIsSaved, Saving

(* A step after which a thread has the new chain still to save, and that   *)
(* touches no thread that saves.                                           *)
LEMMA ChangeKeepsFile ==
    ASSUME LockInv, FileInv, UNCHANGED <<file, up, overlapped, cut>>,
           NEW w \in Writers, ~ Saving(w), Changed(w)',
           \A v \in Writers : v # w => thread'[v] = thread[v]
    PROVE  FileInv'
<1>1. \A v \in Writers : (Saving(v)' <=> Saving(v)) /\ (Saving(v) => thread'[v] = thread[v])
  BY DEF Saving, Changed
<1>2. AloneIsFresh'
  BY <1>1 DEF FileInv, AloneIsFresh
<1>3. TornHasCause'
  <2>1. \A v \in Writers : Open(v) => Open(v)'
    BY <1>1 DEF Open, Saving
  <2> QED
    BY <2>1 DEF FileInv, TornHasCause
<1>4. SettledIsSaved'
  BY DEF SettledIsSaved, Settled
<1> QED
  BY <1>2, <1>3, <1>4 DEF FileInv

(* A step that touches neither the file, nor the chain, nor the saves. *)
LEMMA OthersKeepFile ==
    ASSUME FileInv, UNCHANGED <<chain, file, up, overlapped, cut>>,
           \A v \in Writers : \/ thread'[v] = thread[v]
                              \/ /\ thread[v].at \in {"idle", "polled"}
                                 /\ thread'[v].at \in {"idle", "polled", "mining"}
    PROVE  FileInv'
<1>1. \A v \in Writers : /\ Saving(v)' <=> Saving(v)
                         /\ Open(v)' <=> Open(v)
                         /\ Changed(v)' <=> Changed(v)
                         /\ Saving(v) => thread'[v] = thread[v]
  BY DEF Saving, Open, Changed
<1>2. AloneIsFresh'
  BY <1>1 DEF FileInv, AloneIsFresh
<1>3. TornHasCause'
  BY <1>1 DEF FileInv, TornHasCause
<1>4. SettledIsSaved'
  BY <1>1 DEF FileInv, SettledIsSaved, Settled
<1> QED
  BY <1>2, <1>3, <1>4 DEF FileInv

(* Every step keeps what is known of the file. *)
LEMMA FileNext == LockInv /\ FileInv /\ [Next]_vars => FileInv'
<1> SUFFICES ASSUME LockInv, FileInv, [Next]_vars PROVE FileInv'
  OBVIOUS
<1> USE Roles DEF LockInv
<1> DEFINE r == [Resting EXCEPT !.at = "changed"]
<1>1. r.at = "changed" /\ Resting.at = "idle"
  BY RestingType DEF Stages
<1> HIDE DEF r
<1>2. CASE UNCHANGED vars
  BY <1>2, OthersKeepFile DEF vars, ledger, ghosts
<1>3. ASSUME NEW t \in Txs, StoreFile(t) \/ Submit(t) \/ AddIncomingTx(t)
      PROVE  FileInv'
  BY <1>3, OthersKeepFile DEF StoreFile, Submit, AddIncomingTx, ledger, ghosts
<1>4. ASSUME NEW w, SeeWork \/ GiveUp \/ StartMining(w)
      PROVE  FileInv'
  <2>1. UNCHANGED <<chain, file, up, overlapped, cut>> /\ thread[Miner].at \in {"idle", "polled"}
    BY <1>4 DEF SeeWork, GiveUp, StartMining, MakesBlock, At, ledger, ghosts
  <2>2. ASSUME NEW x, x.at \in {"idle", "polled", "mining"},
               thread' = [thread EXCEPT ![Miner] = x]
        PROVE  \A v \in Writers : \/ thread'[v] = thread[v]
                                  \/ v = Miner /\ thread'[v].at \in {"idle", "polled", "mining"}
    BY <2>2 DEF TypeOK
  <2>3. \A v \in Writers : \/ thread'[v] = thread[v]
                           \/ v = Miner /\ thread'[v].at \in {"idle", "polled", "mining"}
    <3>1. /\ [Resting EXCEPT !.at = "polled"].at = "polled"
          /\ \A b : [Resting EXCEPT !.at = "mining", !.block = b].at = "mining"
      BY DEF Resting
    <3>2. CASE SeeWork
      <4> DEFINE x == [Resting EXCEPT !.at = "polled"]
      <4>1. x.at = "polled" /\ thread' = [thread EXCEPT ![Miner] = x]
        BY <3>1, <3>2 DEF SeeWork, Goes
      <4> HIDE DEF x
      <4> QED
        BY <2>2, <4>1
    <3>3. CASE GiveUp
      <4>1. thread' = [thread EXCEPT ![Miner] = Resting]
        BY <3>3 DEF GiveUp, Goes
      <4> QED
        BY <1>1, <2>2, <4>1
    <3>4. CASE StartMining(w)
      <4> DEFINE x == [Resting EXCEPT !.at = "mining",
                           !.block = MinedBlock(chain, NewHash(Server), pool, w)]
      <4>1. x.at = "mining" /\ thread' = [thread EXCEPT ![Miner] = x]
        BY <3>1, <3>4 DEF StartMining, MakesBlock, Goes
      <4> HIDE DEF x
      <4> QED
        BY <2>2, <4>1
    <3> QED
      BY <1>4, <3>2, <3>3, <3>4
  <2> QED
    BY <2>1, <2>3, OthersKeepFile
<1>5. ASSUME NEW w \in Writers, thread[w].at \in {"idle", "mining"},
             thread' = [thread EXCEPT ![w] = r], UNCHANGED <<file, up, overlapped, cut>>
      PROVE  FileInv'
  <2>1. Changed(w)' /\ \A v \in Writers : v # w => thread'[v] = thread[v]
    BY <1>1, <1>5 DEF Changed, TypeOK
  <2> QED
    BY <1>5, <2>1, ChangeKeepsFile DEF Saving
<1>6. CASE FinishMining
  BY <1>5, <1>6 DEF FinishMining, At, Goes, ghosts, r
<1>7. ASSUME NEW c, NEW i, AcceptBlock(c[i])
      PROVE  FileInv'
  BY <1>5, <1>7 DEF AcceptBlock, At, Goes, ghosts, r
<1>8. ASSUME NEW w \in Syncs, NEW c, ReplaceChain(w, c)
      PROVE  FileInv'
  BY <1>5, <1>8 DEF ReplaceChain, Adopts, At, Goes, ghosts, r
<1>9. ASSUME NEW c, NEW txs, NEW w, PeerMines(c, txs, w)
      PROVE  FileInv'
  BY <1>9, OthersKeepFile DEF PeerMines, ghosts
<1>10. ASSUME NEW w \in Writers, CopyChain(w)
       PROVE  FileInv'
  <2>1. thread[w].at = "changed" /\ UNCHANGED <<chain, file, up, overlapped, cut>>
    BY <1>10 DEF CopyChain, At, ledger, ghosts
  <2>2. \A v \in Writers :
          /\ v # w => /\ thread'[v].at = thread[v].at
                      /\ thread'[v].alone => thread[v].alone /\ ~ Saving(v)
          /\ v = w => /\ thread'[v].at = "copied"
                      /\ thread'[v].snap = chain
                      /\ thread'[v].alone => \A x \in Writers : ~ Saving(x)
    BY <1>10, CopiedThreads
  <2>3. AloneIsFresh'
    BY <2>1, <2>2 DEF AloneIsFresh, Saving
  <2>4. \A v \in Writers : Open(v)' <=> Open(v)
    BY <2>1, <2>2 DEF Open
  <2>5. TornHasCause'
    BY <2>1, <2>4 DEF FileInv, TornHasCause
  <2>6. Saving(w)'
    BY <2>2 DEF Saving
  <2> QED
    BY <2>3, <2>5, <2>6 DEF FileInv, SettledIsSaved, Settled
<1>11. ASSUME NEW w \in Writers, OpenFile(w)
       PROVE  FileInv'
  <2>1. /\ up /\ thread[w].at = "copied" /\ file' = Torn
        /\ UNCHANGED <<chain, up, overlapped, cut>>
    BY <1>11 DEF OpenFile, At, ledger, ghosts
  <2>2. \A v \in Writers :
          /\ thread'[v].snap = thread[v].snap
          /\ thread'[v].alone = thread[v].alone
          /\ \/ thread'[v].at = thread[v].at
             \/ Saving(v) /\ thread'[v].at \in {"writing", "mixing"}
    BY <1>11, OpenedThreads
  <2>3. /\ Open(w)'
        /\ \A v \in Writers : thread'[v].at = "mixing" =>
              \/ thread[v].at = "mixing"
              \/ \E x \in Writers : x # v /\ Saving(v) /\ Saving(x)
    <3>1. thread'[w].at = IF \E x \in Writers : Open(x) THEN "mixing" ELSE "writing"
      <4> DEFINE s == IF \E x \in Writers : Open(x) THEN "mixing" ELSE "writing"
      <4>1. thread'[w] = [thread[w] EXCEPT !.at = s]
        BY <1>11 DEF OpenFile
      <4>2. thread[w] \in ThreadState
        BY DEF TypeOK, ThreadState
      <4> HIDE DEF s
      <4>3. thread'[w].at = s
        BY <4>1, <4>2 DEF ThreadState
      <4> QED
        BY <4>3 DEF s
    <3>2. \A v \in Writers : v # w => thread'[v] = thread[v] \/ Open(v)
      BY <1>11 DEF OpenFile
    <3> QED
      BY <2>1, <3>1, <3>2 DEF Open, Saving
  <2>4. \A v \in Writers : /\ Saving(v)' <=> Saving(v)
                           /\ Changed(v)' <=> Changed(v)
    BY <2>2 DEF Saving, Changed
  <2>5. AloneIsFresh'
    BY <2>1, <2>2, <2>3, <2>4 DEF FileInv, AloneIsFresh
  <2>6. TornHasCause'
    BY <2>1, <2>3 DEF TornHasCause
  <2>7. Saving(w)'
    BY <2>3 DEF Saving, Open
  <2> QED
    BY <2>5, <2>6, <2>7 DEF FileInv, SettledIsSaved, Settled
<1>12. ASSUME NEW w \in Writers, CloseFile(w)
       PROVE  FileInv'
  <2>1. /\ up /\ Open(w) /\ Saving(w)
        /\ file' \in Written(w)
        /\ overlapped' = ~ thread[w].alone
        /\ thread' = [thread EXCEPT ![w] = Resting]
        /\ UNCHANGED <<chain, up, cut>>
    BY <1>12 DEF CloseFile, Goes, Open, Saving
  <2>2. thread'[w].at = "idle" /\ \A v \in Writers : v # w => thread'[v] = thread[v]
    BY <1>1, <2>1 DEF TypeOK
  <2>3. \A v \in Writers : Saving(v)' => Saving(v) /\ v # w /\ thread'[v] = thread[v]
    BY <2>2 DEF Saving
  <2>4. \A v \in Writers : Changed(v) => Changed(v)'
    BY <2>1, <2>2 DEF Changed, Open
  <2>5. AloneIsFresh'
    BY <2>1, <2>3, <2>4 DEF FileInv, AloneIsFresh
  <2>6. CASE ~ thread[w].alone
    <3>1. overlapped'
      BY <2>1, <2>6
    <3> QED
      BY <2>5, <3>1 DEF FileInv, TornHasCause, SettledIsSaved
  <2>7. CASE thread[w].alone
    <3>1. file' = thread[w].snap /\ (file' = chain \/ \E v \in Writers : Changed(v))
      BY <2>1, <2>7 DEF FileInv, AloneIsFresh, Written
    <3>2. file' # Torn
      BY <2>1, <3>1, TornAssumption DEF SnapsAreChains
    <3>3. Settled' => file' = chain'
      BY <2>1, <2>4, <3>1 DEF Settled
    <3> QED
      BY <2>5, <3>2, <3>3 DEF FileInv, TornHasCause, SettledIsSaved
  <2> QED
    BY <2>6, <2>7
<1>13. CASE Crash
  <2>1. /\ up /\ ~ up' /\ thread' = [w \in Writers |-> Resting]
        /\ overlapped' = overlapped
        /\ cut' = \E w \in Writers : Open(w)
        /\ ~ cut' => file' = file
    BY <1>13 DEF Crash
  <2>2. \A w \in Writers : thread'[w].at = "idle"
    BY <1>1, <2>1
  <2>3. TornHasCause'
    BY <2>1 DEF FileInv, TornHasCause
  <2> QED
    BY <2>1, <2>2, <2>3 DEF FileInv, AloneIsFresh, SettledIsSaved, Settled, Saving
<1>14. CASE Start
  <2>1. /\ ~ up /\ up' /\ file # Torn
        /\ UNCHANGED <<thread, file, overlapped>>
    BY <1>14 DEF Start, ghosts
  <2>2. \A w \in Writers : thread'[w].at = "idle"
    BY <1>1, <2>1 DEF DownIsIdle
  <2>3. file' = chain' \/ (file' = NoFile /\ Len(chain') = 1)
    <3>1. NewHash(Server) \in Hash
      BY DEF NewHash, Hash, TypeOK
    <3> QED
      BY <1>14, <2>1, <3>1, GenesisFacts DEF Start
  <2> QED
    BY <2>1, <2>2, <2>3 DEF FileInv, AloneIsFresh, TornHasCause, SettledIsSaved, Saving
<1> QED
  BY <1>2, <1>3, <1>4, <1>6, <1>7, <1>8, <1>9, <1>10, <1>11, <1>12, <1>13, <1>14
  DEF Next, Mining, Save

(* Once every thread has saved, the file holds the chain, unless the last *)
(* saves overlapped; a server that is down can start again, unless a save  *)
(* was cut short or overlapped.                                            *)
THEOREM FileFollows == Spec => []FileFollowsChain
<1>1. LockInv /\ FileInv => FileFollowsChain
  BY DEF FileInv, TornHasCause, SettledIsSaved, Settled, Changed, FileFollowsChain
<1> QED
  BY <1>1, LockInit, LockNext, FileInit, FileNext, PTL DEF Spec
=============================================================================
