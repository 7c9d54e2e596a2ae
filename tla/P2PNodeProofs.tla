--------------------------- MODULE P2PNodeProofs ----------------------------
(***************************************************************************)
(* Proofs about P2PNode, for any nodes, transactions, difficulties and     *)
(* bounds.                                                                 *)
(***************************************************************************)
EXTENDS P2PNode, BlockchainProofs

-----------------------------------------------------------------------------
(* Type correctness. *)

(* The messages a node broadcasts are messages. *)
LEMMA MessageTypes ==
    /\ \A t \in Txs : TxMsg(t) \in Message
    /\ \A b \in Block : BlockMsg(b) \in Message
    /\ \A b : BlockMsg(b) \in Message => b \in Block
    /\ \A m \in Message : m.cmd = "NEW_BLOCK" => m = BlockMsg(m.block) /\ m.block \in Block
BY DEF TxMsg, BlockMsg, Message

(* A broadcast that begins is a task, and touches no other broadcast. *)
LEMMA BroadcastType ==
    ASSUME TypeOK, NEW n \in Nodes, NEW th \in Thread, NEW m \in Message,
           Broadcast(n, th, m)
    PROVE  sending' \in [Nodes -> SUBSET Task]
<1> DEFINE task == [by |-> th, msg |-> m, todo |-> peers[n], dead |-> {}]
<1>1. task \in Task
  BY DEF TypeOK, Task
<1> QED
  BY <1>1 DEF Broadcast, TypeOK

(* A broadcast of the miner begins only when it has none under way, and   *)
(* another thread's leaves the miner's alone.                              *)
LEMMA BroadcastAlone ==
    ASSUME TypeOK, NEW n \in Nodes, NEW th \in Thread, NEW m \in Message,
           Broadcast(n, th, m), th = "miner" => MinerIdle(n)
    PROVE  OneBlockOut'
<1> DEFINE task == [by |-> th, msg |-> m, todo |-> peers[n], dead |-> {}]
<1>1. \A q \in Nodes : \A x \in sending'[q] : x \in sending[q] \/ (q = n /\ x = task)
  BY DEF Broadcast, TypeOK
<1>2. task.by = th
  OBVIOUS
<1> HIDE DEF task
<1>3. ASSUME NEW q \in Nodes, NEW x \in sending'[q], NEW y \in sending'[q],
             x.by = "miner", y.by = "miner"
      PROVE  x = y
  <2>1. CASE x \in sending[q] /\ y \in sending[q]
    BY <1>3, <2>1 DEF OneBlockOut, TypeOK
  <2>2. CASE q = n /\ th = "miner"
    BY <1>1, <1>2, <1>3, <2>2 DEF MinerIdle
  <2> QED
    BY <1>1, <1>2, <1>3, <2>1, <2>2
<1> QED
  BY <1>3 DEF OneBlockOut

(* A broadcast that has tried an address is still a task, of that thread. *)
LEMMA TriedType ==
    ASSUME NEW task \in Task, NEW a \in Addresses
    PROVE  Tried(task, a) \in Task /\ Tried(task, a).by = task.by
BY DEF Task, Tried

(* Who answers is a node. *)
LEMMA AnswererType ==
    ASSUME NEW n \in Nodes, NEW a \in Answering(n)
    PROVE  a \in Addresses /\ Host[n][a] \in Nodes
<1>1. Host[n] \in [Addresses -> Nodes \cup {Nobody}]
  BY AddressAssumption
<1>2. a \in Addresses /\ Host[n][a] # Nobody
  BY DEF Answering
<1> QED
  BY <1>1, <1>2

(* One connection that fails keeps the count of failures in its bound. *)
LEMMA FailType ==
    ASSUME TypeOK, NEW n \in Nodes, NEW a \in Addresses, ConnectionFails(n, a)
    PROVE  failures' \in 0..MaxFailures
BY BoundsAssumption DEF ConnectionFails, Fail, TypeOK

(* Saving a chain leaves the flags of the chain files Boolean. *)
LEMMA PersistType ==
    ASSUME TypeOK, NEW n \in Nodes, Persist(n)
    PROVE  saved' \in [Nodes -> BOOLEAN]
<1> DEFINE kept == n \in Persistent
<1>1. kept \in BOOLEAN
  OBVIOUS
<1>2. saved \in [Nodes -> BOOLEAN] /\ saved' = [saved EXCEPT ![n] = kept]
  BY DEF TypeOK, Persist
<1> HIDE DEF kept
<1> QED
  BY <1>1, <1>2

(* The initial states satisfy the type invariant. *)
LEMMA TypeInit == Init => TypeOK
<1> SUFFICES ASSUME Init PROVE TypeOK
  OBVIOUS
<1>1. \A n \in Nodes : <<Founder, 0>> \in Hash /\ <<n, 1>> \in Hash
  BY DEF Hash
<1>2. chain \in [Nodes -> Chain]
  BY <1>1, GenesisFacts DEF Init
<1>3. failures \in 0..MaxFailures /\ connects \in 0..MaxConnects /\ restarts \in 0..MaxRestarts
  BY BoundsAssumption DEF Init
<1> QED
  BY <1>2, <1>3 DEF Init, TypeOK, OneBlockOut

(* Every step preserves the type invariant. *)
LEMMA TypeNext == TypeOK /\ [Next]_vars => TypeOK'
<1> SUFFICES ASSUME TypeOK, [Next]_vars PROVE TypeOK'
  OBVIOUS
<1> USE DEF TypeOK
<1>1. CASE UNCHANGED vars
  BY <1>1 DEF vars, OneBlockOut
<1>2. ASSUME NEW n \in Nodes, NEW t \in Txs, Submit(n, t)
      PROVE  TypeOK'
  <2>1. sending' \in [Nodes -> SUBSET Task]
    BY <1>2, BroadcastType, MessageTypes DEF Submit, Thread
  <2>2. OneBlockOut'
    BY <1>2, BroadcastAlone, MessageTypes DEF Submit, Thread
  <2> QED
    BY <1>2, <2>1, <2>2 DEF Submit, ledgerVars, syncVars, boundVars
<1>3. ASSUME NEW n \in Nodes, NEW t \in Txs, AddIncomingTx(n, t)
      PROVE  TypeOK'
  BY <1>3 DEF AddIncomingTx, OneBlockOut, ledgerVars, syncVars, boundVars
<1>4. ASSUME NEW n \in Nodes, Mine(n)
      PROVE  TypeOK'
  <2> DEFINE h == <<n, minted[n] + 1>>
  <2>1. PICK w \in Difficulty[n]..MaxWork :
          LET b == MinedBlock(chain[n], h, pending[n], w)
          IN  /\ chain' = [chain EXCEPT ![n] = Append(@, b)]
              /\ seen' = [seen EXCEPT ![n] = @ \cup {b.hash}]
              /\ Broadcast(n, "miner", BlockMsg(b))
    BY <1>4 DEF Mine
  <2> DEFINE b == MinedBlock(chain[n], h, pending[n], w)
  <2>2. h \in Hash /\ b \in Block /\ b.hash \in Hash
    <3>1. h \in Hash
      BY DEF Hash
    <3>2. b \in Block
      BY <3>1, WorkType, MinedIsBlock
    <3> QED
      BY <3>1, <3>2 DEF Block
  <2>3. chain' \in [Nodes -> Chain]
    BY <2>1, <2>2, AppendFacts
  <2>4. sending' \in [Nodes -> SUBSET Task]
    BY <2>1, <2>2, BroadcastType, MessageTypes DEF Thread
  <2>5. seen' \in [Nodes -> SUBSET Hash] /\ minted' \in [Nodes -> Nat]
    BY <1>4, <2>1, <2>2 DEF Mine
  <2>6. saved' \in [Nodes -> BOOLEAN]
    BY <1>4, PersistType DEF Mine
  <2>7. OneBlockOut'
    BY <1>4, <2>1, <2>2, BroadcastAlone, MessageTypes DEF Mine, Thread
  <2> QED
    BY <1>4, <2>3, <2>4, <2>5, <2>6, <2>7 DEF Mine, syncVars, boundVars
<1>5. ASSUME NEW n \in Nodes, Broadcasting(n)
      PROVE  TypeOK'
  <2>1. PICK task \in sending[n] :
          \/ \E a \in task.todo : Deliver(n, task, a) \/ DeliveryFails(n, task, a)
          \/ EndBroadcast(n, task)
    BY <1>5 DEF Broadcasting
  <2>2. task \in Task /\ task.todo \subseteq Addresses /\ task.msg \in Message
    BY DEF Task
  <2>3. ASSUME NEW a \in task.todo,
               sending' = [sending EXCEPT ![n] = (@ \ {task}) \cup {Tried(task, a)}]
        PROVE  sending' \in [Nodes -> SUBSET Task] /\ OneBlockOut'
    <3>1. Tried(task, a) \in Task /\ Tried(task, a).by = task.by
      BY <2>2, TriedType
    <3>2. \A q \in Nodes : \A x \in sending'[q] :
             \/ x \in sending[q] /\ (q = n => x # task)
             \/ q = n /\ x = Tried(task, a)
      BY <2>3
    <3> QED
      BY <2>3, <3>1, <3>2 DEF OneBlockOut
  <2>4. ASSUME NEW a \in task.todo, Deliver(n, task, a)
        PROVE  TypeOK'
    <3>1. Host[n][a] \in Nodes
      BY <2>4, AnswererType DEF Deliver
    <3>2. [to |-> Host[n][a], msg |-> task.msg] \in [to : Nodes, msg : Message]
      BY <2>2, <3>1
    <3>3. sending' \in [Nodes -> SUBSET Task] /\ OneBlockOut'
      BY <2>3, <2>4 DEF Deliver
    <3> QED
      BY <2>4, <3>2, <3>3 DEF Deliver, ledgerVars, poolVars, syncVars, boundVars
  <2>5. ASSUME NEW a \in task.todo, DeliveryFails(n, task, a)
        PROVE  TypeOK'
    <3>1. sending' \in [Nodes -> SUBSET Task] /\ OneBlockOut'
      BY <2>3, <2>5 DEF DeliveryFails
    <3>2. failures' \in 0..MaxFailures
      BY <2>2, <2>5, FailType DEF DeliveryFails
    <3> QED
      BY <2>5, <3>1, <3>2 DEF DeliveryFails, ledgerVars, poolVars, syncVars
  <2>6. CASE EndBroadcast(n, task)
    BY <2>6 DEF EndBroadcast, OneBlockOut, ledgerVars, poolVars, syncVars, boundVars
  <2> QED
    BY <2>1, <2>4, <2>5, <2>6
<1>6. ASSUME NEW n \in Nodes, HandleBlock(n)
      PROVE  TypeOK'
  <2>1. PICK m \in inbox :
          /\ m.msg.cmd = "NEW_BLOCK"
          /\ \/ IgnoreBlock(n, m.msg.block)
             \/ SyncForBlock(n, m.msg.block)
             \/ AcceptBlock(n, m.msg.block)
    BY <1>6 DEF HandleBlock
  <2> DEFINE b == m.msg.block
  <2>2. b \in Block /\ BlockMsg(b) \in Message /\ b.hash \in Hash
    <3>1. b \in Block
      BY <2>1, MessageTypes
    <3> QED
      BY <3>1, MessageTypes DEF Block
  <2>3. CASE IgnoreBlock(n, b)
    BY <2>2, <2>3 DEF IgnoreBlock, Received, OneBlockOut, ledgerVars, poolVars, syncVars, boundVars
  <2>4. CASE SyncForBlock(n, b)
    BY <2>2, <2>4 DEF SyncForBlock, Received, OneBlockOut, ledgerVars, poolVars, boundVars
  <2>5. CASE AcceptBlock(n, b)
    <3>1. chain' \in [Nodes -> Chain]
      BY <2>2, <2>5, AppendFacts DEF AcceptBlock
    <3>2. sending' \in [Nodes -> SUBSET Task]
      BY <2>2, <2>5, BroadcastType DEF AcceptBlock, Thread
    <3>3. StillPending(pending[n], b) \subseteq pending[n]
      BY DEF StillPending
    <3>4. saved' \in [Nodes -> BOOLEAN]
      BY <2>5, PersistType DEF AcceptBlock
    <3>5. OneBlockOut'
      BY <2>2, <2>5, BroadcastAlone DEF AcceptBlock, Thread
    <3> QED
      BY <2>2, <2>5, <3>1, <3>2, <3>3, <3>4, <3>5
      DEF AcceptBlock, Received, syncVars, boundVars
  <2> QED
    BY <2>1, <2>3, <2>4, <2>5
<1>7. ASSUME NEW n \in Nodes, StartSync(n)
      PROVE  TypeOK'
  BY <1>7 DEF StartSync, OneBlockOut, ledgerVars, poolVars, boundVars
<1>8. ASSUME NEW n \in Nodes, Syncing(n)
      PROVE  TypeOK'
  <2>1. ASSUME NEW a \in syncing[n], FetchChain(n, a)
        PROVE  TypeOK'
    <3>1. Host[n][a] \in Nodes
      BY <2>1, AnswererType DEF FetchChain
    <3>2. [to |-> n, chain |-> chain[Host[n][a]]] \in [to : Nodes, chain : Chain]
      BY <3>1
    <3> QED
      BY <2>1, <3>2 DEF FetchChain, OneBlockOut, ledgerVars, poolVars, boundVars
  <2>2. ASSUME NEW a \in syncing[n], FetchFails(n, a)
        PROVE  TypeOK'
    <3>1. failures' \in 0..MaxFailures
      BY <2>2, FailType DEF FetchFails
    <3> QED
      BY <2>2, <3>1 DEF FetchFails, OneBlockOut, ledgerVars, poolVars
  <2>3. ASSUME NEW r \in replies, ApplyChain(n, r)
        PROVE  TypeOK'
    <3>1. chain' \in [Nodes -> Chain]
      BY <2>3 DEF ApplyChain
    <3>2. saved' \in [Nodes -> BOOLEAN]
      BY <2>3, PersistType DEF ApplyChain
    <3> QED
      BY <2>3, <3>1, <3>2 DEF ApplyChain, OneBlockOut, poolVars, boundVars
  <2> QED
    BY <1>8, <2>1, <2>2, <2>3 DEF Syncing
<1>9. ASSUME NEW n \in Nodes, NEW a \in Addresses, Connect(n, a)
      PROVE  TypeOK'
  <2> DEFINE p == Host[n][a]
  <2>1. p \in Nodes
    BY <1>9, AnswererType DEF Connect
  <2>2. Greeted(n, p) \in [Nodes -> SUBSET Addresses]
    BY <2>1, AddressAssumption DEF Greeted
  <2>3. Learned(n, a, p) \subseteq Addresses
    BY <2>1, <2>2 DEF Learned
  <2>4. peers' \in [Nodes -> SUBSET Addresses]
    BY <1>9, <2>2, <2>3 DEF Connect
  <2>5. syncing' \in [Nodes -> SUBSET Addresses]
    BY <1>9, <2>4 DEF Connect
  <2>6. connects' \in 0..MaxConnects
    BY <1>9, BoundsAssumption DEF Connect
  <2> QED
    BY <1>9, <2>4, <2>5, <2>6 DEF Connect, OneBlockOut, ledgerVars, poolVars
<1>10. ASSUME NEW n \in Nodes, NEW a \in Addresses, ConnectFails(n, a)
       PROVE  TypeOK'
  <2>1. connects' \in 0..MaxConnects /\ failures' \in 0..MaxFailures
    BY <1>10, BoundsAssumption, FailType DEF ConnectFails
  <2>2. peers' \in [Nodes -> SUBSET Addresses]
    <3>1. ASSUME NEW p \in Nodes PROVE Greeted(n, p) \in [Nodes -> SUBSET Addresses]
      BY AddressAssumption DEF Greeted
    <3>2. a \in Answering(n) => Greeted(n, Host[n][a]) \in [Nodes -> SUBSET Addresses]
      BY <3>1, AnswererType
    <3> QED
      BY <1>10, <3>2 DEF ConnectFails
  <2> QED
    BY <1>10, <2>1, <2>2 DEF ConnectFails, OneBlockOut, ledgerVars, poolVars, syncVars
<1>11. ASSUME NEW n \in Nodes, Restart(n)
       PROVE  TypeOK'
  <2>1. chain' \in [Nodes -> Chain] /\ minted' \in [Nodes -> Nat]
    <3>1. <<n, minted[n] + 1>> \in Hash
      BY DEF Hash
    <3> QED
      BY <1>11, <3>1, GenesisFacts DEF Restart
  <2>2. restarts' \in 0..MaxRestarts
    BY <1>11, BoundsAssumption DEF Restart
  <2> QED
    BY <1>11, <2>1, <2>2 DEF Restart, OneBlockOut
<1> QED
  BY <1>1, <1>2, <1>3, <1>4, <1>5, <1>6, <1>7, <1>8, <1>9, <1>10, <1>11 DEF Next

(* The state of every node has its type at all times: whatever names and  *)
(* addresses the nodes have, a thread never takes an address for a node   *)
(* that is not there, and the one mining thread has one block out at most. *)
THEOREM TypeCorrect == Spec => []TypeOK
<1>1. Init => TypeOK
  BY TypeInit
<1>2. TypeOK /\ [Next]_vars => TypeOK'
  BY TypeNext
<1> QED
  BY <1>1, <1>2, PTL DEF Spec

-----------------------------------------------------------------------------
(* The steps that matter to ledgers. *)

(* Messages under way, and the blocks in them. *)
Sent == {m.msg : m \in inbox} \cup
        UNION {{task.msg : task \in sending[n]} : n \in Nodes}

InTransit == {m.block : m \in {x \in Sent : x.cmd = "NEW_BLOCK"}}

(* No ledger changes, and every chain and block under way was there before. *)
Still ==
    /\ UNCHANGED ledgerVars
    /\ Chains' \subseteq Chains
    /\ InTransit' \subseteq InTransit

(* All other steps are one of four. *)
LedgerStep(n) ==
    \/ Mine(n)
    \/ \E b \in InTransit : AcceptBlock(n, b)
    \/ \E r \in replies : ApplyChain(n, r)
    \/ Restart(n)

(* Messages under way are messages, and the blocks in them are blocks. *)
LEMMA SentTypes ==
    ASSUME TypeOK
    PROVE  Sent \subseteq Message /\ InTransit \subseteq Block
<1>1. Sent \subseteq Message
  BY DEF TypeOK, Sent, Task
<1> QED
  BY <1>1, MessageTypes DEF InTransit

(* Transactions that come under way bring no block with them. *)
LEMMA TransitMonotone ==
    ASSUME Sent' \subseteq Sent \cup {TxMsg(t) : t \in Txs}
    PROVE  InTransit' \subseteq InTransit
<1>1. \A t \in Txs : TxMsg(t).cmd # "NEW_BLOCK"
  BY DEF TxMsg
<1> QED
  BY <1>1 DEF InTransit

(* A broadcast that begins puts no message under way but its own. *)
LEMMA BroadcastSends ==
    ASSUME TypeOK, NEW n \in Nodes, NEW th \in Thread, NEW m \in Message,
           Broadcast(n, th, m)
    PROVE  \A q \in Nodes : \A task \in sending'[q] :
              task \in sending[q] \/ task.msg = m
BY DEF Broadcast, TypeOK

(* Chains can only come from the nodes and from answers. *)
LEMMA ChainsKept ==
    ASSUME UNCHANGED chain, replies' \subseteq replies
    PROVE  Chains' \subseteq Chains
BY DEF Chains

(* Every step is still or one of the four. *)
LEMMA StepKinds ==
    ASSUME TypeOK, [Next]_vars
    PROVE  Still \/ \E n \in Nodes : LedgerStep(n)
<1>1. CASE UNCHANGED vars
  <2>1. Chains' = Chains /\ InTransit' = InTransit
    BY <1>1 DEF vars, Chains, InTransit, Sent
  <2> QED
    BY <1>1, <2>1 DEF vars, ledgerVars, Still
<1>2. ASSUME NEW n \in Nodes, NEW t \in Txs, Submit(n, t)
      PROVE  Still
  <2>1. \A q \in Nodes : \A task \in sending'[q] :
           task \in sending[q] \/ task.msg = TxMsg(t)
    BY <1>2, BroadcastSends, MessageTypes DEF Submit, Thread
  <2>2. Sent' \subseteq Sent \cup {TxMsg(u) : u \in Txs}
    BY <1>2, <2>1 DEF Submit, Sent
  <2> QED
    BY <1>2, <2>2, TransitMonotone, ChainsKept
    DEF Submit, ledgerVars, syncVars, Still
<1>3. ASSUME NEW n \in Nodes, NEW t \in Txs, AddIncomingTx(n, t)
      PROVE  Still
  <2>1. Sent' \subseteq Sent
    BY <1>3 DEF AddIncomingTx, Sent
  <2> QED
    BY <1>3, <2>1, TransitMonotone, ChainsKept
    DEF AddIncomingTx, ledgerVars, syncVars, Still
<1>4. ASSUME NEW n \in Nodes, Broadcasting(n)
      PROVE  Still
  <2>1. PICK task \in sending[n] :
          \/ \E a \in task.todo : Deliver(n, task, a) \/ DeliveryFails(n, task, a)
          \/ EndBroadcast(n, task)
    BY <1>4 DEF Broadcasting
  <2>2. UNCHANGED ledgerVars /\ UNCHANGED syncVars
    BY <2>1 DEF Deliver, DeliveryFails, EndBroadcast
  <2>3. \A a : Tried(task, a).msg = task.msg
    BY DEF Tried, TypeOK, Task
  <2>4. \A q \in Nodes : \A x \in sending'[q] :
           \E y \in sending[q] : x.msg = y.msg
    BY <2>1, <2>3 DEF Deliver, DeliveryFails, EndBroadcast, TypeOK
  <2>5. \A m \in inbox' : m \in inbox \/ m.msg = task.msg
    BY <2>1 DEF Deliver, DeliveryFails, EndBroadcast
  <2>6. Sent' \subseteq Sent
    BY <2>4, <2>5 DEF Sent
  <2> QED
    BY <2>2, <2>6, TransitMonotone, ChainsKept DEF ledgerVars, syncVars, Still
<1>5. ASSUME NEW n \in Nodes, HandleBlock(n)
      PROVE  Still \/ LedgerStep(n)
  <2>1. PICK m \in inbox :
          /\ m.msg.cmd = "NEW_BLOCK"
          /\ \/ IgnoreBlock(n, m.msg.block)
             \/ SyncForBlock(n, m.msg.block)
             \/ AcceptBlock(n, m.msg.block)
    BY <1>5 DEF HandleBlock
  <2>2. CASE AcceptBlock(n, m.msg.block)
    <3>1. m.msg.block \in InTransit
      BY <2>1 DEF InTransit, Sent
    <3> QED
      BY <2>2, <3>1 DEF LedgerStep
  <2>3. CASE IgnoreBlock(n, m.msg.block) \/ SyncForBlock(n, m.msg.block)
    <3>1. /\ UNCHANGED ledgerVars
          /\ UNCHANGED sending /\ UNCHANGED replies
          /\ inbox' \subseteq inbox
      BY <2>3 DEF IgnoreBlock, SyncForBlock, Received, syncVars
    <3>2. Sent' \subseteq Sent
      BY <3>1 DEF Sent
    <3> QED
      BY <3>1, <3>2, TransitMonotone, ChainsKept DEF ledgerVars, Still
  <2> QED
    BY <2>1, <2>2, <2>3
<1>6. ASSUME NEW n \in Nodes, NEW a \in Addresses,
             StartSync(n) \/ FetchFails(n, a) \/ Connect(n, a) \/ ConnectFails(n, a)
      PROVE  Still
  <2>1. UNCHANGED ledgerVars /\ UNCHANGED <<sending, inbox, replies>>
    BY <1>6 DEF StartSync, FetchFails, Connect, ConnectFails, syncVars
  <2>2. Sent' \subseteq Sent
    BY <2>1 DEF Sent
  <2> QED
    BY <2>1, <2>2, TransitMonotone, ChainsKept DEF ledgerVars, Still
<1>7. ASSUME NEW n \in Nodes, NEW a \in Addresses, FetchChain(n, a)
      PROVE  Still
  <2>1. Sent' \subseteq Sent
    BY <1>7 DEF FetchChain, Sent
  <2>2. Host[n][a] \in Nodes
    BY <1>7, AnswererType DEF FetchChain
  <2>3. Chains' \subseteq Chains
    BY <1>7, <2>2 DEF FetchChain, Chains, ledgerVars
  <2> QED
    BY <1>7, <2>1, <2>3, TransitMonotone DEF FetchChain, Still
<1>8. ASSUME NEW n \in Nodes, StartSync(n)
      PROVE  Still
  <2>1. NodeId[n] \in Addresses
    BY AddressAssumption
  <2> QED
    BY <1>6, <1>8, <2>1
<1> QED
  <2>1. CASE Next
    <3>1. PICK n \in Nodes :
            \/ \E t \in Txs : Submit(n, t) \/ AddIncomingTx(n, t)
            \/ Mine(n)
            \/ Broadcasting(n)
            \/ HandleBlock(n)
            \/ StartSync(n)
            \/ Syncing(n)
            \/ \E a \in Addresses : Connect(n, a) \/ ConnectFails(n, a)
            \/ Restart(n)
      BY <2>1 DEF Next
    <3>2. CASE Syncing(n)
      <4>1. syncing[n] \subseteq Addresses
        BY DEF TypeOK
      <4> QED
        BY <3>2, <4>1, <1>6, <1>7 DEF Syncing, LedgerStep
    <3>3. CASE Mine(n) \/ Restart(n)
      BY <3>3 DEF LedgerStep
    <3> QED
      BY <3>1, <3>2, <3>3, <1>2, <1>3, <1>4, <1>5, <1>6, <1>8
  <2> QED
    BY <1>1, <2>1

-----------------------------------------------------------------------------
(* What one step may do to the ledgers. *)

(* The block at the end of a mined or accepted chain, spelled out. *)
LEMMA MineStep ==
    ASSUME TypeOK, NEW n \in Nodes, Mine(n)
    PROVE  \E w \in Difficulty[n]..MaxWork :
             LET h == <<n, minted[n] + 1>>
                 b == MinedBlock(chain[n], h, pending[n], w)
             IN  /\ h \in Hash
                 /\ b \in Block
                 /\ b.index = Len(chain[n])
                 /\ b.prev = chain[n][Len(chain[n])].hash
                 /\ b.hash = h
                 /\ b.work >= Difficulty[n]
                 /\ chain' = [chain EXCEPT ![n] = Append(@, b)]
                 /\ Broadcast(n, "miner", BlockMsg(b))
<1> DEFINE h == <<n, minted[n] + 1>>
<1>1. PICK w \in Difficulty[n]..MaxWork :
        LET b == MinedBlock(chain[n], h, pending[n], w)
        IN  /\ chain' = [chain EXCEPT ![n] = Append(@, b)]
            /\ Broadcast(n, "miner", BlockMsg(b))
  BY DEF Mine
<1> DEFINE b == MinedBlock(chain[n], h, pending[n], w)
<1>2. chain[n] \in Chain /\ pending[n] \in SUBSET Txs /\ h \in Hash
  BY DEF TypeOK, Hash
<1>3. b \in Block /\ w >= Difficulty[n]
  BY <1>2, WorkType, MinedIsBlock
<1>4. /\ b.index = Len(chain[n])
      /\ b.prev = chain[n][Len(chain[n])].hash
      /\ b.hash = h
      /\ b.work = w
  BY DEF MinedBlock, LastBlock
<1> QED
  BY <1>1, <1>2, <1>3, <1>4

(* Every step keeps every chain valid for the node that holds it. *)
LEMMA ValidNext == TypeOK /\ ChainsValid /\ [Next]_vars => ChainsValid'
<1> SUFFICES ASSUME TypeOK, ChainsValid, [Next]_vars PROVE ChainsValid'
  OBVIOUS
<1>1. \A n \in Nodes : chain'[n] \in Chain
  BY TypeNext DEF TypeOK
<1>2. \A n \in Nodes : /\ chain[n] \in Chain
                       /\ Difficulty[n] \in Nat
                       /\ IsValid(chain[n], Difficulty[n])
  BY ValidMeans, DifficultyAssumption DEF TypeOK, ChainsValid
<1> SUFFICES \A n \in Nodes : IsValid(chain'[n], Difficulty[n])
  BY <1>1, ValidMeans DEF ChainsValid
<1>3. CASE Still
  BY <1>2, <1>3 DEF Still, ledgerVars
<1>4. ASSUME NEW n \in Nodes, LedgerStep(n)
      PROVE  \A m \in Nodes : IsValid(chain'[m], Difficulty[m])
  <2>1. CASE Mine(n)
    <3>1. PICK b \in Block :
            /\ b.prev = chain[n][Len(chain[n])].hash
            /\ b.work >= Difficulty[n]
            /\ chain' = [chain EXCEPT ![n] = Append(@, b)]
      BY <2>1, MineStep
    <3>2. IsValid(Append(chain[n], b), Difficulty[n])
      BY <1>2, <3>1, AppendValid
    <3> QED
      BY <1>2, <3>1, <3>2 DEF TypeOK
  <2>2. ASSUME NEW b \in InTransit, AcceptBlock(n, b)
        PROVE  \A m \in Nodes : IsValid(chain'[m], Difficulty[m])
    <3>1. b \in Block
      BY SentTypes
    <3>2. b.prev = chain[n][Len(chain[n])].hash /\ b.work >= Difficulty[n]
      BY <2>2 DEF AcceptBlock, Linked, Stale, IsValidProof, LastBlock
    <3>3. IsValid(Append(chain[n], b), Difficulty[n])
      BY <1>2, <3>1, <3>2, AppendValid
    <3> QED
      BY <1>2, <2>2, <3>3 DEF AcceptBlock, TypeOK
  <2>3. ASSUME NEW r \in replies, ApplyChain(n, r)
        PROVE  \A m \in Nodes : IsValid(chain'[m], Difficulty[m])
    BY <1>2, <2>3 DEF ApplyChain, Replaces, TypeOK
  <2>4. CASE Restart(n)
    <3>1. <<n, minted[n] + 1>> \in Hash
      BY DEF TypeOK, Hash
    <3> QED
      BY <1>2, <2>4, <3>1, GenesisValid DEF Restart, TypeOK
  <2> QED
    BY <1>4, <2>1, <2>2, <2>3, <2>4 DEF LedgerStep
<1> QED
  BY <1>3, <1>4, StepKinds

(* Every node's chain is valid by that node's own standard at all times.  *)
THEOREM ChainsAlwaysValid == Spec => []ChainsValid
<1>1. Init => ChainsValid
  <2> SUFFICES ASSUME Init PROVE ChainsValid
    OBVIOUS
  <2>1. TypeOK
    BY TypeInit
  <2>2. \A n \in Nodes : <<Founder, 0>> \in Hash /\ <<n, 1>> \in Hash
    BY DEF Hash
  <2>3. \A n \in Nodes : IsValid(chain[n], Difficulty[n])
    BY <2>2, GenesisValid DEF Init
  <2> QED
    BY <2>1, <2>3, ValidMeans DEF ChainsValid, TypeOK
<1>2. TypeOK /\ ChainsValid /\ [Next]_vars => ChainsValid'
  BY ValidNext
<1> QED
  BY <1>1, <1>2, TypeCorrect, PTL DEF Spec

-----------------------------------------------------------------------------
(* The inductive invariant behind PrefixAgreement is about all chains held *)
(* or sent, and all blocks under way.                                      *)
Produced == Numbered(minted)

HistoryInv == History(Chains, InTransit, Produced)

(* A block that is broadcast is the only one that comes under way. *)
LEMMA BlockSent ==
    ASSUME TypeOK, NEW n \in Nodes, NEW th \in Thread, NEW b \in Block,
           Broadcast(n, th, BlockMsg(b)), inbox' \subseteq inbox
    PROVE  InTransit' \subseteq InTransit \cup {b}
<1>1. \A q \in Nodes : \A task \in sending'[q] :
        task \in sending[q] \/ task.msg = BlockMsg(b)
  BY BroadcastSends, MessageTypes
<1>2. Sent' \subseteq Sent \cup {BlockMsg(b)}
  BY <1>1 DEF Sent
<1>3. BlockMsg(b).block = b
  BY DEF BlockMsg
<1> QED
  BY <1>2, <1>3 DEF InTransit

(* The next hash of a node is new, and counted once it is used. *)
LEMMA NextHashIsNew ==
    ASSUME TypeOK, NEW n \in Nodes
    PROVE  LET h == <<n, minted[n] + 1>>
           IN  /\ h \in Hash
               /\ h \notin Produced
               /\ minted' = [minted EXCEPT ![n] = @ + 1]
                    => Produced \cup {h} \subseteq Produced'
BY NextIsNew DEF TypeOK, Produced

(* The genesis blocks of the initial state have hashes of their own. *)
LEMMA HistoryInit == Init => HistoryInv
<1> SUFFICES ASSUME Init PROVE HistoryInv
  OBVIOUS
<1> DEFINE gen(n) == IF n \in Loaded THEN <<Founder, 0>> ELSE <<n, 1>>
<1>1. TypeOK
  BY TypeInit
<1>2. InTransit = {}
  BY DEF Init, InTransit, Sent
<1>3. \A n \in Nodes : gen(n) \in Hash /\ gen(n) \in Produced
  <2>1. <<Founder, 0>> \in Hash /\ <<Founder, 0>> \in Produced
    BY FounderAssumption DEF Hash, Produced, Numbered
  <2>2. ASSUME NEW n \in Nodes
        PROVE  <<n, 1>> \in Hash /\ <<n, 1>> \in Produced
    <3>1. minted[n] = 1
      BY DEF Init
    <3>2. <<n, 1>> \in Hash
      BY DEF Hash
    <3> QED
      BY <3>1, <3>2 DEF Produced, Numbered
  <2> QED
    BY <2>1, <2>2
<1>4. \A n \in Nodes : chain[n] = <<Genesis(gen(n))>>
  BY DEF Init
<1>5. \A c \in Chains : \E n \in Nodes : c = chain[n] /\ c = <<Genesis(gen(n))>>
  BY <1>4 DEF Init, Chains
<1> HIDE DEF gen
<1>6. \A c \in Chains : c \in Chain /\ DOMAIN c = {1} /\ \E h \in Produced : c[1] = Genesis(h)
  <2>1. \A h \in Hash : DOMAIN <<Genesis(h)>> = {1} /\ <<Genesis(h)>>[1] = Genesis(h)
    OBVIOUS
  <2> QED
    BY <1>1, <1>3, <1>5, <2>1 DEF TypeOK
<1>7. \A b \in BlocksOf(Chains, InTransit) : \E h \in Produced : b = Genesis(h)
  BY <1>2, <1>6 DEF BlocksOf
<1>8. \A h : Genesis(h).hash = h /\ Genesis(h).index = 0
  BY DEF Genesis
<1>9. /\ HashesProduced(BlocksOf(Chains, InTransit), Produced)
      /\ OneBlockPerHash(BlocksOf(Chains, InTransit))
      /\ IndexAbovePrev(BlocksOf(Chains, InTransit))
  BY <1>7, <1>8 DEF HashesProduced, OneBlockPerHash, IndexAbovePrev
<1>10. WellLinked(Chains) /\ \A c1, c2 \in Chains : Agree(c1, c2)
  BY <1>6, <1>8 DEF WellLinked, Agree
<1> QED
  BY <1>2, <1>6, <1>9, <1>10 DEF HistoryInv, History

(* Every step preserves the history invariant. *)
LEMMA HistoryNext == TypeOK /\ HistoryInv /\ [Next]_vars => HistoryInv'
<1> SUFFICES ASSUME TypeOK, HistoryInv, [Next]_vars PROVE HistoryInv'
  OBVIOUS
<1>1. CASE Still
  <2>1. Produced' = Produced
    BY <1>1 DEF Still, ledgerVars, Produced
  <2> QED
    BY <1>1, <2>1, HistoryShrinks DEF Still, HistoryInv
<1>2. ASSUME NEW n \in Nodes, Mine(n)
      PROVE  HistoryInv'
  <2> DEFINE h == <<n, minted[n] + 1>>
             c == chain[n]
  <2>1. PICK b \in Block :
          /\ b.hash = h
          /\ b.index = Len(c)
          /\ b.prev = c[Len(c)].hash
          /\ chain' = [chain EXCEPT ![n] = Append(@, b)]
          /\ Broadcast(n, "miner", BlockMsg(b))
    BY <1>2, MineStep
  <2>2. h \notin Produced /\ Produced \cup {h} \subseteq Produced'
    BY <1>2, NextHashIsNew DEF Mine
  <2>3. c \in Chains
    BY DEF Chains
  <2>4. History(Chains \cup {Append(c, b)}, InTransit \cup {b}, Produced \cup {h})
    BY <2>1, <2>2, <2>3, HistoryMines DEF HistoryInv
  <2>5. Chains' \subseteq Chains \cup {Append(c, b)}
    BY <1>2, <2>1 DEF Mine, Chains, syncVars, TypeOK
  <2>6. InTransit' \subseteq InTransit \cup {b}
    BY <1>2, <2>1, BlockSent DEF Mine, Thread
  <2> QED
    BY <2>2, <2>4, <2>5, <2>6, HistoryShrinks DEF HistoryInv
<1>3. ASSUME NEW n \in Nodes, NEW b \in InTransit, AcceptBlock(n, b)
      PROVE  HistoryInv'
  <2> DEFINE c == chain[n]
  <2>1. b \in Block /\ c \in Chain /\ Len(c) \in DOMAIN c
    BY SentTypes, ChainFacts DEF TypeOK
  <2>2. c[Len(c)] \in Block
    BY <2>1, ChainFacts
  <2>3. b.prev = c[Len(c)].hash /\ b.index > c[Len(c)].index
    BY <1>3, <2>1, <2>2 DEF AcceptBlock, Linked, Stale, LastBlock, Block
  <2>4. c \in Chains /\ b \in BlocksOf(Chains, InTransit)
    BY DEF Chains, BlocksOf
  <2>5. History(Chains \cup {Append(c, b)}, InTransit, Produced)
    BY <2>1, <2>3, <2>4, HistoryLinks DEF HistoryInv
  <2>6. Chains' \subseteq Chains \cup {Append(c, b)}
    BY <1>3 DEF AcceptBlock, Chains, syncVars, TypeOK
  <2>7. InTransit' \subseteq InTransit
    BY <1>3, <2>1, BlockSent DEF AcceptBlock, Received, Thread
  <2>8. Produced' = Produced
    BY <1>3 DEF AcceptBlock, Produced
  <2> QED
    BY <2>5, <2>6, <2>7, <2>8, HistoryShrinks DEF HistoryInv
<1>4. ASSUME NEW n \in Nodes, NEW r \in replies, ApplyChain(n, r)
      PROVE  HistoryInv'
  <2>1. Chains' \subseteq Chains
    BY <1>4 DEF ApplyChain, Chains, TypeOK
  <2>2. InTransit' = InTransit /\ Produced' = Produced
    BY <1>4 DEF ApplyChain, InTransit, Sent, Produced
  <2> QED
    BY <2>1, <2>2, HistoryShrinks DEF HistoryInv
<1>5. ASSUME NEW n \in Nodes, Restart(n)
      PROVE  HistoryInv'
  <2> DEFINE h == <<n, minted[n] + 1>>
  <2>1. Sent' \subseteq Sent
    BY <1>5 DEF Restart, Sent, TypeOK
  <2>2. InTransit' \subseteq InTransit
    BY <2>1, TransitMonotone
  <2>3. CASE saved[n]
    <3>1. Chains' \subseteq Chains /\ Produced' = Produced
      BY <1>5, <2>3 DEF Restart, Chains, Produced
    <3> QED
      BY <2>2, <3>1, HistoryShrinks DEF HistoryInv
  <2>4. CASE ~saved[n]
    <3>1. h \in Hash /\ h \notin Produced /\ Produced \cup {h} \subseteq Produced'
      BY <1>5, <2>4, NextHashIsNew DEF Restart
    <3>2. History(Chains \cup {<<Genesis(h)>>}, InTransit, Produced \cup {h})
      BY <3>1, HistoryBegins DEF HistoryInv
    <3>3. Chains' \subseteq Chains \cup {<<Genesis(h)>>}
      BY <1>5, <2>4 DEF Restart, Chains, TypeOK
    <3> QED
      BY <2>2, <3>1, <3>2, <3>3, HistoryShrinks DEF HistoryInv
  <2> QED
    BY <2>3, <2>4
<1> QED
  BY <1>1, <1>2, <1>3, <1>4, <1>5, StepKinds DEF LedgerStep

(* Of all blocks held or under way: a hash names one block, and a block   *)
(* is one above the block it links to.                                     *)
THEOREM HistoryCorrect == Spec => []HistoryInv
<1>1. Init => HistoryInv
  BY HistoryInit
<1>2. TypeOK /\ HistoryInv /\ [Next]_vars => HistoryInv'
  BY HistoryNext
<1> QED
  BY <1>1, <1>2, TypeCorrect, PTL DEF Spec

(* The index of a block is its position, in every chain that a node holds *)
(* or is sent, although no code compares the two.                          *)
THEOREM IndexCorrect == Spec => []IndexIsPosition
<1>1. HistoryInv => IndexIsPosition
  BY DEF HistoryInv, History, WellLinked, IndexIsPosition
<1> QED
  BY <1>1, HistoryCorrect, PTL

(* Chains that share a block share everything before it. *)
THEOREM PrefixesAgree == Spec => []PrefixAgreement
<1>1. HistoryInv => PrefixAgreement
  BY DEF HistoryInv, History, Agree, PrefixAgreement
<1> QED
  BY <1>1, HistoryCorrect, PTL

-----------------------------------------------------------------------------
(* The nodes implement the longest-chain rule. *)

(* A valid block on top of the chain of n, and nothing else. *)
LEMMA ExtendStep ==
    ASSUME TypeOK, NEW n \in Nodes, NEW b \in Block,
           b.index = Len(chain[n]),
           b.prev = chain[n][Len(chain[n])].hash,
           b.work >= Difficulty[n],
           chain' = [chain EXCEPT ![n] = Append(@, b)],
           Persist(n)
    PROVE  Ledger!Extend(n)
<1> DEFINE c == chain[n]
           len == Len(c)
<1>1. c \in Chain /\ len \in Nat \ {0} /\ chain'[n] = Append(c, b)
  BY ChainFacts DEF TypeOK
<1>2. Len(chain'[n]) = len + 1 /\ chain'[n][len + 1] = b
  BY <1>1, AppendFacts
<1>3. Ledger!Follows(b, c[len], len + 1, Difficulty[n])
  BY <1>1 DEF Ledger!Follows
<1>4. Ledger!Others(n)
  BY DEF Ledger!Others, Persist, TypeOK
<1> QED
  BY <1>1, <1>2, <1>3, <1>4 DEF Ledger!Extend

(* Every step is one of the longest-chain rule, or changes no ledger. *)
LEMMA LedgerNext ==
    TypeOK /\ HistoryInv /\ [Next]_vars => [Ledger!Next]_<<chain, saved>>
<1> SUFFICES ASSUME TypeOK, HistoryInv, [Next]_vars
             PROVE  [Ledger!Next]_<<chain, saved>>
  OBVIOUS
<1>1. CASE Still
  BY <1>1 DEF Still, ledgerVars
<1>2. ASSUME NEW n \in Nodes, Mine(n)
      PROVE  Ledger!Extend(n)
  <2>1. PICK b \in Block :
          /\ b.index = Len(chain[n])
          /\ b.prev = chain[n][Len(chain[n])].hash
          /\ b.work >= Difficulty[n]
          /\ chain' = [chain EXCEPT ![n] = Append(@, b)]
    BY <1>2, MineStep
  <2> QED
    BY <1>2, <2>1, ExtendStep DEF Mine
<1>3. ASSUME NEW n \in Nodes, NEW b \in InTransit, AcceptBlock(n, b)
      PROVE  Ledger!Extend(n)
  <2> DEFINE c == chain[n]
             tip == c[Len(c)]
  <2>1. /\ b \in Block /\ tip \in Block
        /\ Len(c) \in Nat \ {0} /\ Len(c) \in DOMAIN c
    BY SentTypes, ChainFacts DEF TypeOK
  <2>2. b.prev = tip.hash /\ b.index > tip.index /\ b.work >= Difficulty[n]
    BY <1>3, <2>1, DifficultyAssumption
    DEF AcceptBlock, Linked, Stale, LastBlock, IsValidProof, Block
  <2>3. b.index = tip.index + 1 /\ tip.index = Len(c) - 1
    <3>1. b \in BlocksOf(Chains, InTransit) /\ tip \in BlocksOf(Chains, InTransit)
      BY <2>1 DEF BlocksOf, Chains
    <3>2. b.index > 0
      BY <2>1, <2>2 DEF Block
    <3>3. tip.index = Len(c) - 1
      BY <2>1 DEF HistoryInv, History, WellLinked, Chains
    <3> QED
      BY <2>2, <3>1, <3>2, <3>3 DEF HistoryInv, History, IndexAbovePrev
  <2>4. b.index = Len(c)
    BY <2>1, <2>3
  <2> QED
    BY <1>3, <2>1, <2>2, <2>4, ExtendStep DEF AcceptBlock
<1>4. ASSUME NEW n \in Nodes, NEW r \in replies, ApplyChain(n, r)
      PROVE  Ledger!Adopt(n) \/ UNCHANGED <<chain, saved>>
  <2>1. CASE ~Replaces(r.chain, chain[n], Difficulty[n])
    BY <1>4, <2>1 DEF ApplyChain
  <2>2. CASE Replaces(r.chain, chain[n], Difficulty[n])
    <3> DEFINE c == r.chain
    <3>1. /\ chain'[n] = c
          /\ \A m \in Nodes \ {n} : chain'[m] = chain[m] /\ saved'[m] = saved[m]
      BY <1>4, <2>2 DEF ApplyChain, Persist, TypeOK
    <3>2. c \in Chain /\ c \in Chains
      BY DEF TypeOK, Chains
    <3>3. Len(c) > Len(chain[n]) /\ IsValid(c, Difficulty[n])
      BY <2>2 DEF Replaces, Longer
    <3>4. ASSUME NEW i \in 2..Len(c)
          PROVE  Ledger!Follows(c[i], c[i - 1], i, Difficulty[n])
      <4>1. i \in DOMAIN c
        BY <3>2, ChainFacts
      <4>2. c[i].index = i - 1
        BY <3>2, <4>1 DEF HistoryInv, History, WellLinked
      <4> QED
        BY <3>3, <4>2 DEF IsValid, IsValidProof, Ledger!Follows
    <3> QED
      BY <3>1, <3>3, <3>4 DEF Ledger!Adopt, Ledger!Others
  <2> QED
    BY <2>1, <2>2
<1>5. ASSUME NEW n \in Nodes, Restart(n)
      PROVE  Ledger!Reset(n) \/ UNCHANGED <<chain, saved>>
  <2>1. CASE saved[n]
    BY <1>5, <2>1 DEF Restart
  <2>2. CASE ~saved[n]
    <3>1. <<n, minted[n] + 1>> \in Hash
      BY DEF TypeOK, Hash
    <3>2. Len(chain'[n]) = 1
      BY <1>5, <2>2, <3>1, GenesisFacts DEF Restart, TypeOK
    <3> QED
      BY <1>5, <2>2, <3>2 DEF Restart, TypeOK, Ledger!Reset, Ledger!Others
  <2> QED
    BY <2>1, <2>2
<1> QED
  BY <1>1, <1>2, <1>3, <1>4, <1>5, StepKinds DEF LedgerStep, Ledger!Next

(* The network implements one growing chain per node: what a node does to *)
(* its ledger is to extend it, or to adopt a longer valid one, or, having *)
(* nothing saved, to begin again.                                          *)
THEOREM NodesImplementLongestChain == Spec => ImplementsLongestChain
<1>1. Init => Ledger!Init
  <2> SUFFICES ASSUME Init, NEW n \in Nodes PROVE Len(chain[n]) = 1
    BY DEF Ledger!Init
  <2>1. <<Founder, 0>> \in Hash /\ <<n, 1>> \in Hash
    BY DEF Hash
  <2> QED
    BY <2>1, GenesisFacts DEF Init
<1>2. TypeOK /\ HistoryInv /\ [Next]_vars => [Ledger!Next]_<<chain, saved>>
  BY LedgerNext
<1> QED
  BY <1>1, <1>2, TypeCorrect, HistoryCorrect, PTL
  DEF Spec, ImplementsLongestChain, Ledger!Spec

=============================================================================
