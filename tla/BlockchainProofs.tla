-------------------------- MODULE BlockchainProofs --------------------------
(***************************************************************************)
(* Facts about chains and blocks, for any nodes, transactions and          *)
(* difficulties: what the operators of Blockchain give, what a valid chain *)
(* is, and how the blocks of several chains share their past.              *)
(***************************************************************************)
EXTENDS Blockchain, SequenceTheorems, TLAPS

-----------------------------------------------------------------------------
(* Chains. *)

(* A chain has a last block, and its blocks are blocks. *)
LEMMA ChainFacts ==
    ASSUME NEW c \in Chain
    PROVE  /\ c \in Seq(Block)
           /\ Len(c) \in Nat \ {0}
           /\ DOMAIN c = 1..Len(c)
           /\ LastBlock(c) \in Block
           /\ \A i \in DOMAIN c : c[i] \in Block
<1>1. c \in Seq(Block) /\ c # <<>>
  BY DEF Chain
<1>2. Len(c) \in Nat \ {0} /\ DOMAIN c = 1..Len(c)
  BY <1>1, EmptySeq, LenProperties
<1>3. \A i \in DOMAIN c : c[i] \in Block
  BY <1>1, <1>2, ElementOfSeq
<1> QED
  BY <1>1, <1>2, <1>3 DEF LastBlock

(* What putting a block on a chain gives. *)
LEMMA AppendFacts ==
    ASSUME NEW c \in Chain, NEW b \in Block
    PROVE  /\ Append(c, b) \in Chain
           /\ Len(Append(c, b)) = Len(c) + 1
           /\ \A i \in DOMAIN c : Append(c, b)[i] = c[i]
           /\ Append(c, b)[Len(c) + 1] = b
<1>1. c \in Seq(Block) /\ DOMAIN c = 1..Len(c) /\ Len(c) \in Nat \ {0}
  BY ChainFacts
<1>2. /\ Append(c, b) \in Seq(Block)
      /\ Append(c, b) # <<>>
      /\ Len(Append(c, b)) = Len(c) + 1
      /\ \A i \in 1..Len(c) : Append(c, b)[i] = c[i]
      /\ Append(c, b)[Len(c) + 1] = b
  BY <1>1, AppendProperties
<1> QED
  BY <1>1, <1>2 DEF Chain

(* A genesis block alone is a chain. *)
LEMMA GenesisFacts ==
    ASSUME NEW h \in Hash
    PROVE  /\ Genesis(h) \in Block
           /\ <<Genesis(h)>> \in Chain
           /\ Len(<<Genesis(h)>>) = 1
<1>1. Genesis(h) \in Block
  BY DEF Genesis, Block
<1> QED
  BY <1>1 DEF Chain

(* Mining puts a block on a chain. *)
LEMMA MinedIsBlock ==
    ASSUME NEW c \in Chain, NEW h \in Hash, NEW txs \in SUBSET Txs, NEW w \in Nat
    PROVE  MinedBlock(c, h, txs, w) \in Block
<1>1. LastBlock(c) \in Block /\ Len(c) \in Nat
  BY ChainFacts
<1>2. LastBlock(c).hash \in Hash
  BY <1>1 DEF Block
<1> QED
  BY <1>1, <1>2 DEF MinedBlock, Block

(* The difficulties are natural numbers, and so is any work that is enough. *)
LEMMA WorkType ==
    ASSUME NEW n \in Nodes, NEW w \in Difficulty[n]..MaxWork
    PROVE  w \in Nat /\ w >= Difficulty[n]
BY DifficultyAssumption

-----------------------------------------------------------------------------
(* Valid chains. *)

(* Chain c with block b on it is valid if c is and b is linked. *)
LEMMA AppendValid ==
    ASSUME NEW c \in Chain, NEW b \in Block, NEW d \in Nat,
           IsValid(c, d), b.prev = c[Len(c)].hash, b.work >= d
    PROVE  IsValid(Append(c, b), d)
<1> DEFINE c2 == Append(c, b)
<1>1. Len(c) \in Nat \ {0} /\ Len(c2) = Len(c) + 1 /\ DOMAIN c = 1..Len(c)
  BY ChainFacts, AppendFacts
<1>2. (\A i \in 1..Len(c) : c2[i] = c[i]) /\ c2[Len(c) + 1] = b
  BY <1>1, AppendFacts
<1>3. SUFFICES ASSUME NEW i \in 2..Len(c2)
               PROVE  c2[i].prev = c2[i - 1].hash /\ c2[i].work >= d
  BY DEF IsValid, IsValidProof
<1> HIDE DEF c2
<1>4. CASE i \in 2..Len(c)
  <2>1. i - 1 \in 1..Len(c) /\ i \in 1..Len(c)
    BY <1>1, <1>4
  <2> QED
    BY <1>2, <1>4, <2>1 DEF IsValid, IsValidProof
<1>5. CASE i = Len(c) + 1
  <2>1. i - 1 = Len(c) /\ Len(c) \in 1..Len(c)
    BY <1>1, <1>5
  <2> QED
    BY <1>2, <1>5, <2>1
<1> QED
  BY <1>1, <1>3, <1>4, <1>5

(* ChainsValid says of every node what IsValid says of its chain. *)
LEMMA ValidMeans ==
    ASSUME NEW c \in Chain, NEW d
    PROVE  IsValid(c, d) <=>
             \A i \in DOMAIN c : i > 1 =>
                c[i].prev = c[i - 1].hash /\ c[i].work >= d
<1>1. DOMAIN c = 1..Len(c) /\ Len(c) \in Nat
  BY ChainFacts
<1>2. \A i : i \in 2..Len(c) <=> i \in DOMAIN c /\ i > 1
  BY <1>1
<1> QED
  BY <1>2 DEF IsValid, IsValidProof

(* A lone genesis block is valid. *)
LEMMA GenesisValid ==
    ASSUME NEW h \in Hash, NEW d
    PROVE  IsValid(<<Genesis(h)>>, d)
<1>1. 2..Len(<<Genesis(h)>>) = {}
  BY GenesisFacts
<1> QED
  BY <1>1 DEF IsValid

-----------------------------------------------------------------------------
(* Nodes number the hashes they produce; the founder's are all old. *)
Numbered(counts) == {h \in Hash : h[1] \in Nodes => h[2] <= counts[h[1]]}

(* The next hash of a node is new, and counted once it is used. *)
LEMMA NextIsNew ==
    ASSUME NEW counts \in [Nodes -> Nat], NEW n \in Nodes
    PROVE  LET h == <<n, counts[n] + 1>>
           IN  /\ h \in Hash
               /\ h \notin Numbered(counts)
               /\ Numbered(counts) \cup {h}
                     \subseteq Numbered([counts EXCEPT ![n] = @ + 1])
<1> DEFINE h    == <<n, counts[n] + 1>>
           more == [counts EXCEPT ![n] = @ + 1]
<1>1. h \in Hash /\ h[1] = n /\ h[2] = counts[n] + 1
  BY DEF Hash
<1>2. h \notin Numbered(counts)
  BY <1>1 DEF Numbered
<1>3. \A m \in Nodes : more[m] \in Nat /\ counts[m] <= more[m]
  OBVIOUS
<1>4. \A g \in Hash : g[2] \in Nat
  BY DEF Hash
<1>5. Numbered(counts) \subseteq Numbered(more)
  <2> HIDE DEF more
  <2> QED
    BY <1>3, <1>4 DEF Numbered
<1>6. h \in Numbered(more)
  BY <1>1 DEF Numbered
<1> QED
  BY <1>1, <1>2, <1>5, <1>6

-----------------------------------------------------------------------------
(* Blocks and their past.                                                  *)
(*                                                                         *)
(* That chains which share a block share everything before it is not       *)
(* inductive: a block under way may link to a tip anywhere, and agreement  *)
(* of chains says nothing of that block.  History is about all blocks,     *)
(* those under way included, and the hashes that have been produced.       *)

(* C is a set of chains, T a set of blocks under way, H a set of hashes. *)
BlocksOf(C, T) == T \cup UNION {{c[i] : i \in DOMAIN c} : c \in C}

(* Hashes of blocks, and those that they link to, have been produced. *)
HashesProduced(B, H) ==
    \A b \in B : b.hash \in H /\ (b.index > 0 => b.prev \in H)

(* A hash names one block. *)
OneBlockPerHash(B) == \A a, b \in B : a.hash = b.hash => a = b

(* A block is one above the block it links to. *)
IndexAbovePrev(B) ==
    \A a, b \in B : b.index > 0 /\ a.hash = b.prev => b.index = a.index + 1

(* A chain is a linked list with its positions for indices. *)
WellLinked(C) ==
    \A c \in C : \A i \in DOMAIN c :
        /\ c[i].index = i - 1
        /\ i > 1 => c[i].prev = c[i - 1].hash

Agree(c1, c2) ==
    \A i \in DOMAIN c1 : \A j \in DOMAIN c2 :
        c1[i].hash = c2[j].hash => i = j /\ \A k \in 1..i : c1[k] = c2[k]

History(C, T, H) ==
    /\ C \subseteq Chain
    /\ T \subseteq Block
    /\ HashesProduced(BlocksOf(C, T), H)
    /\ OneBlockPerHash(BlocksOf(C, T))
    /\ IndexAbovePrev(BlocksOf(C, T))
    /\ WellLinked(C)
    /\ \A c1, c2 \in C : Agree(c1, c2)

(* What holds of chains and blocks holds of fewer, with more hashes. *)
LEMMA HistoryShrinks ==
    ASSUME NEW C, NEW T, NEW H, History(C, T, H),
           NEW C2 \in SUBSET C, NEW T2, T2 \subseteq T, NEW H2, H \subseteq H2
    PROVE  History(C2, T2, H2)
<1>1. BlocksOf(C2, T2) \subseteq BlocksOf(C, T)
  BY DEF BlocksOf
<1> QED
  BY <1>1 DEF History, HashesProduced, OneBlockPerHash, IndexAbovePrev, WellLinked

(* A block that links to the tip of a chain, and is above that tip, can be *)
(* put on it.                                                              *)
LEMMA HistoryLinks ==
    ASSUME NEW C, NEW T, NEW H, History(C, T, H),
           NEW c \in C, NEW b \in BlocksOf(C, T), b \in Block,
           b.prev = c[Len(c)].hash,
           b.index > c[Len(c)].index
    PROVE  History(C \cup {Append(c, b)}, T, H)
<1> DEFINE len == Len(c)
           c2  == Append(c, b)
           C2  == C \cup {c2}
<1>1. /\ c \in Chain
      /\ len \in Nat \ {0}
      /\ DOMAIN c = 1..len
      /\ \A i \in DOMAIN c : c[i] \in Block /\ c[i] \in BlocksOf(C, T)
  BY ChainFacts DEF History, BlocksOf
<1>2. /\ c2 \in Chain
      /\ DOMAIN c2 = 1..(len + 1)
      /\ \A i \in 1..len : c2[i] = c[i]
      /\ c2[len + 1] = b
  BY <1>1, AppendFacts, ChainFacts
<1> HIDE DEF c2
<1>3. len \in DOMAIN c /\ c[len].index = len - 1
  BY <1>1 DEF History, WellLinked
<1>4. b.index = len
  <2>1. b.index > 0
    BY <1>1, <1>3 DEF Block
  <2> QED
    BY <1>1, <1>3, <2>1 DEF History, IndexAbovePrev
<1>5. BlocksOf(C2, T) = BlocksOf(C, T)
  <2>1. {c2[i] : i \in DOMAIN c2} \subseteq BlocksOf(C, T)
    <3>1. \A i \in DOMAIN c2 : i \in 1..len \/ i = len + 1
      BY <1>1, <1>2
    <3> QED
      BY <1>1, <1>2, <3>1
  <2> QED
    BY <2>1 DEF BlocksOf
<1>6. WellLinked(C2)
  <2>1. ASSUME NEW i \in DOMAIN c2
        PROVE  /\ c2[i].index = i - 1
               /\ i > 1 => c2[i].prev = c2[i - 1].hash
    <3>1. CASE i \in 1..len
      <4>1. c[i].index = i - 1 /\ (i > 1 => c[i].prev = c[i - 1].hash)
        BY <1>1, <3>1 DEF History, WellLinked
      <4>2. i > 1 => i - 1 \in 1..len
        BY <1>1, <3>1
      <4> QED
        BY <1>2, <3>1, <4>1, <4>2
    <3>2. CASE i = len + 1
      BY <1>1, <1>2, <1>3, <1>4, <3>2
    <3> QED
      BY <1>1, <1>2, <3>1, <3>2
  <2> QED
    BY <2>1 DEF History, WellLinked
<1>7. ASSUME NEW d \in C, NEW j \in DOMAIN d, d[j].hash = b.hash
      PROVE  /\ j = len + 1
             /\ \A k \in 1..(len + 1) : c2[k] = d[k]
  <2>1. d \in Chain /\ DOMAIN d = 1..Len(d) /\ Len(d) \in Nat /\ d[j] \in BlocksOf(C, T)
    BY ChainFacts DEF History, BlocksOf
  <2>2. d[j] = b
    BY <1>7, <2>1 DEF History, OneBlockPerHash
  <2>3. d[j].index = j - 1 /\ (j > 1 => d[j].prev = d[j - 1].hash)
    BY DEF History, WellLinked
  <2>4. j = len + 1
    BY <1>1, <1>4, <2>1, <2>2, <2>3
  <2>5. len \in DOMAIN d /\ d[len].hash = c[len].hash
    BY <1>1, <2>1, <2>2, <2>3, <2>4
  <2>6. \A k \in 1..len : c[k] = d[k]
    BY <1>3, <2>5 DEF History, Agree
  <2>7. \A k \in 1..(len + 1) : k \in 1..len \/ k = len + 1
    BY <1>1
  <2> QED
    BY <1>2, <2>2, <2>4, <2>6, <2>7
<1>8. ASSUME NEW d \in C
      PROVE  Agree(c2, d) /\ Agree(d, c2)
  <2>1. Agree(c, d) /\ Agree(d, c)
    BY DEF History
  <2>2. ASSUME NEW i \in DOMAIN c2, NEW j \in DOMAIN d, c2[i].hash = d[j].hash
        PROVE  i = j /\ \A k \in 1..i : c2[k] = d[k]
    <3>1. CASE i \in 1..len
      <4>1. i = j /\ \A k \in 1..i : c[k] = d[k]
        BY <1>1, <1>2, <2>1, <2>2, <3>1 DEF Agree
      <4>2. \A k \in 1..i : k \in 1..len
        BY <1>1, <3>1
      <4> QED
        BY <1>2, <4>1, <4>2
    <3>2. CASE i = len + 1
      BY <1>2, <1>7, <2>2, <3>2
    <3> QED
      BY <1>1, <1>2, <3>1, <3>2
  <2>3. DOMAIN d \subseteq Nat
    BY ChainFacts DEF History
  <2> QED
    BY <2>2, <2>3 DEF Agree
<1>9. Agree(c2, c2)
  <2>1. ASSUME NEW i \in DOMAIN c2, NEW j \in DOMAIN c2, c2[i].hash = c2[j].hash
        PROVE  i = j
    <3>1. CASE i \in 1..len
      BY <1>1, <1>2, <1>8, <2>1, <3>1 DEF Agree
    <3>2. CASE j \in 1..len
      BY <1>1, <1>2, <1>8, <2>1, <3>2 DEF Agree
    <3>3. CASE i = len + 1 /\ j = len + 1
      BY <3>3
    <3> QED
      BY <1>1, <1>2, <3>1, <3>2, <3>3
  <2> QED
    BY <2>1 DEF Agree
<1>10. \A d1, d2 \in C2 : Agree(d1, d2)
  BY <1>8, <1>9 DEF History
<1>11. History(C2, T, H)
  BY <1>2, <1>5, <1>6, <1>10 DEF History
<1> QED
  BY <1>11 DEF c2

(* A block with a new hash that links to the tip of a chain. *)
LEMMA HistoryMines ==
    ASSUME NEW C, NEW T, NEW H, History(C, T, H),
           NEW c \in C, NEW b \in Block, b.hash \notin H,
           b.prev = c[Len(c)].hash,
           b.index = Len(c)
    PROVE  History(C \cup {Append(c, b)}, T \cup {b}, H \cup {b.hash})
<1> DEFINE B  == BlocksOf(C, T)
           T2 == T \cup {b}
           H2 == H \cup {b.hash}
           tip == c[Len(c)]
<1>1. /\ c \in Chain
      /\ Len(c) \in Nat \ {0}
      /\ Len(c) \in DOMAIN c
      /\ tip \in Block
  BY ChainFacts DEF History
<1>2. tip \in B /\ tip.index = Len(c) - 1
  BY <1>1 DEF BlocksOf, History, WellLinked
<1>3. BlocksOf(C, T2) = B \cup {b}
  BY DEF BlocksOf
<1> HIDE DEF B, tip
<1>4. HashesProduced(B, H) /\ OneBlockPerHash(B) /\ IndexAbovePrev(B)
  BY DEF History, B
<1>5. b.prev = tip.hash /\ tip.hash \in H
  BY <1>2, <1>4 DEF HashesProduced, tip
<1>6. HashesProduced(B \cup {b}, H2)
  BY <1>4, <1>5 DEF HashesProduced
<1>7. OneBlockPerHash(B \cup {b})
  BY <1>4 DEF OneBlockPerHash, HashesProduced
<1>8. IndexAbovePrev(B \cup {b})
  <2>1. ASSUME NEW a \in B \cup {b}, NEW x \in B \cup {b},
               x.index > 0, a.hash = x.prev
        PROVE  x.index = a.index + 1
    <3>1. CASE x \in B /\ a \in B
      BY <1>4, <2>1, <3>1 DEF IndexAbovePrev
    <3>2. CASE x \in B /\ a = b
      BY <1>4, <2>1, <3>2 DEF HashesProduced
    <3>3. CASE x = b
      <4>1. a \in B
        BY <1>5, <2>1, <3>3
      <4>2. a = tip
        BY <1>2, <1>4, <1>5, <2>1, <3>3, <4>1 DEF OneBlockPerHash
      <4> QED
        BY <1>1, <1>2, <3>3, <4>2
    <3> QED
      BY <3>1, <3>2, <3>3
  <2> QED
    BY <2>1 DEF IndexAbovePrev
<1>9. History(C, T2, H2)
  BY <1>3, <1>6, <1>7, <1>8 DEF History
<1>10. b \in BlocksOf(C, T2)
  BY <1>3
<1>11. b.index > c[Len(c)].index
  BY <1>1, <1>2 DEF tip
<1> HIDE DEF T2, H2
<1>12. History(C \cup {Append(c, b)}, T2, H2)
  BY <1>9, <1>10, <1>11, HistoryLinks
<1> QED
  BY <1>12 DEF T2, H2

(* A genesis block with a new hash. *)
LEMMA HistoryBegins ==
    ASSUME NEW C, NEW T, NEW H, History(C, T, H),
           NEW h \in Hash, h \notin H
    PROVE  History(C \cup {<<Genesis(h)>>}, T, H \cup {h})
<1> DEFINE g  == Genesis(h)
           B  == BlocksOf(C, T)
           C2 == C \cup {<<g>>}
           H2 == H \cup {h}
<1>1. g \in Block /\ g.hash = h /\ g.index = 0 /\ <<g>> \in Chain
  BY GenesisFacts DEF Genesis
<1>2. DOMAIN <<g>> = {1} /\ <<g>>[1] = g
  OBVIOUS
<1> HIDE DEF g
<1>3. BlocksOf(C2, T) = B \cup {g}
  <2>1. {<<g>>[i] : i \in DOMAIN <<g>>} = {g}
    BY <1>2
  <2> QED
    BY <2>1 DEF BlocksOf
<1> HIDE DEF B
<1>4. HashesProduced(B, H) /\ OneBlockPerHash(B) /\ IndexAbovePrev(B)
  BY DEF History, B
<1>5. HashesProduced(B \cup {g}, H2)
  BY <1>1, <1>4 DEF HashesProduced
<1>6. OneBlockPerHash(B \cup {g})
  BY <1>1, <1>4 DEF OneBlockPerHash, HashesProduced
<1>7. IndexAbovePrev(B \cup {g})
  BY <1>1, <1>4 DEF IndexAbovePrev, HashesProduced
<1>8. WellLinked(C2)
  BY <1>1, <1>2 DEF WellLinked, History
<1>9. ASSUME NEW d \in C, NEW j \in DOMAIN d
      PROVE  d[j].hash # h
  <2>1. d[j] \in B
    BY DEF B, BlocksOf
  <2> QED
    BY <1>4, <2>1 DEF HashesProduced
<1>10. Agree(<<g>>, <<g>>)
  BY <1>2 DEF Agree
<1>11. \A d \in C : Agree(<<g>>, d) /\ Agree(d, <<g>>)
  BY <1>1, <1>2, <1>9 DEF Agree
<1>12. \A c1, c2 \in C2 : Agree(c1, c2)
  BY <1>10, <1>11 DEF History
<1>13. History(C2, T, H2)
  BY <1>1, <1>3, <1>5, <1>6, <1>7, <1>8, <1>12 DEF History
<1> QED
  BY <1>13 DEF g
=============================================================================
