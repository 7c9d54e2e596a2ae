------------------------- MODULE UploadLedgerProofs -------------------------
(***************************************************************************)
(* Proofs about the ledger of UploadServer: what is recorded is recorded   *)
(* once and by the right user, the chain file lags behind the ledger and   *)
(* never strays from it, and what was answered is in the file.             *)
(***************************************************************************)
EXTENDS UploadServerProofs

-----------------------------------------------------------------------------
(* The inductive invariant.  Each part says of a thread what its stage has *)
(* reached: before it mines, while it holds chain_lock, and after.         *)

(* Chain l has a block, numbers its blocks and records nothing twice. *)
Sound(l) ==
    /\ Len(l) > 0
    /\ \A i \in DOMAIN l : l[i].index = i - 1
    /\ \A i, j \in DOMAIN l : i # j => Ids(<<l[i]>>) \cap Ids(<<l[j]>>) = {}

(* Record t is of one of the uploads J, and names the account that the      *)
(* client that began it was logged in to.                                   *)
Rightful(t, J) ==
    t.id \in DOMAIN J /\ t.owner = J[t.id].user

Unrecorded == {"sending", "opened", "stored", "mining"}
IsRecorded == {"mined", "saving", "saved"}

LockHeld == \A c \in Conns : lock = c <=> thread[c].at \in {"mining", "saving"}

MinesOne ==
    /\ \A c \in Conns : thread[c].at = "mining" =>
          /\ thread[c].block = [index |-> Len(chain), txs |-> {thread[c].tx}]
          /\ pending = {thread[c].tx}
    /\ (\A c \in Conns : thread[c].at # "mining") => pending = {}

ChainSound ==
    /\ Sound(chain)
    /\ \A t \in Recorded(chain) : Rightful(t, jobs)

FileSound ==
    saved # Torn =>
        /\ Sound(SavedChain)
        /\ \A t \in Recorded(SavedChain) : Rightful(t, jobs)
        /\ acked \subseteq Ids(SavedChain)
        /\ up => IsPrefix(SavedChain, chain)

StagesRecorded ==
    \A c \in Conns :
        LET x == thread[c]
        IN  /\ x.at \in Unrecorded => x.tid \notin Ids(chain)
            /\ x.at \in IsRecorded => x.tid \in Ids(chain)
            /\ x.at = "saving" => x.snap = chain /\ saved = Torn
            /\ x.at = "saved" /\ saved # Torn => x.tid \in Ids(SavedChain)

AckedInChain == up => acked \subseteq Ids(chain)

Owners ==
    /\ \A c \in Conns :
          LET x == thread[c]
          IN  /\ x.at # "refused" => x.owner = x.user
              /\ x.at \in {"opened", "stored", "mining"} => Rightful(x.tx, jobs)
    /\ \A t \in DOMAIN transfers : transfers[t].owner = jobs[t].user

LedgerInv ==
    /\ TypeInv
    /\ LockHeld
    /\ MinesOne
    /\ ChainSound
    /\ FileSound
    /\ StagesRecorded
    /\ AckedInChain
    /\ Owners

-----------------------------------------------------------------------------
(* Chains. *)

(* A sequence is a prefix of itself. *)
LEMMA PrefixOfItself ==
    ASSUME NEW S, NEW s \in Seq(S)
    PROVE  IsPrefix(s, s)
BY LenProperties DEF IsPrefix

(* What is a prefix stays one when the sequence grows. *)
LEMMA PrefixOfLonger ==
    ASSUME NEW S, NEW s \in Seq(S), NEW t \in Seq(S), NEW e \in S, IsPrefix(s, t)
    PROVE  IsPrefix(s, Append(t, e))
<1> DEFINE n == Len(s)
           u == Append(t, e)
<1>1. n \in Nat /\ Len(t) \in Nat /\ n <= Len(t)
  BY LenProperties DEF IsPrefix
<1>2. u \in Seq(S) /\ Len(u) = Len(t) + 1 /\ \A i \in 1..Len(t) : u[i] = t[i]
  BY AppendFacts
<1>3. \A i \in 1..n : t[i] \in S /\ u[i] \in S /\ u[i] = t[i]
  BY <1>1, <1>2, ElementOfSeq
<1> HIDE DEF u
<1>4. /\ SubSeq(t, 1, n) \in Seq(S) /\ SubSeq(u, 1, n) \in Seq(S)
      /\ Len(SubSeq(t, 1, n)) = n /\ Len(SubSeq(u, 1, n)) = n
      /\ \A i \in 1..n : SubSeq(t, 1, n)[i] = t[i] /\ SubSeq(u, 1, n)[i] = u[i]
  <2> HIDE DEF n
  <2>1. 1 \in Int /\ n \in Int /\ n - 1 + 1 = n /\ \A i \in 1..n : 1 + i - 1 = i
    BY <1>1
  <2> QED
    BY <1>1, <1>3, <2>1, SubSeqProperties
<1>5. SubSeq(t, 1, n) = SubSeq(u, 1, n)
  <2> HIDE DEF n
  <2> QED
    BY <1>3, <1>4, SeqEqual
<1>6. n <= Len(u)
  BY <1>1, <1>2
<1> QED
  BY <1>5, <1>6 DEF IsPrefix, u

(* What a chain records when block e is put on it. *)
LEMMA RecordsOfLonger ==
    ASSUME NEW l \in Seq(Block), NEW e \in Block
    PROVE  /\ Recorded(Append(l, e)) = Recorded(l) \cup e.txs
           /\ Ids(Append(l, e)) = Ids(l) \cup {t.id : t \in e.txs}
           /\ Recorded(<<e>>) = e.txs
           /\ Ids(<<e>>) = {t.id : t \in e.txs}
<1>1. /\ DOMAIN l = 1..Len(l) /\ Len(l) \in Nat
      /\ DOMAIN Append(l, e) = 1..(Len(l) + 1)
      /\ \A i \in 1..Len(l) : Append(l, e)[i] = l[i]
      /\ Append(l, e)[Len(l) + 1] = e
  BY AppendFacts
<1>2. Recorded(Append(l, e)) = Recorded(l) \cup e.txs
  <2> DEFINE m == Append(l, e)
  <2> HIDE DEF m
  <2>1. \A t : t \in Recorded(m) <=> \E i \in DOMAIN m : t \in m[i].txs
    BY DEF Recorded
  <2>2. \A t : t \in Recorded(l) <=> \E i \in DOMAIN l : t \in l[i].txs
    BY DEF Recorded
  <2>3. \A t : t \in Recorded(m) <=> t \in Recorded(l) \/ t \in e.txs
    BY <1>1, <2>1, <2>2 DEF m
  <2> QED
    BY <2>3 DEF m
<1>3. Recorded(<<e>>) = e.txs
  <2>1. DOMAIN <<e>> = {1} /\ <<e>>[1] = e
    OBVIOUS
  <2> QED
    BY <2>1 DEF Recorded
<1> QED
  BY <1>2, <1>3 DEF Ids

(* The ids in a chain are those in its blocks. *)
LEMMA IdsOfBlocks ==
    ASSUME NEW l \in Seq(Block)
    PROVE  /\ \A i \in DOMAIN l : Ids(<<l[i]>>) = {t.id : t \in l[i].txs}
           /\ \A k : k \in Ids(l) <=> \E i \in DOMAIN l : k \in Ids(<<l[i]>>)
<1>1. \A i \in DOMAIN l : l[i] \in Block
  BY ElementOfSeq, LenProperties
<1>2. \A i \in DOMAIN l : Ids(<<l[i]>>) = {t.id : t \in l[i].txs}
  BY <1>1, RecordsOfLonger
<1>3. \A t : t \in Recorded(l) <=> \E i \in DOMAIN l : t \in l[i].txs
  BY DEF Recorded
<1>4. \A k : k \in Ids(l) <=> \E i \in DOMAIN l : \E t \in l[i].txs : k = t.id
  BY <1>3 DEF Ids
<1>5. ASSUME NEW i \in DOMAIN l, NEW k
      PROVE  k \in Ids(<<l[i]>>) <=> \E t \in l[i].txs : k = t.id
  BY <1>2
<1>6. ASSUME NEW k
      PROVE  k \in Ids(l) <=> \E i \in DOMAIN l : k \in Ids(<<l[i]>>)
  BY <1>4, <1>5, Zenon
<1> QED
  BY <1>2, <1>6

(* A chain stays sound when the next block, with records that it has not,  *)
(* is put on it.                                                           *)
LEMMA SoundGrows ==
    ASSUME NEW l \in Seq(Block), NEW e \in Block, Sound(l),
           e.index = Len(l), Ids(l) \cap Ids(<<e>>) = {}
    PROVE  Sound(Append(l, e))
<1> DEFINE m == Append(l, e)
<1>1. /\ DOMAIN l = 1..Len(l) /\ Len(l) \in Nat
      /\ DOMAIN m = 1..(Len(l) + 1)
      /\ \A i \in 1..Len(l) : m[i] = l[i]
      /\ m[Len(l) + 1] = e
  BY AppendFacts
<1> HIDE DEF m
<1>2. \A i \in DOMAIN m : m[i].index = i - 1
  BY <1>1 DEF Sound
<1>3. ASSUME NEW i \in DOMAIN m, NEW j \in DOMAIN m, i # j
      PROVE  Ids(<<m[i]>>) \cap Ids(<<m[j]>>) = {}
  <2>1. \A k \in DOMAIN l : Ids(<<l[k]>>) \subseteq Ids(l)
    BY IdsOfBlocks
  <2>2. CASE i \in DOMAIN l /\ j \in DOMAIN l
    BY <1>1, <1>3, <2>2 DEF Sound
  <2>3. CASE i \notin DOMAIN l
    BY <1>1, <1>3, <2>1, <2>3
  <2>4. CASE j \notin DOMAIN l
    BY <1>1, <1>3, <2>1, <2>4
  <2> QED
    BY <2>2, <2>3, <2>4
<1> QED
  BY <1>2, <1>3, AppendFacts DEF Sound, m

(* A chain that holds its genesis block alone. *)
LEMMA SoundBegins ==
    /\ Genesis \in Block /\ <<Genesis>> \in Seq(Block)
    /\ Sound(<<Genesis>>) /\ Recorded(<<Genesis>>) = {} /\ Ids(<<Genesis>>) = {}
<1>1. Genesis \in Block /\ Genesis.txs = {} /\ Genesis.index = 0
  BY DEF Genesis, Block
<1>2. /\ <<Genesis>> \in Seq(Block) /\ Len(<<Genesis>>) = 1
      /\ DOMAIN <<Genesis>> = {1} /\ <<Genesis>>[1] = Genesis
  BY <1>1
<1>3. Recorded(<<Genesis>>) = {}
  <2>1. <<>> \in Seq(Block)
    OBVIOUS
  <2> QED
    BY <1>1, <2>1, RecordsOfLonger
<1>4. Ids(<<Genesis>>) = {}
  BY <1>3 DEF Ids
<1> QED
  BY <1>1, <1>2, <1>3, <1>4 DEF Sound

-----------------------------------------------------------------------------
(* Steps. *)

(* At first nothing is recorded, and the lock is free. *)
LEMMA LedgerInit == Init => LedgerInv
<1> SUFFICES ASSUME Init PROVE LedgerInv
  OBVIOUS
<1>1. TypeInv
  BY TypeInit
<1>2. /\ chain = <<Genesis>> /\ pending = {} /\ lock = NoOne /\ saved = NoOne /\ acked = {}
      /\ DOMAIN transfers = {}
      /\ \A c \in Conns : /\ c # NoOne /\ thread[c] = Closed
  BY NamesAssumption DEF Init
<1>3. Closed.at = "closed" /\ Closed.owner = Closed.user
  BY QuietThreads DEF Closed, Idle
<1>4. saved # Torn /\ SavedChain = <<Genesis>>
  BY <1>2, TornAssumption DEF SavedChain
<1>5. IsPrefix(<<Genesis>>, <<Genesis>>)
  BY SoundBegins, PrefixOfItself
<1> QED
  BY <1>1, <1>2, <1>3, <1>4, <1>5, SoundBegins
  DEF LedgerInv, LockHeld, MinesOne, ChainSound, FileSound, StagesRecorded,
      AckedInChain, Owners, Unrecorded, IsRecorded

(* What is rightful stays so when more uploads are begun. *)
LEMMA StaysRightful ==
    ASSUME NEW J, NEW K, NEW t, Rightful(t, J),
           \A k \in DOMAIN J : k \in DOMAIN K /\ K[k] = J[k]
    PROVE  Rightful(t, K)
BY DEF Rightful

(* The thread of one connection moves on outside the ledger: its next stage *)
(* is before the mining, or not of an upload.                               *)
LEMMA LedgerAside ==
    ASSUME LedgerInv, TypeInv', NEW c \in Conns, NEW y,
           thread' = [thread EXCEPT ![c] = y],
           UNCHANGED <<ledger, up, acked>>,
           \A k \in DOMAIN jobs : k \in DOMAIN jobs' /\ jobs'[k] = jobs[k],
           thread[c].at \notin {"mining", "saving"},
           y.at \notin IsRecorded \cup {"mining"},
           y.at \in Unrecorded => y.tid \notin Ids(chain),
           y.at # "refused" => y.owner = y.user,
           y.at \in {"opened", "stored"} => Rightful(y.tx, jobs'),
           \A t \in DOMAIN transfers' : transfers'[t].owner = jobs'[t].user
    PROVE  LedgerInv'
<1>1. /\ thread'[c] = y
      /\ \A d \in Conns : d # c => thread'[d] = thread[d]
  BY DEF LedgerInv, TypeInv, TypeOK
<1>2. UNCHANGED <<chain, pending, lock, saved, up, acked>>
  BY DEF ledger
<1>3. LockHeld' /\ MinesOne'
  BY <1>1, <1>2 DEF LedgerInv, LockHeld, MinesOne, IsRecorded
<1>4. ChainSound'
  <2>1. \A t \in Recorded(chain) : Rightful(t, jobs')
    BY StaysRightful DEF LedgerInv, ChainSound
  <2> QED
    BY <1>2, <2>1 DEF LedgerInv, ChainSound
<1>5. FileSound'
  <2>1. saved # Torn => \A t \in Recorded(SavedChain) : Rightful(t, jobs')
    BY StaysRightful DEF LedgerInv, FileSound
  <2>2. UNCHANGED SavedChain
    BY <1>2 DEF SavedChain
  <2> QED
    BY <1>2, <2>1, <2>2 DEF LedgerInv, FileSound
<1>6. StagesRecorded'
  <2>1. UNCHANGED SavedChain
    BY <1>2 DEF SavedChain
  <2>2. y.at \notin {"mining", "mined", "saving", "saved"}
    BY DEF IsRecorded
  <2> QED
    BY <1>1, <1>2, <2>1, <2>2 DEF LedgerInv, StagesRecorded, IsRecorded
<1>7. AckedInChain'
  BY <1>2 DEF LedgerInv, AckedInChain
<1>8. Owners'
  <2>1. ASSUME NEW d \in Conns
        PROVE  LET x == thread'[d]
               IN  /\ x.at # "refused" => x.owner = x.user
                   /\ x.at \in {"opened", "stored", "mining"} => Rightful(x.tx, jobs')
    <3>1. CASE d = c
      BY <1>1, <3>1
    <3>2. CASE d # c
      BY <1>1, <3>2, StaysRightful DEF LedgerInv, Owners
    <3> QED
      BY <3>1, <3>2
  <2> QED
    BY <2>1 DEF Owners
<1> QED
  BY <1>3, <1>4, <1>5, <1>6, <1>7, <1>8 DEF LedgerInv

(* A request that is over, or never was, leaves its thread with an owner    *)
(* that is its user.                                                        *)
LEMMA EndsOwned ==
    ASSUME LedgerInv, NEW c \in Conns, NEW s,
           Fails(c, s) \/ (Answered(c, s) /\ s # "refused")
    PROVE  /\ thread[c].at = s
           /\ \E y \in Thread : /\ thread' = [thread EXCEPT ![c] = y]
                                /\ y.at \in {"closed", "ready"}
                                /\ y.owner = y.user
<1>1. CASE Fails(c, s)
  <2>1. Closed \in Thread /\ Closed.at = "closed" /\ Closed.owner = Closed.user
    BY QuietThreads DEF Closed, Idle
  <2> QED
    BY <1>1, <2>1 DEF Fails, Goes
<1>2. CASE Answered(c, s) /\ s # "refused"
  <2> DEFINE y == [Idle EXCEPT !.owner = thread[c].owner, !.user = thread[c].user]
  <2>1. thread[c] \in Thread
    BY DEF LedgerInv, TypeInv, TypeOK
  <2>2. y \in Thread /\ y.at = "ready" /\ y.owner = thread[c].owner /\ y.user = thread[c].user
    <3>1. /\ thread[c].owner \in Users \cup {NoOne} /\ thread[c].user \in Users \cup {NoOne}
      BY <2>1 DEF Thread
    <3>2. PICK i \in Thread : i = Idle /\ i.at = "ready"
      BY QuietThreads
    <3>3. [i EXCEPT !.owner = thread[c].owner, !.user = thread[c].user] \in Thread
      BY <3>1, <3>2 DEF Thread
    <3> QED
      BY <3>2, <3>3 DEF Thread
  <2>3. thread[c].at = s /\ thread' = [thread EXCEPT ![c] = y]
    BY <1>2 DEF Answered, Goes
  <2>4. thread[c].owner = thread[c].user
    BY <1>2, <2>3 DEF LedgerInv, Owners
  <2> HIDE DEF y
  <2> QED
    BY <2>2, <2>3, <2>4
<1> QED
  BY <1>1, <1>2

(* A step of a thread that ends a request and leaves the ledger alone. *)
LEMMA LedgerEnds ==
    ASSUME LedgerInv, TypeInv', NEW c \in Conns, NEW s,
           Fails(c, s) \/ (Answered(c, s) /\ s # "refused"),
           s \notin {"mining", "saving"},
           UNCHANGED <<ledger, up, acked, jobs>>,
           DOMAIN transfers' \subseteq DOMAIN transfers,
           \A t \in DOMAIN transfers' : transfers'[t] = transfers[t]
    PROVE  LedgerInv'
<1>1. PICK y \in Thread : /\ thread[c].at = s
                          /\ thread' = [thread EXCEPT ![c] = y]
                          /\ y.at \in {"closed", "ready"}
                          /\ y.owner = y.user
  BY EndsOwned
<1>2. /\ y.at \notin IsRecorded \cup {"mining"} /\ y.at \notin Unrecorded
      /\ y.at \notin {"opened", "stored"}
  BY <1>1 DEF IsRecorded, Unrecorded
<1>3. \A t \in DOMAIN transfers' : transfers'[t].owner = jobs'[t].user
  BY DEF LedgerInv, Owners
<1>4. /\ UNCHANGED <<ledger, up, acked>>
      /\ \A k \in DOMAIN jobs : k \in DOMAIN jobs' /\ jobs'[k] = jobs[k]
  OBVIOUS
<1> QED
  BY <1>1, <1>2, <1>3, <1>4, LedgerAside

(* What an upload does before it comes to the ledger. *)
LEMMA LedgerTransfers ==
    ASSUME LedgerInv, TypeInv', NEW c \in Conns,
           SendChunk(c) \/ RefuseUpload(c) \/ OpenUpload(c) \/ WriteFile(c)
    PROVE  LedgerInv'
<1> DEFINE x == thread[c]
<1>1. /\ x \in Thread /\ Fit(x, DOMAIN jobs, DOMAIN transfers)
      /\ x.at # "refused" => x.owner = x.user
      /\ x.at \in Unrecorded => x.tid \notin Ids(chain)
      /\ x.at = "opened" => Rightful(x.tx, jobs)
  BY DEF LedgerInv, TypeInv, TypeOK, Equipped, Owners, StagesRecorded
<1>2. CASE SendChunk(c)
  <2> DEFINE y == [x EXCEPT !.sent = x.sent + 1]
             t == x.tid
             k == x.sent + 1
  <2>1. /\ x.at = "sending" /\ thread' = [thread EXCEPT ![c] = y]
        /\ transfers' = IF jobs[t].data[k] = NoBytes THEN transfers
                        ELSE [transfers EXCEPT ![t].chunks[k] = jobs[t].data[k]]
        /\ UNCHANGED <<ledger, up, acked, jobs>>
    BY <1>2 DEF SendChunk, Goes, history
  <2>2. /\ y.at = "sending" /\ y.tid = x.tid /\ y.owner = x.owner /\ y.user = x.user
    BY <1>1, <2>1 DEF Thread
  <2>3. t \in DOMAIN transfers /\ \A u \in DOMAIN transfers : transfers[u] \in Transfer
    BY <1>1, <2>1 DEF Fit, LedgerInv, TypeInv, TypeOK
  <2>4. /\ DOMAIN transfers' = DOMAIN transfers
        /\ \A u \in DOMAIN transfers : transfers'[u].owner = transfers[u].owner
    <3>1. CASE jobs[t].data[k] = NoBytes
      BY <2>1, <3>1
    <3>2. CASE jobs[t].data[k] # NoBytes
      <4> DEFINE tr == transfers[t]
                 z == [tr EXCEPT !.chunks = [tr.chunks EXCEPT ![k] = jobs[t].data[k]]]
      <4>1. transfers' = [transfers EXCEPT ![t] = z]
        BY <2>1, <3>2
      <4>2. z.owner = tr.owner
        <5>1. tr \in Transfer
          BY <2>3
        <5> HIDE DEF tr
        <5> QED
          BY <5>1 DEF Transfer
      <4> HIDE DEF z
      <4> QED
        BY <2>3, <4>1, <4>2
    <3> QED
      BY <3>1, <3>2
  <2> HIDE DEF y
  <2>5. \A u \in DOMAIN transfers' : transfers'[u].owner = jobs'[u].user
    BY <2>1, <2>4 DEF LedgerInv, Owners
  <2>6. y.at \notin IsRecorded \cup {"mining"} /\ y.at \in Unrecorded
    BY <2>2 DEF IsRecorded, Unrecorded
  <2>7. y.tid \notin Ids(chain) /\ y.owner = y.user
    BY <1>1, <2>1, <2>2, <2>6
  <2>8. /\ UNCHANGED <<ledger, up, acked>>
        /\ \A u \in DOMAIN jobs : u \in DOMAIN jobs' /\ jobs'[u] = jobs[u]
    BY <2>1
  <2> QED
    BY <2>1, <2>2, <2>5, <2>6, <2>7, <2>8, LedgerAside
<1>3. CASE RefuseUpload(c)
  BY <1>3, LedgerEnds DEF RefuseUpload, PopTransfer, history
<1>4. CASE OpenUpload(c)
  <2>1. TypeInv
    BY DEF LedgerInv
  <2>2. PICK i \in Inodes, y \in Thread : Opened(c, i, y)
    BY <1>4, <2>1, OpensWhole
  <2>3. /\ x.at = "sending" /\ x.tid \in DOMAIN jobs \cap DOMAIN transfers
        /\ thread' = [thread EXCEPT ![c] = y]
        /\ y.at = "opened" /\ y.tid = x.tid /\ y.owner = x.owner /\ y.user = x.user
        /\ y.tx.id = x.tid /\ y.tx.owner = transfers[x.tid].owner
        /\ UNCHANGED <<ledger, up, acked, jobs>>
    BY <2>2 DEF Opened, history
  <2>4. /\ DOMAIN transfers' \subseteq DOMAIN transfers
        /\ \A t \in DOMAIN transfers' : transfers'[t] = transfers[t]
    BY <2>2 DEF Opened, PopTransfer
  <2>5. /\ \A t \in DOMAIN transfers' : transfers'[t].owner = jobs'[t].user
        /\ Rightful(y.tx, jobs')
    BY <2>3, <2>4 DEF LedgerInv, Owners, Rightful
  <2>6. y.at \notin IsRecorded \cup {"mining"} /\ x.at \in Unrecorded
    BY <2>3 DEF IsRecorded, Unrecorded
  <2>7. y.tid \notin Ids(chain) /\ y.owner = y.user
    BY <1>1, <2>3, <2>6
  <2>8. /\ UNCHANGED <<ledger, up, acked>>
        /\ \A u \in DOMAIN jobs : u \in DOMAIN jobs' /\ jobs'[u] = jobs[u]
    BY <2>3
  <2> QED
    BY <2>3, <2>5, <2>6, <2>7, <2>8, LedgerAside
<1>5. CASE WriteFile(c)
  <2> DEFINE y == [x EXCEPT !.at = "stored", !.fd = NoOne]
  <2>1. /\ x.at = "opened" /\ thread' = [thread EXCEPT ![c] = y]
        /\ UNCHANGED <<transfers, ledger, up, acked, jobs>>
    BY <1>5 DEF WriteFile, Goes, history
  <2>2. /\ y.at = "stored" /\ y.tid = x.tid /\ y.owner = x.owner /\ y.user = x.user
        /\ y.tx = x.tx
    BY <1>1 DEF Thread
  <2> HIDE DEF y
  <2>3. y.at \notin IsRecorded \cup {"mining"} /\ x.at \in Unrecorded
    BY <2>1, <2>2 DEF IsRecorded, Unrecorded
  <2>4. /\ y.tid \notin Ids(chain) /\ y.owner = y.user
        /\ Rightful(y.tx, jobs')
        /\ \A t \in DOMAIN transfers' : transfers'[t].owner = jobs'[t].user
    BY <1>1, <2>1, <2>2, <2>3 DEF LedgerInv, Owners
  <2>5. /\ UNCHANGED <<ledger, up, acked>>
        /\ \A u \in DOMAIN jobs : u \in DOMAIN jobs' /\ jobs'[u] = jobs[u]
    BY <2>1
  <2> QED
    BY <2>1, <2>3, <2>4, <2>5, LedgerAside
<1> QED
  BY <1>2, <1>3, <1>4, <1>5

(* Sessions, files and the start of an upload leave the ledger alone. *)
LEMMA LedgerSessions ==
    ASSUME LedgerInv, TypeInv', NEW c \in Conns, NEW u \in Users,
           SignUp(c, u) \/ SignUpRefused(c, u) \/ LogIn(c, u) \/ LogInRefused(c, u)
    PROVE  LedgerInv'
<1>1. ASSUME NEW y, y.at \in {"ready", "refused"}, Goes(c, "closed", y),
             y.at # "refused" => y.owner = y.user,
             UNCHANGED <<ledger, up, history, transfers>>
      PROVE  LedgerInv'
  <2>1. /\ thread[c].at = "closed" /\ thread' = [thread EXCEPT ![c] = y]
        /\ UNCHANGED <<ledger, up, acked, jobs>>
    BY <1>1 DEF Goes, history
  <2>2. y.at \notin IsRecorded \cup {"mining"} /\ y.at \notin Unrecorded
        /\ y.at \notin {"opened", "stored"}
    BY <1>1 DEF IsRecorded, Unrecorded
  <2>3. \A t \in DOMAIN transfers' : transfers'[t].owner = jobs'[t].user
    BY <1>1, <2>1 DEF LedgerInv, Owners
  <2>4. /\ UNCHANGED <<ledger, up, acked>>
        /\ \A k \in DOMAIN jobs : k \in DOMAIN jobs' /\ jobs'[k] = jobs[k]
    BY <2>1
  <2> QED
    BY <1>1, <2>1, <2>2, <2>3, <2>4, LedgerAside
<1>2. Idle \in Thread /\ Idle.at = "ready" /\ Idle.owner = NoOne
  BY QuietThreads DEF Idle
<1>3. CASE SignUp(c, u)
  <2>1. Idle.owner = Idle.user
    BY DEF Idle
  <2>2. Goes(c, "closed", Idle) /\ UNCHANGED <<ledger, up, history, transfers>>
    BY <1>3 DEF SignUp
  <2> QED
    BY <1>1, <1>2, <2>1, <2>2
<1>4. CASE SignUpRefused(c, u)
  <2> DEFINE y == [Idle EXCEPT !.at = "refused"]
  <2>1. y.at = "refused"
    BY <1>2 DEF Thread
  <2>2. Goes(c, "closed", y) /\ UNCHANGED <<ledger, up, history, transfers>>
    BY <1>4 DEF SignUpRefused, Enters
  <2> HIDE DEF y
  <2> QED
    BY <1>1, <2>1, <2>2
<1>5. CASE LogIn(c, u)
  <2> DEFINE y == [Idle EXCEPT !.owner = u, !.user = u]
  <2>1. y.at = "ready" /\ y.owner = u /\ y.user = u
    BY <1>2 DEF Thread
  <2>2. Goes(c, "closed", y) /\ UNCHANGED <<ledger, up, history, transfers>>
    BY <1>5 DEF LogIn, Enters
  <2> HIDE DEF y
  <2> QED
    BY <1>1, <2>1, <2>2
<1>6. CASE LogInRefused(c, u)
  <2> DEFINE y == [Idle EXCEPT !.at = "refused", !.owner = u]
  <2>1. y.at = "refused"
    BY <1>2 DEF Thread
  <2>2. Goes(c, "closed", y) /\ UNCHANGED <<ledger, up, history, transfers>>
    BY <1>6 DEF LogInRefused, Enters
  <2> HIDE DEF y
  <2> QED
    BY <1>1, <2>1, <2>2
<1> QED
  BY <1>3, <1>4, <1>5, <1>6

(* A new upload has an id that no record has. *)
LEMMA LedgerBegins ==
    ASSUME LedgerInv, TypeInv', NEW c \in Conns, NEW n \in Names, NEW d \in Data,
           BeginUpload(c, n, d)
    PROVE  LedgerInv'
<1> DEFINE x == thread[c]
           t == Len(jobs) + 1
           job == [name |-> n, data |-> d, user |-> x.user]
           new == [name |-> n, chunks |-> [i \in 1..Len(d) |-> NoOne], owner |-> x.owner]
           y == [x EXCEPT !.at = "sending", !.tid = t]
<1>1. /\ x.at = "ready" /\ thread' = [thread EXCEPT ![c] = y]
      /\ jobs' = Append(jobs, job)
      /\ transfers' = [u \in DOMAIN transfers \cup {t} |->
                          IF u = t THEN new ELSE transfers[u]]
      /\ UNCHANGED <<ledger, up, acked>>
  BY DEF BeginUpload, Goes
<1>2. x \in Thread /\ x.owner = x.user
  BY <1>1 DEF LedgerInv, TypeInv, TypeOK, Owners
<1>3. y.at = "sending" /\ y.tid = t /\ y.owner = x.owner /\ y.user = x.user
  BY <1>2 DEF Thread
<1>4. /\ t \notin DOMAIN jobs
      /\ \A k \in DOMAIN jobs : k \in DOMAIN jobs' /\ jobs'[k] = jobs[k]
      /\ jobs'[t].user = x.user
  <2>1. jobs \in Seq(Job)
    BY DEF LedgerInv, TypeInv, TypeOK, Job
  <2>2. job \in Job /\ job.user = x.user
    BY <1>2 DEF Job, Thread
  <2> HIDE DEF job
  <2> QED
    BY <1>1, <2>1, <2>2, AppendFacts
<1>5. y.tid \notin Ids(chain)
  BY <1>3, <1>4 DEF LedgerInv, ChainSound, Rightful, Ids
<1>6. \A u \in DOMAIN transfers' : transfers'[u].owner = jobs'[u].user
  <2>1. new.owner = x.owner
    OBVIOUS
  <2> HIDE DEF new
  <2>2. DOMAIN transfers' = DOMAIN transfers \cup {t} /\ transfers'[t] = new
        /\ \A u \in DOMAIN transfers : u # t => transfers'[u] = transfers[u]
    BY <1>1
  <2>3. DOMAIN transfers \subseteq DOMAIN jobs
    BY DEF LedgerInv, TypeInv, TypeOK
  <2> QED
    BY <1>2, <1>4, <2>1, <2>2, <2>3 DEF LedgerInv, Owners
<1> HIDE DEF y, t, new, job
<1>7. y.at \notin IsRecorded \cup {"mining"} /\ y.at \notin {"opened", "stored"}
      /\ x.at \notin {"mining", "saving"}
  BY <1>1, <1>3 DEF IsRecorded
<1>8. y.owner = y.user
  BY <1>2, <1>3
<1> QED
  BY <1>1, <1>4, <1>5, <1>6, <1>7, <1>8, LedgerAside

(* Requests about a file leave the ledger alone. *)
LEMMA LedgerFiles ==
    ASSUME LedgerInv, TypeInv', NEW c \in Conns,
           \/ \E n \in Names : Star(c, n) \/ Delete(c, n) \/ Restore(c, n) \/ Purge(c, n)
           \/ FileStep(c)
    PROVE  LedgerInv'
<1> DEFINE x == thread[c]
<1>1. x \in Thread
  BY DEF LedgerInv, TypeInv, TypeOK
<1>2. ASSUME NEW y, NEW s \in AtFile, thread' = [thread EXCEPT ![c] = y],
             y.at = s, y.owner = x.owner, y.user = x.user,
             x.at \in AtFile \cup {"ready"}, UNCHANGED offDisk
      PROVE  LedgerInv'
  <2>1. /\ x.at # "refused" /\ x.at \notin {"mining", "saving"}
        /\ y.at \notin IsRecorded \cup {"mining"} /\ y.at \notin Unrecorded
        /\ y.at \notin {"opened", "stored"}
    BY <1>2 DEF AtFile, IsRecorded, Unrecorded
  <2>2. y.owner = y.user
    BY <1>2, <2>1 DEF LedgerInv, Owners
  <2>3. /\ \A t \in DOMAIN transfers' : transfers'[t].owner = jobs'[t].user
        /\ UNCHANGED <<ledger, up, acked>>
        /\ \A k \in DOMAIN jobs : k \in DOMAIN jobs' /\ jobs'[k] = jobs[k]
    BY <1>2 DEF offDisk, LedgerInv, Owners
  <2> QED
    BY <1>2, <2>1, <2>2, <2>3, LedgerAside
<1>3. ASSUME NEW n \in Names, NEW s \in AtFile, NEW a \in Requests, Looks(c, n, a, s)
      PROVE  LedgerInv'
  <2> DEFINE y == [x EXCEPT !.at = s, !.act = a, !.target = n]
  <2>1. x.at = "ready" /\ thread' = [thread EXCEPT ![c] = y] /\ UNCHANGED offDisk
    BY <1>3 DEF Looks, Goes
  <2>2. y.at = s /\ y.owner = x.owner /\ y.user = x.user
    BY <1>1 DEF Thread
  <2> HIDE DEF y
  <2> QED
    BY <1>2, <2>1, <2>2
<1>4. ASSUME NEW s \in AtFile, NEW z \in AtFile, Moves(c, s, z), UNCHANGED offDisk
      PROVE  LedgerInv'
  <2> DEFINE y == [x EXCEPT !.at = z]
  <2>1. x.at = s /\ thread' = [thread EXCEPT ![c] = y]
    BY <1>4 DEF Moves, Goes
  <2>2. y.at = z /\ y.owner = x.owner /\ y.user = x.user
    BY <1>1 DEF Thread
  <2> HIDE DEF y
  <2> QED
    BY <1>2, <1>4, <2>1, <2>2
<1>5. ASSUME NEW s \in AtFile, Answered(c, s) \/ Fails(c, s), UNCHANGED offDisk
      PROVE  LedgerInv'
  <2>1. s \notin {"mining", "saving", "refused"}
    BY <1>5 DEF AtFile
  <2>2. /\ UNCHANGED <<ledger, up, acked, jobs>>
        /\ DOMAIN transfers' \subseteq DOMAIN transfers
        /\ \A t \in DOMAIN transfers' : transfers'[t] = transfers[t]
    BY <1>5 DEF offDisk
  <2> QED
    BY <1>5, <2>1, <2>2, LedgerEnds
<1>6. ASSUME NEW n \in Names, Star(c, n) \/ Delete(c, n) \/ Restore(c, n) \/ Purge(c, n)
      PROVE  LedgerInv'
  <2>1. \E s \in AtFile, a \in Requests : Looks(c, n, a, s)
    BY <1>6 DEF Star, Delete, Restore, Purge, AtFile, Requests
  <2> QED
    BY <1>3, <2>1
<1>7. ASSUME FileStep(c)
      PROVE  UNCHANGED offDisk
  BY <1>7 DEF FileStep, MoveToTrash, MoveBack, OpenSource, OpenStarred, OpenMoved, OpensTarget,
              CopyBytes, CopyTimes, Unlink, ClearStar, Unstar, PurgeFromTrash, Removes
<1>8. CASE OpenSource(c)
  <2> DEFINE i == From(c)[x.target]
             y == [x EXCEPT !.at = "targeting", !.src = i]
  <2>1. /\ x.at = "sourcing" /\ UNCHANGED offDisk
        /\ Fails(c, "sourcing") \/ Goes(c, "sourcing", y)
    BY <1>8 DEF OpenSource
  <2>2. CASE Fails(c, "sourcing")
    BY <1>5, <2>1, <2>2 DEF AtFile
  <2>3. CASE Goes(c, "sourcing", y)
    <3>1. thread' = [thread EXCEPT ![c] = y]
      BY <2>3 DEF Goes
    <3> HIDE DEF i
    <3>2. y.at = "targeting" /\ y.owner = x.owner /\ y.user = x.user
      BY <1>1 DEF Thread
    <3>3. "targeting" \in AtFile /\ x.at \in AtFile
      BY <2>1 DEF AtFile
    <3> HIDE DEF y
    <3> QED
      BY <1>2, <2>1, <3>1, <3>2, <3>3
  <2> QED
    BY <2>1, <2>2, <2>3
<1>9. CASE OpenStarred(c) \/ OpenMoved(c)
  <2>1. PICK i \in Inodes : Goes(c, "targeting", [x EXCEPT !.at = "copying", !.fd = i])
    BY <1>9 DEF OpenStarred, OpenMoved, OpensTarget
  <2> DEFINE y == [x EXCEPT !.at = "copying", !.fd = i]
  <2>2. x.at = "targeting" /\ thread' = [thread EXCEPT ![c] = y]
    BY <2>1 DEF Goes
  <2>3. y.at = "copying" /\ y.owner = x.owner /\ y.user = x.user
    BY <1>1 DEF Thread
  <2>4. "copying" \in AtFile /\ x.at \in AtFile
    BY <2>2 DEF AtFile
  <2>5. UNCHANGED offDisk
    BY <1>7, <1>9 DEF FileStep
  <2> HIDE DEF y
  <2> QED
    BY <1>2, <2>2, <2>3, <2>4, <2>5
<1>10. CASE CopyBytes(c)
  <2> DEFINE y == [x EXCEPT !.at = "stamping", !.src = NoOne, !.fd = NoOne]
  <2>1. x.at = "copying" /\ thread' = [thread EXCEPT ![c] = y] /\ UNCHANGED offDisk
    BY <1>10 DEF CopyBytes, Goes
  <2>2. y.at = "stamping" /\ y.owner = x.owner /\ y.user = x.user
    BY <1>1 DEF Thread
  <2>3. "stamping" \in AtFile /\ x.at \in AtFile
    BY <2>1 DEF AtFile
  <2> HIDE DEF y
  <2> QED
    BY <1>2, <2>1, <2>2, <2>3
<1>11. ASSUME \/ MoveToTrash(c) \/ MoveBack(c) \/ CopyTimes(c) \/ Unlink(c)
              \/ ClearStar(c) \/ Unstar(c) \/ PurgeFromTrash(c)
       PROVE  \E s \in AtFile : Answered(c, s) \/ Fails(c, s) \/ \E z \in AtFile : Moves(c, s, z)
  BY <1>11 DEF AtFile, MoveToTrash, MoveBack, CopyTimes, Unlink, ClearStar, Unstar,
               PurgeFromTrash, Removes
<1>12. ASSUME \/ MoveToTrash(c) \/ MoveBack(c) \/ CopyTimes(c) \/ Unlink(c)
              \/ ClearStar(c) \/ Unstar(c) \/ PurgeFromTrash(c)
       PROVE  LedgerInv'
  <2>1. UNCHANGED offDisk
    BY <1>7, <1>12 DEF FileStep
  <2> QED
    BY <1>4, <1>5, <1>11, <1>12, <2>1
<1> QED
  BY <1>6, <1>8, <1>9, <1>10, <1>12 DEF FileStep

(* A thread goes on with the owner and the user it has. *)
LEMMA OwnersStay ==
    ASSUME LedgerInv, NEW c \in Conns, NEW y,
           thread' = [thread EXCEPT ![c] = y],
           thread[c].at # "refused",
           y.owner = thread[c].owner, y.user = thread[c].user,
           y.at \in {"opened", "stored", "mining"} => Rightful(y.tx, jobs),
           UNCHANGED <<jobs, transfers>>
    PROVE  Owners'
<1>1. thread'[c] = y /\ \A d \in Conns : d # c => thread'[d] = thread[d]
  BY DEF LedgerInv, TypeInv, TypeOK
<1> QED
  BY <1>1 DEF LedgerInv, Owners

(* While the thread of c has the lock, no other mines or saves, and while  *)
(* none has it, none does.                                                 *)
LEMMA AloneWithLock ==
    ASSUME LedgerInv, NEW c \in Conns, lock \in {c, NoOne}
    PROVE  \A d \in Conns : d # c => thread[d].at \notin {"mining", "saving"}
BY NamesAssumption DEF LedgerInv, LockHeld

(* A thread takes the lock and puts its record in the pool, which is empty. *)
LEMMA LedgerStartsMining ==
    ASSUME LedgerInv, TypeInv', NEW c \in Conns, StartMining(c)
    PROVE  LedgerInv'
<1> DEFINE x == thread[c]
           pool == pending \cup {x.tx}
           b == [index |-> Len(chain), txs |-> pool]
           y == [x EXCEPT !.at = "mining", !.block = b]
<1>1. /\ x.at = "stored" /\ thread' = [thread EXCEPT ![c] = y]
      /\ lock = NoOne /\ lock' = c /\ pending' = pool
      /\ UNCHANGED <<chain, saved, up, acked, jobs, transfers>>
  BY DEF StartMining, Goes, Acquire, history
<1>2. x \in Thread
  BY DEF LedgerInv, TypeInv, TypeOK
<1>3. \A d \in Conns : d # c => thread[d].at \notin {"mining", "saving"}
  BY <1>1, AloneWithLock
<1>4. pool = {x.tx}
  BY <1>1, <1>3 DEF LedgerInv, MinesOne
<1>5. /\ y.at = "mining" /\ y.tid = x.tid /\ y.tx = x.tx /\ y.block = b
      /\ y.owner = x.owner /\ y.user = x.user
  <2> HIDE DEF b
  <2> QED
    BY <1>2 DEF Thread
<1>6. b = [index |-> Len(chain), txs |-> {x.tx}]
  BY <1>4
<1> HIDE DEF y, b, pool
<1>7. thread'[c] = y /\ \A d \in Conns : d # c => thread'[d] = thread[d]
  BY <1>1 DEF LedgerInv, TypeInv, TypeOK
<1>8. LockHeld'
  BY <1>1, <1>3, <1>5, <1>7, NamesAssumption DEF LockHeld
<1>9. MinesOne'
  BY <1>1, <1>3, <1>4, <1>5, <1>6, <1>7 DEF MinesOne
<1>10. UNCHANGED SavedChain
  BY <1>1 DEF SavedChain
<1>11. ChainSound' /\ FileSound' /\ AckedInChain'
  BY <1>1, <1>10 DEF LedgerInv, ChainSound, FileSound, AckedInChain
<1>12. StagesRecorded'
  <2>1. x.tid \notin Ids(chain)
    BY <1>1 DEF LedgerInv, StagesRecorded, Unrecorded
  <2> QED
    BY <1>1, <1>5, <1>7, <1>10, <2>1 DEF LedgerInv, StagesRecorded, Unrecorded, IsRecorded
<1>13. Owners'
  <2>1. Rightful(x.tx, jobs)
    BY <1>1 DEF LedgerInv, Owners
  <2> QED
    BY <1>1, <1>5, <2>1, OwnersStay
<1> QED
  BY <1>8, <1>9, <1>11, <1>12, <1>13 DEF LedgerInv

(* The block goes on the chain, and the lock is free. *)
LEMMA LedgerMined ==
    ASSUME LedgerInv, TypeInv', NEW c \in Conns, FinishMining(c)
    PROVE  LedgerInv'
<1> DEFINE x == thread[c]
           y == [x EXCEPT !.at = "mined"]
<1>1. /\ x.at = "mining" /\ thread' = [thread EXCEPT ![c] = y]
      /\ chain' = Append(chain, x.block) /\ pending' = {} /\ lock' = NoOne
      /\ UNCHANGED <<saved, up, acked, jobs, transfers>>
  BY DEF FinishMining, Mines, Moves, Goes, Release, history
<1>2. /\ x \in Thread /\ x.block \in Block /\ chain \in Seq(Block) /\ up
      /\ Fit(x, DOMAIN jobs, DOMAIN transfers) /\ x.at \in Busy
  BY <1>1, WorksUp DEF LedgerInv, TypeInv, TypeOK, Thread, Equipped, Busy
<1>3. lock = c
  BY <1>1 DEF LedgerInv, LockHeld
<1>4. \A d \in Conns : d # c => thread[d].at \notin {"mining", "saving"}
  BY <1>3, AloneWithLock
<1>5. /\ y.at = "mined" /\ y.tid = x.tid /\ y.owner = x.owner /\ y.user = x.user
  BY <1>2 DEF Thread
<1> HIDE DEF y
<1>6. thread'[c] = y /\ \A d \in Conns : d # c => thread'[d] = thread[d]
  BY <1>1 DEF LedgerInv, TypeInv, TypeOK
<1>7. /\ x.block.index = Len(chain) /\ x.block.txs = {x.tx}
      /\ x.tx.id = x.tid /\ x.tid \notin Ids(chain) /\ Rightful(x.tx, jobs)
  <2>1. x.block = [index |-> Len(chain), txs |-> {x.tx}]
    BY <1>1 DEF LedgerInv, MinesOne
  <2>2. x.tx.id = x.tid
    BY <1>1, <1>2 DEF Fit
  <2>3. x.tid \notin Ids(chain) /\ Rightful(x.tx, jobs)
    BY <1>1 DEF LedgerInv, StagesRecorded, Unrecorded, Owners
  <2> QED
    BY <2>1, <2>2, <2>3
<1>8. /\ Recorded(chain') = Recorded(chain) \cup {x.tx}
      /\ Ids(chain') = Ids(chain) \cup {x.tid}
      /\ Ids(<<x.block>>) = {x.tid}
  BY <1>1, <1>2, <1>7, RecordsOfLonger
<1>9. LockHeld' /\ MinesOne'
  <2>1. \A d \in Conns : thread'[d].at \notin {"mining", "saving"}
    BY <1>4, <1>5, <1>6
  <2> QED
    BY <1>1, <2>1, NamesAssumption DEF LockHeld, MinesOne
<1>10. ChainSound'
  <2>1. Sound(chain')
    BY <1>1, <1>2, <1>7, <1>8, SoundGrows DEF LedgerInv, ChainSound
  <2> QED
    BY <1>1, <1>7, <1>8, <2>1 DEF LedgerInv, ChainSound
<1>11. UNCHANGED SavedChain
  BY <1>1 DEF SavedChain
<1>12. FileSound'
  <2>1. saved # Torn => SavedChain \in Seq(Block)
    BY SoundBegins DEF SavedChain, LedgerInv, TypeInv, TypeOK
  <2>2. saved # Torn => IsPrefix(SavedChain, chain')
    BY <1>1, <1>2, <2>1, PrefixOfLonger DEF LedgerInv, FileSound
  <2> QED
    BY <1>1, <1>11, <2>2 DEF LedgerInv, FileSound
<1>13. AckedInChain'
  BY <1>1, <1>8 DEF LedgerInv, AckedInChain
<1>14. StagesRecorded'
  <2>1. \A d \in Conns : d # c /\ thread[d].at \in Busy => thread[d].tid # x.tid
    BY <1>2 DEF LedgerInv, TypeInv, OwnTransfers
  <2>2. Unrecorded \subseteq Busy
    BY DEF Unrecorded, Busy
  <2> QED
    BY <1>1, <1>4, <1>5, <1>6, <1>8, <1>11, <2>1, <2>2
    DEF LedgerInv, StagesRecorded, Unrecorded, IsRecorded
<1>15. Owners'
  BY <1>1, <1>5, OwnersStay
<1> QED
  BY <1>9, <1>10, <1>12, <1>13, <1>14, <1>15 DEF LedgerInv

(* The file is emptied; the thread keeps the chain to write in it. *)
LEMMA LedgerStartsSave ==
    ASSUME LedgerInv, TypeInv', NEW c \in Conns, StartSave(c)
    PROVE  LedgerInv'
<1> DEFINE x == thread[c]
           y == [x EXCEPT !.at = "saving", !.snap = chain]
<1>1. /\ x.at = "mined" /\ thread' = [thread EXCEPT ![c] = y]
      /\ lock = NoOne /\ lock' = c /\ saved' = Torn
      /\ UNCHANGED <<chain, pending, up, acked, jobs, transfers>>
  BY DEF StartSave, Goes, Acquire, history
<1>2. x \in Thread
  BY DEF LedgerInv, TypeInv, TypeOK
<1>3. \A d \in Conns : d # c => thread[d].at \notin {"mining", "saving"}
  BY <1>1, AloneWithLock
<1>4. /\ y.at = "saving" /\ y.tid = x.tid /\ y.snap = chain
      /\ y.owner = x.owner /\ y.user = x.user
  BY <1>2 DEF Thread
<1> HIDE DEF y
<1>5. thread'[c] = y /\ \A d \in Conns : d # c => thread'[d] = thread[d]
  BY <1>1 DEF LedgerInv, TypeInv, TypeOK
<1>6. LockHeld'
  BY <1>1, <1>3, <1>4, <1>5, NamesAssumption DEF LockHeld
<1>7. MinesOne'
  BY <1>1, <1>3, <1>4, <1>5 DEF LedgerInv, MinesOne
<1>8. ChainSound' /\ FileSound' /\ AckedInChain'
  BY <1>1 DEF LedgerInv, ChainSound, FileSound, AckedInChain
<1>9. StagesRecorded'
  <2>1. x.tid \in Ids(chain)
    BY <1>1 DEF LedgerInv, StagesRecorded, IsRecorded
  <2> QED
    BY <1>1, <1>3, <1>4, <1>5, <2>1 DEF LedgerInv, StagesRecorded, Unrecorded, IsRecorded
<1>10. Owners'
  BY <1>1, <1>4, OwnersStay
<1> QED
  BY <1>6, <1>7, <1>8, <1>9, <1>10 DEF LedgerInv

(* The file holds the ledger, which nobody could change in between. *)
LEMMA LedgerSaved ==
    ASSUME LedgerInv, TypeInv', NEW c \in Conns, FinishSave(c)
    PROVE  LedgerInv'
<1> DEFINE x == thread[c]
           y == [x EXCEPT !.at = "saved"]
<1>1. /\ x.at = "saving" /\ thread' = [thread EXCEPT ![c] = y]
      /\ lock' = NoOne /\ saved' = x.snap
      /\ UNCHANGED <<chain, pending, up, acked, jobs, transfers>>
  BY DEF FinishSave, Moves, Goes, Release, history
<1>2. x \in Thread /\ up /\ chain \in Seq(Block)
  BY <1>1, WorksUp DEF LedgerInv, TypeInv, TypeOK
<1>3. lock = c /\ x.snap = chain /\ x.tid \in Ids(chain)
  BY <1>1 DEF LedgerInv, LockHeld, StagesRecorded, IsRecorded
<1>4. \A d \in Conns : d # c => thread[d].at \notin {"mining", "saving"}
  BY <1>3, AloneWithLock
<1>5. y.at = "saved" /\ y.tid = x.tid /\ y.owner = x.owner /\ y.user = x.user
  BY <1>2 DEF Thread
<1> HIDE DEF y
<1>6. thread'[c] = y /\ \A d \in Conns : d # c => thread'[d] = thread[d]
  BY <1>1 DEF LedgerInv, TypeInv, TypeOK
<1>7. saved' = chain /\ SavedChain' = chain
  BY <1>1, <1>2, <1>3, TornAssumption DEF SavedChain
<1>8. LockHeld' /\ MinesOne'
  <2>1. \A d \in Conns : thread'[d].at \notin {"mining", "saving"}
    BY <1>4, <1>5, <1>6
  <2>2. pending = {}
    BY <1>1, <1>4 DEF LedgerInv, MinesOne
  <2> QED
    BY <1>1, <2>1, <2>2, NamesAssumption DEF LockHeld, MinesOne
<1>9. ChainSound' /\ AckedInChain'
  BY <1>1 DEF LedgerInv, ChainSound, AckedInChain
<1>10. FileSound'
  BY <1>1, <1>2, <1>7, PrefixOfItself DEF LedgerInv, ChainSound, FileSound, AckedInChain
<1>11. StagesRecorded'
  BY <1>1, <1>3, <1>4, <1>5, <1>6, <1>7 DEF LedgerInv, StagesRecorded, Unrecorded, IsRecorded
<1>12. Owners'
  BY <1>1, <1>5, OwnersStay
<1> QED
  BY <1>8, <1>9, <1>10, <1>11, <1>12 DEF LedgerInv

(* An answer goes to a client whose upload is in the file. *)
LEMMA LedgerAnswers ==
    ASSUME LedgerInv, TypeInv', NEW c \in Conns, Acknowledge(c)
    PROVE  LedgerInv'
<1> DEFINE x == thread[c]
<1>1. /\ x.at = "saved" /\ acked' = acked \cup {x.tid}
      /\ UNCHANGED <<ledger, up, jobs, transfers>>
  BY DEF Acknowledge, Answered, Goes
<1>2. PICK y \in Thread : /\ thread' = [thread EXCEPT ![c] = y]
                          /\ y.at \in {"closed", "ready"}
                          /\ y.owner = y.user
  BY EndsOwned DEF Acknowledge
<1>3. thread'[c] = y /\ \A d \in Conns : d # c => thread'[d] = thread[d]
  BY <1>2 DEF LedgerInv, TypeInv, TypeOK
<1>4. UNCHANGED <<chain, pending, lock, saved>> /\ UNCHANGED SavedChain
  BY <1>1 DEF ledger, SavedChain
<1>5. LockHeld' /\ MinesOne' /\ ChainSound'
  BY <1>1, <1>2, <1>3, <1>4 DEF LedgerInv, LockHeld, MinesOne, ChainSound
<1>6. /\ x.tid \in Ids(chain)
      /\ saved # Torn => x.tid \in Ids(SavedChain)
  BY <1>1 DEF LedgerInv, StagesRecorded, IsRecorded
<1>7. FileSound' /\ AckedInChain'
  BY <1>1, <1>4, <1>6 DEF LedgerInv, FileSound, AckedInChain
<1>8. StagesRecorded'
  BY <1>2, <1>3, <1>4 DEF LedgerInv, StagesRecorded, Unrecorded, IsRecorded
<1>9. Owners'
  BY <1>1, <1>2, <1>3 DEF LedgerInv, Owners
<1> QED
  BY <1>5, <1>7, <1>8, <1>9 DEF LedgerInv

(* A crash leaves the file, and the next start takes the ledger from it. *)
LEMMA LedgerCrash ==
    ASSUME LedgerInv, TypeInv', Crash \/ Start
    PROVE  LedgerInv'
<1>1. CASE Crash
  <2>1. /\ thread' = [c \in Conns |-> Closed]
        /\ chain' = <<Genesis>> /\ pending' = {} /\ lock' = NoOne /\ up' = FALSE
        /\ DOMAIN transfers' = {}
        /\ UNCHANGED <<saved, acked, jobs>>
    BY <1>1 DEF Crash, history
  <2>2. \A c \in Conns : thread'[c] = Closed /\ c # NoOne
    BY <2>1, NamesAssumption
  <2>3. Closed.at = "closed" /\ Closed.owner = Closed.user
    BY QuietThreads DEF Closed, Idle
  <2>4. LockHeld' /\ MinesOne' /\ AckedInChain' /\ Owners'
    BY <2>1, <2>2, <2>3 DEF LockHeld, MinesOne, AckedInChain, Owners
  <2>5. ChainSound' /\ StagesRecorded'
    BY <2>1, <2>2, <2>3, SoundBegins DEF ChainSound, StagesRecorded, Unrecorded, IsRecorded
  <2>6. UNCHANGED SavedChain
    BY <2>1 DEF SavedChain
  <2>7. FileSound'
    BY <2>1, <2>6 DEF LedgerInv, FileSound
  <2> QED
    BY <2>4, <2>5, <2>7 DEF LedgerInv
<1>2. CASE Start
  <2>1. /\ ~ up /\ saved # Torn /\ up' = TRUE /\ chain' = SavedChain
        /\ UNCHANGED <<transfers, pending, lock, saved, thread, acked, jobs>>
    BY <1>2 DEF Start, Starts, history
  <2>2. \A c \in Conns : thread[c] = Closed
    BY <2>1 DEF LedgerInv, TypeInv, Down
  <2>3. Closed.at = "closed"
    BY QuietThreads
  <2>4. UNCHANGED SavedChain
    BY <2>1 DEF SavedChain
  <2>5. SavedChain \in Seq(Block)
    BY <2>1, SoundBegins DEF SavedChain, LedgerInv, TypeInv, TypeOK
  <2>6. LockHeld' /\ MinesOne' /\ Owners'
    BY <2>1, <2>2, <2>3 DEF LedgerInv, LockHeld, MinesOne, Owners
  <2>7. ChainSound' /\ FileSound' /\ AckedInChain'
    BY <2>1, <2>4, <2>5, PrefixOfItself
    DEF LedgerInv, ChainSound, FileSound, AckedInChain
  <2>8. StagesRecorded'
    BY <2>1, <2>2, <2>3 DEF StagesRecorded, Unrecorded, IsRecorded
  <2> QED
    BY <2>6, <2>7, <2>8 DEF LedgerInv
<1> QED
  BY <1>1, <1>2

(* Every step keeps the parts of the invariant; each action disturbs a few. *)
LEMMA LedgerNext == LedgerInv /\ [Next]_vars => LedgerInv'
<1> SUFFICES ASSUME LedgerInv, [Next]_vars PROVE LedgerInv'
  OBVIOUS
<1>1. TypeInv'
  BY TypeNext DEF LedgerInv
<1>2. CASE UNCHANGED vars
  <2>1. /\ UNCHANGED <<transfers, chain, pending, lock, saved, up, thread, jobs, acked>>
    BY <1>2 DEF vars, ledger, history
  <2>2. UNCHANGED SavedChain
    BY <2>1 DEF SavedChain
  <2>3. LockHeld' /\ MinesOne' /\ ChainSound' /\ FileSound'
    BY <2>1, <2>2 DEF LedgerInv, LockHeld, MinesOne, ChainSound, FileSound
  <2>4. StagesRecorded' /\ AckedInChain' /\ Owners'
    BY <2>1, <2>2 DEF LedgerInv, StagesRecorded, AckedInChain, Owners
  <2> QED
    BY <1>1, <2>3, <2>4 DEF LedgerInv
<1>3. ASSUME NEW c \in Conns, SendChunk(c) \/ FinishUpload(c)
      PROVE  LedgerInv'
  BY <1>1, <1>3, LedgerTransfers, LedgerStartsMining, LedgerMined, LedgerStartsSave,
     LedgerSaved, LedgerAnswers DEF FinishUpload
<1>4. ASSUME NEW c \in Conns, Disconnect(c) \/ Refused(c)
      PROVE  LedgerInv'
  <2>1. /\ \E s \in {"ready", "sending", "saved", "refused"} : Fails(c, s)
        /\ UNCHANGED <<ledger, up, acked, jobs, transfers>>
    BY <1>4 DEF Disconnect, Refused, HangsUp, history
  <2> QED
    BY <1>1, <2>1, LedgerEnds
<1>5. ASSUME NEW c \in Conns,
             \/ \E n \in Names : Star(c, n) \/ Delete(c, n) \/ Restore(c, n) \/ Purge(c, n)
             \/ FileStep(c)
      PROVE  LedgerInv'
  BY <1>1, <1>5, LedgerFiles
<1>6. ASSUME NEW c \in Conns, NEW u \in Users,
             SignUp(c, u) \/ SignUpRefused(c, u) \/ LogIn(c, u) \/ LogInRefused(c, u)
      PROVE  LedgerInv'
  BY <1>1, <1>6, LedgerSessions
<1>7. ASSUME NEW c \in Conns, NEW n \in Names, NEW d \in Data, BeginUpload(c, n, d)
      PROVE  LedgerInv'
  BY <1>1, <1>7, LedgerBegins
<1> QED
  BY <1>1, <1>2, <1>3, <1>4, <1>5, <1>6, <1>7, LedgerCrash DEF Next

(* While a thread mines or saves it holds chain_lock, its record alone is   *)
(* pending, and the file it writes is the chain of now; the other parts of  *)
(* LedgerInv say what each stage has recorded.                              *)
THEOREM LedgerCorrect == Spec => []LedgerInv
BY LedgerInit, LedgerNext, PTL DEF Spec

-----------------------------------------------------------------------------
(* What follows. *)

(* The ledger records no upload twice, however many threads finish uploads  *)
(* at one time and however often the server crashes, and its blocks are     *)
(* numbered as they stand.                                                  *)
THEOREM RecordsOnce == Spec => []RecordedOnce
<1>1. LedgerInv => RecordedOnce
  BY DEF LedgerInv, ChainSound, Sound, RecordedOnce
<1> QED
  BY <1>1, LedgerCorrect, PTL

(* The chain file is an earlier ledger, and a save writes the present one. *)
THEOREM SavesThePast == Spec => []SavedIsPast
<1>1. LedgerInv => SavedIsPast
  BY DEF LedgerInv, FileSound, StagesRecorded, SavedIsPast
<1> QED
  BY <1>1, LedgerCorrect, PTL

(* What was answered with DONE~OK is in the chain file, unless it is torn. *)
THEOREM AnswersAreSaved == Spec => []AckedIsSaved
<1>1. LedgerInv => AckedIsSaved
  BY DEF LedgerInv, FileSound, AckedIsSaved
<1> QED
  BY <1>1, LedgerCorrect, PTL

(* A record names the account that the client of the upload was logged in   *)
(* to: an owner that was set by a refused login never gets into one.        *)
THEOREM RecordsAreOwned == Spec => []OwnersAreRight
<1>1. ASSUME LedgerInv, NEW t \in Recorded(chain) \cup pending
      PROVE  t.owner = jobs[t.id].user
  <2>1. CASE t \in Recorded(chain)
    BY <1>1, <2>1 DEF LedgerInv, ChainSound, Rightful
  <2>2. CASE t \in pending
    <3>1. PICK c \in Conns : thread[c].at = "mining"
      BY <1>1, <2>2 DEF LedgerInv, MinesOne
    <3>2. t = thread[c].tx
      BY <1>1, <2>2, <3>1 DEF LedgerInv, MinesOne
    <3> QED
      BY <1>1, <3>1, <3>2 DEF LedgerInv, Owners, Rightful
  <2> QED
    BY <1>1, <2>1, <2>2
<1>2. LedgerInv => OwnersAreRight
  BY <1>1 DEF OwnersAreRight
<1> QED
  BY <1>2, LedgerCorrect, PTL

-----------------------------------------------------------------------------
(* The refinement. *)

(* The batches of a chain, and what is in them. *)
LEMMA BatchFacts ==
    ASSUME NEW l \in Seq(Block)
    PROVE  /\ Batches(l) \in Seq(SUBSET Ids(l))
           /\ DOMAIN Batches(l) = DOMAIN l /\ Len(Batches(l)) = Len(l)
           /\ \A i \in DOMAIN l : Batches(l)[i] = Ids(<<l[i]>>)
           /\ Receipts!In(Batches(l)) = Ids(l)
<1> DEFINE b == Batches(l)
<1>1. DOMAIN l = 1..Len(l) /\ Len(l) \in Nat
  BY LenProperties
<1>2. \A i \in DOMAIN l : Ids(<<l[i]>>) \subseteq Ids(l)
  BY IdsOfBlocks
<1>3. DOMAIN b = DOMAIN l /\ \A i \in DOMAIN l : b[i] = Ids(<<l[i]>>)
  BY DEF Batches
<1>4. b \in [1..Len(l) -> SUBSET Ids(l)]
  BY <1>1, <1>2 DEF Batches
<1>5. b \in Seq(SUBSET Ids(l)) /\ Len(b) = Len(l)
  BY <1>1, <1>4, FunctionIsSeq
<1> HIDE DEF b
<1>6. Receipts!In(b) = Ids(l)
  <2>1. \A k : k \in Receipts!In(b) <=> \E i \in DOMAIN b : k \in b[i]
    BY DEF Receipts!In
  <2>2. \A k : k \in Ids(l) <=> \E i \in DOMAIN l : k \in Ids(<<l[i]>>)
    BY IdsOfBlocks
  <2>3. \A k : k \in Receipts!In(b) <=> k \in Ids(l)
    BY <1>3, <2>1, <2>2
  <2> QED
    BY <2>3
<1> QED
  BY <1>3, <1>5, <1>6 DEF b

(* A new block is a new batch. *)
LEMMA BatchesGrow ==
    ASSUME NEW l \in Seq(Block), NEW e \in Block
    PROVE  Batches(Append(l, e)) = Append(Batches(l), Ids(<<e>>))
<1> DEFINE m == Append(l, e)
           S == Ids(m)
           new == Append(Batches(l), Ids(<<e>>))
<1>1. /\ m \in Seq(Block) /\ DOMAIN l = 1..Len(l) /\ Len(l) \in Nat
      /\ DOMAIN m = 1..(Len(l) + 1) /\ Len(m) = Len(l) + 1
      /\ \A i \in 1..Len(l) : m[i] = l[i]
      /\ m[Len(l) + 1] = e
  BY AppendFacts
<1>2. Ids(l) \subseteq S /\ Ids(<<e>>) \subseteq S
  BY RecordsOfLonger
<1>3. /\ Batches(m) \in Seq(SUBSET S) /\ Len(Batches(m)) = Len(l) + 1
      /\ \A i \in 1..(Len(l) + 1) : Batches(m)[i] = Ids(<<m[i]>>)
  BY <1>1, BatchFacts
<1>4. /\ Batches(l) \in Seq(SUBSET S) /\ Len(Batches(l)) = Len(l)
      /\ \A i \in 1..Len(l) : Batches(l)[i] = Ids(<<l[i]>>)
  <2>1. Batches(l) \in Seq(SUBSET Ids(l))
    BY BatchFacts
  <2>2. \A i \in DOMAIN Batches(l) : Batches(l)[i] \in SUBSET S
    BY <1>2, <2>1, ElementOfSeq, LenProperties
  <2>3. Batches(l) \in Seq(SUBSET S)
    BY <2>1, <2>2, SeqOver
  <2> QED
    BY <1>1, <2>3, BatchFacts
<1>5. /\ new \in Seq(SUBSET S) /\ Len(new) = Len(l) + 1
      /\ \A i \in 1..Len(l) : new[i] = Batches(l)[i]
      /\ new[Len(l) + 1] = Ids(<<e>>)
  BY <1>2, <1>4, AppendFacts
<1> HIDE DEF m, new, S
<1>6. \A i \in 1..(Len(l) + 1) : Batches(m)[i] = new[i]
  <2>1. \A i \in 1..(Len(l) + 1) : i \in 1..Len(l) \/ i = Len(l) + 1
    BY <1>1
  <2> QED
    BY <1>1, <1>3, <1>4, <1>5, <2>1
<1>7. Batches(m) = new
  BY <1>3, <1>5, <1>6, SeqEqual
<1> QED
  BY <1>7 DEF m, new

(* A server that starts for the first time has an empty receipt ledger. *)
LEMMA GenesisIsBlank == Batches(<<Genesis>>) = Receipts!Blank
<1> DEFINE b == Batches(<<Genesis>>)
<1>1. /\ <<Genesis>> \in Seq(Block) /\ Ids(<<Genesis>>) = {}
      /\ Len(<<Genesis>>) = 1 /\ <<Genesis>>[1] = Genesis
  BY SoundBegins
<1>2. b \in Seq(SUBSET {}) /\ Len(b) = 1
  BY <1>1, BatchFacts
<1>3. b[1] = {}
  BY <1>2, ElementOfSeq
<1> HIDE DEF b
<1>4. <<{}>> \in Seq(SUBSET {}) /\ Len(<<{}>>) = 1 /\ <<{}>>[1] = {}
  OBVIOUS
<1>5. b = <<{}>>
  BY <1>2, <1>3, <1>4, SeqEqual
<1> QED
  BY <1>5 DEF b, Receipts!Blank

(* What changes neither ledger nor file nor answers is no step of the       *)
(* receipt ledger.                                                          *)
LEMMA NoReceipt ==
    ASSUME UNCHANGED <<chain, saved, acked, up>>
    PROVE  UNCHANGED Receipts!vars
BY DEF Receipts!vars, SavedChain

(* A step of the server is one of the receipt ledger, or none. *)
LEMMA ReceiptsNext == LedgerInv /\ [Next]_vars => [Receipts!Next]_(Receipts!vars)
<1> SUFFICES ASSUME LedgerInv, [Next]_vars
             PROVE  Receipts!Next \/ UNCHANGED Receipts!vars
  OBVIOUS
<1> DEFINE durable == IF saved = Torn THEN <<>> ELSE Batches(SavedChain)
<1>1. chain \in Seq(Block) /\ (saved # Torn => SavedChain \in Seq(Block))
  BY SoundBegins DEF LedgerInv, TypeInv, TypeOK, SavedChain
<1>2. ASSUME NEW c \in Conns, FinishMining(c)
      PROVE  Receipts!Record
  <2> DEFINE x == thread[c]
             batch == Ids(<<x.block>>)
  <2>1. /\ x.at = "mining" /\ chain' = Append(chain, x.block)
        /\ UNCHANGED <<saved, up, acked>>
    BY <1>2 DEF FinishMining, Mines, Moves, Goes, history
  <2>2. /\ x.block \in Block /\ up /\ Fit(x, DOMAIN jobs, DOMAIN transfers)
    BY <2>1, WorksUp DEF LedgerInv, TypeInv, TypeOK, Thread, Equipped
  <2>3. x.block = [index |-> Len(chain), txs |-> {x.tx}]
    BY <2>1 DEF LedgerInv, MinesOne
  <2>4. x.tx.id = x.tid /\ x.tid \notin Ids(chain)
    BY <2>1, <2>2 DEF Fit, LedgerInv, StagesRecorded, Unrecorded
  <2>5. batch = {x.tid}
    <3>1. batch = {t.id : t \in x.block.txs}
      BY <1>1, <2>2, RecordsOfLonger
    <3>2. x.block.txs = {x.tx}
      BY <2>3
    <3> QED
      BY <2>4, <3>1, <3>2
  <2>6. Batches(chain)' = Append(Batches(chain), batch)
    BY <1>1, <2>1, <2>2, BatchesGrow
  <2>7. Batches(chain)'[Len(Batches(chain)')] = batch
    <3>1. Batches(chain) \in Seq(SUBSET Ids(chain))
      BY <1>1, BatchFacts
    <3>2. Batches(chain) \in Seq(SUBSET (Ids(chain) \cup batch))
      <4>1. \A i \in DOMAIN Batches(chain) :
               Batches(chain)[i] \in SUBSET (Ids(chain) \cup batch)
        BY <3>1, ElementOfSeq, LenProperties
      <4> QED
        BY <3>1, <4>1, SeqOver
    <3> HIDE DEF batch
    <3> QED
      BY <2>6, <3>2, AppendFacts
  <2>8. Receipts!In(Batches(chain)) = Ids(chain)
    BY <1>1, BatchFacts
  <2>9. batch # {} /\ batch \cap Receipts!In(Batches(chain)) = {}
    BY <2>4, <2>5, <2>8
  <2>10. UNCHANGED durable
    BY <2>1 DEF SavedChain
  <2> HIDE DEF batch
  <2> QED
    BY <2>1, <2>2, <2>6, <2>7, <2>9, <2>10 DEF Receipts!Record
<1>3. ASSUME NEW c \in Conns, StartSave(c)
      PROVE  Receipts!BeginSave
  <2>1. thread[c].at = "mined" /\ saved' = Torn /\ UNCHANGED <<chain, up, acked>>
    BY <1>3 DEF StartSave, Goes, history
  <2>2. up
    BY <2>1, WorksUp DEF LedgerInv
  <2> QED
    BY <2>1, <2>2 DEF Receipts!BeginSave
<1>4. ASSUME NEW c \in Conns, FinishSave(c)
      PROVE  Receipts!EndSave
  <2>1. /\ thread[c].at = "saving" /\ saved' = thread[c].snap
        /\ UNCHANGED <<chain, up, acked>>
    BY <1>4 DEF FinishSave, Moves, Goes, history
  <2>2. up /\ saved = Torn /\ saved' = chain
    BY <2>1, WorksUp DEF LedgerInv, StagesRecorded
  <2>3. saved' # Torn /\ SavedChain' = chain
    BY <1>1, <2>2, TornAssumption DEF SavedChain
  <2> QED
    BY <2>1, <2>2, <2>3 DEF Receipts!EndSave
<1>5. ASSUME NEW c \in Conns, Acknowledge(c)
      PROVE  Receipts!Answer
  <2>1. /\ thread[c].at = "saved" /\ acked' = acked \cup {thread[c].tid}
        /\ UNCHANGED <<chain, saved, up>>
    BY <1>5 DEF Acknowledge, Answered, Goes, ledger
  <2>2. up
    BY <2>1, WorksUp DEF LedgerInv
  <2>3. /\ thread[c].tid \in Ids(chain)
        /\ saved # Torn => thread[c].tid \in Ids(SavedChain)
    BY <2>1 DEF LedgerInv, StagesRecorded, IsRecorded
  <2>4. thread[c].tid \in Receipts!In(Batches(chain))
    BY <1>1, <2>3, BatchFacts
  <2>5. saved # Torn => thread[c].tid \in Receipts!In(Batches(SavedChain))
    BY <1>1, <2>3, BatchFacts
  <2>6. UNCHANGED durable
    BY <2>1 DEF SavedChain
  <2> QED
    BY <2>1, <2>2, <2>4, <2>5, <2>6 DEF Receipts!Answer
<1>6. CASE Crash
  <2>1. up /\ up' = FALSE /\ chain' = <<Genesis>> /\ UNCHANGED <<saved, acked>>
    BY <1>6 DEF Crash, history
  <2>2. UNCHANGED durable
    BY <2>1 DEF SavedChain
  <2>3. Batches(chain)' = Receipts!Blank
    BY <2>1, GenesisIsBlank
  <2> QED
    BY <2>1, <2>2, <2>3 DEF Receipts!Crash, Receipts!Next
<1>7. CASE Start
  <2>1. ~ up /\ saved # Torn /\ up' = TRUE /\ chain' = SavedChain
        /\ UNCHANGED <<saved, acked>>
    BY <1>7 DEF Start, Starts, history
  <2>2. UNCHANGED durable
    BY <2>1 DEF SavedChain
  <2>3. Batches(SavedChain) # <<>>
    <3>1. Len(SavedChain) > 0
      BY <2>1 DEF LedgerInv, FileSound, Sound
    <3>2. Len(Batches(SavedChain)) = Len(SavedChain)
      BY <1>1, <2>1, BatchFacts
    <3>3. Len(<<>>) = 0
      OBVIOUS
    <3> QED
      BY <3>1, <3>2, <3>3
  <2> QED
    BY <2>1, <2>2, <2>3 DEF Receipts!Recover, Receipts!Next
<1>8. ASSUME NEW c \in Conns,
             \/ SendChunk(c) \/ OpenUpload(c) \/ RefuseUpload(c) \/ WriteFile(c)
             \/ StartMining(c) \/ Disconnect(c) \/ Refused(c)
      PROVE  UNCHANGED <<chain, saved, acked, up>>
  BY <1>8 DEF SendChunk, OpenUpload, RefuseUpload, WriteFile, StartMining, Disconnect,
              Refused, ledger, history
<1>9. ASSUME NEW c \in Conns, FileStep(c)
      PROVE  UNCHANGED <<chain, saved, acked, up>>
  BY <1>9 DEF FileStep, MoveToTrash, MoveBack, OpenSource, OpenStarred, OpenMoved, OpensTarget,
              CopyBytes, CopyTimes, Unlink, ClearStar, Unstar, PurgeFromTrash, Removes,
              offDisk, ledger
<1>10. ASSUME NEW c \in Conns, NEW n \in Names,
              \/ Star(c, n) \/ Delete(c, n) \/ Restore(c, n) \/ Purge(c, n)
              \/ \E d \in Data : BeginUpload(c, n, d)
       PROVE  UNCHANGED <<chain, saved, acked, up>>
  BY <1>10 DEF Star, Delete, Restore, Purge, Looks, BeginUpload, offDisk, ledger
<1>11. ASSUME NEW c \in Conns, NEW u \in Users,
              SignUp(c, u) \/ SignUpRefused(c, u) \/ LogIn(c, u) \/ LogInRefused(c, u)
       PROVE  UNCHANGED <<chain, saved, acked, up>>
  BY <1>11 DEF SignUp, SignUpRefused, LogIn, LogInRefused, Enters, ledger, history
<1>12. CASE UNCHANGED vars
  BY <1>12, NoReceipt DEF vars, ledger, history
<1>13. CASE \E c \in Conns : FinishUpload(c)
  <2>1. PICK c \in Conns : FinishUpload(c)
    BY <1>13
  <2> QED
    BY <1>2, <1>3, <1>4, <1>5, <1>8, <2>1, NoReceipt DEF FinishUpload, Receipts!Next
<1> QED
  BY <1>6, <1>7, <1>8, <1>9, <1>10, <1>11, <1>12, <1>13, NoReceipt DEF Next

(* The server implements the receipt ledger: it records each upload once,   *)
(* and what it has answered is there after every crash that does not cut a  *)
(* save short.                                                              *)
THEOREM ServerImplementsReceipts == Spec => ImplementsReceipts
<1>1. Init => Receipts!Init
  <2> SUFFICES ASSUME Init PROVE Receipts!Init
    OBVIOUS
  <2>1. chain = <<Genesis>> /\ saved = NoOne /\ acked = {} /\ up = TRUE
    BY DEF Init
  <2>2. saved # Torn /\ SavedChain = <<Genesis>>
    BY <2>1, TornAssumption DEF SavedChain
  <2> QED
    BY <2>1, <2>2, GenesisIsBlank DEF Receipts!Init
<1> QED
  BY <1>1, ReceiptsNext, LedgerCorrect, PTL DEF Spec, ImplementsReceipts, Receipts!Spec
=============================================================================
