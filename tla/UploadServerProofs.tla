------------------------- MODULE UploadServerProofs -------------------------
(***************************************************************************)
(* Proofs about UploadServer, for any clients, names, files and bounds.    *)
(***************************************************************************)
EXTENDS UploadServer, SequenceTheorems, TLAPS

-----------------------------------------------------------------------------
(* Sequences. *)

(* A function on 1..n is a sequence of length n. *)
LEMMA FunctionIsSeq ==
    ASSUME NEW S, NEW n \in Nat, NEW f \in [1..n -> S]
    PROVE  f \in Seq(S) /\ Len(f) = n
<1>1. f \in Seq(S)
  BY SeqDef
<1>2. Len(f) \in Nat /\ 1..Len(f) = 1..n
  BY <1>1, LenProperties
<1> QED
  BY <1>1, <1>2

(* A sequence whose elements are all in S is one over S. *)
LEMMA SeqOver ==
    ASSUME NEW T, NEW S, NEW s \in Seq(T), \A i \in DOMAIN s : s[i] \in S
    PROVE  s \in Seq(S)
<1>1. DOMAIN s = 1..Len(s) /\ Len(s) \in Nat /\ s \in [1..Len(s) -> T]
  BY LenProperties
<1>2. s \in [1..Len(s) -> S]
  BY <1>1
<1> QED
  BY <1>1, <1>2, FunctionIsSeq

(* What Append gives. *)
LEMMA AppendFacts ==
    ASSUME NEW S, NEW s \in Seq(S), NEW x \in S
    PROVE  /\ Append(s, x) \in Seq(S)
           /\ Len(s) \in Nat
           /\ Len(Append(s, x)) = Len(s) + 1
           /\ DOMAIN s = 1..Len(s)
           /\ DOMAIN Append(s, x) = 1..(Len(s) + 1)
           /\ \A i \in 1..Len(s) : Append(s, x)[i] = s[i]
           /\ Append(s, x)[Len(s) + 1] = x
<1>1. Len(s) \in Nat /\ DOMAIN s = 1..Len(s)
  BY LenProperties
<1>2. /\ Append(s, x) \in Seq(S)
      /\ Len(Append(s, x)) = Len(s) + 1
      /\ \A i \in 1..Len(s) : Append(s, x)[i] = s[i]
      /\ Append(s, x)[Len(s) + 1] = x
  BY <1>1, AppendProperties
<1>3. DOMAIN Append(s, x) = 1..(Len(s) + 1)
  BY <1>2, LenProperties
<1> QED
  BY <1>1, <1>2, <1>3

(* Writing over the start of a file leaves bytes. *)
LEMMA OverwriteType ==
    ASSUME NEW S, NEW d \in Seq(S), NEW old \in Seq(S)
    PROVE  Overwrite(d, old) \in Seq(S)
<1>1. Len(d) \in Nat /\ Len(old) \in Nat /\ \A i \in 1..Len(old) : old[i] \in S
  BY LenProperties, ElementOfSeq
<1>2. \A i \in (Len(d) + 1)..Len(old) : old[i] \in S
  BY <1>1
<1>3. SubSeq(old, Len(d) + 1, Len(old)) \in Seq(S)
  BY <1>1, <1>2, SubSeqProperties
<1> QED
  BY <1>3, ConcatProperties DEF Overwrite

-----------------------------------------------------------------------------
(* Types. *)

(* A thread in one of these stages has a transfer of its own. *)
Busy == {"sending", "opened", "stored", "mining", "mined", "saving", "saved"}

(* A thread in one of these works on a file that its client named. *)
AtFile == {"unstarring", "clearing", "purging", "moving", "sourcing", "targeting", "copying",
           "stamping", "unlinking"}

(* Of these, the stages in which it has files open. *)
Copying == {"targeting", "copying"}

(* Thread x has what its stage needs, if J are the uploads begun, and T    *)
(* those in active_transfers.                                              *)
Fit(x, J, T) ==
    /\ x \in Thread
    /\ x.at \in Busy => x.tid \in J
    /\ x.at = "sending" => x.tid \in T
    /\ x.at \in {"opened", "copying"} => x.fd \in Inodes
    /\ x.at \in Copying => x.src \in Inodes
    /\ x.at \in {"opened", "stored", "mining"} => x.tx \in Tx /\ x.tx.id = x.tid
    /\ x.at \in AtFile => x.target \in Names

Equipped == \A c \in Conns : Fit(thread[c], DOMAIN jobs, DOMAIN transfers)

(* No two threads have one transfer. *)
OwnTransfers ==
    \A c, d \in Conns : /\ c # d
                        /\ thread[c].at \in Busy /\ thread[d].at \in Busy
                        => thread[c].tid # thread[d].tid

(* A transfer has a place for each chunk of its file. *)
RightLength ==
    \A t \in DOMAIN transfers : Len(transfers[t].chunks) = Len(jobs[t].data)

Down == /\ thread = [c \in Conns |-> Closed]
        /\ chain = <<Genesis>>
        /\ pending = {}
        /\ lock = NoOne

TypeInv ==
    /\ TypeOK
    /\ Equipped
    /\ OwnTransfers
    /\ RightLength
    /\ ~ up => Down

Job == [name : Names, data : Data, user : Users \cup {NoOne}]

(* The states in which a thread has no request under way. *)
LEMMA QuietThreads ==
    /\ Idle \in Thread /\ Idle.at = "ready"
    /\ Closed \in Thread /\ Closed.at = "closed"
    /\ \A u, v \in Users \cup {NoOne}, s \in Stages :
          /\ [Idle EXCEPT !.at = s, !.owner = u, !.user = v] \in Thread
          /\ [Idle EXCEPT !.at = s, !.owner = u, !.user = v].at = s
<1>1. Genesis \in Block /\ <<>> \in Seq(Block)
  BY DEF Genesis, Block
<1>2. {"ready", "closed"} \subseteq Stages
  BY DEF Stages
<1>3. NoOne \in Users \cup {NoOne} /\ NoOne \in Names \cup {NoOne} /\ 0 \in {0} \cup Tid
      /\ 0 \in Nat /\ NoOne \in Inodes \cup {NoOne} /\ NoOne \in Tx \cup {NoOne}
      /\ NoOne \in Requests \cup {NoOne}
  OBVIOUS
<1>4. Idle \in Thread /\ Idle.at = "ready"
  BY <1>1, <1>2, <1>3 DEF Idle, Thread
<1>5. Closed \in Thread /\ Closed.at = "closed"
  BY <1>2, <1>4 DEF Closed, Thread
<1>6. ASSUME NEW u \in Users \cup {NoOne}, NEW v \in Users \cup {NoOne}, NEW s \in Stages
      PROVE  /\ [Idle EXCEPT !.at = s, !.owner = u, !.user = v] \in Thread
             /\ [Idle EXCEPT !.at = s, !.owner = u, !.user = v].at = s
  BY <1>4 DEF Thread
<1> QED
  BY <1>4, <1>5, <1>6

(* A quiet thread needs nothing. *)
LEMMA QuietFit ==
    ASSUME NEW x \in Thread, x.at \in {"closed", "refused", "ready"}, NEW J, NEW T
    PROVE  Fit(x, J, T)
BY DEF Fit, Busy, AtFile, Copying

(* At first nothing is uploaded and no client is connected. *)
LEMMA TypeInit == Init => TypeInv
<1> SUFFICES ASSUME Init PROVE TypeInv
  OBVIOUS
<1> USE DEF Init
<1>1. \A c \in Conns : thread[c] \in Thread /\ thread[c].at = "closed"
  BY QuietThreads
<1>2. thread \in [Conns -> Thread]
  BY <1>1
<1>3. chain \in Seq(Block) /\ jobs \in Seq(Job)
  <2>1. Genesis \in Block
    BY DEF Genesis, Block
  <2> QED
    BY <2>1
<1>4. DOMAIN transfers = {}
  OBVIOUS
<1>5. content \in [Inodes -> Seq(Chunks)]
  BY EmptySeq
<1>6. uploads \in Directory /\ trash \in Directory /\ starred \in Directory
  BY DEF Directory
<1>7. accounts \subseteq Users /\ actions \in 0..MaxActions /\ crashes \in 0..MaxCrashes
  BY NamesAssumption, LimitsAssumption
<1>8. TypeOK
  BY <1>2, <1>3, <1>4, <1>5, <1>6, <1>7 DEF TypeOK, Job
<1> QED
  BY <1>1, <1>4, <1>8, QuietFit DEF TypeInv, Equipped, OwnTransfers, RightLength, Busy

(* The thread of one connection moves on, and takes nothing that another   *)
(* thread needs.                                                           *)
LEMMA OneMoves ==
    ASSUME TypeInv, NEW c \in Conns, NEW y,
           thread' = [thread EXCEPT ![c] = y],
           Fit(y, DOMAIN jobs', DOMAIN transfers'),
           y.at \in Busy => \/ thread[c].at \in Busy /\ y.tid = thread[c].tid
                           \/ y.tid \notin DOMAIN jobs,
           DOMAIN jobs \subseteq DOMAIN jobs',
           \A t \in DOMAIN transfers : \/ t \in DOMAIN transfers'
                                       \/ thread[c].at \in Busy /\ t = thread[c].tid
    PROVE  thread' \in [Conns -> Thread] /\ Equipped' /\ OwnTransfers'
<1>1. thread \in [Conns -> Thread]
  BY DEF TypeInv, TypeOK
<1>2. y \in Thread
  BY DEF Fit
<1>3. thread' \in [Conns -> Thread]
  BY <1>1, <1>2
<1>4. thread'[c] = y /\ \A d \in Conns : d # c => thread'[d] = thread[d]
  BY <1>1
<1>5. ASSUME NEW d \in Conns, d # c
      PROVE  Fit(thread'[d], DOMAIN jobs', DOMAIN transfers')
  <2>1. Fit(thread[d], DOMAIN jobs, DOMAIN transfers)
    BY DEF TypeInv, Equipped
  <2>2. thread[d].at = "sending" => thread[d].tid \in DOMAIN transfers'
    BY <1>5, <2>1 DEF Fit, TypeInv, OwnTransfers, Busy
  <2> QED
    BY <1>4, <1>5, <2>1, <2>2 DEF Fit
<1>6. Equipped'
  BY <1>4, <1>5 DEF Equipped
<1>7. OwnTransfers'
  <2>1. \A d \in Conns : thread[d].at \in Busy => thread[d].tid \in DOMAIN jobs
    BY DEF TypeInv, Equipped, Fit
  <2> QED
    BY <1>4, <2>1 DEF TypeInv, OwnTransfers
<1> QED
  BY <1>3, <1>6, <1>7

(* A server that is down has no thread at work. *)
LEMMA WorksUp ==
    ASSUME TypeInv, NEW c \in Conns, thread[c].at # "closed"
    PROVE  up
BY QuietThreads DEF TypeInv, Down

(* A request ends, and nothing but files, names and counts change. *)
LEMMA QuietStep ==
    ASSUME TypeInv, NEW c \in Conns, NEW y \in Thread,
           thread' = [thread EXCEPT ![c] = y],
           y.at \in {"closed", "refused", "ready"},
           DOMAIN transfers' \subseteq DOMAIN transfers,
           \A t \in DOMAIN transfers : \/ t \in DOMAIN transfers'
                                       \/ thread[c].at \in Busy /\ t = thread[c].tid,
           UNCHANGED jobs
    PROVE  thread' \in [Conns -> Thread] /\ Equipped' /\ OwnTransfers'
<1>1. Fit(y, DOMAIN jobs', DOMAIN transfers')
  BY QuietFit
<1>2. y.at \notin Busy
  BY DEF Busy
<1> QED
  BY <1>1, <1>2, OneMoves

(* Every stage is a stage. *)
LEMMA StageNames ==
    /\ Busy \subseteq Stages /\ AtFile \subseteq Stages
    /\ "closed" \in Stages /\ "refused" \in Stages /\ "ready" \in Stages
    /\ \A s \in Busy \cup AtFile : s \notin {"closed", "refused", "ready"}
BY DEF Busy, AtFile, Stages

(* The end of a request, by an answer or by an exception. *)
LEMMA EndsQuiet ==
    ASSUME TypeInv, NEW c \in Conns, NEW s, Answered(c, s) \/ Fails(c, s)
    PROVE  /\ thread[c].at = s
           /\ \E y \in Thread : /\ thread' = [thread EXCEPT ![c] = y]
                                /\ y.at \in {"closed", "refused", "ready"}
<1>1. CASE Fails(c, s)
  BY <1>1, QuietThreads DEF Fails, Goes
<1>2. CASE Answered(c, s)
  <2> DEFINE y == [Idle EXCEPT !.owner = thread[c].owner, !.user = thread[c].user]
  <2>1. thread[c] \in Thread
    BY DEF TypeInv, TypeOK
  <2>2. y \in Thread /\ y.at = "ready"
    <3>1. /\ thread[c].owner \in Users \cup {NoOne}
          /\ thread[c].user \in Users \cup {NoOne}
      BY <2>1 DEF Thread
    <3>2. PICK u, v : u = thread[c].owner /\ v = thread[c].user
      OBVIOUS
    <3>3. /\ [Idle EXCEPT !.owner = u, !.user = v] \in Thread
          /\ [Idle EXCEPT !.owner = u, !.user = v].at = "ready"
      BY <3>1, <3>2, QuietThreads DEF Thread
    <3> QED
      BY <3>2, <3>3
  <2>3. thread[c].at = s /\ thread' = [thread EXCEPT ![c] = y]
    BY <1>2 DEF Answered, Goes
  <2> HIDE DEF y
  <2> QED
    BY <2>2, <2>3
<1> QED
  BY <1>1, <1>2

(* A thread goes to another stage and keeps the rest. *)
LEMMA Restaged ==
    ASSUME NEW x \in Thread, NEW s \in Stages
    PROVE  LET y == [x EXCEPT !.at = s]
           IN  /\ y \in Thread /\ y.at = s
               /\ y.tid = x.tid /\ y.fd = x.fd /\ y.tx = x.tx /\ y.target = x.target
               /\ y.src = x.src /\ y.act = x.act
               /\ y.owner = x.owner /\ y.user = x.user /\ y.sent = x.sent
               /\ y.block = x.block /\ y.snap = x.snap
BY DEF Thread

(* The variables that a request about an account changes. *)
LEMMA TypeSession ==
    ASSUME TypeInv, NEW c \in Conns, NEW u \in Users,
           SignUp(c, u) \/ SignUpRefused(c, u) \/ LogIn(c, u) \/ LogInRefused(c, u)
    PROVE  TypeInv'
<1>1. /\ up /\ accounts' \subseteq Users
      /\ UNCHANGED <<disk, transfers, ledger, up, history, bounds>>
  BY DEF SignUp, SignUpRefused, LogIn, LogInRefused, Enters, TypeInv, TypeOK
<1>2. \E y \in Thread : /\ thread' = [thread EXCEPT ![c] = y]
                        /\ y.at \in {"closed", "refused", "ready"}
  <2>1. NoOne \in Users \cup {NoOne} /\ u \in Users \cup {NoOne}
        /\ "ready" \in Stages /\ "refused" \in Stages
    BY StageNames
  <2>2. Idle \in Thread /\ Idle.at = "ready"
    BY QuietThreads
  <2>3. /\ [Idle EXCEPT !.at = "refused"] \in Thread
        /\ [Idle EXCEPT !.at = "refused"].at = "refused"
        /\ [Idle EXCEPT !.owner = u, !.user = u] \in Thread
        /\ [Idle EXCEPT !.owner = u, !.user = u].at = "ready"
        /\ [Idle EXCEPT !.at = "refused", !.owner = u] \in Thread
        /\ [Idle EXCEPT !.at = "refused", !.owner = u].at = "refused"
    BY <2>1, <2>2 DEF Thread
  <2>4. CASE SignUp(c, u)
    BY <2>2, <2>4 DEF SignUp, Goes
  <2>5. CASE SignUpRefused(c, u)
    BY <2>3, <2>5 DEF SignUpRefused, Enters, Goes
  <2>6. CASE LogIn(c, u)
    BY <2>3, <2>6 DEF LogIn, Enters, Goes
  <2>7. CASE LogInRefused(c, u)
    BY <2>3, <2>7 DEF LogInRefused, Enters, Goes
  <2> QED
    BY <2>4, <2>5, <2>6, <2>7
<1>3. thread' \in [Conns -> Thread] /\ Equipped' /\ OwnTransfers'
  BY <1>1, <1>2, QuietStep DEF history, marks
<1>4. TypeOK'
  BY <1>1, <1>3 DEF TypeInv, TypeOK, disk, ledger, history, marks, bounds
<1> QED
  BY <1>1, <1>3, <1>4 DEF TypeInv, RightLength, history, marks

(* A step of a thread that leaves ledger and transfers alone. *)
LEMMA TypeRest ==
    ASSUME TypeInv, NEW c \in Conns, NEW y, thread[c].at # "closed",
           thread' = [thread EXCEPT ![c] = y],
           Fit(y, DOMAIN jobs, DOMAIN transfers),
           y.at \in Busy => thread[c].at \in Busy /\ y.tid = thread[c].tid,
           uploads' \in Directory, trash' \in Directory, starred' \in Directory,
           content' \in [Inodes -> Seq(Chunks)],
           chain' \in Seq(Block), pending' \subseteq Tx, lock' \in Conns \cup {NoOne},
           saved' \in Seq(Block) \cup {NoOne, Torn},
           acked' \subseteq DOMAIN jobs,
           purged' \subseteq Names, copied' \subseteq Names, actions' \in 0..MaxActions,
           UNCHANGED <<accounts, transfers, up, jobs, crashes>>
    PROVE  TypeInv'
<1>1. thread' \in [Conns -> Thread] /\ Equipped' /\ OwnTransfers'
  BY OneMoves
<1>2. TypeOK'
  BY <1>1 DEF TypeInv, TypeOK
<1>3. up
  BY WorksUp
<1> QED
  BY <1>1, <1>2, <1>3 DEF TypeInv, RightLength

(* What the request of c is served with once its transfer is complete: the *)
(* thread goes on as y, with file i open.                                  *)
Opened(c, i, y) ==
    LET x == thread[c]
        t == transfers[x.tid]
    IN  /\ x.at = "sending" /\ x.tid \in DOMAIN jobs \cap DOMAIN transfers
        /\ PopTransfer(c)
        /\ OpensForWriting(uploads, t.name, i)
        /\ thread' = [thread EXCEPT ![c] = y]
        /\ y.at = "opened" /\ y.tid = x.tid /\ y.fd = i
        /\ y.owner = x.owner /\ y.user = x.user
        /\ y.tx \in Tx /\ y.tx.id = x.tid /\ y.tx.owner = t.owner /\ y.tx.name = t.name
        /\ y.tx.hash = Bytes(jobs[x.tid].data)
        /\ UNCHANGED <<trash, starred, accounts, ledger, up, history, bounds>>

(* An upload that is opened has a whole transfer, and its record is made    *)
(* of it.                                                                   *)
LEMMA OpensWhole ==
    ASSUME TypeInv, NEW c \in Conns, OpenUpload(c)
    PROVE  \E i \in Inodes, y \in Thread : Opened(c, i, y)
<1> DEFINE x == thread[c]
           id == x.tid
           t == transfers[id]
           record == [id |-> id, owner |-> t.owner, name |-> t.name, hash |-> t.chunks]
<1>1. x \in Thread /\ Fit(x, DOMAIN jobs, DOMAIN transfers)
  BY DEF Equipped, TypeInv, TypeOK
<1>2. PICK i \in Inodes :
        /\ PopTransfer(c) /\ Complete(id)
        /\ OpensForWriting(uploads, t.name, i)
        /\ x.at = "sending"
        /\ thread' = [thread EXCEPT ![c] =
                         [x EXCEPT !.at = "opened", !.fd = i, !.tx = record]]
        /\ UNCHANGED <<trash, starred, accounts, ledger, up, history, bounds>>
  BY DEF OpenUpload, Goes
<1>3. id \in Tid /\ id \in DOMAIN transfers /\ id \in DOMAIN jobs
  <2>1. id \in DOMAIN jobs /\ id \in DOMAIN transfers /\ id \in {0} \cup Tid
    BY <1>1, <1>2 DEF Fit, Busy, Thread
  <2>2. id # 0
    BY <2>1, LenProperties DEF TypeInv, TypeOK
  <2> QED
    BY <2>1, <2>2
<1>4. record \in Tx /\ t.chunks = Bytes(jobs[id].data)
  <2>1. t \in Transfer /\ t.chunks \in Seq(Chunks \cup {NoOne})
    BY <1>3 DEF Transfer, TypeInv, TypeOK
  <2>2. \A j \in DOMAIN t.chunks : t.chunks[j] \in Chunks
    BY <1>2, <2>1, LenProperties, ElementOfSeq DEF Complete
  <2>3. t.chunks \in Seq(Chunks)
    BY <2>1, <2>2, SeqOver
  <2>4. t.chunks = Bytes(jobs[id].data)
    BY <1>2 DEF Complete
  <2> HIDE DEF id, t
  <2> QED
    BY <1>3, <2>1, <2>3, <2>4 DEF Tx, Transfer
<1> DEFINE y == [x EXCEPT !.at = "opened", !.fd = i, !.tx = record]
<1>5. /\ y \in Thread /\ y.at = "opened" /\ y.tid = id /\ y.fd = i
      /\ y.owner = x.owner /\ y.user = x.user /\ y.tx = record
  <2> HIDE DEF record
  <2> QED
    BY <1>1, <1>4, StageNames DEF Thread, Busy
<1>6. thread' = [thread EXCEPT ![c] = y]
  BY <1>2
<1>7. /\ record.id = id /\ record.owner = t.owner /\ record.name = t.name
      /\ record.hash = t.chunks
  OBVIOUS
<1> HIDE DEF y, record
<1>8. Opened(c, i, y)
  BY <1>2, <1>3, <1>4, <1>5, <1>6, <1>7 DEF Opened
<1> QED
  BY <1>5, <1>8

(* What one upload request does, up to the answer. *)
LEMMA TypeUpload ==
    ASSUME TypeInv, NEW c \in Conns, FinishUpload(c) \/ SendChunk(c)
    PROVE  TypeInv'
<1> DEFINE x == thread[c]
<1> USE DEF TypeInv, TypeOK
<1>1. x \in Thread /\ Fit(x, DOMAIN jobs, DOMAIN transfers)
  BY DEF Equipped
<1>2. CASE SendChunk(c)
  <2> DEFINE t == x.tid
             k == x.sent + 1
             y == [x EXCEPT !.sent = k]
  <2>1. /\ x.at = "sending" /\ thread' = [thread EXCEPT ![c] = y]
        /\ k <= Len(jobs[t].data)
        /\ transfers' = IF jobs[t].data[k] = NoBytes THEN transfers
                        ELSE [transfers EXCEPT ![t].chunks[k] = jobs[t].data[k]]
        /\ UNCHANGED <<disk, accounts, ledger, up, history, bounds>>
    BY <1>2 DEF SendChunk, Goes
  <2>2. y \in Thread /\ y.at = "sending" /\ y.tid = t /\ k \in Nat \ {0}
    <3>1. x.sent \in Nat
      BY <1>1 DEF Thread
    <3>2. k \in Nat \ {0} /\ k \in Nat
      BY <3>1
    <3> HIDE DEF k
    <3>3. y \in Thread /\ y.at = x.at /\ y.tid = x.tid
      BY <1>1, <3>2 DEF Thread
    <3> QED
      BY <2>1, <3>2, <3>3
  <2>3. t \in DOMAIN jobs /\ t \in DOMAIN transfers
    BY <1>1, <2>1 DEF Fit, Busy
  <2>4. DOMAIN transfers' = DOMAIN transfers
    BY <2>1
  <2>5. thread' \in [Conns -> Thread] /\ Equipped' /\ OwnTransfers'
    <3>1. Fit(y, DOMAIN jobs', DOMAIN transfers')
      BY <2>1, <2>2, <2>3, <2>4 DEF Fit, AtFile, Copying, history, marks
    <3> HIDE DEF y
    <3> QED
      BY <2>1, <2>2, <2>4, <3>1, OneMoves DEF history, marks, Busy
  <2>6. /\ \A u \in DOMAIN transfers' : transfers'[u] \in Transfer
        /\ RightLength'
    <3>1. CASE jobs[t].data[k] = NoBytes
      BY <2>1, <3>1 DEF RightLength, history, marks
    <3>2. CASE jobs[t].data[k] # NoBytes
      <4> DEFINE tr == transfers[t]
                 d == jobs[t].data
                 chunks2 == [tr.chunks EXCEPT ![k] = d[k]]
      <4>1. d \in Seq(Chunks \cup {NoBytes}) /\ k \in 1..Len(d)
        <5>1. jobs[t] \in Job
          BY <2>3, ElementOfSeq, LenProperties DEF Job
        <5>2. d \in Seq(Chunks \cup {NoBytes})
          BY <5>1, DataAssumption DEF Job
        <5>3. Len(d) \in Nat
          BY <5>2, LenProperties
        <5> QED
          BY <2>1, <2>2, <5>2, <5>3
      <4>2. d[k] \in Chunks \cup {NoOne}
        BY <3>2, <4>1, ElementOfSeq
      <4>3. tr \in Transfer /\ tr.chunks \in Seq(Chunks \cup {NoOne}) /\ Len(tr.chunks) = Len(d)
        BY <2>3 DEF Transfer, RightLength
      <4>4. chunks2 \in Seq(Chunks \cup {NoOne}) /\ Len(chunks2) = Len(d)
        BY <4>1, <4>2, <4>3, ExceptSeq
      <4>5. transfers' = [transfers EXCEPT ![t] = [tr EXCEPT !.chunks = chunks2]]
        BY <2>1, <3>2
      <4> HIDE DEF chunks2, d
      <4>6. /\ [tr EXCEPT !.chunks = chunks2] \in Transfer
            /\ [tr EXCEPT !.chunks = chunks2].chunks = chunks2
        BY <4>3, <4>4 DEF Transfer
      <4> DEFINE z == [tr EXCEPT !.chunks = chunks2]
      <4> HIDE DEF z, tr
      <4>7. /\ transfers'[t] = z
            /\ \A u \in DOMAIN transfers : u # t => transfers'[u] = transfers[u]
        BY <2>3, <4>5 DEF z
      <4> QED
        BY <2>1, <2>4, <4>4, <4>6, <4>7 DEF RightLength, history, marks, d, z
    <3> QED
      BY <3>1, <3>2
  <2>7. up
    BY <2>1, WorksUp
  <2> QED
    BY <2>1, <2>4, <2>5, <2>6, <2>7 DEF disk, ledger, history, marks, bounds
<1>3. CASE RefuseUpload(c)
  <2>1. /\ PopTransfer(c) /\ x.at = "sending"
        /\ UNCHANGED <<disk, accounts, ledger, up, history, bounds>>
    BY <1>3 DEF RefuseUpload, PopTransfer
  <2>2. PICK y \in Thread : /\ thread' = [thread EXCEPT ![c] = y]
                            /\ y.at \in {"closed", "refused", "ready"}
    BY <1>3, EndsQuiet DEF RefuseUpload
  <2>3. /\ DOMAIN transfers' = DOMAIN transfers \ {x.tid}
        /\ \A t \in DOMAIN transfers' : transfers'[t] = transfers[t]
    BY <2>1 DEF PopTransfer
  <2>4. thread' \in [Conns -> Thread] /\ Equipped' /\ OwnTransfers'
    BY <2>1, <2>2, <2>3, QuietStep DEF history, marks, Busy
  <2>5. up
    BY <2>1, WorksUp
  <2> QED
    BY <2>1, <2>3, <2>4, <2>5 DEF disk, ledger, history, marks, bounds, RightLength
<1>4. CASE OpenUpload(c)
  <2>1. PICK i \in Inodes, y \in Thread : Opened(c, i, y)
    BY <1>4, OpensWhole
  <2>2. /\ x.at = "sending" /\ x.tid \in DOMAIN jobs
        /\ y.at = "opened" /\ y.tid = x.tid /\ y.fd = i
        /\ y.tx \in Tx /\ y.tx.id = x.tid
        /\ thread' = [thread EXCEPT ![c] = y]
        /\ UNCHANGED <<trash, starred, accounts, ledger, up, history, bounds>>
    BY <2>1 DEF Opened
  <2>3. /\ DOMAIN transfers' = DOMAIN transfers \ {x.tid}
        /\ \A u \in DOMAIN transfers' : transfers'[u] = transfers[u]
    BY <2>1 DEF Opened, PopTransfer
  <2>4. Fit(y, DOMAIN jobs', DOMAIN transfers')
    BY <2>2 DEF Fit, AtFile, Copying, history, marks
  <2>5. thread' \in [Conns -> Thread] /\ Equipped' /\ OwnTransfers'
    BY <2>2, <2>3, <2>4, OneMoves DEF history, marks, Busy
  <2>6. uploads' \in Directory /\ content' \in [Inodes -> Seq(Chunks)]
    BY <2>1, EmptySeq DEF Opened, OpensForWriting, Directory
  <2>7. up
    BY <2>2, WorksUp
  <2> QED
    BY <2>2, <2>3, <2>5, <2>6, <2>7 DEF ledger, history, marks, bounds, RightLength
<1>5. CASE WriteFile(c)
  <2> DEFINE y == [x EXCEPT !.at = "stored", !.fd = NoOne]
             new == Overwrite(x.tx.hash, content[x.fd])
  <2>1. /\ x.at = "opened" /\ thread' = [thread EXCEPT ![c] = y]
        /\ content' = [content EXCEPT ![x.fd] = new]
        /\ UNCHANGED <<uploads, trash, starred, accounts, transfers, ledger, up, history,
                       bounds>>
    BY <1>5 DEF WriteFile, Goes
  <2>2. /\ y \in Thread /\ y.at = "stored" /\ y.tid = x.tid /\ y.tx = x.tx
    BY <1>1, StageNames DEF Thread, Busy
  <2>3. new \in Seq(Chunks)
    <3>1. x.tx.hash \in Seq(Chunks) /\ content[x.fd] \in Seq(Chunks)
      BY <1>1, <2>1 DEF Fit, Tx
    <3> QED
      BY <3>1, OverwriteType
  <2> HIDE DEF y, new
  <2>4. Fit(y, DOMAIN jobs, DOMAIN transfers)
    BY <1>1, <2>1, <2>2 DEF Fit, AtFile, Copying, Busy
  <2>5. content' \in [Inodes -> Seq(Chunks)]
    BY <2>1, <2>3
  <2> QED
    BY <2>1, <2>2, <2>4, <2>5, TypeRest DEF Busy, ledger, history, marks, bounds
<1>6. CASE StartMining(c)
  <2> DEFINE pool == pending \cup {x.tx}
             b == [index |-> Len(chain), txs |-> pool]
             y == [x EXCEPT !.at = "mining", !.block = b]
  <2>1. /\ x.at = "stored" /\ thread' = [thread EXCEPT ![c] = y]
        /\ lock' = c /\ pending' = pool
        /\ UNCHANGED <<disk, accounts, transfers, chain, saved, up, history, bounds>>
    BY <1>6 DEF StartMining, Goes, Acquire
  <2>2. pool \subseteq Tx /\ b \in Block
    BY <1>1, <2>1, LenProperties DEF Fit, Block
  <2>3. y \in Thread /\ y.at = "mining" /\ y.tid = x.tid /\ y.tx = x.tx
    <3> HIDE DEF b
    <3> QED
      BY <1>1, <2>2, StageNames DEF Thread, Busy
  <2> HIDE DEF y
  <2>4. Fit(y, DOMAIN jobs, DOMAIN transfers)
    BY <1>1, <2>1, <2>3 DEF Fit, AtFile, Copying, Busy
  <2> QED
    BY <2>1, <2>2, <2>3, <2>4, TypeRest DEF Busy, disk, history, marks, bounds
<1>7. ASSUME NEW s \in Busy, NEW z \in {"mined", "saving", "saved"}, x.at = s,
             NEW y \in Thread, y.at = z, y.tid = x.tid,
             thread' = [thread EXCEPT ![c] = y],
             chain' \in Seq(Block), pending' \subseteq Tx, lock' \in Conns \cup {NoOne},
             saved' \in Seq(Block) \cup {NoOne, Torn},
             UNCHANGED <<disk, accounts, transfers, up, history, bounds>>
      PROVE  TypeInv'
  <2>1. Fit(y, DOMAIN jobs, DOMAIN transfers)
    BY <1>1, <1>7 DEF Fit, AtFile, Copying, Busy
  <2>2. x.at # "closed" /\ x.at \in Busy
    BY <1>7, StageNames
  <2> QED
    BY <1>7, <2>1, <2>2, TypeRest DEF disk, history, marks, bounds
<1>8. CASE FinishMining(c)
  <2> DEFINE y == [x EXCEPT !.at = "mined"]
  <2>1. /\ x.at = "mining" /\ thread' = [thread EXCEPT ![c] = y]
        /\ chain' = Append(chain, x.block) /\ pending' = {} /\ lock' = NoOne
        /\ UNCHANGED <<disk, accounts, transfers, saved, up, history, bounds>>
    BY <1>8 DEF FinishMining, Mines, Moves, Goes, Release
  <2>2. x.block \in Block
    BY <1>1 DEF Thread
  <2>3. chain' \in Seq(Block)
    BY <2>1, <2>2, AppendFacts
  <2>4. y \in Thread /\ y.at = "mined" /\ y.tid = x.tid
    BY <1>1, Restaged, StageNames DEF Busy
  <2> HIDE DEF y
  <2> QED
    BY <1>7, <2>1, <2>3, <2>4 DEF Busy
<1>9. CASE StartSave(c)
  <2> DEFINE y == [x EXCEPT !.at = "saving", !.snap = chain]
  <2>1. /\ x.at = "mined" /\ thread' = [thread EXCEPT ![c] = y]
        /\ saved' = Torn /\ lock' = c
        /\ UNCHANGED <<disk, accounts, transfers, chain, pending, up, history, bounds>>
    BY <1>9 DEF StartSave, Goes, Acquire
  <2>2. y \in Thread /\ y.at = "saving" /\ y.tid = x.tid
    BY <1>1, StageNames DEF Thread, Busy
  <2> HIDE DEF y
  <2> QED
    BY <1>7, <2>1, <2>2 DEF Busy
<1>10. CASE FinishSave(c)
  <2> DEFINE y == [x EXCEPT !.at = "saved"]
  <2>1. /\ x.at = "saving" /\ thread' = [thread EXCEPT ![c] = y]
        /\ saved' = x.snap /\ lock' = NoOne
        /\ UNCHANGED <<disk, accounts, transfers, chain, pending, up, history, bounds>>
    BY <1>10 DEF FinishSave, Moves, Goes, Release
  <2>2. x.snap \in Seq(Block)
    BY <1>1 DEF Thread
  <2>3. y \in Thread /\ y.at = "saved" /\ y.tid = x.tid
    BY <1>1, Restaged, StageNames DEF Busy
  <2> HIDE DEF y
  <2> QED
    BY <1>7, <2>1, <2>2, <2>3 DEF Busy
<1>11. CASE Acknowledge(c)
  <2>1. /\ x.at = "saved" /\ acked' = acked \cup {x.tid}
        /\ UNCHANGED <<disk, accounts, transfers, ledger, up, jobs, marks, bounds>>
    BY <1>11 DEF Acknowledge, Answered, Goes
  <2>2. PICK y \in Thread : /\ thread' = [thread EXCEPT ![c] = y]
                            /\ y.at \in {"closed", "refused", "ready"}
    BY <1>11, EndsQuiet DEF Acknowledge
  <2>3. x.tid \in DOMAIN jobs
    BY <1>1, <2>1 DEF Fit, Busy
  <2>4. Fit(y, DOMAIN jobs, DOMAIN transfers) /\ y.at \notin Busy
    BY <2>2, QuietFit DEF Busy
  <2>5. /\ acked' \subseteq DOMAIN jobs
        /\ UNCHANGED <<uploads, trash, starred, content, chain, pending, lock, saved,
                       purged, copied, actions, crashes>>
    BY <2>1, <2>3 DEF disk, ledger, marks, bounds
  <2> QED
    BY <2>1, <2>2, <2>4, <2>5, TypeRest
<1> QED
  BY <1>2, <1>3, <1>4, <1>5, <1>6, <1>8, <1>9, <1>10, <1>11 DEF FinishUpload

(* A step that works on files alone. *)
LEMMA TypeOfFiles ==
    ASSUME TypeInv, NEW c \in Conns, NEW y, thread[c].at # "closed",
           thread' = [thread EXCEPT ![c] = y],
           Fit(y, DOMAIN jobs, DOMAIN transfers), y.at \notin Busy,
           uploads' \in Directory, trash' \in Directory, starred' \in Directory,
           content' \in [Inodes -> Seq(Chunks)],
           purged' \subseteq Names, copied' \subseteq Names, actions' \in 0..MaxActions,
           UNCHANGED <<offDisk, crashes>>
    PROVE  TypeInv'
<1>1. /\ chain' \in Seq(Block) /\ pending' \subseteq Tx /\ lock' \in Conns \cup {NoOne}
      /\ saved' \in Seq(Block) \cup {NoOne, Torn}
      /\ acked' \subseteq DOMAIN jobs
      /\ UNCHANGED <<accounts, transfers, up, jobs, crashes>>
  BY DEF TypeInv, TypeOK, offDisk, ledger
<1> QED
  BY <1>1, TypeRest

(* A request about a file looks first, and then acts. *)
LEMMA TypeLooks ==
    ASSUME TypeInv, NEW c \in Conns, NEW n \in Names, NEW a \in Requests,
           NEW s \in AtFile \ Copying, Looks(c, n, a, s)
    PROVE  TypeInv'
<1> DEFINE x == thread[c]
           y == [x EXCEPT !.at = s, !.act = a, !.target = n]
<1>1. /\ x.at = "ready" /\ thread' = [thread EXCEPT ![c] = y]
      /\ actions < MaxActions /\ actions' = actions + 1
      /\ UNCHANGED <<disk, offDisk, marks, crashes>>
  BY DEF Looks, Goes
<1>2. x \in Thread /\ s \in Stages
  BY StageNames DEF TypeInv, TypeOK
<1>3. y \in Thread /\ y.at = s /\ y.target = n
  BY <1>2 DEF Thread
<1> HIDE DEF y
<1>4. Fit(y, DOMAIN jobs, DOMAIN transfers) /\ y.at \notin Busy
  BY <1>3 DEF Fit, Busy, AtFile, Copying
<1>5. actions' \in 0..MaxActions
  BY <1>1, LimitsAssumption DEF TypeInv, TypeOK
<1>6. /\ uploads' \in Directory /\ trash' \in Directory /\ starred' \in Directory
      /\ content' \in [Inodes -> Seq(Chunks)] /\ purged' \subseteq Names
      /\ copied' \subseteq Names
  BY <1>1 DEF TypeInv, TypeOK, disk, marks
<1> QED
  BY <1>1, <1>4, <1>5, <1>6, TypeOfFiles

(* The thread after a step of a request about a file, which ends it or      *)
(* leads to one of the stages Z.                                           *)
LEMMA FileThreads ==
    ASSUME TypeInv, NEW c \in Conns, NEW s \in AtFile, NEW Z \in SUBSET (AtFile \ Copying),
           Answered(c, s) \/ Fails(c, s) \/ \E z \in Z : Moves(c, s, z)
    PROVE  /\ thread[c].at = s
           /\ \E y \in Thread :
                /\ thread' = [thread EXCEPT ![c] = y]
                /\ Fit(y, DOMAIN jobs, DOMAIN transfers)
                /\ y.at \in {"closed", "refused", "ready"} \cup Z
                /\ y.at \in Z => y.act = thread[c].act /\ y.target = thread[c].target
<1>1. CASE Answered(c, s) \/ Fails(c, s)
  <2>1. PICK y \in Thread : /\ thread[c].at = s
                            /\ thread' = [thread EXCEPT ![c] = y]
                            /\ y.at \in {"closed", "refused", "ready"}
    BY <1>1, EndsQuiet
  <2>2. y.at \notin Z
    BY <2>1, StageNames
  <2> QED
    BY <2>1, <2>2, QuietFit
<1>2. ASSUME NEW z \in Z, Moves(c, s, z)
      PROVE  /\ thread[c].at = s
             /\ \E y \in Thread :
                  /\ thread' = [thread EXCEPT ![c] = y]
                  /\ Fit(y, DOMAIN jobs, DOMAIN transfers)
                  /\ y.at = z /\ y.act = thread[c].act /\ y.target = thread[c].target
  <2> DEFINE y == [thread[c] EXCEPT !.at = z]
  <2>1. thread[c].at = s /\ thread' = [thread EXCEPT ![c] = y]
    BY <1>2 DEF Moves, Goes
  <2>2. thread[c] \in Thread /\ thread[c].target \in Names
    BY <2>1 DEF TypeInv, TypeOK, Equipped, Fit
  <2>3. y \in Thread /\ y.at = z /\ y.act = thread[c].act /\ y.target = thread[c].target
    BY <2>2, StageNames, Restaged
  <2> HIDE DEF y
  <2>4. Fit(y, DOMAIN jobs, DOMAIN transfers)
    BY <2>2, <2>3 DEF Fit, AtFile, Busy, Copying
  <2> QED
    BY <2>1, <2>3, <2>4
<1> QED
  BY <1>1, <1>2

(* What a request about a file does. *)
LEMMA TypeFiles ==
    ASSUME TypeInv, NEW c \in Conns, FileStep(c)
    PROVE  TypeInv'
<1> DEFINE x == thread[c]
           n == x.target
<1> USE DEF TypeInv, TypeOK
<1>1. /\ x \in Thread /\ Fit(x, DOMAIN jobs, DOMAIN transfers)
      /\ x.at \in AtFile => n \in Names
      /\ x.at \in Copying => x.src \in Inodes
      /\ AtFile \cap Busy = {} /\ Copying \subseteq AtFile
  BY DEF Equipped, Fit, AtFile, Busy, Copying
<1>2. ASSUME NEW s \in AtFile,
             \/ Answered(c, s) \/ Fails(c, s)
             \/ \E z \in AtFile \ Copying : Moves(c, s, z),
             uploads' \in Directory, trash' \in Directory, starred' \in Directory,
             UNCHANGED content, purged' \subseteq Names,
             UNCHANGED <<offDisk, copied, bounds>>
      PROVE  TypeInv'
  <2>1. PICK y \in Thread :
          /\ x.at = s
          /\ thread' = [thread EXCEPT ![c] = y]
          /\ Fit(y, DOMAIN jobs, DOMAIN transfers)
          /\ y.at \in {"closed", "refused", "ready"} \cup (AtFile \ Copying)
    BY <1>2, FileThreads
  <2>2. y.at \notin Busy /\ x.at # "closed"
    BY <1>1, <2>1, StageNames
  <2>3. actions' \in 0..MaxActions /\ UNCHANGED crashes
    BY <1>2 DEF bounds
  <2> QED
    BY <1>2, <2>1, <2>2, <2>3, TypeOfFiles
<1>3. ASSUME NEW z \in AtFile, NEW i \in Inodes, NEW y \in Thread, x.at \in AtFile,
             thread' = [thread EXCEPT ![c] = y],
             y.at = z, y.target = n, z = "targeting" => y.src = i,
             z = "copying" => y.fd = i /\ y.src = x.src /\ x.at = "targeting",
             uploads' \in Directory, trash' \in Directory, starred' \in Directory,
             content' \in [Inodes -> Seq(Chunks)], copied' \subseteq Names,
             UNCHANGED <<offDisk, purged, bounds>>
      PROVE  TypeInv'
  <2>1. Fit(y, DOMAIN jobs, DOMAIN transfers) /\ y.at \notin Busy
    BY <1>1, <1>3 DEF Fit, Busy, AtFile, Copying
  <2>2. x.at # "closed"
    BY <1>3, StageNames
  <2> QED
    BY <1>3, <2>1, <2>2, TypeOfFiles DEF bounds
<1>4. CASE MoveToTrash(c) \/ MoveBack(c)
  <2>1. /\ x.at = "moving" /\ UNCHANGED <<starred, content, offDisk, marks, bounds>>
        /\ Renames(n, uploads, trash) \/ Renames(n, trash, uploads)
        /\ \/ Answered(c, "moving")
           \/ \E z \in {"sourcing", "clearing"} : Moves(c, "moving", z)
    BY <1>4 DEF MoveToTrash, MoveBack
  <2>2. uploads' \in Directory /\ trash' \in Directory
    BY <1>1, <2>1 DEF Renames, Directory, AtFile
  <2>3. {"sourcing", "clearing"} \subseteq AtFile \ Copying /\ "moving" \in AtFile
    BY DEF AtFile, Copying
  <2> QED
    BY <1>2, <2>1, <2>2, <2>3 DEF marks
<1>5. CASE OpenSource(c)
  <2> DEFINE i == From(c)[n]
             y == [x EXCEPT !.at = "targeting", !.src = i]
  <2>1. /\ x.at = "sourcing" /\ UNCHANGED <<disk, offDisk, marks, bounds>>
        /\ \/ Fails(c, "sourcing")
           \/ i # NoOne /\ Goes(c, "sourcing", y)
    BY <1>5 DEF OpenSource
  <2>2. "sourcing" \in AtFile /\ "targeting" \in AtFile
    BY DEF AtFile
  <2>3. CASE Fails(c, "sourcing")
    BY <1>2, <2>1, <2>2, <2>3 DEF disk, marks
  <2>4. CASE i # NoOne /\ Goes(c, "sourcing", y)
    <3>3. thread' = [thread EXCEPT ![c] = y]
      BY <2>4 DEF Goes
    <3>1. i \in Inodes
      BY <1>1, <2>1, <2>2, <2>4 DEF From, Directory
    <3> HIDE DEF i
    <3>2. y \in Thread /\ y.at = "targeting" /\ y.src = i /\ y.target = n
      BY <1>1, <2>2, <3>1, StageNames DEF Thread
    <3> HIDE DEF y
    <3> QED
      BY <1>3, <2>1, <2>2, <3>1, <3>2, <3>3 DEF disk, marks
  <2> QED
    BY <2>1, <2>3, <2>4
<1>6. CASE OpenStarred(c) \/ OpenMoved(c)
  <2>1. PICK i \in Inodes :
          /\ \/ OpensForWriting(starred, n, i) /\ UNCHANGED <<uploads, trash>>
             \/ OpensForWriting(trash, n, i) /\ UNCHANGED <<uploads, starred>>
             \/ OpensForWriting(uploads, n, i) /\ UNCHANGED <<trash, starred>>
          /\ thread' = [thread EXCEPT ![c] = [x EXCEPT !.at = "copying", !.fd = i]]
    BY <1>6 DEF OpenStarred, OpenMoved, OpensTarget, Goes
  <2>2. /\ x.at = "targeting" /\ copied' \subseteq copied \cup {n}
        /\ UNCHANGED <<offDisk, purged, bounds>>
    BY <1>6 DEF OpenStarred, OpenMoved, OpensTarget
  <2>3. "targeting" \in AtFile /\ "copying" \in AtFile
    BY DEF AtFile
  <2>4. /\ uploads' \in Directory /\ trash' \in Directory /\ starred' \in Directory
        /\ content' \in [Inodes -> Seq(Chunks)] /\ copied' \subseteq Names
    <3>1. content' = [content EXCEPT ![i] = <<>>]
      BY <2>1 DEF OpensForWriting
    <3>2. content' \in [Inodes -> Seq(Chunks)]
      BY <3>1, EmptySeq
    <3>3. uploads' \in Directory /\ trash' \in Directory /\ starred' \in Directory
      BY <2>1 DEF OpensForWriting, Directory
    <3> QED
      BY <1>1, <2>2, <2>3, <3>2, <3>3
  <2> DEFINE y == [x EXCEPT !.at = "copying", !.fd = i]
  <2>5. y \in Thread /\ y.at = "copying" /\ y.fd = i /\ y.src = x.src /\ y.target = n
    BY <1>1, <2>3, StageNames DEF Thread
  <2> HIDE DEF y
  <2>6. thread' = [thread EXCEPT ![c] = y]
    BY <2>1 DEF y
  <2> QED
    BY <1>3, <2>2, <2>3, <2>4, <2>5, <2>6
<1>7. CASE CopyBytes(c)
  <2> DEFINE y == [x EXCEPT !.at = "stamping", !.src = NoOne, !.fd = NoOne]
             text == Overwrite(content[x.src], content[x.fd])
  <2>1. /\ x.at = "copying" /\ thread' = [thread EXCEPT ![c] = y]
        /\ content' = [content EXCEPT ![x.fd] = text]
        /\ UNCHANGED <<uploads, trash, starred, offDisk, marks, bounds>>
    BY <1>7 DEF CopyBytes, Goes
  <2>2. x.fd \in Inodes /\ x.src \in Inodes
    BY <1>1, <2>1 DEF Fit, Copying
  <2>3. "copying" \in AtFile /\ "stamping" \in AtFile /\ "stamping" \notin Copying
    BY DEF AtFile, Copying
  <2>4. text \in Seq(Chunks)
    BY <2>2, OverwriteType
  <2> HIDE DEF text
  <2>5. content' \in [Inodes -> Seq(Chunks)]
    BY <2>1, <2>4
  <2>6. y \in Thread /\ y.at = "stamping" /\ y.target = n
    BY <1>1, <2>3, StageNames DEF Thread
  <2> HIDE DEF y
  <2> QED
    BY <1>3, <2>1, <2>2, <2>3, <2>5, <2>6 DEF marks
<1>8. CASE CopyTimes(c)
  <2>1. /\ UNCHANGED <<disk, offDisk, marks, bounds>>
        /\ \/ Answered(c, "stamping") \/ Fails(c, "stamping")
           \/ Moves(c, "stamping", "unlinking")
    BY <1>8 DEF CopyTimes
  <2>2. "stamping" \in AtFile /\ "unlinking" \in AtFile \ Copying
    BY DEF AtFile, Copying
  <2> QED
    BY <1>2, <2>1, <2>2 DEF disk, marks
<1>9. CASE Unlink(c)
  <2>1. /\ x.at = "unlinking" /\ UNCHANGED <<content, offDisk, copied, bounds, starred, purged>>
        /\ \/ uploads' = [uploads EXCEPT ![n] = NoOne] /\ UNCHANGED trash
           \/ trash' = [trash EXCEPT ![n] = NoOne] /\ UNCHANGED uploads
        /\ \/ Answered(c, "unlinking") \/ Fails(c, "unlinking")
           \/ Moves(c, "unlinking", "clearing")
    BY <1>9 DEF Unlink, Removes
  <2>2. uploads' \in Directory /\ trash' \in Directory
    BY <2>1 DEF Directory
  <2>3. "unlinking" \in AtFile /\ "clearing" \in AtFile \ Copying
    BY DEF AtFile, Copying
  <2> QED
    BY <1>2, <2>1, <2>2, <2>3
<1>10. CASE ClearStar(c)
  <2>1. /\ Answered(c, "clearing") \/ Moves(c, "clearing", "unstarring")
        /\ UNCHANGED <<disk, offDisk, marks, bounds>>
    BY <1>10 DEF ClearStar
  <2>2. "clearing" \in AtFile /\ "unstarring" \in AtFile \ Copying
    BY DEF AtFile, Copying
  <2> QED
    BY <1>2, <2>1, <2>2 DEF disk, marks
<1>11. CASE Unstar(c)
  <2>1. /\ x.at = "unstarring" /\ starred' = [starred EXCEPT ![n] = NoOne]
        /\ Answered(c, "unstarring") \/ Fails(c, "unstarring")
        /\ UNCHANGED <<content, offDisk, copied, bounds, uploads, trash, purged>>
    BY <1>11 DEF Unstar, Removes
  <2>2. starred' \in Directory
    BY <2>1 DEF Directory
  <2> QED
    BY <1>2, <2>1, <2>2 DEF AtFile
<1>12. CASE PurgeFromTrash(c)
  <2>1. /\ x.at = "purging" /\ trash' = [trash EXCEPT ![n] = NoOne]
        /\ Answered(c, "purging") \/ Fails(c, "purging")
        /\ purged' = purged \cup {n}
        /\ UNCHANGED <<content, offDisk, copied, bounds, uploads, starred>>
    BY <1>12 DEF PurgeFromTrash, Removes
  <2>2. trash' \in Directory
    BY <2>1 DEF Directory
  <2>3. purged' \subseteq Names
    BY <1>1, <2>1 DEF AtFile
  <2> QED
    BY <1>2, <2>1, <2>2, <2>3 DEF AtFile
<1> QED
  BY <1>4, <1>5, <1>6, <1>7, <1>8, <1>9, <1>10, <1>11, <1>12 DEF FileStep

(* A request ends: the client hangs up, or the connection breaks. *)
LEMMA TypeEnds ==
    ASSUME TypeInv, NEW c \in Conns, Disconnect(c) \/ Refused(c)
    PROVE  TypeInv'
<1>1. /\ \E s \in {"ready", "sending", "saved", "refused"} : Fails(c, s)
      /\ UNCHANGED <<disk, accounts, transfers, ledger, up, history, bounds>>
  BY DEF Disconnect, Refused, HangsUp
<1>2. PICK y \in Thread : /\ thread[c].at # "closed"
                          /\ thread' = [thread EXCEPT ![c] = y]
                          /\ y.at \in {"closed", "refused", "ready"}
  BY <1>1, EndsQuiet
<1>3. Fit(y, DOMAIN jobs, DOMAIN transfers) /\ y.at \notin Busy
  BY <1>2, QuietFit DEF Busy
<1>4. /\ uploads' \in Directory /\ trash' \in Directory /\ starred' \in Directory
      /\ content' \in [Inodes -> Seq(Chunks)]
      /\ chain' \in Seq(Block) /\ pending' \subseteq Tx /\ lock' \in Conns \cup {NoOne}
      /\ saved' \in Seq(Block) \cup {NoOne, Torn}
      /\ acked' \subseteq DOMAIN jobs
      /\ purged' \subseteq Names /\ copied' \subseteq Names /\ actions' \in 0..MaxActions
      /\ UNCHANGED <<accounts, transfers, up, jobs, crashes>>
  BY <1>1 DEF TypeInv, TypeOK, disk, ledger, history, marks, bounds
<1> QED
  BY <1>2, <1>3, <1>4, TypeRest

(* A client begins an upload: it gets an id that no transfer has had. *)
LEMMA TypeBegin ==
    ASSUME TypeInv, NEW c \in Conns, NEW n \in Names, NEW d \in Data,
           BeginUpload(c, n, d)
    PROVE  TypeInv'
<1> DEFINE x == thread[c]
           t == Len(jobs) + 1
           new == [name |-> n, chunks |-> [i \in 1..Len(d) |-> NoOne], owner |-> x.owner]
           job == [name |-> n, data |-> d, user |-> x.user]
           y == [x EXCEPT !.at = "sending", !.tid = t]
<1> USE DEF TypeInv, TypeOK
<1>1. /\ t <= MaxUploads /\ x.at = "ready"
      /\ thread' = [thread EXCEPT ![c] = y]
      /\ jobs' = Append(jobs, job)
      /\ transfers' = [u \in DOMAIN transfers \cup {t} |->
                          IF u = t THEN new ELSE transfers[u]]
      /\ UNCHANGED <<disk, accounts, ledger, up, acked, marks, bounds>>
  BY DEF BeginUpload, Goes
<1>2. x \in Thread
  OBVIOUS
<1>3. job \in Job
  BY <1>2 DEF Job, Thread
<1>4. jobs \in Seq(Job)
  BY DEF Job
<1>5. /\ jobs' \in Seq(Job) /\ Len(jobs) \in Nat
      /\ DOMAIN jobs = 1..Len(jobs) /\ DOMAIN jobs' = 1..t
      /\ \A u \in DOMAIN jobs : jobs'[u] = jobs[u]
      /\ jobs'[t] = job
  <2> HIDE DEF job
  <2> QED
    BY <1>1, <1>3, <1>4, AppendFacts
<1>6. /\ t \in Nat /\ t \in Tid /\ t \notin DOMAIN jobs /\ t \in DOMAIN jobs'
      /\ DOMAIN jobs \subseteq DOMAIN jobs'
  BY <1>1, <1>5, LimitsAssumption DEF Tid
<1>7. new \in Transfer /\ Len(new.chunks) = Len(d)
  <2>1. d \in Seq(Chunks \cup {NoBytes})
    BY DataAssumption
  <2>2. Len(d) \in Nat
    BY <2>1, LenProperties
  <2> DEFINE ch == [i \in 1..Len(d) |-> NoOne]
  <2>3. ch \in [1..Len(d) -> Chunks \cup {NoOne}]
    OBVIOUS
  <2>4. ch \in Seq(Chunks \cup {NoOne}) /\ Len(ch) = Len(d)
    <3> HIDE DEF ch
    <3> QED
      BY <2>2, <2>3, FunctionIsSeq
  <2> HIDE DEF ch
  <2>5. x.owner \in Users \cup {NoOne}
    BY <1>2 DEF Thread
  <2>6. new = [name |-> n, chunks |-> ch, owner |-> x.owner]
    BY DEF ch
  <2> QED
    BY <2>4, <2>5, <2>6 DEF Transfer
<1>8. y \in Thread /\ y.at = "sending" /\ y.tid = t
  <2> HIDE DEF t
  <2> QED
    BY <1>2, <1>6, StageNames DEF Thread, Busy
<1> HIDE DEF y, new, job
<1>9. DOMAIN transfers' = DOMAIN transfers \cup {t}
      /\ transfers'[t] = new
      /\ \A u \in DOMAIN transfers : u # t => transfers'[u] = transfers[u]
  BY <1>1
<1>10. Fit(y, DOMAIN jobs', DOMAIN transfers')
  BY <1>6, <1>8, <1>9 DEF Fit, Busy, AtFile, Copying
<1>11. thread' \in [Conns -> Thread] /\ Equipped' /\ OwnTransfers'
  BY <1>1, <1>6, <1>8, <1>9, <1>10, OneMoves
<1>12. /\ DOMAIN transfers' \subseteq DOMAIN jobs'
       /\ \A u \in DOMAIN transfers' : transfers'[u] \in Transfer
  BY <1>6, <1>7, <1>9
<1>13. RightLength'
  <2>1. jobs'[t].data = d
    BY <1>5 DEF job
  <2>2. \A u \in DOMAIN transfers : u # t /\ jobs'[u] = jobs[u]
    BY <1>5, <1>6
  <2> QED
    BY <1>7, <1>9, <2>1, <2>2 DEF RightLength
<1>14. TypeOK'
  <2>1. acked' \subseteq DOMAIN jobs'
    BY <1>1, <1>6
  <2> QED
    BY <1>1, <1>5, <1>11, <1>12, <2>1 DEF Job, disk, ledger, marks, bounds
<1>15. up'
  <2>1. x.at # "closed"
    BY <1>1
  <2> QED
    BY <1>1, <2>1, WorksUp
<1> QED
  BY <1>11, <1>13, <1>14, <1>15

(* A step that every server makes keeps the types. *)
LEMMA TypeNext == TypeInv /\ [Next]_vars => TypeInv'
<1> SUFFICES ASSUME TypeInv, [Next]_vars PROVE TypeInv'
  OBVIOUS
<1>1. ASSUME NEW c \in Conns, NEW n \in Names,
             Star(c, n) \/ Delete(c, n) \/ Restore(c, n) \/ Purge(c, n)
      PROVE  TypeInv'
  <2>1. \E a \in Requests, s \in AtFile \ Copying : Looks(c, n, a, s)
    BY <1>1 DEF Star, Delete, Restore, Purge, Requests, AtFile, Copying
  <2> QED
    BY <2>1, TypeLooks
<1>2. CASE Crash
  <2>1. /\ thread' = [c \in Conns |-> Closed]
        /\ chain' = <<Genesis>> /\ pending' = {} /\ lock' = NoOne /\ up' = FALSE
        /\ transfers' = [t \in {} |-> {}]
        /\ crashes < MaxCrashes /\ crashes' = crashes + 1
        /\ UNCHANGED <<disk, accounts, saved, history, actions>>
    BY <1>2 DEF Crash
  <2>2. \A c \in Conns : thread'[c] \in Thread /\ thread'[c].at = "closed"
    BY <2>1, QuietThreads
  <2>3. thread' \in [Conns -> Thread]
    BY <2>1, <2>2
  <2>4. chain' \in Seq(Block)
    <3>1. Genesis \in Block
      BY DEF Genesis, Block
    <3> QED
      BY <2>1, <3>1
  <2>5. crashes' \in 0..MaxCrashes
    BY <2>1, LimitsAssumption DEF TypeInv, TypeOK
  <2>6. DOMAIN transfers' = {}
    BY <2>1
  <2>7. TypeOK'
    BY <2>1, <2>3, <2>4, <2>5, <2>6 DEF TypeInv, TypeOK, disk, history, marks
  <2>8. Equipped' /\ OwnTransfers' /\ RightLength'
    BY <2>2, <2>6, QuietFit DEF Equipped, OwnTransfers, RightLength, Busy
  <2> QED
    BY <2>1, <2>7, <2>8 DEF TypeInv, Down
<1>3. CASE Start
  <2>1. /\ saved # Torn /\ up' = TRUE /\ chain' = SavedChain
        /\ UNCHANGED <<disk, accounts, transfers, pending, lock, saved, thread,
                       history, bounds>>
    BY <1>3 DEF Start, Starts
  <2>2. Genesis \in Block
    BY DEF Genesis, Block
  <2>3. chain' \in Seq(Block)
    BY <2>1, <2>2 DEF SavedChain, TypeInv, TypeOK
  <2>4. TypeOK'
    BY <2>1, <2>3 DEF TypeInv, TypeOK, disk, history, marks, bounds
  <2>5. Equipped' /\ OwnTransfers' /\ RightLength'
    BY <2>1 DEF TypeInv, Equipped, OwnTransfers, RightLength, history, marks
  <2> QED
    BY <2>1, <2>4, <2>5 DEF TypeInv
<1>4. CASE UNCHANGED vars
  BY <1>4 DEF TypeInv, TypeOK, Equipped, OwnTransfers, RightLength, Down, vars,
              disk, ledger, history, marks, bounds
<1> QED
  BY <1>1, <1>2, <1>3, <1>4, TypeSession, TypeBegin, TypeUpload, TypeFiles, TypeEnds
     DEF Next

(* Every variable of the upload server has its type, through every          *)
(* interleaving, crash and restart.                                         *)
THEOREM TypeCorrect == Spec => []TypeOK
<1>1. TypeInv => TypeOK
  BY DEF TypeInv
<1> QED
  BY <1>1, TypeInit, TypeNext, PTL DEF Spec
=============================================================================
