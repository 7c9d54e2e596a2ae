---------------------------- MODULE UploadServer ----------------------------
(***************************************************************************)
(* The upload server of src/cloudmer_SRV.py and its client's upload loop:  *)
(* the transfers under way, the files in uploads/, .trash/ and .starred/,  *)
(* the ledger mined in the request handler, and the file it is saved in.   *)
(*                                                                         *)
(* One thread serves one connection, and a client sends its next request   *)
(* after the answer to the last one.  An action is what a thread does      *)
(* between two points where another can see or change what it works on: a  *)
(* file system call, the acquisition or release of chain_lock.             *)
(***************************************************************************)
EXTENDS Integers, Sequences, SequencesExt

CONSTANTS
    Conns,        \* connections, each with its client and its server thread
    Names,        \* file names; all clients share the directory uploads/
    Users,        \* e-mail addresses
    Registered,   \* those that have an account when the server first starts
    Chunks,       \* contents of a chunk
    NoBytes,      \* the content of the one chunk of an empty file
    Data,         \* files that clients upload: sequences of chunks
    Inodes,       \* numbers of files on the disk
    NoOne,        \* no connection, no user, no file
    Torn,         \* a chain file that was truncated and not yet written
    MaxUploads,   \* bound on the uploads of a behaviour
    MaxActions,   \* bound on its star, delete, restore and purge requests
    MaxCrashes    \* bound on its crashes

ASSUME DataAssumption == Data \subseteq Seq(Chunks \cup {NoBytes}) \ {<<>>}

ASSUME NamesAssumption ==
    /\ Registered \subseteq Users
    /\ Inodes \subseteq Nat
    /\ NoBytes \notin Chunks
    /\ NoOne \notin Conns \cup Users \cup Inodes

ASSUME LimitsAssumption ==
    /\ MaxUploads \in Nat
    /\ MaxActions \in Nat
    /\ MaxCrashes \in Nat

VARIABLES
    uploads, trash, starred,  \* the directories: the file a name stands for
    content,    \* content[i]: the bytes of file i
    accounts,   \* the users in the database
    transfers,  \* active_transfers, by transfer id
    chain,      \* blockchain.chain
    pending,    \* blockchain.pending_transactions
    lock,       \* the connection whose thread holds chain_lock
    saved,      \* the chain file: absent, torn, or the chain in it
    up,         \* the server process runs
    thread,     \* thread[c]: the server thread of c and the client it serves
    jobs,       \* every upload begun: what its client means to store
    acked,      \* transfers answered with DONE~OK
    purged,     \* names that were purged from the trash
    copied,     \* names whose file a move had to copy
    actions, crashes  \* how much of the bounds is used

disk    == <<uploads, trash, starred, content>>
ledger  == <<chain, pending, lock, saved>>
marks   == <<purged, copied>>
history == <<jobs, acked, marks>>
bounds  == <<actions, crashes>>
vars == <<disk, accounts, transfers, ledger, up, thread, history, bounds>>

-----------------------------------------------------------------------------
(* Data.  A digest of a file is the file: SHA-256 and MD5 do not collide. *)

Bytes(d) == SelectSeq(d, LAMBDA b : b # NoBytes)

Tid == 1..MaxUploads

(* make_upload_tx; its timestamp makes it unique, here its transfer id. *)
Tx == [id : Tid, owner : Users \cup {NoOne}, name : Names, hash : Seq(Chunks)]

(* chunks[i + 1] is chunk i, or NoOne before it has arrived. *)
Transfer == [name : Names, chunks : Seq(Chunks \cup {NoOne}),
             owner : Users \cup {NoOne}]

Block == [index : Nat, txs : SUBSET Tx]

Genesis == [index |-> 0, txs |-> {}]

(* No file, and a text that does not parse, are no chain. *)
ASSUME TornAssumption ==
    /\ Torn # NoOne
    /\ Torn \notin Seq(Block)
    /\ NoOne \notin Seq(Block)

Stages == { "closed", "refused", "ready", "sending", "opened", "stored", "mining",
            "mined", "saving", "saved", "unstarring", "clearing", "purging", "moving",
            "sourcing", "targeting", "copying", "stamping", "unlinking" }

Requests == {"star", "delete", "restore", "purge"}

Thread == [ at     : Stages,                 \* what it does next
            owner  : Users \cup {NoOne},     \* session_owner
            user   : Users \cup {NoOne},     \* the account its client is logged in to
            act    : Requests \cup {NoOne},  \* what it is asked to do with a file,
            target : Names \cup {NoOne},     \* and the name of the file
            tid    : {0} \cup Tid,           \* its transfer
            sent   : Nat,                    \* chunks its client has sent
            src    : Inodes \cup {NoOne},    \* the file it has open to read,
            fd     : Inodes \cup {NoOne},    \* and to write
            tx     : Tx \cup {NoOne},        \* the record of its upload
            block  : Block,                  \* the block it is mining
            snap   : Seq(Block) ]            \* the chain it is writing

Idle == [at |-> "ready", owner |-> NoOne, user |-> NoOne, act |-> NoOne, target |-> NoOne,
         tid |-> 0, sent |-> 0, src |-> NoOne, fd |-> NoOne, tx |-> NoOne,
         block |-> Genesis, snap |-> <<>>]

Closed == [Idle EXCEPT !.at = "closed"]

(* What a load of the chain file gives; without one, a new chain. *)
SavedChain == IF saved = NoOne THEN <<Genesis>> ELSE saved

(* A write of d at the start of a file that holds old. *)
Overwrite(d, old) == d \o SubSeq(old, Len(d) + 1, Len(old))

(* Files that some name or some thread still refers to. *)
InUse == {dir[n] : dir \in {uploads, trash, starred}, n \in Names}
            \cup UNION {{thread[c].src, thread[c].fd} : c \in Conns}

NewFile(i) ==
    /\ i \in Inodes \ InUse
    /\ \A j \in Inodes \ InUse : i <= j

(* open(path, "wb") of name n in directory dir: file i is the one of that *)
(* name, or a new one, and is empty.                                      *)
OpensForWriting(dir, n, i) ==
    /\ IF dir[n] = NoOne THEN NewFile(i) ELSE i = dir[n]
    /\ dir' = [dir EXCEPT ![n] = i]
    /\ content' = [content EXCEPT ![i] = <<>>]

-----------------------------------------------------------------------------

Init ==
    /\ uploads = [n \in Names |-> NoOne]
    /\ trash   = [n \in Names |-> NoOne]
    /\ starred = [n \in Names |-> NoOne]
    /\ content = [i \in Inodes |-> <<>>]
    /\ accounts = Registered
    /\ transfers = [t \in {} |-> {}]
    /\ chain = <<Genesis>>
    /\ pending = {}
    /\ lock = NoOne
    /\ saved = NoOne
    /\ up = TRUE
    /\ thread = [c \in Conns |-> Closed]
    /\ jobs = <<>>
    /\ acked = {}
    /\ purged = {}
    /\ copied = {}
    /\ actions = 0
    /\ crashes = 0

Goes(c, s, next) == thread[c].at = s /\ thread' = [thread EXCEPT ![c] = next]

(* The thread of c goes from stage s to stage t, and keeps the rest. *)
Moves(c, s, t) == Goes(c, s, [thread[c] EXCEPT !.at = t])

(* The request of c is over: it is answered, or it raised an exception,  *)
(* for which handle_request ends the session with ERRR~001.              *)
Answered(c, s) ==
    Goes(c, s, [Idle EXCEPT !.owner = thread[c].owner, !.user = thread[c].user])
Fails(c, s)    == Goes(c, s, Closed)

-----------------------------------------------------------------------------
(* Sessions. *)

(* RGST, register_user: an account is made, and the session goes on       *)
(* without an owner.                                                      *)
SignUp(c, u) ==
    /\ up
    /\ u \notin accounts
    /\ accounts' = accounts \cup {u}
    /\ Goes(c, "closed", Idle)
    /\ UNCHANGED <<disk, transfers, ledger, up, history, bounds>>

(* The answer of a request that opens a session, the accounts unchanged. *)
Enters(c, next) ==
    /\ up
    /\ Goes(c, "closed", next)
    /\ UNCHANGED <<disk, accounts, transfers, ledger, up, history, bounds>>

(* The e-mail address must be UNIQUE. *)
SignUpRefused(c, u) ==
    /\ u \in accounts
    /\ Enters(c, [Idle EXCEPT !.at = "refused"])

(* LOGN, login_user: there is such an account and the password is right. *)
LogIn(c, u) ==
    /\ u \in accounts
    /\ Enters(c, [Idle EXCEPT !.owner = u, !.user = u])

(* The owner is taken from the request before the password is looked at. *)
LogInRefused(c, u) == Enters(c, [Idle EXCEPT !.at = "refused", !.owner = u])

(* Variant: the client goes on with the connection. *)
StaysOn(c) == Moves(c, "refused", "ready")

(* The client closes a socket that was refused. *)
HangsUp(c) == Fails(c, "refused")

Refused(c) ==
    /\ HangsUp(c)
    /\ UNCHANGED <<disk, accounts, transfers, ledger, up, history, bounds>>

(* The connection ends between two requests, or the answer to an upload   *)
(* does not arrive.  A thread that handles a request ends it first.  What *)
(* the connection has in active_transfers stays there.                    *)
Disconnect(c) ==
    /\ \E s \in {"ready", "sending", "saved"} : Fails(c, s)
    /\ UNCHANGED <<disk, accounts, transfers, ledger, up, history, bounds>>

-----------------------------------------------------------------------------
(* Uploads. *)

(* UPLD: handle_upload_init. *)
BeginUpload(c, n, d) ==
    LET t == Len(jobs) + 1
        new == [name |-> n, chunks |-> [i \in 1..Len(d) |-> NoOne],
                owner |-> thread[c].owner]
    IN  /\ t <= MaxUploads
        /\ Goes(c, "ready", [thread[c] EXCEPT !.at = "sending", !.tid = t])
        /\ jobs' = Append(jobs, [name |-> n, data |-> d, user |-> thread[c].user])
        /\ transfers' = [u \in DOMAIN transfers \cup {t} |->
                            IF u = t THEN new ELSE transfers[u]]
        /\ UNCHANGED <<disk, accounts, ledger, up, acked, marks, bounds>>

(* CHNK: a chunk without bytes is refused, which the client does not see. *)
SendChunk(c) ==
    LET t == thread[c].tid
        k == thread[c].sent + 1
    IN  /\ Goes(c, "sending", [thread[c] EXCEPT !.sent = k])
        /\ k <= Len(jobs[t].data)
        /\ transfers' = IF jobs[t].data[k] = NoBytes THEN transfers
                        ELSE [transfers EXCEPT ![t].chunks[k] = jobs[t].data[k]]
        /\ UNCHANGED <<disk, accounts, ledger, up, history, bounds>>

(* DONE arrives: the transfer leaves active_transfers, whatever follows. *)
PopTransfer(c) ==
    /\ thread[c].at = "sending"
    /\ thread[c].sent = Len(jobs[thread[c].tid].data)
    /\ transfers' = [t \in DOMAIN transfers \ {thread[c].tid} |-> transfers[t]]

(* Variant: what did not arrive is left out, and the digest decides. *)
RightDigest(t) ==
    SelectSeq(transfers[t].chunks, LAMBDA b : b # NoOne) = Bytes(jobs[t].data)

(* All chunks are there, and together they have the digest in the request. *)
Complete(t) ==
    /\ \A i \in DOMAIN transfers[t].chunks : transfers[t].chunks[i] # NoOne
    /\ transfers[t].chunks = Bytes(jobs[t].data)

RefuseUpload(c) ==
    /\ PopTransfer(c)
    /\ ~ Complete(thread[c].tid)
    /\ Answered(c, "sending")
    /\ UNCHANGED <<disk, accounts, ledger, up, history, bounds>>

(* handle_upload_done up to the open of the file, which empties it.  The  *)
(* record is made of what the transfer held.                              *)
OpenUpload(c) ==
    LET id == thread[c].tid
        t == transfers[id]
        record == [id |-> id, owner |-> t.owner, name |-> t.name, hash |-> t.chunks]
    IN  /\ PopTransfer(c)
        /\ Complete(id)
        /\ \E i \in Inodes :
             /\ OpensForWriting(uploads, t.name, i)
             /\ Goes(c, "sending", [thread[c] EXCEPT !.at = "opened", !.fd = i, !.tx = record])
        /\ UNCHANGED <<trash, starred, accounts, ledger, up, history, bounds>>

WriteFile(c) ==
    /\ Goes(c, "opened", [thread[c] EXCEPT !.at = "stored", !.fd = NoOne])
    /\ content' = [content EXCEPT ![thread[c].fd] = Overwrite(thread[c].tx.hash, @)]
    /\ UNCHANGED <<uploads, trash, starred, accounts, transfers, ledger, up, history, bounds>>

(* Variant: the ledger is used without chain_lock. *)
NoLocking(c) == UNCHANGED lock

(* with chain_lock: the lock is not reentrant. *)
Acquire(c) == lock = NoOne /\ lock' = c

Release == lock' = NoOne

(* add_transaction, and mine_pending_transactions up to the search for a  *)
(* nonce: the block holds the pool as it is now.                          *)
StartMining(c) ==
    LET pool == pending \cup {thread[c].tx}
    IN  /\ Goes(c, "stored", [thread[c] EXCEPT !.at = "mining",
                                 !.block = [index |-> Len(chain), txs |-> pool]])
        /\ Acquire(c)
        /\ pending' = pool
        /\ UNCHANGED <<disk, accounts, transfers, chain, saved, up, history, bounds>>

(* The nonce is found, and the block goes on the chain. *)
Mines(c, next) ==
    /\ Moves(c, "mining", next)
    /\ chain' = Append(chain, thread[c].block)
    /\ pending' = {}
    /\ UNCHANGED <<disk, accounts, transfers, saved, up, history, bounds>>

(* Variants: the answer does not wait for the chain to be saved; the chain *)
(* is saved before chain_lock is released.                                 *)
AnswersUnsaved(c)  == Mines(c, "saved") /\ Release
SavesInsideLock(c) == Mines(c, "mined") /\ UNCHANGED lock

FinishMining(c) == Mines(c, "mined") /\ Release

(* save_blockchain takes the lock again; save serialises the chain, then  *)
(* opens the file, which empties it.                                      *)
StartSave(c) ==
    /\ Goes(c, "mined", [thread[c] EXCEPT !.at = "saving", !.snap = chain])
    /\ Acquire(c)
    /\ saved' = Torn
    /\ UNCHANGED <<disk, accounts, transfers, chain, pending, up, history, bounds>>

FinishSave(c) ==
    /\ Moves(c, "saving", "saved")
    /\ Release
    /\ saved' = thread[c].snap
    /\ UNCHANGED <<disk, accounts, transfers, chain, pending, up, history, bounds>>

(* DONE~OK reaches the client. *)
Acknowledge(c) ==
    /\ Answered(c, "saved")
    /\ acked' = acked \cup {thread[c].tid}
    /\ UNCHANGED <<disk, accounts, transfers, ledger, up, jobs, marks, bounds>>

-----------------------------------------------------------------------------
(* Requests about a file.  Each looks whether the path exists, and acts   *)
(* later; what it acts on may be gone by then.  One that finds nothing to *)
(* act on at once is answered FAIL and changes nothing.                   *)

offDisk == <<accounts, transfers, ledger, up, jobs, acked>>

Looks(c, n, a, s) ==
    /\ actions < MaxActions
    /\ actions' = actions + 1
    /\ Goes(c, "ready", [thread[c] EXCEPT !.at = s, !.act = a, !.target = n])
    /\ UNCHANGED <<disk, offDisk, marks, crashes>>

Star(c, n) ==
    \/ starred[n] # NoOne /\ Looks(c, n, "star", "unstarring")
    \/ starred[n] = NoOne /\ uploads[n] # NoOne /\ Looks(c, n, "star", "sourcing")

Delete(c, n)  == uploads[n] # NoOne /\ Looks(c, n, "delete", "moving")
Restore(c, n) == trash[n] # NoOne /\ Looks(c, n, "restore", "moving")
Purge(c, n)   == trash[n] # NoOne /\ Looks(c, n, "purge", "purging")

(* The directories that the file of a request is moved or copied between. *)
From(c) == IF thread[c].act = "restore" THEN trash ELSE uploads

To(c) == CASE thread[c].act = "star"    -> starred
           [] thread[c].act = "restore" -> uploads
           [] OTHER                     -> trash

(* Variant: the target of a move is removed when the source is gone. *)
LosesOnMiss(n, from, to) ==
    /\ from' = [from EXCEPT ![n] = NoOne]
    /\ to' = [to EXCEPT ![n] = from[n]]

(* os.rename: it replaces what has the name already. *)
Renames(n, from, to) ==
    IF from[n] = NoOne THEN UNCHANGED <<from, to>>
    ELSE /\ from' = [from EXCEPT ![n] = NoOne]
         /\ to' = [to EXCEPT ![n] = from[n]]

(* shutil.move renames the file; if that raises, it copies it with copy2, *)
(* for which the file may be there again, and unlinks it.                 *)
MoveToTrash(c) ==
    LET n == thread[c].target
    IN  /\ thread[c].at = "moving" /\ thread[c].act = "delete"
        /\ Renames(n, uploads, trash)
        /\ Moves(c, "moving", IF uploads[n] = NoOne THEN "sourcing" ELSE "clearing")
        /\ UNCHANGED <<starred, content, offDisk, marks, bounds>>

MoveBack(c) ==
    LET n == thread[c].target
    IN  /\ thread[c].at = "moving" /\ thread[c].act = "restore"
        /\ Renames(n, trash, uploads)
        /\ IF trash[n] = NoOne THEN Moves(c, "moving", "sourcing") ELSE Answered(c, "moving")
        /\ UNCHANGED <<starred, content, offDisk, marks, bounds>>

(* copy2, of a move or a star, opens the source, and then the target. *)
OpenSource(c) ==
    LET i == From(c)[thread[c].target]
    IN  /\ thread[c].at = "sourcing"
        /\ IF i = NoOne THEN Fails(c, "sourcing")
           ELSE Goes(c, "sourcing", [thread[c] EXCEPT !.at = "targeting", !.src = i])
        /\ UNCHANGED <<disk, offDisk, marks, bounds>>

(* The open empties the target, which may be the file opened as source: a *)
(* file that is moved while it is open stays open.                        *)
OpensTarget(c, dir) ==
    /\ thread[c].at = "targeting"
    /\ \E i \in Inodes :
         /\ OpensForWriting(dir, thread[c].target, i)
         /\ Goes(c, "targeting", [thread[c] EXCEPT !.at = "copying", !.fd = i])
    /\ UNCHANGED <<offDisk, purged, bounds>>

OpenStarred(c) ==
    /\ thread[c].act = "star"
    /\ OpensTarget(c, starred)
    /\ UNCHANGED <<uploads, trash, copied>>

OpenMoved(c) ==
    /\ \/ thread[c].act = "delete" /\ OpensTarget(c, trash) /\ UNCHANGED uploads
       \/ thread[c].act = "restore" /\ OpensTarget(c, uploads) /\ UNCHANGED trash
    /\ copied' = copied \cup {thread[c].target}
    /\ UNCHANGED starred

CopyBytes(c) ==
    /\ Goes(c, "copying", [thread[c] EXCEPT !.at = "stamping", !.src = NoOne, !.fd = NoOne])
    /\ content' = [content EXCEPT ![thread[c].fd] = Overwrite(content[thread[c].src], @)]
    /\ UNCHANGED <<uploads, trash, starred, offDisk, marks, bounds>>

(* copystat looks both files up by name again. *)
CopyTimes(c) ==
    LET n == thread[c].target
    IN  /\ thread[c].at = "stamping"
        /\ IF From(c)[n] = NoOne \/ To(c)[n] = NoOne THEN Fails(c, "stamping")
           ELSE IF thread[c].act = "star" THEN Answered(c, "stamping")
           ELSE Moves(c, "stamping", "unlinking")
        /\ UNCHANGED <<disk, offDisk, marks, bounds>>

(* os.remove or os.unlink of the name in directory dir, and what follows. *)
Removes(c, s, dir, then) ==
    /\ thread[c].at = s
    /\ dir' = [dir EXCEPT ![thread[c].target] = NoOne]
    /\ IF dir[thread[c].target] = NoOne THEN Fails(c, s) ELSE then
    /\ UNCHANGED <<content, offDisk, copied, bounds>>

(* The end of a move: whatever has the name of the source is unlinked. *)
Unlink(c) ==
    /\ \/ /\ thread[c].act = "delete"
          /\ Removes(c, "unlinking", uploads, Moves(c, "unlinking", "clearing"))
          /\ UNCHANGED trash
       \/ /\ thread[c].act = "restore"
          /\ Removes(c, "unlinking", trash, Answered(c, "unlinking"))
          /\ UNCHANGED uploads
    /\ UNCHANGED <<starred, purged>>

(* handle_delete goes on with the starred copy, if it sees one. *)
ClearStar(c) ==
    /\ thread[c].at = "clearing"
    /\ IF starred[thread[c].target] = NoOne THEN Answered(c, "clearing")
       ELSE Moves(c, "clearing", "unstarring")
    /\ UNCHANGED <<disk, offDisk, marks, bounds>>

Unstar(c) ==
    /\ Removes(c, "unstarring", starred, Answered(c, "unstarring"))
    /\ UNCHANGED <<uploads, trash, purged>>

PurgeFromTrash(c) ==
    /\ Removes(c, "purging", trash, Answered(c, "purging"))
    /\ purged' = purged \cup {thread[c].target}
    /\ UNCHANGED <<uploads, starred>>

-----------------------------------------------------------------------------
(* The process dies; files and database stay as they are. *)
Crash ==
    /\ up
    /\ crashes < MaxCrashes
    /\ crashes' = crashes + 1
    /\ up' = FALSE
    /\ transfers' = [t \in {} |-> {}]
    /\ chain' = <<Genesis>>
    /\ pending' = {}
    /\ lock' = NoOne
    /\ thread' = [c \in Conns |-> Closed]
    /\ UNCHANGED <<disk, accounts, saved, history, actions>>

Starts(loaded) ==
    /\ ~ up
    /\ saved # Torn
    /\ up' = TRUE
    /\ chain' = loaded
    /\ UNCHANGED <<disk, accounts, transfers, pending, lock, saved, thread, history, bounds>>

(* Variant: the server begins a new chain whatever is in the file. *)
StartAfresh == Starts(<<Genesis>>)

(* init_blockchain.  A torn file does not parse: the server never starts. *)
Start == Starts(SavedChain)

FinishUpload(c) ==
    \/ OpenUpload(c) \/ RefuseUpload(c) \/ WriteFile(c) \/ StartMining(c)
    \/ FinishMining(c) \/ StartSave(c) \/ FinishSave(c) \/ Acknowledge(c)

FileStep(c) ==
    \/ MoveToTrash(c) \/ MoveBack(c) \/ OpenSource(c) \/ OpenStarred(c) \/ OpenMoved(c)
    \/ CopyBytes(c) \/ CopyTimes(c) \/ Unlink(c)
    \/ ClearStar(c) \/ Unstar(c) \/ PurgeFromTrash(c)

Next ==
    \/ \E c \in Conns, u \in Users :
         SignUp(c, u) \/ SignUpRefused(c, u) \/ LogIn(c, u) \/ LogInRefused(c, u)
    \/ \E c \in Conns, n \in Names, d \in Data : BeginUpload(c, n, d)
    \/ \E c \in Conns, n \in Names :
         Star(c, n) \/ Delete(c, n) \/ Restore(c, n) \/ Purge(c, n)
    \/ \E c \in Conns :
         SendChunk(c) \/ FinishUpload(c) \/ FileStep(c) \/ Disconnect(c) \/ Refused(c)
    \/ Crash
    \/ Start

Spec == Init /\ [][Next]_vars

(* Threads and clients with a request under way are scheduled. *)
Fairness == \A c \in Conns : WF_vars(SendChunk(c) \/ FinishUpload(c) \/ FileStep(c))

FairSpec == Spec /\ Fairness

-----------------------------------------------------------------------------
(* Properties. *)

Directory == [Names -> Inodes \cup {NoOne}]

(* Every variable has its type. *)
TypeOK ==
    /\ uploads \in Directory /\ trash \in Directory /\ starred \in Directory
    /\ content \in [Inodes -> Seq(Chunks)]
    /\ accounts \subseteq Users
    /\ DOMAIN transfers \subseteq DOMAIN jobs
    /\ \A t \in DOMAIN transfers : transfers[t] \in Transfer
    /\ chain \in Seq(Block)
    /\ pending \subseteq Tx
    /\ lock \in Conns \cup {NoOne}
    /\ saved \in Seq(Block) \cup {NoOne, Torn}
    /\ up \in BOOLEAN
    /\ thread \in [Conns -> Thread]
    /\ jobs \in Seq([name : Names, data : Data, user : Users \cup {NoOne}])
    /\ acked \subseteq DOMAIN jobs
    /\ purged \subseteq Names /\ copied \subseteq Names
    /\ actions \in 0..MaxActions
    /\ crashes \in 0..MaxCrashes

Recorded(c) == UNION {c[i].txs : i \in DOMAIN c}

(* The ids of the uploads that chain c records. *)
Ids(c) == {t.id : t \in Recorded(c)}

(* Every upload answered with DONE~OK is in the chain file, and stays in   *)
(* it through crashes and later saves, unless the file was torn           *)
(* (handle_upload_done answers after save_blockchain).                    *)
AckedIsSaved == saved # Torn => acked \subseteq Ids(SavedChain)

(* Threads that finish uploads at the same time do not record one twice,  *)
(* and give each block the next index (what chain_lock is for).           *)
RecordedOnce ==
    \A i, j \in DOMAIN chain :
        /\ chain[i].index = i - 1
        /\ i # j => Ids(<<chain[i]>>) \cap Ids(<<chain[j]>>) = {}

(* What the chain file holds is the ledger or an earlier state of it, and *)
(* so is what a thread is about to write: a save loses nothing.           *)
SavedIsPast ==
    up => /\ saved # Torn => IsPrefix(SavedChain, chain)
          /\ \A c \in Conns : thread[c].at = "saving" => thread[c].snap = chain

(* An upload that was answered with DONE~OK, under a name that no other   *)
(* upload had, is on the disk whole until the name is purged, among the   *)
(* uploads or in the trash, however requests and crashes interleave with  *)
(* its writing.  Excepted is a file that a move had to copy: its rename   *)
(* found the file gone and its copy found it there again, and then other  *)
(* requests about the name may have it emptied or lost.                   *)
AckedIsKept ==
    \A t \in acked :
        LET n == jobs[t].name
        IN  \/ n \in purged \cup copied
            \/ \E u \in DOMAIN jobs \ {t} : jobs[u].name = n
            \/ \E dir \in {uploads, trash} :
                   dir[n] # NoOne /\ content[dir[n]] = Bytes(jobs[t].data)

(* A record names the account that its client was logged in to, and nobody *)
(* if the client was let in by signing up, although session_owner is set   *)
(* from a LOGN request that may be refused, and the record is made of what *)
(* the transfer held.                                                      *)
OwnersAreRight == \A t \in Recorded(chain) \cup pending : t.owner = jobs[t.id].user

(* The batches of uploads that chain c records. *)
Batches(c) == [i \in DOMAIN c |-> Ids(<<c[i]>>)]

(* However threads, crashes and saves interleave, the server does what     *)
(* ReceiptLedger says; no batch at all stands for a file that is torn.     *)
Receipts == INSTANCE ReceiptLedger WITH
    log <- Batches(chain),
    durable <- IF saved = Torn THEN <<>> ELSE Batches(SavedChain),
    answered <- acked,
    running <- up,
    Unreadable <- <<>>

ImplementsReceipts == Receipts!Spec

(* An upload that is begun is over some day: chain_lock is free again     *)
(* for every thread that waits for it, and no request hangs.              *)
UploadEnds == \A c \in Conns : thread[c].at = "sending" ~> thread[c].at \in {"ready", "closed"}

(* README.md: "Every major system transaction, upload, ... is written to  *)
(* an immutable, JSON-backed blockchain ledger": once no upload is being  *)
(* finished, what lies in uploads/ under a name is what some record says. *)
FilesAreRecorded ==
    (\A c \in Conns : thread[c].at \notin {"opened", "stored", "mining"}) =>
        \A n \in Names : uploads[n] # NoOne =>
            \E t \in Recorded(chain) : t.name = n /\ t.hash = content[uploads[n]]
=============================================================================
