# Cloudmer: specifications, model checking and proofs

TLA+ models of the Python sources in `src/`, the TLC runs that check them and
the TLAPS proofs about them. A definition keeps the name of the code it models
where TLA+ allows it; `PROJECT.json` lists for each one the lines it stands for.

## 1. The system

Cloudmer stores files of users on a server and records each upload on a
blockchain that the servers of a peer-to-peer network share.

| Component | Source | State | Operations |
|---|---|---|---|
| Blockchain ledger | `blockchain.py` | `chain`, `pending_transactions` | queue a transaction, mine the pool, validate, replace by a longer chain, save and load, query metadata and access |
| P2P node | `p2p.py` | its ledger, `peers`, `_seen_block_hashes`, the chain file, its threads | submit and receive transactions, mine, broadcast, receive and gossip blocks, sync chains, HELLO handshake, restart |
| Upload server | `cloudmer_SRV.py`, `cloudmer_SRV_p2p_patch.py` | `active_transfers`, `session_owner`, `chain_lock`, files under `uploads/`, `.trash/`, `.starred/`, a ledger | login, sign up, list, start / chunk / finish an upload, download, star, delete, restore, purge, ledger queries |
| Client | `cloudmer_CLIENT.py` | one socket, the lock `_sock_lock`, lists for the window | requests under the lock, a polling thread, upload and download loops |
| Framing, session encryption | `tcp_by_size.py`, `aes_functions.py` | bytes already read | length-prefixed frames, AES per frame |
| RAID-5 store | `raid5.py` | disks, failed disks | write, read, fail, recover |
| Accounts | `database.py` | users with salted password hashes | insert, look up, verify |
| Cryptographic helpers | `crypto.py` | none | sign and verify metadata, split and join chunks |
| User interface | `main.qml`, `BlockchainView.qml` | view state | none of its own |

How they interact:

- The client holds one encrypted TCP connection to the upload server; requests
  are answered one by one, and a polling thread shares the connection with the
  user's actions through a lock.
- A finished upload appends a transaction: the server of `cloudmer_SRV.py` mines
  it at once on its own ledger, the patched one hands it to its P2P node
  (`submit_transaction`).
- Nodes talk over short connections, one message each. `NEW_TX` and `NEW_BLOCK`
  get no answer; `GET_CHAIN` and `HELLO` do.
- A node runs an accept thread, one thread per incoming connection, a mining
  thread, a sync thread and threads for gossip; `_chain_lock` protects the chain
  and the pool, nothing protects the peers, the seen hashes or the chain file.

What is hard, and therefore modelled first: nodes that mine the same pool at the
same time, blocks that overtake transactions and each other, chains that are
fetched, become stale and are applied, peers forgotten after timeouts, restarts
with and without a chain file. The hazards, each at its line, are in
`PROJECT.json`.

What makes each component correct:

- Ledger and node: every chain a node holds is valid by its own difficulty;
  indices are positions; chains that share a block share its past; a chain is
  only ever extended or replaced by a longer valid one; an upload gets into a
  block, once; a node catches up with its peers.
- Upload server: an upload that was answered is in the chain file and on the disk,
  whole, until its name is purged; each is recorded once, for the account its
  client was logged in to. Two requests about one name can lose a file that a move
  had to copy, see section 3.
- Session: the answer a client reads belongs to the request it sent, and an exchange
  ends. Neither holds after an acknowledgement that was late, and a thread waits
  for ever when a reply was not, or not wholly, sent; what is stored and saved is
  whole in any case.
- Patched server: a record that was answered is kept, mined and saved, but for a
  crash before that, a longer chain of another node and a record of the same content;
  what is mined links to the tip it is put on.
- RAID-5: what is read after at most one failure is what was written. Nothing is
  promised after a second one: the code reads wrong data then and does not notice.
- Chain file: after a crash the server loads a chain it once held, or does not start
  because the crash tore the file.

## 2. Plan

| Step | Modules | Composes | State |
|---|---|---|---|
| 1 | `Blockchain`, `P2PNode`, `LongestChain`, `MCP2PNode` | `P2PNode` on `Blockchain`; `LongestChain` is its abstraction | done |
| 2 | `P2PNodeProofs` | theorems about `P2PNode` | done |
| 3 | `UploadServer`, `MCUploadServer`: transfers, file store, ledger, chain file, crashes; clients interleaved | | done |
| 4 | `Session`, `MCSession`: requests and answers on one connection, the 0.1 s time-out, the client's lock | | done |
| 5 | `RAID5`, `MCRAID5`, `RAID5Proofs` | theorems about `RAID5` | done |
| 6 | `PatchedServer`, `MCPatchedServer`: the server whose ledger is a P2P node, the threads of that node, the chain file they write, crashes | `Blockchain`; its steps are those of `LongestChain` | done |
| 7 | `ReceiptLedger`, `FileTransfer`: what an answered upload and a transfer promise | implemented by `UploadServer` and `Session` | done |
| 8 | `BlockchainProofs`, `PatchedServerProofs` | lemmas on chains for `P2PNodeProofs` too; theorems about `PatchedServer` | done |
| 9 | `UploadServerProofs`, `UploadLedgerProofs`, `UploadFilesProofs` | theorems about `UploadServer`: types, ledger, files | done |
| 10 | `SessionProofs` | theorems about `Session` | done |

The safety properties and refinements of all passing runs are proved. What is left
to the runs alone is in the last part of section 5.

Grants, revocations and deletions of files on the ledger (`make_grant_tx`,
`make_revoke_tx`, `make_delete_tx`, `check_access`) were to be a module
`AccessLedger`. No part of the program makes such a transaction or asks
`check_access`, so that there is no behaviour to check it in; the one query
whose answer depends on what threads do, `get_file_metadata`, is in
`PatchedServer`.

## 3. The modules

### Blockchain

Operators on chains. A chain is a sequence of blocks; `self.chain[i]` of the
code is `c[i + 1]` here. SHA-256 is a collision-free name `<<maker, k>>`, the
k-th hash that maker has produced; the number of leading zeros, all that the
proof of work looks at, is the field `work`, so that `is_valid_proof` is
`work >= difficulty`. Blocks are not altered after they are made, hence
`hash = compute_hash()` holds and is left out. Transactions are model values with
a file hash; the reward transaction has none and is left out. `Founder` is the
maker of a chain file from before the network, such as `src/chain.json`.

### P2PNode

One function per field over the set of nodes, plus the network. A node dials
`Addresses`, the strings `host:port`: `Host[n][a]` is the node that `n` reaches at
`a`, or `Nobody`. `NodeId[n]` is what `n` calls itself. `UploadedTo[t]` are the nodes
whose upload server the client of `t` may use.

| Variable | Code |
|---|---|
| `chain`, `pending`, `peers`, `seen` | `blockchain.chain`, `pending_transactions`, `peers`, `_seen_block_hashes` |
| `saved` | the file at `chain_path` exists; it then holds `chain[n]` |
| `sending` | broadcasts under way: thread, message, peers to try, peers found dead |
| `inbox` | one-way messages sent and not yet handled |
| `syncing`, `replies` | peers the sync threads have still to ask; chains answered and not yet applied |
| `minted` | number of hashes a node has produced |
| `submitted`, `failures`, `connects`, `restarts` | which uploads have happened; how much of each bound is used |

| Action | Code |
|---|---|
| `Submit`, `AddIncomingTx` | `submit_transaction`; `NEW_TX` in `_dispatch` |
| `Mine` | one round of `_mining_loop` up to its broadcast |
| `Deliver`, `DeliveryFails`, `EndBroadcast` | `send_to_peer` inside `broadcast` / `_gossip_block`, and their last line |
| `IgnoreBlock`, `SyncForBlock`, `AcceptBlock` | the outcomes of `_receive_block` |
| `StartSync`, `FetchChain`, `FetchFails`, `ApplyChain` | `_sync_loop` and `sync_chain`, `GET_CHAIN` |
| `Connect`, `ConnectFails` | `connect_to_peer` with `HELLO` |
| `Restart` | a process that stops, and `__init__` |

Choices a reader should know:

- A broadcast copies the peer list in the step that begins it. The code copies
  it a few statements later in the same thread; only the peers may differ.
- `send_to_peer` of a one-way message is one step: the message is delivered and
  the sender, which gets no answer, counts the peer as dead. The peers are
  removed when the loop ends (`EndBroadcast`), which is a step of its own.
- Messages form a set: they are delivered in any order and any time later. Two
  copies of a block on their way to one node are one, as the second is always
  ignored through `_seen_block_hashes`.
- `_receive_block` tests and adds the hash before it takes the lock. The model
  does so in one step with the rest; a second copy in between is either ignored
  by hash or by index.
- The HELLO handshake is one step. Only peer sets, which are hints, depend on it.
- The threads that sync are not told apart; a periodic sweep begins when no sync
  of that node is under way.
- `_persist_chain` is part of the step that changes the chain and always
  succeeds. `PatchedServer` takes it apart.
- A name is not an address. The program starts every server with the host
  `0.0.0.0` and the name `server:6000` (`cloudmer_SRV_p2p_patch.py:100-106`), sends
  that name in its HELLO, and only `connect_to_peer` compares it with the address
  that is dialled. The node that answers a HELLO adds the name it is told without
  looking whether it is its own (`p2p.py:235-236`). So a node may become its own
  peer, under the name or under another address, and keep a peer that leads to
  nobody; whom the name `server` leads to is a matter of the machine it is
  looked up on, which `Host` leaves open. No property says that a node is not its
  own peer.
- A connection to `Nobody` always fails; one to a node fails at most `MaxFailures`
  times (`ConnectionFails`).
- `_gossip_block` means to leave out the sender, but compares a peer's address
  with that of an incoming connection, which has an ephemeral port; the model
  sends to all peers.

### LongestChain

The abstract specification: each node has one chain; it is extended by a valid
block, replaced by a longer valid chain, or, if nothing is saved, begun again.
It uses no operator of `Blockchain`, so that a change there cannot change what is
promised. `P2PNode` implements it with `chain` and `saved` as they are, and the
one chain of `PatchedServer` is a ledger of it while the process runs.

### MCP2PNode

Values for TLC: file hashes that are all different, difficulties that are equal or
not, nodes that take any upload or one each, names that are the nodes' own addresses
(`OwnAddress`) or all `server` as in the program (`OneName`), that name leading to
nobody or to the first node (`ServerIsNobody`, `ServerIsFirst`), and the symmetry of
nodes and uploads.

### PatchedServer

The server of `cloudmer_SRV_p2p_patch.py` answers an upload when its record is in
the pool of the P2P node in the same process. `P2PNode` has many nodes whose steps
are coarse; this module has one node, whose threads take the steps of the code:
they hold `_chain_lock` or not, and write the chain file one over the other.

| Variable | Code |
|---|---|
| `chain`, `pool`, `lock` | `blockchain.chain`, `pending_transactions`, the holder of `_chain_lock` |
| `thread` | for the mining thread, the handler of `NEW_BLOCK` and the threads that replace the chain: where they are, the block being mined, the copy being written |
| `file` | the file at `CHAIN_PATH`: absent, no JSON (`Torn`), or a chain |
| `record` | for each upload here whether its file is stored and it is answered; for one elsewhere whether its `NEW_TX` came |
| `offers` | chains that other nodes hold or have held, and may send |
| `up`, `minted`, `overlapped`, `cut`, `crashes` | the process; hashes produced; whether the last save to end was alone, whether a crash cut one short; the bound used |

| Action | Code |
|---|---|
| `StoreFile`, `Submit` | `handle_upload_done` of the patch, up to the file and from there through `submit_transaction` |
| `AddIncomingTx` | `NEW_TX` in `_dispatch` |
| `SeeWork`, `GiveUp`, `StartMining`, `FinishMining` | `_mining_loop` with `mine_pending_transactions`, cut where the lock is taken or released |
| `AcceptBlock` | `_receive_block` up to its save |
| `ReplaceChain` | `replace_chain` in `sync_chain` and for `CHAIN` |
| `CopyChain`, `OpenFile`, `CloseFile` | `_persist_chain`: the list is made, `open` empties the file, the text is written and the file closed |
| `PeerMines` | the other nodes |
| `Crash`, `Start` | the process ends; `P2PNode.__init__` with `load` |

Choices a reader should know:

- Threads that have the file open at the same time write through offsets of their
  own, so that the file ends as the text of one of them or as a mixture, which is
  no JSON. Each that closes the file leaves its own copy or `Torn`, one of the two;
  what is certain is only what a thread leaves that wrote alone.
- Handlers of `NEW_BLOCK` hold the lock from their tests to the end of the save, so
  that one `Receiver` stands for all of them. A handler that finds a block not
  linked starts a sync, which is one of `Syncs`; when that happens is left open.
- Other nodes mine on any chain they have had or this node has had while they do.
  They start from this node's chain: a node with another genesis block is in
  `P2PNode`, and adds chains here that are replaced as a whole.
- The name of a hash and the field `work` are those of `Blockchain`.
- The broadcast that ends `submit_transaction` is part of `Submit`: it changes
  nothing here. An upload that is refused changes nothing either.
- A crash may happen at any step, and cuts an open file or leaves it whole.

### ReceiptLedger

What `DONE~OK` promises, without threads and locks: batches of uploads are put on
a log, the log is made durable, during which it is unreadable, and an upload is
answered only when the durable log has it or is being written. A crash leaves the
durable log. `UploadServer` implements it with the ids in its blocks for batches,
`chain.json` for the durable log, which is unreadable while the file is torn, and
`acked` for what is answered.

### UploadServer

The server of `cloudmer_SRV.py`: one thread per connection, and the client's
upload loop as far as the server sees it.

| Variable | Code |
|---|---|
| `uploads`, `trash`, `starred`, `content` | the three directories and the files on the disk; a directory maps a name to a file number (inode) |
| `accounts` | addresses in the table `users` |
| `transfers` | `active_transfers` |
| `chain`, `pending`, `lock` | `blockchain.chain`, `pending_transactions`, the holder of `chain_lock` |
| `saved` | `chain.json`: absent, torn (truncated and not yet written) or a chain |
| `up`, `thread` | the process; for each connection the stage its thread is at, and what it has in local variables |
| `jobs`, `acked`, `purged`, `copied`, `actions`, `crashes` | history: uploads begun, uploads answered with `DONE~OK`, names purged, names whose file a move copied; how much of the bounds is used |

| Action | Code |
|---|---|
| `SignUp`, `SignUpRefused` | `RGST`: `register_user`, with an address that is new or not |
| `LogIn`, `LogInRefused` | `LOGN`: `session_owner` is set, then `login_user` |
| `Refused`, `Disconnect` | the client closes a socket that was refused; the end of `handle_client` |
| `BeginUpload`, `SendChunk` | `handle_upload_init`, `handle_chunk` |
| `RefuseUpload`, `OpenUpload`, `WriteFile`, `StartMining`, `FinishMining`, `StartSave`, `FinishSave`, `Acknowledge` | `handle_upload_done`, cut where another thread can see a difference |
| `Star`, `Delete`, `Restore`, `Purge` | the test of `os.path.exists` in each handler |
| `MoveToTrash`, `MoveBack` | `os.rename` in the `shutil.move` of `handle_delete` and `handle_restore` |
| `OpenSource`, `OpenStarred`, `OpenMoved`, `CopyBytes`, `CopyTimes` | `shutil.copy2`: of `handle_star`, and of a `shutil.move` whose rename failed |
| `Unlink` | the `os.unlink` that ends such a move |
| `ClearStar`, `Unstar`, `PurgeFromTrash` | the rest of `handle_delete`, `os.remove` of a star, of a file in the trash |
| `Crash`, `Start` | the process ends; `init_blockchain` |

Choices a reader should know:

- The file system is POSIX: a rename replaces its target, and a file stays as
  long as a name or an open descriptor refers to it. Hence the inodes: a file
  that is moved to the trash while an upload has it open goes on being written.
- `open(path, "wb")` empties the file in one step, the write fills it in
  another. Writes of two threads to one file overwrite each other from the start.
- A rename inside one disk is one step. When its source is gone it raises, and
  `shutil.move` catches the error and does `copy2` and `os.unlink`: it opens the
  source, which another thread may have put back, opens the target, which empties
  it, copies, looks both names up again for `copystat`, and unlinks the name of the
  source, whatever file has it by then. Each is a step. `src` and `fd` keep a file in
  use that has no name left. The bytes are copied in one step. Errors of the disk
  itself are left out.
- Clients run the program as shipped: a chunk is sent after the answer to the
  one before, and a connection that was refused is closed. Between the two
  `session_owner` names an account that its client may not use. Requests about
  files that are answered `FAIL` change nothing.
- `thread[c].user` and `jobs[t].user` are history: the account the client was let
  in with, which the code does not keep.
- A handler that raises ends its session (`Fails`); a client that hangs up is
  noticed only between requests or when the last answer is sent.
- SHA-256 and MD5 are the contents themselves. The hash in the chain is not
  modelled again; a block is its index and its transactions.
- A restart with a torn chain file never succeeds, as `json.load` raises while
  the server starts.

That second way of a move can lose an answered upload that nobody purged. Without
`copied` in `AckedIsKept` TLC finds how, with two connections and four requests
about one name: two deletes see the file; one of them renames it, so that the
rename of the other fails; a restore puts the file back, and the second delete
opens it as the source of its copy; a third delete renames it to the trash; now
the second opens its target, which is the same file, and empties it. No text of
the repository denies this, so it is a limit and no finding: `AckedIsKept` excepts
names a move has copied, and says that there is no other way.

### Session

One connection, a client whose threads share it, and the server thread.

| Variable | Code |
|---|---|
| `toServer`, `toClient` | frames sent and not yet received, in order |
| `holder` | the thread that holds `_sock_lock` |
| `user` | for each client thread where it is in `_req`, `uploadFile` or `downloadFile`, with the local variables that matter later |
| `server` | where the server thread is: waiting for a request, for a chunk's payload, for an acknowledgement, or gone |
| `transfers`, `stored`, `saved` | `active_transfers`, the files in `uploads/`, the files the client has downloaded |
| `late`, `lost` | history: an acknowledgement came too late, a reply was not or not wholly sent, on this connection |
| `exchanges`, `ackTimeouts`, `losses`, `logins` | how much of the bounds is used |

| Action | Code |
|---|---|
| `Request`, `ReceiveAnswer` | `_req`, from the window or from the poller |
| `Upload`, `ReceiveTransferId`, `ReceiveChunkAnswer` | `uploadFile` |
| `Download`, `ReceiveOffer`, `ReceiveHeader`, `ReceivePayload` | `downloadFile` |
| `ReceiveNothing`, `Misreads` | `recv_with_AES` at the end of the stream, and when a frame is completed by the bytes of the next |
| `LogInAgain` | a logout and a login: new socket, new server thread |
| `HandleText`, `HandleUpload`, `HandleChunk`, `HandlePayload`, `HandleDone`, `HandleDownload`, `HandleAck` | the server's handlers, cut at each receive |
| `PayloadTimesOut`, `AckTimesOut`, `Breaks` | the receive with a time-out of 0.1 s, and its ends |

A reply is sent by one of `Answers`, `ServesChunk` and `Refuses`, operators of the
handlers; each has the ways in which it is not sent (`Loses`, at most `MaxLosses`
times).

Choices a reader should know:

- Messages carry the number of the exchange they belong to. It is history: the
  code has none, and no step reads it. `HandleUpload` uses it where the code
  draws a random transfer id.
- A receive that times out before a frame is an action of its own at each stage.
  One that times out inside a frame leaves the rest of the frame to be read as a
  length, which ends the thread; this is `Breaks`.
- The server's socket has its time-out for sending too. `sock.send` then raises, and
  nothing of the frame is sent, or takes a part of it, which `send_with_size` does
  not notice (`tcp_by_size.py:50`): that is a `Part`, and the client waits for the
  rest. A time-out that is raised is passed over by `handle_client`, which listens
  again (`cloudmer_SRV.py:484-485`), and caught by `handle_download` together with
  any other exception, such as that of an `open` of a file that was moved after the
  `isfile` (`cloudmer_SRV.py:301`, `306`, `339-342`): it returns without a reply. The
  client has no time-out, so a thread that waits for such a reply does so until the
  connection ends, and holds `_sock_lock` until then.
- Only a long frame is cut: the answer to a request, which may be a list or the
  chain, and the payload of a chunk. `send` waits until the socket has room and then
  takes what fits; the headers and short answers are taken to fit. The client's
  socket blocks, and sends all of a frame.
- A header that the client takes for one of a chunk gives the place of the payload
  by its second part, also that of an `ERRR` (`PlaceIn`): `ERRR~002` names the third
  chunk. `FilesAreWhole` rests on the digest there.
- Messages sent to a connection that is closed are lost; that the send might
  raise instead makes the client notice earlier what `ReceiveNothing` tells it.
- The bytes of a chunk are taken not to decode as text when they are read where
  a header is expected.
- Time-outs while the server waits for a request change nothing and are left out.
- An MD5 in a message is the sequence of chunks it was taken of, and stands for
  their number as well. The offer of a download is made of what is stored under
  the name, which after a late acknowledgement may be another file.

### FileTransfer

What uploads and downloads promise: each is one step that puts a whole file under
a name. While no acknowledgement was late, an upload is stored under its own name
and a download gives what is stored; afterwards names may be mixed up, parts of
files may not. `Session` implements it; the messages of an exchange are stutters.

### RAID5

`disks`, `failed`, `rows`, `padding` are the fields of `Raid5Storage`; `written`
and `lost` are history: what was written last and which disks have lost it. The
actions are `Write`, `Fail` (`simulate_disk_failure`) and `RecoverDisk`; `Read`
is an operator, since `read` changes nothing. A byte is one bit, as XOR works on
each bit alone. XOR is counted: a bit of the result is the number of ones
modulo 2, which needs no recursion and can be proved about. Nothing in the server
uses the store.

### Variants

A definition such as `AsLong` or `LinkedByIndex`, marked "Variant", is a
plausible mistake in the definition after it. It is used by no specification;
each property of a passing run fails when one of them is put in place.

## 4. The runs

| Run | Instance | Checks | Shows |
|---|---|---|---|
| `p2p_forks` | 2 nodes, 2 uploads, equal difficulty, chains of up to 3 blocks, 1 handshake, no failure, symmetry | `IndexIsPosition`, `PrefixAgreement`, `ImplementsLongestChain` | forks of length one and two, sync and gossip in every order |
| `p2p_faults` | 2 nodes of difficulty 0 and 1 that are both named `server`, a name that leads to the first; one with a chain file, 1 upload, 1 handshake, 1 failure, 1 restart | the same, `TypeOK`, `ChainsValid` | failures and restarts, genesis blocks that differ, blocks with too little work, a node that is its own peer |
| `p2p_liveness` | 2 nodes named `server`, a name that leads to nobody; only the first can be dialled; 1 upload to each node, 1 handshake, 1 failure, fair | `SubmittedIsMined`, `CatchUp` | an upload that comes while the miner broadcasts a block, also to nobody, gets into a block too; a kept peer is caught up with, through lost answers and sweeps |
| `patched_server` | 1 upload here and 1 elsewhere of one content, 2 blocks of other nodes, 1 thread that replaces chains, 1 crash, fair | `TypeOK`, `ChainIsValid`, `FileFollowsChain`, `AnsweredIsKept`, `RunsLongestChain`, `FoundInTheEnd`, `SavedInTheEnd` | mining, received blocks, a longer chain and up to three saves under way at once, and a crash at every step of them |
| `upload_ledger` | 2 connections, 1 name, 2 users of whom one signs up first, 2 uploads, of a file of two chunks or an empty one, no file requests, 2 crashes, fair | `AckedIsSaved`, `RecordedOnce`, `SavedIsPast`, `OwnersAreRight`, `UploadEnds`, `ImplementsReceipts` | uploads of two accounts that finish together, refused logins and sign-ups, and a crash at every step of them |
| `upload_files` | 2 connections, 1 name, 1 user, 2 uploads, of a file of one chunk or an empty one, 4 file requests, 1 crash, 7 inodes | `TypeOK`, `AckedIsKept` | uploads and requests about one file in every order of their steps, the copy of a move whose rename failed among them |
| `session` | 2 client threads, 3 files of one or three chunks, one of them on the server, 4 exchanges, 1 late acknowledgement, 1 reply not or not wholly sent, 1 new login, fair | `TypeOK`, `AnswersBelongInTime`, `UploadUnbroken`, `FilesKeepTheirNames`, `FilesAreWhole`, `ExchangesEnd`, `ImplementsFileTransfer` | exchanges that follow each other on one connection, with every time-out and failure |
| `raid5` | 3 disks, blocks of 2 bytes, all data of 0, 1, 4 and 5 bytes and some of 15 | `TypeOK`, `SurvivesOneFailure` | writes, failures and recoveries in any order; all places of the parity |
| `p2p_live_peers` | 2 nodes named `server`, a name that leads to the first; 1 upload, 1 handshake, no failure | `LivePeersKept` | violated: see findings |
| `p2p_duplicate_tx` | 2 nodes named by their own addresses, 1 upload, 1 handshake, no failure | `TxOnceOnChain` | violated: see findings |
| `upload_same_name` | 2 connections, 1 user, 2 uploads, of a file of two chunks or of one, no file requests, no crash | `FilesAreRecorded` | violated: see findings |
| `session_late_ack` | as `session`, every reply is sent | `AnswersBelong` | violated: see findings |

Bounds, P2P. Two uploads make two nodes fork, since each node mines what it holds and
each upload can be mined by both; chains of three blocks let a fork of one block
lose against one of two. `MaxHeight` stops mining in `p2p_forks` only; in the
other runs the number of uploads already bounds the chains. One handshake makes
both nodes peers, or one node a peer of itself; nothing a node does depends on how
it came to know a peer, so that a second would add no new kind of step. `p2p_liveness`
has two uploads because the miner must be away with the block of one when the other
comes, for a broadcast to the peer that the handshake gave; which node each is uploaded
to (`UploadedTo`) is fixed there, and open in the other runs. The nodes of `p2p_forks`
are named by their addresses and may be exchanged; in the other passing runs they are
named as in the program. Deadlock is not checked except in `raid5`: when the bounded events are used up and the messages handled,
nothing has to happen any more. Symmetry is used only where no liveness is checked.

Bounds, patched server. Two records of one content meet in the pool, on rival
chains, and in a block that drops the other. Two blocks of other nodes are what a
chain needs to win against one block of this node, and a second rival to come
while the first is saved. One thread that replaces the chain, the receiver and
the miner make three writers of one file; a fourth adds no new pair. One crash
with the start after it: a start needs only the file, and `FileFollowsChain` says
what the file is at every step.

Bounds, upload server. Every race of the handlers is one of two threads: two
uploads of one name, or an upload and a request about its file, or two such
requests. `upload_ledger` has two crashes, the second of a server that has loaded
a file, and no file requests, which do not touch the ledger. `upload_files` has one
crash, and four requests, the number that the loss described in section 3 needs: two
that see a file, one that puts it back and one that takes it away. A name in each of
three directories and two descriptors in each of two threads make seven files the
most that can be in use. Two users, so that a record could name the wrong one.

Bounds, session. Four exchanges: two that go wrong with each other, one that
reads what they leave, one on the connection after it. The file of three chunks has
a chunk that is neither the first nor the last, so that messages can be left over in
the middle, and the place that `ERRR~002` names. One loss leaves one thread without
an answer, and there is only one that can wait for it.
`FilesKeepTheirNames` says nothing once an acknowledgement has come too late (its
guard is `ackTimeouts = 0`), and fails without it, which is the finding below; lost
and cut replies are inside what it covers. `ExchangesEnd` excepts a connection on which
an acknowledgement was late or a reply was not wholly sent: there a thread does
wait for ever.

Bounds, RAID-5. The data of 15 bytes fill four rows, more than the three places
of the parity; together the lengths leave one of the four remainders that a
padding has to deal with to the proofs, which cover them all.

Fairness of the P2P nodes (`Fairness` in `P2PNode`). Weak fairness for mining,
broadcasting, handling of messages, the periodic sweep and the processing of an
answer: all are threads
that the system schedules and none blocks for ever, because every network call
has a timeout. Strong fairness for `FetchChain` from an address that leads to a
node: a peer asked again and again answers in the end. Weak fairness for
`FetchFails` at an address that leads to nobody, for the same time-out. Uploads,
handshakes, other failures and restarts are not fair.

Fairness of the patched server. Weak fairness for the mining thread, for each
thread that saves, and for the end of an upload whose file is stored. All are
threads of the system; none waits for another node. The lock is free again after
each search for a nonce and each save, of which a bounded behaviour has finitely
many, so that weak fairness is enough for those who wait for it. Nothing is fair
about other nodes, clients, crashes and starts.

Fairness of the upload server and the session. Weak fairness for each server
thread, and for the client threads that have something to receive: they are
scheduled by the system, and the client's socket has no time-out. `chain_lock`
needs no strong fairness in a bounded behaviour, as only finitely many uploads
compete for it. Nothing is fair about crashes, disconnections, time-outs or what
the user does next.

What the properties of `patched_server` leave open is as telling as what they
say, and TLC reaches all of it: an answered upload is forgotten by a crash before
it is mined and saved, by a longer chain of another node (its record does not
return to the pool), or when a block records the same content for somebody else,
because the pool is filtered by `file_hash` (`p2p.py:374`);
two saves that overlap may leave an older chain, or no JSON, in the file until the
next save, and a crash at that point leaves a server that does not start. No text
of the repository claims otherwise, so that these are limits and no findings, but for
the filter: its comment says "Remove any pending txs that are now confirmed in this
block" (`p2p.py:368`), and an upload by somebody else is removed that is in no block.

### Findings

- A peer that takes a message is forgotten. `broadcast` counts a peer as dead
  when `send_to_peer` returns `None`, and it does for every `NEW_TX` and
  `NEW_BLOCK`, because these get no answer. Its comment says it "removes dead
  peers". After one broadcast the node knows none of the peers it reached, and
  the periodic sync stops for lack of peers.
- A transaction is recorded twice. `NEW_TX` is compared with the pool, not with
  the chain; when the block comes first, the transaction is mined again. The
  comment says "Deduplicate by tx timestamp + file_hash".
- Two uploads of one name at the same time: the files are written outside
  `chain_lock`, so that `uploads/` may hold a file that no record of the ledger
  describes, such as a short file with the end of a longer one. The README says
  that every upload "is written to an immutable, JSON-backed blockchain ledger".
- An acknowledgement that comes more than 0.1 s after its chunk finds the server
  waiting for a request, and is answered as one. From then on every answer the
  client reads is that of the request before. The docstring of `_req` says the
  lock is held "so no two threads interleave". What follows from it, in the same
  model: a download saved under the name of another file (the digest is that of
  the file that was sent), and a thread that waits for ever for an answer already
  taken, holding `_sock_lock`. A new login makes answers belong again, but a login
needs the lock: after a thread is stuck, only a connection that ends, or a restart of
the client, helps.

## 5. The proofs

Every safety property, action property and refinement that a passing run checks is
a theorem, for all values of the constants that the named assumptions allow: any
number of nodes, threads, connections, files, chunks and disks, and any bounds.
The assumptions give the constants their types, say that the roles of threads and
nodes differ, and that model values such as `NoOne` and `Torn` are none of the
things they stand beside. The inductive invariants of `P2PNode`, `UploadServer`
and `Session` were model-checked on the instances of the runs before they were
proved.

### Chains

`BlockchainProofs` has what is true of chains without any state, for the two
modules that hold chains of blocks with hashes: what `Append` and a valid proof
give, and `History(C, T, H)` of a set of chains `C`, further blocks `T` and hashes
`H` that have been produced: hashes of blocks and parents are in `H` (so the next
hash of a node is in no block), a hash names one block, a block is one above the
block it links to, chains are linked with positions for indices, and chains agree
on what is before a shared block. Four lemmas say when it is kept: when there are
fewer chains and blocks (`HistoryShrinks`), when a block is put on the chain it
links to (`HistoryLinks`), when a block with a new hash is (`HistoryMines`), and
when a genesis block with a new hash appears (`HistoryBegins`).

### P2P nodes

`P2PNodeProofs` proves, for any set of nodes and uploads, any difficulties and
any bounds, from the assumptions named in `Blockchain` and `P2PNode` (types of
the constants; the founder is none of the nodes). Of names and addresses it assumes
only that a name is an address and that an address leads to a node or to nobody
(`AddressAssumption`):

| Theorem | States |
|---|---|
| `TypeCorrect` | `Spec => []TypeOK`, with `OneBlockOut`: a node's miner has one block at a time under way |
| `ChainsAlwaysValid` | `Spec => []ChainsValid` |
| `IndexCorrect` | `Spec => []IndexIsPosition` |
| `PrefixesAgree` | `Spec => []PrefixAgreement` |
| `NodesImplementLongestChain` | `Spec => ImplementsLongestChain` |

The argument. `StepKinds` sorts the steps: a step leaves every ledger alone and
puts no new block or chain under way (`Still`), or it mines, accepts a block,
applies a chain or restarts. `ChainsValid` follows from these four directly.

`PrefixAgreement` is not inductive. It speaks of chains, and the block that is
accepted next is in a message: its hash could be that of another block, or its
parent could be somewhere else. `HistoryInv` is `History` of all chains, those
fetched and not yet applied included, of all blocks under way, and of the hashes
produced.

The refinement needs `HistoryInv` too: that an accepted block has the right index
is not tested by the code, it follows from the history.

### Patched server

`PatchedServerProofs` proves, from `RolesAssumption`, `TornAssumption` (text that is
not JSON is no chain), `PatchedBounds` and the assumptions of `Blockchain`:

| Theorem | States |
|---|---|
| `TypeCorrect` | `Spec => []TypeOK` |
| `LockCorrect` | `Spec => []LockInv` |
| `ChainsAlwaysValid` | `Spec => []ChainIsValid` |
| `HistoryCorrect` | `Spec => []HistoryInv` |
| `ServerRunsLongestChain` | `Spec => RunsLongestChain` |
| `AnsweredRecordsAreKept` | `Spec => AnsweredIsKept` |
| `FileFollows` | `Spec => []FileFollowsChain` |

The argument. What the miner puts on the chain was made when it took the lock.
That it still follows the tip when the nonce is found is what `LockInv` says: the
miner holds `_chain_lock` while it searches, the receiver until it has saved, and
the block being mined is one of the present tip and pool. This is the invariant
that a change of the chain outside the lock would break. `StepKinds` then leaves
five steps that bring a chain or a hash; all others, saves, crashes and starts from
the file among them, move chains about. Validity and `HistoryInv` are about all
chains this server has in memory, in the file, on the way to it, or will have when
the nonce is found, and those other nodes offer. The refinement needs the history
for the index of an accepted block, as for the nodes.

`FileFollowsChain` needs an invariant about the writers (`FileInv`): a save that has
had no other beside it carries the present chain unless a thread has changed the
chain and is about to save (`AloneIsFresh`), and a torn file is being written or has
a cause (`TornHasCause`).

### Upload server

Three modules, from `DataAssumption`, `NamesAssumption`, `LimitsAssumption` and
`TornAssumption` of `UploadServer`:

| Theorem | Module | States |
|---|---|---|
| `TypeCorrect` | `UploadServerProofs` | `Spec => []TypeOK` |
| `LedgerCorrect` | `UploadLedgerProofs` | `Spec => []LedgerInv` |
| `RecordsOnce` | `UploadLedgerProofs` | `Spec => []RecordedOnce` |
| `SavesThePast` | `UploadLedgerProofs` | `Spec => []SavedIsPast` |
| `AnswersAreSaved` | `UploadLedgerProofs` | `Spec => []AckedIsSaved` |
| `RecordsAreOwned` | `UploadLedgerProofs` | `Spec => []OwnersAreRight` |
| `ServerImplementsReceipts` | `UploadLedgerProofs` | `Spec => ImplementsReceipts` |
| `FilesCorrect` | `UploadFilesProofs` | `Spec => []FilesInv` |
| `AnswersAreKept` | `UploadFilesProofs` | `Spec => []AckedIsKept` |

`TypeOK` is not inductive: a thread that finishes an upload uses a transfer, a record
and a descriptor that it must have. `TypeInv` adds that each stage has what it uses
(`Equipped`), that no two threads share a transfer (`OwnTransfers`), that a transfer
has a place for each chunk (`RightLength`), and what is left of a server that is
down.

`LedgerInv` follows an upload through its stages. `chain_lock` is held exactly by the
thread that mines or saves (`LockHeld`), whose transaction is all of the pool
(`MinesOne`); before the block is mined the upload is in no block, afterwards it is
(`StagesRecorded`); the chain file is torn while a thread saves, and otherwise sound,
holds all that was answered, and is a prefix of the chain (`FileSound`). That a
record waits for its block without the lock, or is answered before the save, are
the changes that break it. The refinement of `ReceiptLedger` maps the ids in the
blocks of the file to the durable log, and a torn file to the empty sequence, which
is no log, since a log begins with an empty batch. Of the data it needs only that one
more block is one more batch.

`FilesInv` is about names. An upload writes through a descriptor, and its name may be
moved, starred or deleted at the same time. That the file it writes is still the one
under its name needs that a file is under one name in one directory (`Distinct`),
that a file open for writing is under no other name than the one it is written for,
and in `.starred/` only if it is written for that (`OpenUnderName`), and that a name
is in `uploads/` and `.trash/` at once only after two uploads of it (`BothMeansTwo`).
A move that copies puts one file under two names, empties and unlinks; it marks the
name as soon as it has opened its target (`CopiesMarked`). What is claimed of the
content of files is claimed until the name of the upload is purged, marked so, or has
another upload (`Excused`): what is opened is empty until then, and what is written
stays whole (`OpenedAreEmpty`, `WrittenAreSafe`).

### Session

`SessionProofs` proves, from `FilesAssumption` and `SessionBounds`, for any number of
client threads and any files:

| Theorem | States |
|---|---|
| `TypeCorrect` | `Spec => []TypeOK` |
| `FilesStayWhole` | `Spec => []FilesAreWhole` |
| `ConversationCorrect` | `Spec => []ConversationInv` |
| `NobodyReadsAnothersAnswer` | `Spec => []AnswersBelongInTime` |
| `UploadsStayUnbroken` | `Spec => []UploadUnbroken` |
| `NamesAreKept` | `Spec => []FilesKeepTheirNames` |
| `SessionImplementsFileTransfer` | `Spec => ImplementsFileTransfer` |

The argument. `FilesAreWhole` holds even when answers are mixed up, and its proof is
of another kind than the rest: both sides compare digests, a digest in a message is
always that of a file that some client or the server has, and so nothing else is
put under a name. `TypeInv` is enough, which says of every message on its way, and of
every stage, which exchange and which fields it has.

The other properties hold while no acknowledgement was late (`~ late`).
`InConversation` says what is on its way then: if no thread holds `_sock_lock`,
nothing is, except that the server may still wait for the acknowledgement of the
last chunk of a download, which is the first thing it will read; if a thread holds
it, what the stage of that thread calls for, in order, or less: nothing to a server
that is gone, the whole messages of a reply that were sent before one was lost
(`Silent`, `Sending`), or these and a part of a frame, after which nothing follows
(`Part`). `Talks` has one clause for each stage of `_req`, `uploadFile` and
`downloadFile`. That nothing follows a part is why `Misreads` does not happen before
an acknowledgement is late (`NobodyMisreads`). Each action takes one clause to another, or the lock is released with
nothing left over; a late acknowledgement sets `late` and ends the claim, a new login
begins it again. The properties are read off the clauses. `FilesKeepTheirNames` needs
in addition that the transfer a thread uploads to, or the offer it downloads, is of
the file it began with, which the clauses say too.

### RAID-5

`RAID5Proofs` proves, from `ArrayAssumption` (at least two data disks, blocks of
at least one byte):

| Theorem | States |
|---|---|
| `ArrayTypeCorrect` | `Spec => []TypeOK` |
| `ArrayKeepsData` | `Spec => []SurvivesOneFailure` |

The argument. `SurvivesOneFailure` is not inductive, as it says nothing of the
parity, which the next failure needs. `Inv` adds that rows and padding are those
of what was written (`Shape`), that a disk which is not lost holds what was
placed on it, parity included (`KeepsPlaced`), and that a disk which is the only
one lost is the one marked as failed (`LossIsMarked`); the last is what a write
that leaves the mark, or a second failure, could break. `EachIsXorOfOthers` says
that each disk of a row is the XOR of the others, by counting ones; it uses that
the data blocks of a row are placed one to one on the disks that do not hold the
parity. `ByteAsWritten` is the arithmetic of rows, blocks and padding.

### Only model-checked

`SubmittedIsMined`, `CatchUp`, `UploadEnds`, `ExchangesEnd`, `FoundInTheEnd` and
`SavedInTheEnd`: liveness under fairness is out of the prover's reach, as is
`ENABLED`. The properties of the runs that expect a violation are false.

## 6. Not modelled

- P2P: chunk distribution between nodes (`store_chunk`, `request_chunk`) and
  `GET_PEERS`, which nothing in the program calls or sends; callbacks and
  `status()`, which have no state.
- Ledger: file history, file lists and statistics, which only read; grants,
  revocations and deletions and the queries about them, which nothing in the
  program makes or asks. The order of records inside a block, which decides
  between two records of one content in one block; blocks have sets of records.
- Upload server: listings and ledger queries, which only read.
- Client: what the window shows; the poller redraws it when the height changes.
- Accounts: password hashes and roles, and the queries that nothing calls.
- Frames of more than 9,999,999 bytes, whose length does not fit the header: only
  the listing of a very long chain could be one.
- Contents of files beyond chunks, the Merkle root, wording and logging.
- `crypto.py`: no module imports it. AES and RSA are library calls. The user
  interface.
