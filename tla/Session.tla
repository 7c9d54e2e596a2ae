------------------------------ MODULE Session -------------------------------
(***************************************************************************)
(* One connection between the client of src/cloudmer_CLIENT.py and the     *)
(* server of src/cloudmer_SRV.py: requests, uploads and downloads of the   *)
(* client's threads, which share the socket under _sock_lock, and the      *)
(* server thread, whose receives and sends time out after 0.1 s.           *)
(*                                                                         *)
(* Each exchange that a client thread holds the lock for has a number.     *)
(* Messages carry the number of the exchange they were sent in; the code   *)
(* has no such field, so no step looks at it.                              *)
(***************************************************************************)
EXTENDS Integers, Sequences, SequencesExt

CONSTANTS
    Threads,         \* threads of the client that use the socket
    Files,           \* files, by their content, whose names are all different
    NumChunks,       \* NumChunks[f]: chunks that f is sent in
    OnServer,        \* files in uploads/ at first
    NoOne,           \* no thread, no file content
    MaxExchanges,    \* bound on the exchanges of a behaviour
    MaxAckTimeouts,  \* bound on acknowledgements later than 0.1 s
    MaxLosses,       \* bound on replies that are not, or not wholly, sent
    MaxLogins        \* bound on the logins after the first

ASSUME FilesAssumption ==
    /\ NumChunks \in [Files -> Nat \ {0}]
    /\ OnServer \subseteq Files
    /\ NoOne \notin Threads

ASSUME SessionBounds ==
    /\ MaxExchanges \in Nat
    /\ MaxAckTimeouts \in Nat
    /\ MaxLosses \in Nat
    /\ MaxLogins \in Nat

VARIABLES
    toServer, toClient,  \* messages sent and not yet received
    holder,     \* the thread that holds _sock_lock
    user,       \* user[t]: where thread t is in its exchange
    server,     \* where the server thread is
    transfers,  \* active_transfers: file name and chunks, by transfer id
    stored,     \* stored[f]: the chunks under the name of f in uploads/
    saved,      \* saved[f]: the chunks in the client's copy of f
    late,       \* an acknowledgement came too late on this connection
    lost,       \* a reply was not, or not wholly, sent on this connection
    exchanges, ackTimeouts, losses, logins  \* how much of the bounds is used

bounds == <<late, ackTimeouts, lost, losses, logins>>
vars == <<toServer, toClient, holder, user, server, transfers, stored, saved, exchanges,
          bounds>>

-----------------------------------------------------------------------------
(* Messages. *)

Chunk(f, k) == [file |-> f, k |-> k]

Content(f) == [k \in 1..NumChunks[f] |-> Chunk(f, k)]

Text(kind, x)       == [kind |-> kind, exchange |-> x]
Named(kind, x, f)   == [kind |-> kind, exchange |-> x, file |-> f]
Payload(x, data)    == [kind |-> "payload", exchange |-> x, data |-> data]
ChunkRequest(x, t, k) == [kind |-> "CHNK", exchange |-> x, tid |-> t, k |-> k]
DoneRequest(x, t, d)  == [kind |-> "DONE", exchange |-> x, tid |-> t, md5 |-> d]
Accepted(x, t)      == [kind |-> "UPLD~OK", exchange |-> x, tid |-> t]
Offer(x, d)         == [kind |-> "DWNL~OK", exchange |-> x, md5 |-> d]
ChunkHeader(x, k)   == [kind |-> "DCNK", exchange |-> x, k |-> k]

(* A frame cut short: send_with_size ignores how much of it send() took.   *)
Part(x) == Text("part", x)

(* Replies whose second part is OK. *)
IsOK(m) == m.kind \in {"OK", "UPLD~OK", "DWNL~OK"}

(* Variant: all chunks are there, and their digest is not compared. *)
AllChunks(data, md5) == \A k \in DOMAIN data : data[k] # NoOne

(* The chunks are all there, and have this MD5: it stands for the chunks  *)
(* it was taken of, and for their number.                                 *)
Verified(data, md5) == data = md5

(* What is sent to a closed connection is lost. *)
Sends(msgs) ==
    toServer' = IF server.at = "closed" THEN toServer ELSE toServer \o msgs

Reply == Head(toClient)

(* Thread t, which waits at a stage, receives the next reply; a frame of   *)
(* which a part is missing keeps it waiting.                               *)
Receives(t, stage) ==
    /\ user[t].at = stage
    /\ toClient # <<>>
    /\ Reply.kind # "part"
    /\ toClient' = Tail(toClient)

-----------------------------------------------------------------------------

Free == [at |-> "free", exchange |-> 0, file |-> NoOne, tid |-> 0, k |-> 0,
         offer |-> <<>>, header |-> NoOne, got |-> <<>>]

Listening == [at |-> "idle", exchange |-> 0, file |-> NoOne, tid |-> 0, k |-> 0]

Init ==
    /\ toServer = <<>>
    /\ toClient = <<>>
    /\ holder = NoOne
    /\ user = [t \in Threads |-> Free]
    /\ server = Listening
    /\ transfers = [t \in {} |-> {}]
    /\ stored = [f \in Files |-> IF f \in OnServer THEN Content(f) ELSE <<>>]
    /\ saved = [f \in Files |-> <<>>]
    /\ late = FALSE
    /\ exchanges = 0
    /\ ackTimeouts = 0
    /\ lost = FALSE
    /\ losses = 0
    /\ logins = 0

-----------------------------------------------------------------------------
(* The client. *)

(* Variant: a thread does not wait for the exchange of another. *)
GrabLock(t) == holder' = t

TakeLock(t) == holder = NoOne /\ holder' = t

Becomes(t, next) == user' = [user EXCEPT ![t] = next]

(* The exchange is over, by its last answer or by an exception. *)
Ends(t) == Becomes(t, Free) /\ holder' = NoOne

Begins(t, f, stage, m) ==
    /\ user[t].at = "free"
    /\ exchanges < MaxExchanges
    /\ exchanges' = exchanges + 1
    /\ TakeLock(t)
    /\ Sends(<<m>>)
    /\ Becomes(t, [Free EXCEPT !.at = stage, !.exchange = exchanges + 1, !.file = f])
    /\ UNCHANGED <<toClient, server, transfers, stored, saved, bounds>>

(* _req: one message, one answer. *)
Request(t) == Begins(t, NoOne, "answer", Text("request", exchanges + 1))

Upload(t, f)   == Begins(t, f, "begun", Named("UPLD", exchanges + 1, f))
Download(t, f) == Begins(t, f, "asked", Named("DWNL", exchanges + 1, f))

onServer == <<server, transfers, stored, exchanges, bounds>>

(* _req and the end of an upload: whatever comes is the answer. *)
ReceiveAnswer(t) ==
    /\ Receives(t, "answer")
    /\ Ends(t)
    /\ UNCHANGED <<toServer, saved, onServer>>

(* Chunk k and its payload; DONE after the last one. *)
SendChunk(t, tid, k) ==
    LET u == user[t]
    IN  IF k <= NumChunks[u.file]
        THEN /\ Sends(<<ChunkRequest(u.exchange, tid, k),
                        Payload(u.exchange, Chunk(u.file, k))>>)
             /\ Becomes(t, [u EXCEPT !.at = "sending", !.tid = tid, !.k = k])
        ELSE /\ Sends(<<DoneRequest(u.exchange, tid, Content(u.file))>>)
             /\ Becomes(t, [u EXCEPT !.at = "answer"])

(* The third part of an OK reply is taken for the transfer id. *)
ReceiveTransferId(t) ==
    /\ Receives(t, "begun")
    /\ IF IsOK(Reply)
       THEN /\ SendChunk(t, IF Reply.kind = "UPLD~OK" THEN Reply.tid ELSE 0, 1)
            /\ UNCHANGED holder
       ELSE Ends(t) /\ UNCHANGED toServer
    /\ UNCHANGED <<saved, onServer>>

(* The answer to a chunk is not looked at. *)
ReceiveChunkAnswer(t) ==
    /\ Receives(t, "sending")
    /\ SendChunk(t, user[t].tid, user[t].k + 1)
    /\ UNCHANGED <<holder, saved, onServer>>

ReceiveOffer(t) ==
    /\ Receives(t, "asked")
    /\ IF Reply.kind = "DWNL~OK"
       THEN /\ Becomes(t, [user[t] EXCEPT !.at = "header", !.offer = Reply.md5, !.k = 1,
                             !.got = [k \in DOMAIN Reply.md5 |-> NoOne]])
            /\ UNCHANGED holder
       ELSE Ends(t)
    /\ UNCHANGED <<toServer, saved, onServer>>

(* A header that is no text raises an exception at once. *)
ReceiveHeader(t) ==
    /\ Receives(t, "header")
    /\ IF Reply.kind = "payload" THEN Ends(t)
       ELSE /\ Becomes(t, [user[t] EXCEPT !.at = "payload", !.header = Reply])
            /\ UNCHANGED holder
    /\ UNCHANGED <<toServer, saved, onServer>>

(* Where the client puts a payload: the second part of the header is its   *)
(* index from 0, and the code of an error is taken for one.                *)
Errors == {"ERRR~001", "ERRR~002", "ERRR~004"}

PlaceIn(header) ==
    CASE header.kind = "DCNK" -> header.k
      [] header.kind = "ERRR~001" -> 2
      [] header.kind = "ERRR~002" -> 3
      [] OTHER -> 5

(* The chunks of the file that t has with data in the place its header     *)
(* says.  A place after the last chunk is not looked at.                   *)
GotWith(t, data) == [user[t].got EXCEPT ![PlaceIn(user[t].header)] = data]

(* A payload is acknowledged before its header is parsed; another header  *)
(* than these raises an exception.  The digest is compared at the end.    *)
ReceivePayload(t) ==
    LET u == user[t]
        got == GotWith(t, IF Reply.kind = "payload" THEN Reply.data ELSE Reply)
        parses == u.header.kind \in {"DCNK"} \cup Errors
        whole == parses /\ u.k = Len(got) /\ Verified(got, u.offer)
    IN  /\ Receives(t, "payload")
        /\ Sends(<<Text("DACK", u.exchange)>>)
        /\ IF parses /\ u.k < Len(got)
           THEN /\ Becomes(t, [u EXCEPT !.at = "header", !.k = @ + 1, !.got = got])
                /\ UNCHANGED holder
           ELSE Ends(t)
        /\ saved' = IF whole THEN [saved EXCEPT ![u.file] = got] ELSE saved
        /\ UNCHANGED onServer

(* Variant: the end of the stream is taken for a time-out. *)
ReceivesAgain(t) ==
    /\ user[t].at # "free"
    /\ toClient # <<>> => Reply.kind = "part"
    /\ server.at = "closed"
    /\ UNCHANGED vars

(* recv_with_AES returns None at the end of the stream, also when a part   *)
(* of a frame comes before it; None has no decode.                         *)
ReceiveNothing(t) ==
    /\ user[t].at # "free"
    /\ toClient # <<>> => Reply.kind = "part"
    /\ server.at = "closed"
    /\ toClient' = <<>>
    /\ Ends(t)
    /\ UNCHANGED <<toServer, saved, onServer>>

(* What was sent after a cut frame may complete it to one that cannot be   *)
(* decrypted; nothing on this connection can be read any more.             *)
Misreads(t) ==
    /\ user[t].at # "free"
    /\ Len(toClient) > 1
    /\ Reply.kind = "part"
    /\ Ends(t)
    /\ UNCHANGED <<toServer, toClient, saved, onServer>>

(* Log out and in again: a new connection and a new server thread.  What  *)
(* is still on its way on the old one is dropped with it.                 *)
LogInAgain ==
    /\ holder = NoOne
    /\ logins < MaxLogins
    /\ logins' = logins + 1
    /\ toServer' = <<>>
    /\ toClient' = <<>>
    /\ server' = Listening
    /\ late' = FALSE
    /\ lost' = FALSE
    /\ UNCHANGED <<holder, user, transfers, stored, saved, exchanges, ackTimeouts, losses>>

-----------------------------------------------------------------------------
(* The server. *)

onClient == <<holder, user, saved, exchanges, logins>>
timeouts == <<late, ackTimeouts>>

(* The server thread at a stage takes the next message, and goes on. *)
TakesAt(stage) ==
    /\ server.at = stage
    /\ toServer # <<>>
    /\ toServer' = Tail(toServer)

Takes(stage, next) == TakesAt(stage) /\ server' = next

Message == Head(toServer)

Replies(msgs) == toClient' = toClient \o msgs /\ UNCHANGED <<lost, losses>>

(* Instead of a whole reply, these messages are sent. *)
Loses(msgs) ==
    /\ losses < MaxLosses
    /\ losses' = losses + 1
    /\ lost' = TRUE
    /\ toClient' = toClient \o msgs

(* One reply.  A time-out while it is sent is passed over, and the thread  *)
(* listens again.                                                          *)
Answers(m) == Replies(<<m>>) \/ Loses(<<>>)

(* The kinds of the answers to a request with one answer, to an            *)
(* acknowledgement that came too late, and to a payload nobody waits for:  *)
(* the last two are no known code, or no text at all.                      *)
AnswerKinds(m) ==
    CASE m.kind = "request" -> {"OK"}
      [] m.kind = "DACK" -> {"ERRR~002"}
      [] m.kind = "payload" -> {"ERRR~002", "ERRR~004"}

(* The answer to a request, a list or the chain, may be cut short.  *)
HandleText ==
    LET m == Message
    IN  /\ toServer # <<>>
        /\ m.kind \in {"request", "DACK", "payload"}
        /\ Takes("idle", server)
        /\ \/ \E kind \in AnswerKinds(m) : Answers(Text(kind, m.exchange))
           \/ m.kind = "request" /\ Loses(<<Part(m.exchange)>>)
        /\ UNCHANGED <<onClient, transfers, stored, timeouts>>

(* handle_upload_init; the number of the exchange serves as a random id. *)
HandleUpload ==
    LET x == Message.exchange
        new == [name |-> Message.file,
                chunks |-> [k \in 1..NumChunks[Message.file] |-> NoOne]]
    IN  /\ Takes("idle", server)
        /\ Message.kind = "UPLD"
        /\ transfers' = [t \in DOMAIN transfers \cup {x} |->
                            IF t = x THEN new ELSE transfers[t]]
        /\ Answers(Accepted(x, x))
        /\ UNCHANGED <<onClient, stored, timeouts>>

(* handle_chunk up to the receive of the payload, or the refusal of a     *)
(* transfer it does not know, which leaves the payload unread.            *)
HandleChunk ==
    LET m == Message
        known == m.tid \in DOMAIN transfers
    IN  /\ toServer # <<>>
        /\ m.kind = "CHNK"
        /\ Takes("idle", IF known THEN [server EXCEPT !.at = "payload", !.exchange = m.exchange,
                                          !.tid = m.tid, !.k = m.k]
                         ELSE server)
        /\ IF known THEN Replies(<<>>) ELSE Answers(Text("FAIL", m.exchange))
        /\ UNCHANGED <<onClient, transfers, stored, timeouts>>

HandlePayload ==
    LET t == server.tid
        data == IF Message.kind = "payload" THEN Message.data ELSE Message
        old == transfers[t].chunks
    IN  /\ Takes("payload", Listening)
        /\ transfers' = [transfers EXCEPT ![t].chunks =
                           [k \in DOMAIN old \cup {server.k} |->
                              IF k = server.k THEN data ELSE old[k]]]
        /\ Answers(Text("OK", server.exchange))
        /\ UNCHANGED <<onClient, stored, timeouts>>

(* handle_upload_done: the digest is that of the client's file. *)
HandleDone ==
    LET t == Message.tid
        name == transfers[t].name
        data == [k \in 1..NumChunks[name] |-> transfers[t].chunks[k]]
        good == t \in DOMAIN transfers /\ Verified(data, Message.md5)
    IN  /\ toServer # <<>>
        /\ Message.kind = "DONE"
        /\ Takes("idle", server)
        /\ transfers' = [u \in DOMAIN transfers \ {t} |-> transfers[u]]
        /\ stored' = IF good THEN [stored EXCEPT ![name] = data] ELSE stored
        /\ Answers(Text(IF good THEN "OK" ELSE "FAIL", Message.exchange))
        /\ UNCHANGED <<onClient, timeouts>>

(* Variant: the session goes on after a payload that is late. *)
AnswersAndListens == server' = Listening /\ UNCHANGED toServer

HangsUp ==
    /\ server' = [Listening EXCEPT !.at = "closed"]
    /\ toServer' = <<>>

(* Chunk k of a download follows some texts, the server thread then waits  *)
(* for the acknowledgement.  send() may take a part of the payload only.   *)
(* When one of the messages cannot be sent in time, handle_download        *)
(* catches the exception, sends no more, and the thread listens again.     *)
ServesChunk(texts, k, waiting) ==
    LET x == waiting.exchange
    IN  \/ Replies(texts \o <<Payload(x, stored[waiting.file][k])>>) /\ server' = waiting
        \/ Loses(texts \o <<Part(x)>>) /\ server' = waiting
        \/ \E n \in 0..Len(texts) : Loses(SubSeq(texts, 1, n)) /\ server' = Listening

(* The refusal of a download.  A time-out while it is sent is an exception *)
(* of the request: ERRR~001, if that can be sent, and the session ends.    *)
Refuses(x) ==
    \/ Takes("idle", server) /\ Replies(<<Text("FAIL", x)>>)
    \/ /\ server.at = "idle"
       /\ Loses(<<>>) \/ Loses(<<Text("ERRR~001", x)>>)
       /\ HangsUp

(* handle_download up to the first receive of an acknowledgement.  The     *)
(* file may be gone between isfile() and open(), whose exception is caught *)
(* like a time-out before the offer is sent.                               *)
HandleDownload ==
    LET f == Message.file
        x == Message.exchange
        waiting == [at |-> "ack", exchange |-> x, file |-> f, tid |-> 0, k |-> 1]
    IN  /\ toServer # <<>>
        /\ Message.kind = "DWNL"
        /\ IF stored[f] = <<>> THEN Refuses(x)
           ELSE /\ TakesAt("idle")
                /\ ServesChunk(<<Offer(x, stored[f]), ChunkHeader(x, 1)>>, 1, waiting)
        /\ UNCHANGED <<onClient, transfers, stored, timeouts>>

(* A message that is no acknowledgement is lost, and ends the download. *)
HandleAck ==
    LET k == server.k + 1
        more == Message.kind = "DACK" /\ k <= Len(stored[server.file])
    IN  /\ TakesAt("ack")
        /\ IF more
           THEN ServesChunk(<<ChunkHeader(server.exchange, k)>>, k, [server EXCEPT !.k = k])
           ELSE server' = Listening /\ Replies(<<>>)
        /\ UNCHANGED <<onClient, transfers, stored, timeouts>>

(* The payload of a chunk is late: ERRR~001, and the session ends. *)
PayloadTimesOut ==
    /\ server.at = "payload"
    /\ Answers(Text("ERRR~001", server.exchange))
    /\ HangsUp
    /\ UNCHANGED <<onClient, transfers, stored, timeouts>>

(* An acknowledgement is late: handle_download catches the exception, and *)
(* the thread goes back to receiving requests.                            *)
AckTimesOut ==
    /\ server.at = "ack"
    /\ ackTimeouts < MaxAckTimeouts
    /\ ackTimeouts' = ackTimeouts + 1
    /\ late' = TRUE
    /\ server' = Listening
    /\ UNCHANGED <<onClient, toServer, toClient, transfers, stored, lost, losses>>

(* The connection fails, or a time-out cuts a frame, whose rest is no     *)
(* length header: the thread ends.                                        *)
Breaks ==
    /\ server.at \in {"idle", "ack"}
    /\ HangsUp
    /\ UNCHANGED <<onClient, toClient, transfers, stored, timeouts, lost, losses>>

ClientReceives(t) ==
    \/ ReceiveAnswer(t) \/ ReceiveTransferId(t) \/ ReceiveChunkAnswer(t)
    \/ ReceiveOffer(t) \/ ReceiveHeader(t) \/ ReceivePayload(t) \/ ReceiveNothing(t)

ServerReceives ==
    \/ HandleText \/ HandleUpload \/ HandleChunk \/ HandlePayload \/ HandleDone
    \/ HandleDownload \/ HandleAck

Next ==
    \/ \E t \in Threads : Request(t) \/ ClientReceives(t) \/ Misreads(t)
    \/ \E t \in Threads, f \in Files : Upload(t, f) \/ Download(t, f)
    \/ LogInAgain
    \/ ServerReceives
    \/ PayloadTimesOut \/ AckTimesOut \/ Breaks

Spec == Init /\ [][Next]_vars

(* The client's threads and the server's thread are scheduled; nothing is *)
(* fair about time-outs, failures and what the user does.                 *)
Fairness ==
    /\ \A t \in Threads : WF_vars(ClientReceives(t))
    /\ WF_vars(ServerReceives)

FairSpec == Spec /\ Fairness

-----------------------------------------------------------------------------
(* Properties. *)

InFlight(q) == {q[i] : i \in DOMAIN q}

Stages == {"free", "answer", "begun", "sending", "asked", "header", "payload"}

(* Every variable has its type; the thread in an exchange has the lock.    *)
TypeOK ==
    /\ \A m \in InFlight(toServer) \cup InFlight(toClient) : m.exchange \in 1..exchanges
    /\ holder \in Threads \cup {NoOne}
    /\ \A t \in Threads : /\ user[t].at \in Stages
                          /\ user[t].at # "free" <=> holder = t
    /\ server.at \in {"idle", "payload", "ack", "closed"}
    /\ server.at = "payload" => server.tid \in DOMAIN transfers
    /\ DOMAIN transfers \subseteq 1..exchanges
    /\ {late, lost} \subseteq BOOLEAN
    /\ exchanges \in 0..MaxExchanges
    /\ ackTimeouts \in 0..MaxAckTimeouts
    /\ losses \in 0..MaxLosses
    /\ logins \in 0..MaxLogins

(* _req: "Thread-safe single request/response over the shared socket.      *)
(* Holds _sock_lock for the full send+recv so no two threads interleave":  *)
(* what is on its way to the client answers the exchange of the thread     *)
(* that holds the lock, so that no thread reads the answer of another.     *)
AnswersBelong ==
    \A m \in InFlight(toClient) :
        holder # NoOne /\ m.exchange = user[holder].exchange

(* So it is as long as no acknowledgement on this connection came later   *)
(* than the 0.1 s of the server; requests, chunk payloads and the network *)
(* may be as slow as they like.  A new login makes it so again.           *)
AnswersBelongInTime == ~ late => AnswersBelong

(* uploadFile: "The ENTIRE sequence (UPLD, CHNK loop, DONE) runs inside a  *)
(* single _sock_lock acquisition": while a thread uploads, the server is   *)
(* sent nothing else, except the acknowledgement of an earlier download.   *)
UploadUnbroken ==
    ~ late => \A t \in Threads : user[t].at \in {"begun", "sending"} =>
        \A m \in InFlight(toServer) : m.exchange = user[t].exchange \/ m.kind = "DACK"

(* What is stored under a name is the file a client uploaded under it,     *)
(* and what a client saves is the file it asked for, as long as no         *)
(* acknowledgement has come too late: lost and cut replies, time-outs and  *)
(* broken connections mix up no names.                                     *)
FilesKeepTheirNames ==
    ackTimeouts = 0 => \A f \in Files : {stored[f], saved[f]} \subseteq {<<>>, Content(f)}

(* Even when answers get mixed up, what is stored or saved is one file,    *)
(* whole and in order (the MD5 tests of both sides).                       *)
FilesAreWhole ==
    \A f \in Files : {stored[f], saved[f]} \subseteq {<<>>} \cup {Content(g) : g \in Files}

(* However exchanges, time-outs and failures interleave, uploads and       *)
(* downloads do what FileTransfer says.                                    *)
Transfers == INSTANCE FileTransfer WITH
    Content <- Content, Nothing <- <<>>,
    stored <- stored, saved <- saved, inOrder <- (ackTimeouts = 0)

ImplementsFileTransfer == Transfers!Spec

(* Every exchange ends, so that no thread waits for _sock_lock for ever,   *)
(* unless an acknowledgement came too late, or a reply was not wholly sent *)
(* on this connection: the client has no time-out.                         *)
ExchangesEnd ==
    \A t \in Threads : user[t].at # "free" ~> (user[t].at = "free" \/ late \/ lost)
=============================================================================
