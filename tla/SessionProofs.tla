--------------------------- MODULE SessionProofs ----------------------------
(***************************************************************************)
(* Proofs about Session, for any threads, files and bounds.                *)
(***************************************************************************)
EXTENDS Session, SequenceTheorems, TLAPS

-----------------------------------------------------------------------------
(* Types. *)

Contents == {Content(f) : f \in Files}
Stored   == {<<>>} \cup Contents

(* What a chunk that is sent holds. *)
Parts == UNION {{Chunk(f, k) : k \in 1..NumChunks[f]} : f \in Files}

ToServer ==
    [kind : {"request", "DACK"}, exchange : Nat]
    \cup [kind : {"UPLD", "DWNL"}, exchange : Nat, file : Files]
    \cup [kind : {"payload"}, exchange : Nat, data : Parts]
    \cup [kind : {"CHNK"}, exchange : Nat, tid : Nat, k : Nat]
    \cup [kind : {"DONE"}, exchange : Nat, tid : Nat, md5 : Contents]

ToClient ==
    [kind : {"OK", "FAIL", "part"} \cup Errors, exchange : Nat]
    \cup [kind : {"UPLD~OK"}, exchange : Nat, tid : Nat]
    \cup [kind : {"DWNL~OK"}, exchange : Nat, md5 : Contents]
    \cup [kind : {"DCNK"}, exchange : Nat, k : Nat]
    \cup [kind : {"payload"}, exchange : Nat, data : Parts]

(* What a thread may take for a chunk. *)
Pieces == Parts \cup ToClient \cup {NoOne}

UserState ==
    [at : Stages, exchange : Nat, file : Files \cup {NoOne}, tid : Nat, k : Nat,
     offer : Stored, header : ToClient \cup {NoOne}, got : Seq(Pieces)]

ServerState ==
    [at : {"idle", "payload", "ack", "closed"}, exchange : Nat,
     file : Files \cup {NoOne}, tid : Nat, k : Nat]

Transferring == {"begun", "sending", "asked", "header", "payload"}

(* The messages of S that are of an exchange up to the n-th. *)
Upto(S, n) == {m \in S : m.exchange \in 1..n}

(* A thread in an exchange has its number, and the file it transfers. *)
UserFits(u, n) ==
    /\ u \in UserState
    /\ u.at # "free" => u.exchange \in 1..n
    /\ u.at \in Transferring => u.file \in Files
    /\ u.at \in {"header", "payload"} => u.offer \in Contents
    /\ u.at = "payload" => u.header \in ToClient

ServerFits(s, n) ==
    /\ s \in ServerState
    /\ s.at \in {"payload", "ack"} => s.exchange \in 1..n
    /\ s.at = "ack" => s.file \in Files

TransferFits(x) ==
    /\ x = [name |-> x.name, chunks |-> x.chunks]
    /\ x.name \in Files

TypeInv ==
    /\ TypeOK
    /\ toServer \in Seq(Upto(ToServer, exchanges))
    /\ toClient \in Seq(Upto(ToClient, exchanges))
    /\ user \in [Threads -> UserState]
    /\ \A t \in Threads : UserFits(user[t], exchanges)
    /\ ServerFits(server, exchanges)
    /\ \A t \in DOMAIN transfers : TransferFits(transfers[t])
    /\ stored \in [Files -> Stored]
    /\ saved \in [Files -> Stored]
    /\ late => ackTimeouts # 0

-----------------------------------------------------------------------------
(* Conversations.  While no acknowledgement was late, what is on its way   *)
(* is what the stage of the one thread in an exchange calls for, or less   *)
(* of it: a reply that was not wholly sent leaves the thread waiting, and  *)
(* the server too.                                                         *)

(* The server waits for the acknowledgement of the last chunk. *)
AtLastAck == server.at = "ack" /\ server.k = Len(stored[server.file])

(* The messages q are on their way to the server, at most behind the last  *)
(* acknowledgement of the exchange before, or lost with the connection.    *)
Sent(q) ==
    \/ server.at = "idle" /\ toServer = q
    \/ AtLastAck /\ \E x \in 1..exchanges : toServer = <<Text("DACK", x)>> \o q
    \/ server.at = "closed" /\ toServer = <<>>

Heard == server.at \in {"idle", "closed"} /\ toServer = <<>>

(* The text is on its way to the client, and nothing else is. *)
Answered(x, kinds) == Heard /\ \E kind \in kinds : toClient = <<Text(kind, x)>>

(* The thread waits for what was not sent. *)
Silent == Heard /\ toClient = <<>>

Opened(x, f) == x \in DOMAIN transfers /\ transfers[x].name = f

(* The server has sent chunk k of f, and waits for its acknowledgement.    *)
ChunkIsSent(x, f, k) ==
    /\ toServer = <<>>
    /\ \/ server.at = "closed"
       \/ server.at = "ack" /\ server.exchange = x /\ server.file = f /\ server.k = k

(* The data as it is on its way, whole or cut short. *)
Sending(x, data) == {Payload(x, data), Part(x)}

(* The client has acknowledged chunk k of f. *)
ChunkIsAcked(x, f, k) ==
    \/ server.at = "closed" /\ toServer = <<>>
    \/ /\ server.at = "ack" /\ server.exchange = x /\ server.file = f /\ server.k = k
       /\ toServer = <<Text("DACK", x)>>

(* A request or the end of an upload is to be answered. *)
AtAnswer(u) ==
    \/ toClient = <<>> /\ Sent(<<Text("request", u.exchange)>>)
    \/ /\ toClient = <<>>
       /\ u.file \in Files
       /\ Opened(u.exchange, u.file)
       /\ Sent(<<DoneRequest(u.exchange, u.exchange, Content(u.file))>>)
    \/ Answered(u.exchange, {"OK", "FAIL", "part"})
    \/ Silent

(* An upload is to be given a transfer id. *)
AtBegun(u) ==
    \/ toClient = <<>> /\ Sent(<<Named("UPLD", u.exchange, u.file)>>)
    \/ /\ Heard
       /\ Opened(u.exchange, u.file)
       /\ toClient = <<Accepted(u.exchange, u.exchange)>>
    \/ Silent

(* A chunk is to be received, header and payload, and answered. *)
AtSending(u) ==
    LET x == u.exchange
        data == Payload(x, Chunk(u.file, u.k))
    IN  /\ u.tid = x
        /\ Opened(x, u.file)
        /\ \/ toClient = <<>> /\ Sent(<<ChunkRequest(x, x, u.k), data>>)
           \/ /\ toClient = <<>> /\ toServer = <<data>>
              /\ server.at = "payload" /\ server.exchange = x /\ server.tid = x
           \/ Answered(x, {"OK", "ERRR~001"})
           \/ Silent

(* A download is to be offered; the first chunk follows at once. *)
AtAsked(u) ==
    LET x == u.exchange
        f == u.file
    IN  \/ toClient = <<>> /\ Sent(<<Named("DWNL", x, f)>>)
        \/ Answered(x, {"FAIL", "ERRR~001"})
        \/ Silent
        \/ /\ stored[f] # <<>>
           /\ \/ /\ ChunkIsSent(x, f, 1)
                 /\ \E data \in Sending(x, stored[f][1]) :
                       toClient = <<Offer(x, stored[f]), ChunkHeader(x, 1), data>>
              \/ Heard /\ toClient = <<Offer(x, stored[f]), ChunkHeader(x, 1)>>
              \/ Heard /\ toClient = <<Offer(x, stored[f])>>

(* What t has received of the file that the server has under the name. *)
HasOffer(u) ==
    /\ u.offer = stored[u.file]
    /\ DOMAIN u.got = DOMAIN u.offer
    /\ u.k \in DOMAIN u.offer

(* A chunk of the download comes, or is called for by an acknowledgement. *)
AtHeader(u) ==
    LET x == u.exchange
        f == u.file
    IN  /\ HasOffer(u)
        /\ \/ /\ ChunkIsSent(x, f, u.k)
              /\ \E data \in Sending(x, stored[f][u.k]) :
                    toClient = <<ChunkHeader(x, u.k), data>>
           \/ Heard /\ toClient = <<ChunkHeader(x, u.k)>>
           \/ Silent
           \/ ChunkIsAcked(x, f, u.k - 1) /\ toClient = <<>>

(* The payload of a chunk comes. *)
AtPayload(u) ==
    LET x == u.exchange
        f == u.file
    IN  /\ HasOffer(u)
        /\ u.header = ChunkHeader(x, u.k)
        /\ \/ /\ ChunkIsSent(x, f, u.k)
              /\ \E data \in Sending(x, stored[f][u.k]) : toClient = <<data>>
           \/ Silent

(* What is on its way is what a thread in state u calls for. *)
Talks(u) ==
    \/ u.at = "answer" /\ AtAnswer(u)
    \/ u.at = "begun" /\ AtBegun(u)
    \/ u.at = "sending" /\ AtSending(u)
    \/ u.at = "asked" /\ AtAsked(u)
    \/ u.at = "header" /\ AtHeader(u)
    \/ u.at = "payload" /\ AtPayload(u)

Quiet == toClient = <<>> /\ Sent(<<>>)

InConversation ==
    \/ holder = NoOne /\ Quiet
    \/ \E t \in Threads : holder = t /\ Talks(user[t])

ConversationInv == TypeInv /\ (~ late => InConversation)

NamesInv == ConversationInv /\ FilesKeepTheirNames

-----------------------------------------------------------------------------
(* Sequences and messages. *)

(* What is received, and what is left. *)
LEMMA ReceivedFacts ==
    ASSUME NEW S, NEW q \in Seq(S), q # <<>>
    PROVE  Head(q) \in S /\ Tail(q) \in Seq(S)
BY HeadTailProperties, EmptySeq

(* Messages of these sorts are messages to the server. *)
LEMMA MessagesToServer ==
    ASSUME NEW n \in Nat, NEW x \in 1..n
    PROVE  LET S == Upto(ToServer, n)
           IN  /\ \A kind \in {"request", "DACK"} : Text(kind, x) \in S
               /\ \A kind \in {"UPLD", "DWNL"}, f \in Files : Named(kind, x, f) \in S
               /\ \A data \in Parts : Payload(x, data) \in S
               /\ \A t, k \in Nat : ChunkRequest(x, t, k) \in S
               /\ \A t \in Nat, d \in Contents : DoneRequest(x, t, d) \in S
BY DEF Upto, ToServer, Text, Named, Payload, ChunkRequest, DoneRequest

(* Messages of these sorts are messages to the client. *)
LEMMA MessagesToClient ==
    ASSUME NEW n \in Nat, NEW x \in 1..n
    PROVE  LET S == Upto(ToClient, n)
           IN  /\ \A kind \in {"OK", "FAIL", "part"} \cup Errors : Text(kind, x) \in S
               /\ Part(x) \in S
               /\ \A t \in Nat : Accepted(x, t) \in S
               /\ \A d \in Contents : Offer(x, d) \in S
               /\ \A k \in Nat : ChunkHeader(x, k) \in S
               /\ \A data \in Parts : Payload(x, data) \in S
BY DEF Upto, ToClient, Text, Part, Accepted, Offer, ChunkHeader, Payload

(* What the server does with a message depends on its kind, by which the   *)
(* message has its other fields.                                           *)
LEMMA KindsToServer ==
    ASSUME NEW m \in ToServer
    PROVE  /\ m.kind \in {"UPLD", "DWNL"} => m.file \in Files
           /\ m.kind = "payload" => m.data \in Parts
           /\ m.kind = "CHNK" => m.tid \in Nat /\ m.k \in Nat
           /\ m.kind = "DONE" => m.tid \in Nat /\ m.md5 \in Contents
BY DEF ToServer

(* So it is with the client. *)
LEMMA KindsToClient ==
    ASSUME NEW m \in ToClient
    PROVE  /\ m.kind = "UPLD~OK" => m.tid \in Nat
           /\ m.kind = "DWNL~OK" => m.md5 \in Contents
           /\ m.kind = "DCNK" => m.k \in Nat
           /\ m.kind = "payload" => m.data \in Parts
BY DEF ToClient, Errors

(* A content is a sequence of chunks, and not empty. *)
LEMMA ContentFacts ==
    ASSUME NEW f \in Files
    PROVE  /\ Content(f) \in Contents /\ Content(f) \in Stored
           /\ Content(f) \in Seq(Parts)
           /\ Len(Content(f)) = NumChunks[f]
           /\ NumChunks[f] \in Nat \ {0}
           /\ DOMAIN Content(f) = 1..NumChunks[f]
           /\ Content(f) # <<>>
           /\ \A k \in 1..NumChunks[f] : Content(f)[k] = Chunk(f, k) /\ Chunk(f, k) \in Parts
<1>1. NumChunks[f] \in Nat \ {0}
  BY FilesAssumption
<1>2. \A k \in 1..NumChunks[f] : Chunk(f, k) \in Parts
  BY DEF Parts
<1>3. Content(f) \in [1..NumChunks[f] -> Parts]
  BY <1>2 DEF Content
<1>4. Content(f) \in Seq(Parts)
  BY <1>1, <1>3, SeqDef
<1>5. Len(Content(f)) \in Nat /\ 1..Len(Content(f)) = 1..NumChunks[f]
  BY <1>3, <1>4, LenProperties
<1>6. Len(Content(f)) = NumChunks[f]
  BY <1>1, <1>5
<1> QED
  BY <1>1, <1>2, <1>3, <1>4, <1>6, EmptySeq DEF Content, Contents, Stored

-----------------------------------------------------------------------------
(* Type correctness. *)

(* The numbers of the messages are those of exchanges. *)
LEMMA NumbersFit ==
    ASSUME NEW S, NEW n, NEW q \in Seq(Upto(S, n)), NEW m \in InFlight(q)
    PROVE  m \in S /\ m.exchange \in 1..n
<1>1. PICK i \in DOMAIN q : m = q[i]
  BY DEF InFlight
<1>2. i \in 1..Len(q) /\ q[i] \in Upto(S, n)
  BY <1>1, LenProperties, ElementOfSeq
<1> QED
  BY <1>1, <1>2 DEF Upto

(* What a step begins with, in one place. *)
LEMMA TypeFacts ==
    ASSUME TypeInv
    PROVE  /\ exchanges \in Nat /\ exchanges <= MaxExchanges
           /\ ackTimeouts \in Nat /\ logins \in Nat
           /\ NoOne \notin Threads
           /\ \A t \in Threads : user[t].at # "free" <=> holder = t
           /\ <<>> \in Stored /\ Contents \subseteq Stored
           /\ toServer # <<>> => /\ Message \in Upto(ToServer, exchanges)
                                 /\ Message \in ToServer
                                 /\ Message.exchange \in 1..exchanges
                                 /\ Tail(toServer) \in Seq(Upto(ToServer, exchanges))
           /\ toClient # <<>> => /\ Reply \in Upto(ToClient, exchanges)
                                 /\ Reply \in ToClient
                                 /\ Tail(toClient) \in Seq(Upto(ToClient, exchanges))
<1>1. /\ toServer \in Seq(Upto(ToServer, exchanges))
      /\ toClient \in Seq(Upto(ToClient, exchanges))
  BY DEF TypeInv
<1>2. toServer # <<>> => /\ Message \in Upto(ToServer, exchanges)
                         /\ Tail(toServer) \in Seq(Upto(ToServer, exchanges))
  BY <1>1, ReceivedFacts DEF Message
<1>3. toClient # <<>> => /\ Reply \in Upto(ToClient, exchanges)
                         /\ Tail(toClient) \in Seq(Upto(ToClient, exchanges))
  BY <1>1, ReceivedFacts DEF Reply
<1>4. exchanges \in 0..MaxExchanges /\ ackTimeouts \in 0..MaxAckTimeouts
      /\ logins \in 0..MaxLogins
      /\ \A t \in Threads : user[t].at # "free" <=> holder = t
  BY DEF TypeInv, TypeOK
<1> QED
  BY <1>2, <1>3, <1>4, FilesAssumption, SessionBounds DEF Upto, Stored

(* An empty state of a thread or of the server has its type. *)
LEMMA RestingFits ==
    ASSUME NEW n
    PROVE  /\ Free \in UserState /\ Free.at = "free" /\ UserFits(Free, n)
           /\ Listening \in ServerState /\ Listening.at = "idle" /\ ServerFits(Listening, n)
<1>1. <<>> \in Stored /\ <<>> \in Seq(Pieces) /\ "free" \in Stages
  BY EmptySeq DEF Stored, Stages
<1> QED
  BY <1>1 DEF Free, Listening, UserState, ServerState, UserFits, ServerFits, Transferring

(* What fits a number of exchanges fits a larger one. *)
LEMMA FitsLarger ==
    ASSUME NEW n \in Nat, NEW m \in Nat, n <= m
    PROVE  /\ \A u : UserFits(u, n) => UserFits(u, m)
           /\ \A s : ServerFits(s, n) => ServerFits(s, m)
           /\ \A S : Seq(Upto(S, n)) \subseteq Seq(Upto(S, m))
<1>1. \A k \in 1..n : k \in 1..m
  OBVIOUS
<1>2. ASSUME NEW S, NEW q \in Seq(Upto(S, n))
      PROVE  q \in Seq(Upto(S, m))
  <2>1. Upto(S, n) \subseteq Upto(S, m)
    BY <1>1 DEF Upto
  <2> QED
    BY <2>1, SeqMonotonic
<1> QED
  BY <1>1, <1>2 DEF UserFits, ServerFits

(* Everything that Init says has its type. *)
LEMMA TypeInit == Init => TypeInv
<1> SUFFICES ASSUME Init PROVE TypeInv
  OBVIOUS
<1>1. /\ toServer \in Seq(Upto(ToServer, exchanges))
      /\ toClient \in Seq(Upto(ToClient, exchanges))
      /\ InFlight(toServer) = {} /\ InFlight(toClient) = {}
  BY EmptySeq, LenProperties DEF Init, InFlight
<1>2. /\ user \in [Threads -> UserState]
      /\ \A t \in Threads : user[t] = Free
      /\ \A t \in Threads : UserFits(user[t], exchanges)
      /\ ServerFits(server, exchanges)
  BY RestingFits DEF Init
<1>3. DOMAIN transfers = {}
  BY DEF Init
<1>4. stored \in [Files -> Stored] /\ saved \in [Files -> Stored]
  BY ContentFacts DEF Init, Stored
<1>5. TypeOK
  <2>1. exchanges \in 0..MaxExchanges /\ ackTimeouts \in 0..MaxAckTimeouts
        /\ logins \in 0..MaxLogins /\ losses \in 0..MaxLosses
    BY SessionBounds DEF Init
  <2>2. \A t \in Threads :
           /\ user[t].at \in Stages
           /\ user[t].at # "free" <=> holder = t
    BY <1>2, FilesAssumption, RestingFits DEF Init, Stages
  <2>3. server.at = "idle" /\ holder \in Threads \cup {NoOne}
    BY RestingFits DEF Init
  <2>4. {late, lost} \subseteq BOOLEAN
    BY DEF Init
  <2>5. \A m \in InFlight(toServer) \cup InFlight(toClient) : m.exchange \in 1..exchanges
    BY <1>1
  <2>6. DOMAIN transfers \subseteq 1..exchanges
    BY <1>3
  <2> QED
    BY <2>1, <2>2, <2>3, <2>4, <2>5, <2>6 DEF TypeOK
<1> QED
  BY <1>1, <1>2, <1>3, <1>4, <1>5 DEF TypeInv, Init

(* A step of a client thread keeps the types, if the messages and the      *)
(* state of the thread after it are of them, and the thread gives the lock *)
(* back when it is free.                                                   *)
LEMMA ClientMoves ==
    ASSUME TypeInv, NEW t \in Threads, NEW next,
           user[t].at # "free",
           Becomes(t, next), UserFits(next, exchanges),
           next.at = "free" => holder' = NoOne,
           next.at # "free" => holder' = holder,
           toServer' \in Seq(Upto(ToServer, exchanges)),
           toClient' \in Seq(Upto(ToClient, exchanges)),
           saved' \in [Files -> Stored],
           UNCHANGED onServer
    PROVE  TypeInv'
<1>1. /\ server' = server /\ transfers' = transfers /\ stored' = stored
      /\ exchanges' = exchanges /\ late' = late
      /\ ackTimeouts' = ackTimeouts /\ logins' = logins
      /\ lost' = lost /\ losses' = losses
  BY DEF onServer, bounds
<1>2. /\ user' = [user EXCEPT ![t] = next]
      /\ user \in [Threads -> UserState]
      /\ next \in UserState
  BY DEF TypeInv, Becomes, UserFits
<1>3. /\ user' \in [Threads -> UserState]
      /\ user'[t] = next
      /\ \A u \in Threads \ {t} : user'[u] = user[u]
  BY <1>2
<1>4. \A u \in Threads : UserFits(user'[u], exchanges)
  <2>1. \A u \in Threads : UserFits(user[u], exchanges)
    BY DEF TypeInv
  <2> QED
    BY <1>3, <2>1
<1>5. \A u \in Threads : /\ user'[u].at \in Stages
                         /\ user'[u].at # "free" <=> holder' = u
  <2>1. /\ holder = t
        /\ \A u \in Threads \ {t} : user[u].at = "free"
    BY TypeFacts
  <2>2. \A u \in Threads : user'[u].at \in Stages
    BY <1>3 DEF UserState
  <2>3. user'[t].at # "free" <=> holder' = t
    BY <1>3, <2>1, TypeFacts
  <2>4. \A u \in Threads \ {t} : user'[u].at = "free" /\ holder' # u
    BY <1>3, <2>1, TypeFacts
  <2> QED
    BY <2>2, <2>3, <2>4
<1>6. /\ \A m \in InFlight(toServer)' \cup InFlight(toClient)' : m.exchange \in 1..exchanges
      /\ holder' \in Threads \cup {NoOne}
  <2>1. \A m \in InFlight(toServer') \cup InFlight(toClient') : m.exchange \in 1..exchanges
    BY NumbersFit
  <2>2. holder' \in Threads \cup {NoOne}
    BY DEF TypeInv, TypeOK
  <2> QED
    BY <2>1, <2>2 DEF InFlight
<1>7. TypeOK'
  BY <1>1, <1>5, <1>6 DEF TypeInv, TypeOK
<1>8. /\ ServerFits(server, exchanges)'
      /\ (\A i \in DOMAIN transfers : TransferFits(transfers[i]))'
      /\ stored' \in [Files -> Stored]
      /\ late' => ackTimeouts' # 0
  BY <1>1 DEF TypeInv, ServerFits, TransferFits
<1>9. (\A u \in Threads : UserFits(user[u], exchanges))'
  BY <1>1, <1>4 DEF UserFits
<1> QED
  BY <1>1, <1>3, <1>7, <1>8, <1>9 DEF TypeInv, Upto

(* So does a step of the server thread. *)
LEMMA ServerMoves ==
    ASSUME TypeInv,
           UNCHANGED <<holder, user, saved, exchanges>>,
           toServer' \in Seq(Upto(ToServer, exchanges)),
           toClient' \in Seq(Upto(ToClient, exchanges)),
           ServerFits(server', exchanges),
           server'.at = "payload" => server'.tid \in DOMAIN transfers',
           DOMAIN transfers' \subseteq 1..exchanges,
           \A t \in DOMAIN transfers' : TransferFits(transfers'[t]),
           stored' \in [Files -> Stored],
           late' \in BOOLEAN,
           late' => ackTimeouts' # 0,
           ackTimeouts' \in 0..MaxAckTimeouts,
           lost' \in BOOLEAN,
           losses' \in 0..MaxLosses,
           logins' \in 0..MaxLogins
    PROVE  TypeInv'
<1>1. \A m \in InFlight(toServer)' \cup InFlight(toClient)' : m.exchange \in 1..exchanges'
  <2>1. \A m \in InFlight(toServer') \cup InFlight(toClient') : m.exchange \in 1..exchanges
    BY NumbersFit
  <2> QED
    BY <2>1 DEF InFlight
<1>2. server'.at \in {"idle", "payload", "ack", "closed"}
  BY DEF ServerFits, ServerState
<1>3. TypeOK'
  BY <1>1, <1>2 DEF TypeInv, TypeOK
<1>4. /\ ServerFits(server, exchanges)'
      /\ (\A t \in DOMAIN transfers : TransferFits(transfers[t]))'
      /\ (\A u \in Threads : UserFits(user[u], exchanges))'
  BY DEF TypeInv, ServerFits, TransferFits, UserFits
<1> QED
  BY <1>3, <1>4 DEF TypeInv, Upto

(* What is sent is on its way, or lost. *)
LEMMA SendsFit ==
    ASSUME TypeInv, NEW msgs \in Seq(Upto(ToServer, exchanges)), Sends(msgs)
    PROVE  toServer' \in Seq(Upto(ToServer, exchanges))
BY ConcatProperties DEF TypeInv, Sends

(* Answers of the server are put behind those on their way, whether they   *)
(* are what it had to send or not.                                         *)
LEMMA RepliesFit ==
    ASSUME TypeInv, NEW msgs \in Seq(Upto(ToClient, exchanges)), Replies(msgs) \/ Loses(msgs)
    PROVE  /\ toClient' \in Seq(Upto(ToClient, exchanges))
           /\ lost' \in BOOLEAN
           /\ losses' \in 0..MaxLosses
<1>1. toClient' = toClient \o msgs /\ toClient \in Seq(Upto(ToClient, exchanges))
  BY DEF TypeInv, Replies, Loses
<1>2. lost \in BOOLEAN /\ losses \in 0..MaxLosses /\ MaxLosses \in Nat
  BY SessionBounds DEF TypeInv, TypeOK
<1>3. lost' \in BOOLEAN /\ losses' \in 0..MaxLosses
  <2>1. CASE Replies(msgs)
    BY <1>2, <2>1 DEF Replies
  <2>2. CASE Loses(msgs)
    <3>1. losses \in Nat /\ losses < MaxLosses /\ losses' = losses + 1 /\ lost' = TRUE
      BY <1>2, <2>2 DEF Loses
    <3> QED
      BY <1>2, <3>1
  <2> QED
    BY <2>1, <2>2
<1> QED
  BY <1>1, <1>3, ConcatProperties

(* So it is with a single answer. *)
LEMMA AnswersFit ==
    ASSUME TypeInv, NEW m \in Upto(ToClient, exchanges), Answers(m)
    PROVE  /\ toClient' \in Seq(Upto(ToClient, exchanges))
           /\ lost' \in BOOLEAN
           /\ losses' \in 0..MaxLosses
<1>1. PICK msgs \in {<<m>>, <<>>} : Replies(msgs) \/ Loses(msgs)
  BY DEF Answers
<1>2. <<m>> \in Seq(Upto(ToClient, exchanges)) /\ <<>> \in Seq(Upto(ToClient, exchanges))
  BY EmptySeq
<1> QED
  BY <1>1, <1>2, RepliesFit

(* A thread that begins an exchange has its own number for it. *)
LEMMA BeginsType ==
    ASSUME TypeInv, NEW t \in Threads, NEW f \in Files \cup {NoOne},
           NEW stage \in Stages \ {"free", "sending", "header", "payload"},
           stage \in Transferring => f \in Files,
           NEW m \in Upto(ToServer, exchanges + 1),
           Begins(t, f, stage, m)
    PROVE  TypeInv'
<1> DEFINE n == exchanges + 1
           next == [Free EXCEPT !.at = stage, !.exchange = n, !.file = f]
<1>1. /\ exchanges \in Nat /\ n \in Nat /\ exchanges <= n /\ n \in 1..n
      /\ n <= MaxExchanges /\ MaxExchanges \in Nat
      /\ NoOne \notin Threads
  <2>1. exchanges \in Nat /\ exchanges < MaxExchanges
    BY TypeFacts DEF Begins
  <2> QED
    BY <2>1, SessionBounds, TypeFacts
<1>2. /\ exchanges' = n /\ holder = NoOne /\ holder' = t
      /\ user[t].at = "free"
      /\ user' = [user EXCEPT ![t] = next]
      /\ toClient' = toClient /\ server' = server /\ transfers' = transfers
      /\ stored' = stored /\ saved' = saved
      /\ late' = late /\ ackTimeouts' = ackTimeouts /\ logins' = logins
      /\ lost' = lost /\ losses' = losses
  BY DEF Begins, TakeLock, Becomes, bounds
<1>3. /\ toServer \in Seq(Upto(ToServer, n))
      /\ toClient' \in Seq(Upto(ToClient, n))
      /\ ServerFits(server', n)
      /\ \A u \in Threads : UserFits(user[u], n)
  BY <1>1, <1>2, FitsLarger DEF TypeInv
<1>4. toServer' \in Seq(Upto(ToServer, n))
  <2>1. <<m>> \in Seq(Upto(ToServer, n))
    OBVIOUS
  <2>2. Sends(<<m>>)
    BY DEF Begins
  <2> QED
    BY <1>3, <2>1, <2>2, ConcatProperties DEF Sends
<1>5. next \in UserState /\ next.at = stage /\ UserFits(next, n)
  <2>1. next \in UserState /\ next.at = stage /\ next.exchange = n /\ next.file = f
    BY <1>1, RestingFits DEF UserState
  <2> HIDE DEF next
  <2> QED
    BY <1>1, <2>1 DEF UserFits
<1> HIDE DEF next
<1>6. /\ user' \in [Threads -> UserState]
      /\ user'[t] = next
      /\ \A u \in Threads \ {t} : user'[u] = user[u]
  BY <1>2, <1>5 DEF TypeInv
<1>7. \A u \in Threads : UserFits(user'[u], n)
  BY <1>3, <1>5, <1>6
<1> HIDE DEF n
<1>8. TypeOK'
  <2>1. \A v \in InFlight(toServer') \cup InFlight(toClient') : v.exchange \in 1..n
    BY <1>3, <1>4, NumbersFit
  <2>2. \A v \in InFlight(toServer)' \cup InFlight(toClient)' : v.exchange \in 1..exchanges'
    BY <1>2, <2>1 DEF InFlight
  <2>3. \A u \in Threads : /\ user'[u].at \in Stages
                           /\ user'[u].at # "free" <=> holder' = u
    <3>1. \A u \in Threads : user[u].at = "free"
      BY <1>1, <1>2, TypeFacts
    <3> QED
      BY <1>2, <1>5, <1>6, <3>1 DEF UserState
  <2>4. exchanges' \in 0..MaxExchanges /\ DOMAIN transfers' \subseteq 1..exchanges'
    <3>1. DOMAIN transfers \subseteq 1..exchanges
      BY DEF TypeInv, TypeOK
    <3> QED
      BY <1>1, <1>2, <3>1
  <2> QED
    BY <1>2, <2>2, <2>3, <2>4 DEF TypeInv, TypeOK
<1>9. /\ ServerFits(server, exchanges)'
      /\ (\A i \in DOMAIN transfers : TransferFits(transfers[i]))'
      /\ (\A u \in Threads : UserFits(user[u], exchanges))'
      /\ late' => ackTimeouts' # 0
      /\ stored' \in [Files -> Stored] /\ saved' \in [Files -> Stored]
  BY <1>2, <1>3, <1>7 DEF TypeInv, ServerFits, TransferFits, UserFits
<1> QED
  BY <1>2, <1>3, <1>4, <1>6, <1>8, <1>9 DEF TypeInv, Upto

(* A thread takes a reply: what is left are replies. *)
LEMMA ReceivesFacts ==
    ASSUME TypeInv, NEW t \in Threads, NEW stage \in Stages \ {"free"}, Receives(t, stage)
    PROVE  /\ user[t].at = stage /\ user[t].at # "free"
           /\ toClient # <<>>
           /\ toClient' = Tail(toClient)
           /\ toClient' \in Seq(Upto(ToClient, exchanges))
           /\ Reply \in ToClient
           /\ user[t] \in UserState
           /\ UserFits(user[t], exchanges)
BY TypeFacts DEF Receives, TypeInv

(* A thread sends chunks of its file to a transfer, or that it is done.    *)
LEMMA SendChunkType ==
    ASSUME TypeInv, NEW t \in Threads, NEW tid \in Nat, NEW k \in Nat \ {0},
           user[t].at \in {"begun", "sending"},
           SendChunk(t, tid, k), UNCHANGED <<holder, saved, onServer>>,
           toClient' \in Seq(Upto(ToClient, exchanges))
    PROVE  TypeInv'
<1> DEFINE u == user[t]
<1>1. /\ u \in UserState /\ u.exchange \in 1..exchanges /\ u.file \in Files
      /\ exchanges \in Nat
      /\ UserFits(u, exchanges)
      /\ u.at # "free"
  BY TypeFacts DEF TypeInv, UserFits, Transferring
<1>2. saved' \in [Files -> Stored] /\ UNCHANGED onServer /\ holder' = holder
  BY DEF TypeInv
<1>3. CASE k <= NumChunks[u.file]
  <2> DEFINE msgs == <<ChunkRequest(u.exchange, tid, k), Payload(u.exchange, Chunk(u.file, k))>>
             next == [u EXCEPT !.at = "sending", !.tid = tid, !.k = k]
  <2>1. k \in 1..NumChunks[u.file]
    BY <1>1, <1>3, ContentFacts
  <2>2. Chunk(u.file, k) \in Parts
    BY <1>1, <2>1, ContentFacts
  <2>3. msgs \in Seq(Upto(ToServer, exchanges))
    BY <1>1, <2>2, MessagesToServer
  <2>4. Sends(msgs) /\ Becomes(t, next)
    BY <1>3 DEF SendChunk
  <2>5. /\ next \in UserState /\ next.at = "sending"
        /\ next.exchange = u.exchange /\ next.file = u.file
    BY <1>1 DEF UserState, Stages
  <2> HIDE DEF next, msgs
  <2>6. UserFits(next, exchanges) /\ next.at # "free"
    BY <1>1, <2>5 DEF UserFits, Transferring
  <2> QED
    BY <1>1, <1>2, <2>3, <2>4, <2>6, SendsFit, ClientMoves
<1>4. CASE ~ (k <= NumChunks[u.file])
  <2> DEFINE msgs == <<DoneRequest(u.exchange, tid, Content(u.file))>>
             next == [u EXCEPT !.at = "answer"]
  <2>1. msgs \in Seq(Upto(ToServer, exchanges))
    BY <1>1, ContentFacts, MessagesToServer
  <2>2. Sends(msgs) /\ Becomes(t, next)
    BY <1>4 DEF SendChunk
  <2>3. next \in UserState /\ next.at = "answer" /\ next.exchange = u.exchange
    BY <1>1 DEF UserState, Stages
  <2> HIDE DEF next, msgs
  <2>4. UserFits(next, exchanges) /\ next.at # "free"
    BY <1>1, <2>3 DEF UserFits, Transferring
  <2> QED
    BY <1>1, <1>2, <2>1, <2>2, <2>4, SendsFit, ClientMoves
<1> QED
  BY <1>3, <1>4

(* An exchange that ends sets its thread free. *)
LEMMA EndsType ==
    ASSUME TypeInv, NEW t \in Threads, user[t].at # "free", Ends(t),
           toServer' \in Seq(Upto(ToServer, exchanges)),
           toClient' \in Seq(Upto(ToClient, exchanges)),
           saved' \in [Files -> Stored],
           UNCHANGED onServer
    PROVE  TypeInv'
<1>1. UserFits(Free, exchanges) /\ Free.at = "free"
  BY RestingFits
<1>2. Becomes(t, Free) /\ holder' = NoOne
  BY DEF Ends
<1> HIDE DEF Free
<1> QED
  BY <1>1, <1>2, ClientMoves

(* Then each action in turn: the client's, *)
LEMMA ReceiveAnswerType ==
    ASSUME TypeInv, NEW t \in Threads, ReceiveAnswer(t)
    PROVE  TypeInv'
<1>1. Receives(t, "answer") /\ Ends(t) /\ UNCHANGED <<toServer, saved, onServer>>
  BY DEF ReceiveAnswer
<1>2. "answer" \in Stages \ {"free"}
  BY DEF Stages
<1> QED
  BY <1>1, <1>2, ReceivesFacts, EndsType DEF TypeInv

LEMMA ReceiveTransferIdType ==
    ASSUME TypeInv, NEW t \in Threads, ReceiveTransferId(t)
    PROVE  TypeInv'
<1>1. Receives(t, "begun") /\ UNCHANGED <<saved, onServer>> /\ "begun" \in Stages \ {"free"}
  BY DEF ReceiveTransferId, Stages
<1>2. CASE IsOK(Reply)
  <2> DEFINE tid == IF Reply.kind = "UPLD~OK" THEN Reply.tid ELSE 0
  <2>1. tid \in Nat /\ 1 \in Nat \ {0}
    BY <1>1, ReceivesFacts, KindsToClient
  <2>2. SendChunk(t, tid, 1) /\ UNCHANGED holder
    BY <1>2 DEF ReceiveTransferId
  <2> HIDE DEF tid
  <2> QED
    BY <1>1, <2>1, <2>2, ReceivesFacts, SendChunkType
<1>3. CASE ~ IsOK(Reply)
  <2>1. Ends(t) /\ toServer' = toServer
    BY <1>3 DEF ReceiveTransferId
  <2> QED
    BY <1>1, <2>1, ReceivesFacts, EndsType DEF TypeInv
<1> QED
  BY <1>2, <1>3

LEMMA ReceiveChunkAnswerType ==
    ASSUME TypeInv, NEW t \in Threads, ReceiveChunkAnswer(t)
    PROVE  TypeInv'
<1>1. /\ Receives(t, "sending") /\ "sending" \in Stages \ {"free"}
      /\ SendChunk(t, user[t].tid, user[t].k + 1)
      /\ UNCHANGED <<holder, saved, onServer>>
  BY DEF ReceiveChunkAnswer, Stages
<1>2. user[t].tid \in Nat /\ user[t].k + 1 \in Nat \ {0}
  BY <1>1, ReceivesFacts DEF UserState
<1> QED
  BY <1>1, <1>2, ReceivesFacts, SendChunkType

LEMMA ReceiveOfferType ==
    ASSUME TypeInv, NEW t \in Threads, ReceiveOffer(t)
    PROVE  TypeInv'
<1>1. Receives(t, "asked") /\ UNCHANGED <<toServer, saved, onServer>> /\ "asked" \in Stages \ {"free"}
  BY DEF ReceiveOffer, Stages
<1>2. toServer' \in Seq(Upto(ToServer, exchanges)) /\ saved' \in [Files -> Stored]
  BY <1>1 DEF TypeInv
<1>3. CASE Reply.kind = "DWNL~OK"
  <2> DEFINE u == user[t]
             got == [k \in DOMAIN Reply.md5 |-> NoOne]
             md5 == Reply.md5
             next == [u EXCEPT !.at = "header", !.offer = md5, !.k = 1, !.got = got]
  <2>1. PICK f \in Files : Reply.md5 = Content(f)
    BY <1>1, <1>3, ReceivesFacts, KindsToClient DEF Contents
  <2>2. got \in [1..NumChunks[f] -> Pieces] /\ NumChunks[f] \in Nat
    BY <2>1, ContentFacts DEF Pieces
  <2>3. got \in Seq(Pieces) /\ md5 \in Contents /\ md5 \in Stored
    BY <2>1, <2>2, SeqDef, ContentFacts
  <2>4. Becomes(t, next) /\ holder' = holder
    BY <1>3 DEF ReceiveOffer
  <2>5. u \in UserState /\ UserFits(u, exchanges) /\ u.at = "asked"
    BY <1>1, ReceivesFacts
  <2> HIDE DEF got, md5
  <2>6. /\ next \in UserState /\ next.at = "header"
        /\ next.exchange = u.exchange /\ next.file = u.file /\ next.offer = md5
    BY <2>3, <2>5 DEF UserState, Stages
  <2> HIDE DEF next
  <2>7. UserFits(next, exchanges) /\ next.at # "free"
    BY <2>3, <2>5, <2>6 DEF UserFits, Transferring
  <2> QED
    BY <1>1, <1>2, <2>4, <2>7, ReceivesFacts, ClientMoves
<1>4. CASE Reply.kind # "DWNL~OK"
  <2>1. Ends(t)
    BY <1>4 DEF ReceiveOffer
  <2> QED
    BY <1>1, <1>2, <2>1, ReceivesFacts, EndsType
<1> QED
  BY <1>3, <1>4

LEMMA ReceiveHeaderType ==
    ASSUME TypeInv, NEW t \in Threads, ReceiveHeader(t)
    PROVE  TypeInv'
<1>1. /\ Receives(t, "header") /\ "header" \in Stages \ {"free"}
      /\ UNCHANGED <<toServer, saved, onServer>>
  BY DEF ReceiveHeader, Stages
<1>2. toServer' \in Seq(Upto(ToServer, exchanges)) /\ saved' \in [Files -> Stored]
  BY <1>1 DEF TypeInv
<1>3. CASE Reply.kind # "payload"
  <2> DEFINE u == user[t]
             m == Reply
             next == [u EXCEPT !.at = "payload", !.header = m]
  <2>1. Becomes(t, next) /\ holder' = holder
    BY <1>3 DEF ReceiveHeader
  <2>2. m \in ToClient /\ u \in UserState /\ UserFits(u, exchanges) /\ u.at = "header"
    BY <1>1, ReceivesFacts
  <2> HIDE DEF m
  <2>3. /\ next \in UserState /\ next.at = "payload" /\ next.header = m
        /\ next.exchange = u.exchange /\ next.file = u.file /\ next.offer = u.offer
    BY <2>2 DEF UserState, Stages
  <2> HIDE DEF next
  <2>4. UserFits(next, exchanges) /\ next.at # "free"
    BY <2>2, <2>3 DEF UserFits, Transferring
  <2> QED
    BY <1>1, <1>2, <2>1, <2>4, ReceivesFacts, ClientMoves
<1>4. CASE Reply.kind = "payload"
  <2>1. Ends(t)
    BY <1>4 DEF ReceiveHeader
  <2> QED
    BY <1>1, <1>2, <2>1, ReceivesFacts, EndsType
<1> QED
  BY <1>3, <1>4

LEMMA ReceiveNothingType ==
    ASSUME TypeInv, NEW t \in Threads, ReceiveNothing(t) \/ Misreads(t)
    PROVE  TypeInv'
<1>1. /\ user[t].at # "free" /\ Ends(t) /\ UNCHANGED <<toServer, saved, onServer>>
      /\ toClient' = <<>> \/ toClient' = toClient
  BY DEF ReceiveNothing, Misreads
<1>2. toClient' \in Seq(Upto(ToClient, exchanges))
  BY <1>1, EmptySeq DEF TypeInv
<1> QED
  BY <1>1, <1>2, EndsType DEF TypeInv

(* A sequence stays one when an element is replaced. *)
LEMMA ReplacedInSeq ==
    ASSUME NEW S, NEW q \in Seq(S), NEW k, NEW x \in S
    PROVE  [q EXCEPT ![k] = x] \in Seq(S) /\ DOMAIN [q EXCEPT ![k] = x] = DOMAIN q
<1>1. Len(q) \in Nat /\ DOMAIN q = 1..Len(q) /\ q \in [1..Len(q) -> S]
  BY LenProperties
<1>2. [q EXCEPT ![k] = x] \in [1..Len(q) -> S]
  BY <1>1
<1> QED
  BY <1>1, <1>2, SeqDef

(* A thread puts what it has received where the header says, and saves     *)
(* nothing or a file whose digest it was offered.                          *)
LEMMA PayloadFacts ==
    ASSUME TypeInv, NEW t \in Threads, ReceivePayload(t)
    PROVE  LET u == user[t]
               data == IF Reply.kind = "payload" THEN Reply.data ELSE Reply
               got == GotWith(t, data)
           IN  /\ Receives(t, "payload")
               /\ u.header \in ToClient /\ u.offer \in Contents /\ u.file \in Files
               /\ u.got \in Seq(Pieces) /\ data \in Pieces
               /\ got \in Seq(Pieces)
               /\ DOMAIN got = DOMAIN u.got
               /\ saved' # saved => /\ saved' = [saved EXCEPT ![u.file] = got]
                                    /\ got = u.offer
               /\ saved' \in [Files -> Stored]
               /\ toServer' \in Seq(Upto(ToServer, exchanges))
<1> DEFINE u == user[t]
           data == IF Reply.kind = "payload" THEN Reply.data ELSE Reply
           got == GotWith(t, data)
<1>1. Receives(t, "payload") /\ "payload" \in Stages \ {"free"}
  BY DEF ReceivePayload, Stages
<1>2. /\ u \in UserState /\ UserFits(u, exchanges) /\ u.at = "payload"
      /\ Reply \in ToClient
  BY <1>1, ReceivesFacts
<1>3. /\ u.header \in ToClient /\ u.offer \in Contents /\ u.file \in Files
      /\ u.got \in Seq(Pieces) /\ u.exchange \in 1..exchanges
  BY <1>2 DEF UserFits, Transferring, UserState
<1>4. data \in Pieces
  BY <1>2, KindsToClient DEF Pieces
<1>5. got \in Seq(Pieces) /\ DOMAIN got = DOMAIN u.got
  <2> HIDE DEF data
  <2> QED
    BY <1>3, <1>4, ReplacedInSeq DEF GotWith
<1>6. saved' # saved => saved' = [saved EXCEPT ![u.file] = got] /\ got = u.offer
  BY DEF ReceivePayload, Verified
<1>7. saved' \in [Files -> Stored]
  <2>1. saved \in [Files -> Stored] /\ u.offer \in Stored
    BY <1>3, TypeFacts DEF TypeInv
  <2> QED
    BY <1>6, <2>1
<1>8. toServer' \in Seq(Upto(ToServer, exchanges))
  <2>1. exchanges \in Nat
    BY TypeFacts
  <2>2. <<Text("DACK", u.exchange)>> \in Seq(Upto(ToServer, exchanges))
    BY <1>3, <2>1, MessagesToServer
  <2>3. Sends(<<Text("DACK", u.exchange)>>)
    BY DEF ReceivePayload
  <2> QED
    BY <2>2, <2>3, SendsFit
<1> QED
  BY <1>1, <1>3, <1>4, <1>5, <1>6, <1>7, <1>8

LEMMA ReceivePayloadType ==
    ASSUME TypeInv, NEW t \in Threads, ReceivePayload(t)
    PROVE  TypeInv'
<1> DEFINE u == user[t]
           data == IF Reply.kind = "payload" THEN Reply.data ELSE Reply
           got == GotWith(t, data)
           more == u.header.kind \in {"DCNK"} \cup Errors /\ u.k < Len(got)
<1>1. /\ Receives(t, "payload") /\ "payload" \in Stages \ {"free"}
      /\ UNCHANGED onServer
  BY DEF ReceivePayload, Stages
<1>2. /\ u \in UserState /\ UserFits(u, exchanges) /\ u.at = "payload"
      /\ toClient' \in Seq(Upto(ToClient, exchanges))
  BY <1>1, ReceivesFacts
<1>3. /\ got \in Seq(Pieces)
      /\ saved' \in [Files -> Stored]
      /\ toServer' \in Seq(Upto(ToServer, exchanges))
  BY PayloadFacts
<1>4. CASE more
  <2> DEFINE k == u.k + 1
             next == [u EXCEPT !.at = "header", !.k = k, !.got = got]
  <2>1. Becomes(t, next) /\ holder' = holder
    BY <1>4 DEF ReceivePayload
  <2>2. k \in Nat
    BY <1>2 DEF UserState
  <2> HIDE DEF got, k
  <2>3. /\ next \in UserState /\ next.at = "header"
        /\ next.exchange = u.exchange /\ next.file = u.file /\ next.offer = u.offer
    BY <1>2, <1>3, <2>2 DEF UserState, Stages
  <2> HIDE DEF next
  <2>4. UserFits(next, exchanges) /\ next.at # "free"
    BY <1>2, <2>3 DEF UserFits, Transferring
  <2> QED
    BY <1>1, <1>2, <1>3, <2>1, <2>4, ClientMoves
<1>5. CASE ~ more
  <2>1. Ends(t)
    BY <1>5 DEF ReceivePayload
  <2> QED
    BY <1>1, <1>2, <1>3, <2>1, EndsType
<1> QED
  BY <1>4, <1>5

(* The server takes a message. *)
LEMMA TakesFacts ==
    ASSUME TypeInv, NEW stage, NEW next, Takes(stage, next)
    PROVE  /\ server.at = stage /\ server' = next
           /\ toServer # <<>> /\ toServer' = Tail(toServer)
           /\ toServer' \in Seq(Upto(ToServer, exchanges))
           /\ Message \in ToServer
           /\ Message.exchange \in 1..exchanges
           /\ exchanges \in Nat
BY TypeFacts DEF Takes, TakesAt

(* What a step of the server leaves as it was, it leaves with its type.    *)
LEMMA ServerTypes ==
    ASSUME TypeInv
    PROVE  /\ toServer \in Seq(Upto(ToServer, exchanges))
           /\ toClient \in Seq(Upto(ToClient, exchanges))
           /\ ServerFits(server, exchanges)
           /\ server.at = "payload" => server.tid \in DOMAIN transfers
           /\ DOMAIN transfers \subseteq 1..exchanges
           /\ \A t \in DOMAIN transfers : TransferFits(transfers[t])
           /\ stored \in [Files -> Stored]
           /\ late \in BOOLEAN
           /\ lost \in BOOLEAN
           /\ losses \in 0..MaxLosses
           /\ late => ackTimeouts # 0
           /\ ackTimeouts \in 0..MaxAckTimeouts
           /\ logins \in 0..MaxLogins
BY DEF TypeInv, TypeOK

(* and the server's. *)
LEMMA HandleTextType ==
    ASSUME TypeInv, HandleText
    PROVE  TypeInv'
<1>1. /\ Takes("idle", server)
      /\ Message.kind \in {"request", "DACK", "payload"}
      /\ UNCHANGED <<onClient, transfers, stored, timeouts>>
  BY DEF HandleText
<1> DEFINE Here == Upto(ToClient, exchanges)
<1>2. \A kind \in {"OK", "FAIL", "part"} \cup Errors : Text(kind, Message.exchange) \in Here
  BY <1>1, TakesFacts, MessagesToClient
<1>3. toClient' \in Seq(Here) /\ lost' \in BOOLEAN /\ losses' \in 0..MaxLosses
  <2>1. CASE \E kind \in AnswerKinds(Message) : Answers(Text(kind, Message.exchange))
    <3>1. PICK kind \in AnswerKinds(Message) : Answers(Text(kind, Message.exchange))
      BY <2>1
    <3>2. kind \in {"OK"} \cup Errors
      BY <1>1, <3>1 DEF AnswerKinds, Errors
    <3> QED
      BY <1>2, <3>1, <3>2, AnswersFit
  <2>2. CASE Loses(<<Part(Message.exchange)>>)
    <3>1. <<Part(Message.exchange)>> \in Seq(Here)
      BY <1>2 DEF Part
    <3> QED
      BY <2>2, <3>1, RepliesFit
  <2> QED
    BY <2>1, <2>2 DEF HandleText
<1> QED
  BY <1>1, <1>3, TakesFacts, ServerTypes, ServerMoves DEF onClient, timeouts

LEMMA HandleUploadType ==
    ASSUME TypeInv, HandleUpload
    PROVE  TypeInv'
<1> DEFINE x == Message.exchange
           f == Message.file
           chunks == [k \in 1..NumChunks[f] |-> NoOne]
           new == [name |-> f, chunks |-> chunks]
<1>1. /\ Takes("idle", server) /\ Answers(Accepted(x, x))
      /\ Message.kind = "UPLD"
      /\ transfers' = [t \in DOMAIN transfers \cup {x} |-> IF t = x THEN new ELSE transfers[t]]
      /\ UNCHANGED <<onClient, stored, timeouts>>
  BY DEF HandleUpload
<1>2. x \in 1..exchanges /\ f \in Files /\ exchanges \in Nat
  BY <1>1, TakesFacts, KindsToServer
<1>3. Accepted(x, x) \in Upto(ToClient, exchanges)
  <2>1. x \in Nat
    BY <1>2
  <2> QED
    BY <1>2, <2>1, MessagesToClient
<1>4. toClient' \in Seq(Upto(ToClient, exchanges)) /\ lost' \in BOOLEAN /\ losses' \in 0..MaxLosses
  BY <1>1, <1>3, AnswersFit
<1>5. TransferFits(new)
  <2> HIDE DEF chunks
  <2> QED
    BY <1>2 DEF TransferFits
<1> HIDE DEF new, x
<1>6. /\ DOMAIN transfers' = DOMAIN transfers \cup {x}
      /\ DOMAIN transfers' \subseteq 1..exchanges
      /\ \A t \in DOMAIN transfers' : TransferFits(transfers'[t])
      /\ server.at = "idle" /\ server' = server
  BY <1>1, <1>2, <1>5, TakesFacts, ServerTypes
<1> QED
  BY <1>1, <1>4, <1>6, TakesFacts, ServerTypes, ServerMoves DEF onClient, timeouts

LEMMA HandleChunkType ==
    ASSUME TypeInv, HandleChunk
    PROVE  TypeInv'
<1> DEFINE m == Message
           next == [server EXCEPT !.at = "payload", !.exchange = m.exchange,
                                  !.tid = m.tid, !.k = m.k]
<1>1. /\ toServer # <<>> /\ m.kind = "CHNK"
      /\ UNCHANGED <<onClient, transfers, stored, timeouts>>
  BY DEF HandleChunk
<1>2. m \in ToServer /\ m.exchange \in 1..exchanges /\ exchanges \in Nat
      /\ m.tid \in Nat /\ m.k \in Nat
  BY <1>1, TypeFacts, KindsToServer
<1>3. CASE m.tid \in DOMAIN transfers
  <2>1. Takes("idle", next) /\ Replies(<<>>)
    BY <1>3 DEF HandleChunk
  <2>2. next \in ServerState /\ next.at = "payload" /\ next.tid = m.tid /\ next.exchange = m.exchange
    <3>1. server \in ServerState /\ m.exchange \in Nat
      BY <1>2 DEF TypeInv, ServerFits
    <3> HIDE DEF m
    <3> QED
      BY <1>2, <3>1 DEF ServerState
  <2> HIDE DEF next
  <2>3. ServerFits(next, exchanges)
    BY <1>2, <2>2 DEF ServerFits
  <2>4. toClient' \in Seq(Upto(ToClient, exchanges)) /\ lost' \in BOOLEAN /\ losses' \in 0..MaxLosses
    BY <2>1, EmptySeq, RepliesFit
  <2> QED
    BY <1>1, <1>3, <2>1, <2>2, <2>3, <2>4, TakesFacts, ServerTypes, ServerMoves
       DEF onClient, timeouts
<1>4. CASE m.tid \notin DOMAIN transfers
  <2>1. Takes("idle", server) /\ Answers(Text("FAIL", m.exchange))
    BY <1>4 DEF HandleChunk
  <2>2. Text("FAIL", m.exchange) \in Upto(ToClient, exchanges)
    BY <1>2, MessagesToClient
  <2>3. toClient' \in Seq(Upto(ToClient, exchanges)) /\ lost' \in BOOLEAN /\ losses' \in 0..MaxLosses
    BY <2>1, <2>2, AnswersFit
  <2> QED
    BY <1>1, <2>1, <2>3, TakesFacts, ServerTypes, ServerMoves DEF onClient, timeouts
<1> QED
  BY <1>3, <1>4

(* A chunk is put among the chunks of a transfer, whose name stays. *)
LEMMA PayloadKept ==
    ASSUME TypeInv, HandlePayload
    PROVE  /\ DOMAIN transfers' = DOMAIN transfers
           /\ \A t \in DOMAIN transfers : /\ TransferFits(transfers'[t])
                                          /\ transfers'[t].name = transfers[t].name
<1> DEFINE t == server.tid
           data == IF Message.kind = "payload" THEN Message.data ELSE Message
           old == transfers[t].chunks
           new == [k \in DOMAIN old \cup {server.k} |-> IF k = server.k THEN data ELSE old[k]]
<1>1. transfers' = [transfers EXCEPT ![t] = [transfers[t] EXCEPT !.chunks = new]]
  BY DEF HandlePayload
<1>2. t \in DOMAIN transfers
  <2>1. server.at = "payload"
    BY DEF HandlePayload, Takes, TakesAt
  <2> QED
    BY <2>1, ServerTypes
<1> HIDE DEF new, t
<1>3. \A i \in DOMAIN transfers : TransferFits(transfers[i])
  BY ServerTypes
<1>4. /\ [transfers[t] EXCEPT !.chunks = new] = [name |-> transfers[t].name, chunks |-> new]
      /\ transfers[t].name \in Files
  <2>1. TransferFits(transfers[t])
    BY <1>2, <1>3
  <2> DEFINE n == transfers[t].name
             c == transfers[t].chunks
  <2>2. transfers[t] = [name |-> n, chunks |-> c] /\ n \in Files
    BY <2>1 DEF TransferFits
  <2> HIDE DEF n, c
  <2>3. [transfers[t] EXCEPT !.chunks = new] = [name |-> n, chunks |-> new]
    BY <2>2
  <2> QED
    BY <2>2, <2>3 DEF n
<1> DEFINE next == [name |-> transfers[t].name, chunks |-> new]
<1>5. TransferFits(next) /\ next.name = transfers[t].name
  BY <1>4 DEF TransferFits
<1>6. transfers' = [transfers EXCEPT ![t] = next]
  BY <1>1, <1>4
<1> HIDE DEF next
<1> QED
  BY <1>2, <1>3, <1>5, <1>6

LEMMA HandlePayloadType ==
    ASSUME TypeInv, HandlePayload
    PROVE  TypeInv'
<1>1. /\ Takes("payload", Listening) /\ Answers(Text("OK", server.exchange))
      /\ UNCHANGED <<onClient, stored, timeouts>>
  BY DEF HandlePayload
<1>2. Text("OK", server.exchange) \in Upto(ToClient, exchanges)
  <2>1. server.exchange \in 1..exchanges /\ exchanges \in Nat
    BY <1>1, TakesFacts, ServerTypes DEF ServerFits
  <2> QED
    BY <2>1, MessagesToClient
<1>3. toClient' \in Seq(Upto(ToClient, exchanges)) /\ lost' \in BOOLEAN /\ losses' \in 0..MaxLosses
  BY <1>1, <1>2, AnswersFit
<1>4. ServerFits(Listening, exchanges) /\ Listening.at = "idle"
  BY RestingFits
<1> HIDE DEF Listening
<1> QED
  BY <1>1, <1>3, <1>4, PayloadKept, TakesFacts, ServerTypes, ServerMoves DEF onClient, timeouts

(* What handle_upload_done stores is what the client has the digest of.    *)
LEMMA DoneFacts ==
    ASSUME TypeInv, HandleDone
    PROVE  LET t == Message.tid
               name == transfers[t].name
           IN  /\ Message.kind = "DONE"
               /\ stored' # stored => /\ t \in DOMAIN transfers /\ name \in Files
                                      /\ stored' = [stored EXCEPT ![name] = Message.md5]
                                      /\ Message.md5 \in Contents
               /\ stored' \in [Files -> Stored]
<1> DEFINE t == Message.tid
           name == transfers[t].name
<1>1. toServer # <<>> /\ Message.kind = "DONE"
  BY DEF HandleDone
<1>2. Message.md5 \in Contents /\ Message.md5 \in Stored
  BY <1>1, TypeFacts, KindsToServer
<1>3. stored' # stored => t \in DOMAIN transfers /\ stored' = [stored EXCEPT ![name] = Message.md5]
  BY DEF HandleDone, Verified
<1>4. t \in DOMAIN transfers => name \in Files
  BY ServerTypes DEF TransferFits
<1>5. stored' \in [Files -> Stored]
  <2>1. stored \in [Files -> Stored]
    BY ServerTypes
  <2> QED
    BY <1>2, <1>3, <2>1
<1> QED
  BY <1>1, <1>2, <1>3, <1>4, <1>5

LEMMA HandleDoneType ==
    ASSUME TypeInv, HandleDone
    PROVE  TypeInv'
<1> DEFINE t == Message.tid
<1>1. /\ Takes("idle", server)
      /\ transfers' = [u \in DOMAIN transfers \ {t} |-> transfers[u]]
      /\ UNCHANGED <<onClient, timeouts>>
  BY DEF HandleDone
<1>2. PICK kind \in {"OK", "FAIL"} : Answers(Text(kind, Message.exchange))
  BY DEF HandleDone
<1>3. Text(kind, Message.exchange) \in Upto(ToClient, exchanges)
  BY <1>1, TakesFacts, MessagesToClient
<1>4. toClient' \in Seq(Upto(ToClient, exchanges)) /\ lost' \in BOOLEAN /\ losses' \in 0..MaxLosses
  BY <1>2, <1>3, AnswersFit
<1>5. /\ DOMAIN transfers' \subseteq 1..exchanges
      /\ \A u \in DOMAIN transfers' : TransferFits(transfers'[u])
  BY <1>1, ServerTypes
<1> QED
  BY <1>1, <1>4, <1>5, DoneFacts, TakesFacts, ServerTypes, ServerMoves DEF onClient, timeouts

(* A file that is stored is that of some content. *)
LEMMA StoredFacts ==
    ASSUME TypeInv, NEW f \in Files
    PROVE  /\ stored[f] \in Seq(Parts) /\ Len(stored[f]) \in Nat
           /\ DOMAIN stored[f] = 1..Len(stored[f])
           /\ stored[f] # <<>> => stored[f] \in Contents /\ Len(stored[f]) # 0
           /\ \A k \in 1..Len(stored[f]) : stored[f][k] \in Parts
<1>1. stored[f] \in Stored
  BY DEF TypeInv
<1>2. stored[f] \in Seq(Parts)
  BY <1>1, ContentFacts, EmptySeq DEF Stored, Contents
<1>3. stored[f] # <<>> => stored[f] \in Contents
  BY <1>1 DEF Stored
<1>4. /\ Len(stored[f]) \in Nat /\ DOMAIN stored[f] = 1..Len(stored[f])
      /\ \A k \in 1..Len(stored[f]) : stored[f][k] \in Parts
  BY <1>2, LenProperties, ElementOfSeq
<1>5. stored[f] # <<>> => Len(stored[f]) # 0
  BY <1>2, EmptySeq
<1> QED
  BY <1>2, <1>3, <1>4, <1>5

(* A connection that the server has closed carries nothing. *)
LEMMA HangsUpFacts ==
    ASSUME HangsUp
    PROVE  /\ ServerFits(server', exchanges) /\ server'.at = "closed"
           /\ toServer' = <<>> /\ <<>> \in Seq(Upto(ToServer, exchanges))
<1>1. Listening \in ServerState
  BY RestingFits
<1>2. server' = [Listening EXCEPT !.at = "closed"] /\ toServer' = <<>>
  BY DEF HangsUp
<1> HIDE DEF Listening
<1>3. server' \in ServerState /\ server'.at = "closed"
  BY <1>1, <1>2 DEF ServerState
<1> QED
  BY <1>2, <1>3, EmptySeq DEF ServerFits

(* The server thread sends a chunk and waits, or sends no more and listens. *)
LEMMA ServesChunkFits ==
    ASSUME TypeInv, NEW waiting, waiting.exchange \in 1..exchanges, waiting.file \in Files,
           NEW k \in 1..Len(stored[waiting.file]),
           NEW texts \in Seq(Upto(ToClient, exchanges)), ServesChunk(texts, k, waiting)
    PROVE  /\ toClient' \in Seq(Upto(ToClient, exchanges))
           /\ lost' \in BOOLEAN
           /\ losses' \in 0..MaxLosses
           /\ server' \in {waiting, Listening}
<1> DEFINE Here == Upto(ToClient, exchanges)
           x == waiting.exchange
           data == stored[waiting.file][k]
<1>1. data \in Parts /\ exchanges \in Nat
  BY StoredFacts, TypeFacts
<1>2. <<Payload(x, data)>> \in Seq(Here) /\ <<Part(x)>> \in Seq(Here)
  <2>1. Payload(x, data) \in Here /\ Part(x) \in Here
    BY <1>1, MessagesToClient
  <2> QED
    BY <2>1
<1>3. texts \o <<Payload(x, data)>> \in Seq(Here) /\ texts \o <<Part(x)>> \in Seq(Here)
  BY <1>2, ConcatProperties
<1>4. \A n \in 0..Len(texts) : SubSeq(texts, 1, n) \in Seq(Here)
  BY SubSeqProperties, LenProperties
<1>5. \/ Replies(texts \o <<Payload(x, data)>>) /\ server' = waiting
      \/ Loses(texts \o <<Part(x)>>) /\ server' = waiting
      \/ \E n \in 0..Len(texts) : Loses(SubSeq(texts, 1, n)) /\ server' = Listening
  BY DEF ServesChunk
<1>6. PICK msgs \in Seq(Here) : /\ Replies(msgs) \/ Loses(msgs)
                                /\ server' \in {waiting, Listening}
  BY <1>3, <1>4, <1>5
<1> QED
  BY <1>6, RepliesFit

LEMMA HandleDownloadType ==
    ASSUME TypeInv, HandleDownload
    PROVE  TypeInv'
<1> DEFINE f == Message.file
           x == Message.exchange
           Here == Upto(ToClient, exchanges)
<1>1. /\ toServer # <<>> /\ Message.kind = "DWNL"
      /\ UNCHANGED <<onClient, transfers, stored, timeouts>>
  BY DEF HandleDownload
<1>2. /\ x \in 1..exchanges /\ f \in Files /\ exchanges \in Nat /\ x \in Nat
      /\ Tail(toServer) \in Seq(Upto(ToServer, exchanges))
  BY <1>1, TypeFacts, KindsToServer
<1>3. CASE stored[f] # <<>>
  <2>1. PICK next : next = [at |-> "ack", exchange |-> x, file |-> f, tid |-> 0, k |-> 1]
    OBVIOUS
  <2>2. PICK texts : texts = <<Offer(x, stored[f]), ChunkHeader(x, 1)>>
    OBVIOUS
  <2>3. TakesAt("idle") /\ ServesChunk(texts, 1, next)
    BY <1>3, <2>1, <2>2 DEF HandleDownload
  <2>4. 1 \in 1..Len(stored[f]) /\ stored[f] \in Contents
    BY <1>2, <1>3, StoredFacts
  <2>5. texts \in Seq(Here)
    <3>1. Offer(x, stored[f]) \in Here /\ ChunkHeader(x, 1) \in Here
      BY <1>2, <2>4, MessagesToClient
    <3> QED
      BY <2>2, <3>1
  <2>6. next.exchange = x /\ next.file = f /\ next.at = "ack"
    BY <2>1
  <2>7. /\ toClient' \in Seq(Here) /\ lost' \in BOOLEAN /\ losses' \in 0..MaxLosses
        /\ server' \in {next, Listening}
    BY <1>2, <2>3, <2>4, <2>5, <2>6, ServesChunkFits
  <2>8. ServerFits(next, exchanges)
    BY <1>2, <2>1 DEF ServerFits, ServerState
  <2>9. ServerFits(server', exchanges) /\ server'.at # "payload"
    BY <2>6, <2>7, <2>8, RestingFits
  <2>10. toServer' \in Seq(Upto(ToServer, exchanges))
    BY <1>2, <2>3 DEF TakesAt
  <2> QED
    BY <1>1, <2>7, <2>9, <2>10, ServerTypes, ServerMoves DEF onClient, timeouts
<1>4. CASE stored[f] = <<>>
  <2>1. Refuses(x)
    BY <1>4 DEF HandleDownload
  <2>2. PICK msgs \in {<<>>, <<Text("FAIL", x)>>, <<Text("ERRR~001", x)>>} :
          Replies(msgs) \/ Loses(msgs)
    BY <2>1 DEF Refuses
  <2>3. msgs \in Seq(Here)
    <3>1. PICK a \in Here, b \in Here : a = Text("FAIL", x) /\ b = Text("ERRR~001", x)
      BY <1>2, MessagesToClient DEF Errors
    <3>2. <<a>> \in Seq(Here) /\ <<b>> \in Seq(Here) /\ <<>> \in Seq(Here)
      BY EmptySeq
    <3> QED
      BY <2>2, <3>1, <3>2
  <2>4. toClient' \in Seq(Here) /\ lost' \in BOOLEAN /\ losses' \in 0..MaxLosses
    BY <2>2, <2>3, RepliesFit
  <2>5. CASE Takes("idle", server)
    BY <1>1, <2>4, <2>5, TakesFacts, ServerTypes, ServerMoves DEF onClient, timeouts
  <2>6. CASE HangsUp
    BY <1>1, <2>4, <2>6, HangsUpFacts, ServerTypes, ServerMoves DEF onClient, timeouts
  <2> QED
    BY <2>1, <2>5, <2>6 DEF Refuses
<1> QED
  BY <1>3, <1>4

LEMMA HandleAckType ==
    ASSUME TypeInv, HandleAck
    PROVE  TypeInv'
<1> DEFINE k == server.k + 1
           f == server.file
           more == Message.kind = "DACK" /\ k <= Len(stored[f])
           Here == Upto(ToClient, exchanges)
<1>1. /\ toServer # <<>> /\ server.at = "ack" /\ toServer' = Tail(toServer)
      /\ UNCHANGED <<onClient, transfers, stored, timeouts>>
  BY DEF HandleAck, TakesAt
<1>2. /\ server.exchange \in 1..exchanges /\ f \in Files
      /\ server \in ServerState /\ k \in Nat /\ k >= 1
  <2>1. ServerFits(server, exchanges)
    BY ServerTypes
  <2>2. server.k \in Nat
    BY <2>1 DEF ServerFits, ServerState
  <2> QED
    BY <1>1, <2>1, <2>2 DEF ServerFits
<1>3. toServer' \in Seq(Upto(ToServer, exchanges)) /\ exchanges \in Nat
  BY <1>1, TypeFacts
<1>4. CASE more
  <2>1. PICK next : next = [server EXCEPT !.k = k]
    OBVIOUS
  <2>2. PICK texts : texts = <<ChunkHeader(server.exchange, k)>>
    OBVIOUS
  <2>3. ServesChunk(texts, k, next)
    BY <1>4, <2>1, <2>2 DEF HandleAck
  <2>4. k \in 1..Len(stored[f])
    BY <1>2, <1>4, StoredFacts
  <2>5. texts \in Seq(Here)
    <3>1. ChunkHeader(server.exchange, k) \in Here
      BY <1>2, <1>3, MessagesToClient
    <3> QED
      BY <2>2, <3>1
  <2>6. /\ next \in ServerState /\ next.at = "ack"
        /\ next.exchange = server.exchange /\ next.file = f
    <3> HIDE DEF k
    <3> QED
      BY <1>1, <1>2, <2>1 DEF ServerState
  <2>7. /\ toClient' \in Seq(Here) /\ lost' \in BOOLEAN /\ losses' \in 0..MaxLosses
        /\ server' \in {next, Listening}
    BY <1>2, <2>3, <2>4, <2>5, <2>6, ServesChunkFits
  <2>8. ServerFits(next, exchanges)
    BY <1>2, <2>6 DEF ServerFits
  <2>9. ServerFits(server', exchanges) /\ server'.at # "payload"
    BY <2>6, <2>7, <2>8, RestingFits
  <2> QED
    BY <1>1, <1>3, <2>7, <2>9, ServerTypes, ServerMoves DEF onClient, timeouts
<1>5. CASE ~ more
  <2>1. server' = Listening /\ Replies(<<>>)
    BY <1>5 DEF HandleAck
  <2>2. toClient' \in Seq(Here) /\ lost' \in BOOLEAN /\ losses' \in 0..MaxLosses
    BY <2>1, EmptySeq, RepliesFit
  <2>3. ServerFits(server', exchanges) /\ server'.at # "payload"
    BY <2>1, RestingFits
  <2> QED
    BY <1>1, <1>3, <2>2, <2>3, ServerTypes, ServerMoves DEF onClient, timeouts
<1> QED
  BY <1>4, <1>5

LEMMA PayloadTimesOutType ==
    ASSUME TypeInv, PayloadTimesOut
    PROVE  TypeInv'
<1>1. /\ Answers(Text("ERRR~001", server.exchange)) /\ HangsUp /\ server.at = "payload"
      /\ UNCHANGED <<onClient, transfers, stored, timeouts>>
  BY DEF PayloadTimesOut
<1>2. Text("ERRR~001", server.exchange) \in Upto(ToClient, exchanges)
  <2>1. server.exchange \in 1..exchanges /\ exchanges \in Nat
    BY <1>1, TypeFacts, ServerTypes DEF ServerFits
  <2> QED
    BY <2>1, MessagesToClient DEF Errors
<1>3. toClient' \in Seq(Upto(ToClient, exchanges)) /\ lost' \in BOOLEAN /\ losses' \in 0..MaxLosses
  BY <1>1, <1>2, AnswersFit
<1> QED
  BY <1>1, <1>3, HangsUpFacts, ServerTypes, ServerMoves DEF onClient, timeouts

LEMMA AckTimesOutType ==
    ASSUME TypeInv, AckTimesOut
    PROVE  TypeInv'
<1>1. /\ ackTimeouts < MaxAckTimeouts /\ ackTimeouts' = ackTimeouts + 1
      /\ late' = TRUE /\ server' = Listening
      /\ UNCHANGED <<onClient, toServer, toClient, transfers, stored, lost, losses>>
  BY DEF AckTimesOut
<1>2. ackTimeouts' \in 0..MaxAckTimeouts /\ ackTimeouts' # 0
  BY <1>1, TypeFacts, SessionBounds
<1>3. ServerFits(Listening, exchanges) /\ Listening.at = "idle"
  BY RestingFits
<1> HIDE DEF Listening
<1>4. late' \in BOOLEAN
  BY <1>1
<1> QED
  BY <1>1, <1>2, <1>3, <1>4, ServerTypes, ServerMoves DEF onClient

LEMMA BreaksType ==
    ASSUME TypeInv, Breaks
    PROVE  TypeInv'
<1>1. HangsUp /\ UNCHANGED <<onClient, toClient, transfers, stored, timeouts, lost, losses>>
  BY DEF Breaks
<1> QED
  BY <1>1, HangsUpFacts, ServerTypes, ServerMoves DEF onClient, timeouts

LEMMA LogInAgainType ==
    ASSUME TypeInv, LogInAgain
    PROVE  TypeInv'
<1>1. /\ logins < MaxLogins /\ logins' = logins + 1
      /\ toServer' = <<>> /\ toClient' = <<>>
      /\ server' = Listening /\ late' = FALSE /\ lost' = FALSE
      /\ UNCHANGED <<holder, user, transfers, stored, saved, exchanges, ackTimeouts, losses>>
  BY DEF LogInAgain
<1>2. logins' \in 0..MaxLogins
  BY <1>1, TypeFacts, SessionBounds
<1>3. ServerFits(Listening, exchanges) /\ Listening.at = "idle"
  BY RestingFits
<1> HIDE DEF Listening
<1>4. /\ toServer' \in Seq(Upto(ToServer, exchanges))
      /\ toClient' \in Seq(Upto(ToClient, exchanges))
      /\ late' \in BOOLEAN /\ lost' \in BOOLEAN
  BY <1>1, EmptySeq
<1> QED
  BY <1>1, <1>2, <1>3, <1>4, ServerTypes, ServerMoves

(* An exchange begins with a request, an upload or a download. *)
LEMMA BeginningsType ==
    ASSUME TypeInv, NEW t \in Threads
    PROVE  /\ Request(t) => TypeInv'
           /\ \A f \in Files : Upload(t, f) \/ Download(t, f) => TypeInv'
<1> DEFINE n == exchanges + 1
<1>1. n \in Nat /\ n \in 1..n
  BY TypeFacts
<1>2. /\ Text("request", n) \in Upto(ToServer, n)
      /\ \A f \in Files : /\ Named("UPLD", n, f) \in Upto(ToServer, n)
                          /\ Named("DWNL", n, f) \in Upto(ToServer, n)
  BY <1>1, MessagesToServer
<1>3. /\ {"answer", "begun", "asked"} \subseteq Stages \ {"free", "sending", "header", "payload"}
      /\ "answer" \notin Transferring
  BY DEF Stages, Transferring
<1>4. Request(t) => TypeInv'
  BY <1>2, <1>3, BeginsType DEF Request
<1>5. ASSUME NEW f \in Files, Upload(t, f) \/ Download(t, f)
      PROVE  TypeInv'
  BY <1>2, <1>3, <1>5, BeginsType DEF Upload, Download
<1> QED
  BY <1>4, <1>5

(* The types are kept by every step. *)
LEMMA TypeNext == TypeInv /\ [Next]_vars => TypeInv'
<1> SUFFICES ASSUME TypeInv, [Next]_vars PROVE TypeInv'
  OBVIOUS
<1>1. ASSUME NEW t \in Threads, Request(t) \/ ClientReceives(t) \/ Misreads(t)
      PROVE  TypeInv'
  BY <1>1, BeginningsType, ReceiveAnswerType, ReceiveTransferIdType, ReceiveChunkAnswerType,
     ReceiveOfferType, ReceiveHeaderType, ReceivePayloadType, ReceiveNothingType
     DEF ClientReceives
<1>2. ASSUME NEW t \in Threads, NEW f \in Files, Upload(t, f) \/ Download(t, f)
      PROVE  TypeInv'
  BY <1>2, BeginningsType
<1>3. CASE LogInAgain
  BY <1>3, LogInAgainType
<1>4. CASE ServerReceives
  BY <1>4, HandleTextType, HandleUploadType, HandleChunkType, HandlePayloadType,
     HandleDoneType, HandleDownloadType, HandleAckType DEF ServerReceives
<1>5. CASE PayloadTimesOut \/ AckTimesOut \/ Breaks
  BY <1>5, PayloadTimesOutType, AckTimesOutType, BreaksType
<1>6. CASE UNCHANGED vars
  BY <1>6, ServerTypes, ServerMoves DEF vars, bounds
<1> QED
  BY <1>1, <1>2, <1>3, <1>4, <1>5, <1>6 DEF Next

(* Messages carry numbers of exchanges that have begun, the one thread in  *)
(* an exchange has the lock, and the server never waits for the payload of *)
(* a transfer it does not know.                                            *)
THEOREM TypeCorrect == Spec => []TypeOK
<1>1. TypeInv => TypeOK
  BY DEF TypeInv
<1> QED
  BY <1>1, TypeInit, TypeNext, PTL DEF Spec

(* However exchanges, time-outs, failures and late acknowledgements mix up *)
(* answers, what is stored or saved under a name is one file, whole: the   *)
(* digests of both sides let nothing else through.                         *)
THEOREM FilesStayWhole == Spec => []FilesAreWhole
<1>1. TypeInv => FilesAreWhole
  BY DEF TypeInv, FilesAreWhole, Stored, Contents
<1> QED
  BY <1>1, TypeInit, TypeNext, PTL DEF Spec

-----------------------------------------------------------------------------
(* Conversations. *)

(* Two sequences put together. *)
LEMMA TwoAndThree ==
    ASSUME NEW a, NEW b, NEW c
    PROVE  /\ <<a>> \o <<b>> = <<a, b>> /\ <<a>> \o <<b, c>> = <<a, b, c>>
           /\ <<a, b>> \o <<c>> = <<a, b, c>>
<1> DEFINE S == {a, b, c}
<1>1. <<a>> \in Seq(S) /\ <<b>> \in Seq(S) /\ <<c>> \in Seq(S) /\ <<b, c>> \in Seq(S)
      /\ <<a, b>> \in Seq(S) /\ <<a, b, c>> \in Seq(S)
  OBVIOUS
<1>2. Len(<<a>>) = 1 /\ Len(<<b>>) = 1 /\ Len(<<c>>) = 1 /\ Len(<<b, c>>) = 2
      /\ Len(<<a, b>>) = 2 /\ Len(<<a, b, c>>) = 3
  OBVIOUS
<1> HIDE DEF S
<1>3. /\ <<a>> \o <<b>> \in Seq(S) /\ Len(<<a>> \o <<b>>) = 2
      /\ \A i \in 1..2 : (<<a>> \o <<b>>)[i] = <<a, b>>[i]
  BY <1>1, <1>2, ConcatProperties
<1>4. /\ <<a>> \o <<b, c>> \in Seq(S) /\ Len(<<a>> \o <<b, c>>) = 3
      /\ \A i \in 1..3 : (<<a>> \o <<b, c>>)[i] = <<a, b, c>>[i]
  BY <1>1, <1>2, ConcatProperties
<1>5. /\ <<a, b>> \o <<c>> \in Seq(S) /\ Len(<<a, b>> \o <<c>>) = 3
      /\ \A i \in 1..3 : (<<a, b>> \o <<c>>)[i] = <<a, b, c>>[i]
  BY <1>1, <1>2, ConcatProperties
<1>6. <<a>> \o <<b>> = <<a, b>>
  BY <1>1, <1>2, <1>3, SeqEqual
<1>7. <<a>> \o <<b, c>> = <<a, b, c>>
  BY <1>1, <1>2, <1>4, SeqEqual
<1>8. <<a, b>> \o <<c>> = <<a, b, c>>
  BY <1>1, <1>2, <1>5, SeqEqual
<1> QED
  BY <1>6, <1>7, <1>8

(* Who is in an exchange, and what is on its way. *)
LEMMA InTime ==
    ASSUME ConversationInv, ~ late
    PROVE  /\ \A t \in Threads : user[t].at # "free" => holder = t /\ Talks(user[t])
           /\ holder = NoOne => Quiet
           /\ \A t \in Threads : holder = t => user[t].at # "free" /\ Talks(user[t])
BY TypeFacts DEF ConversationInv, InConversation

(* A thread that ends its exchange leaves the connection quiet. *)
LEMMA EndsQuiet ==
    ASSUME NEW t \in Threads, Ends(t), toClient' = <<>>, Sent(<<>>)'
    PROVE  InConversation'
BY DEF Ends, InConversation, Quiet

(* A thread that goes on has its conversation. *)
LEMMA GoesOn ==
    ASSUME TypeInv, NEW t \in Threads, NEW next, user[t].at # "free",
           Becomes(t, next), holder' = t, Talks(next)'
    PROVE  InConversation'
<1>1. user'[t] = next
  BY DEF TypeInv, Becomes
<1>2. Talks(user[t])'
  BY <1>1 DEF Talks
<1> QED
  BY <1>2 DEF InConversation

(* What is sent on a quiet connection is all that is on its way, but for   *)
(* the last acknowledgement.                                               *)
LEMMA SentAfterQuiet ==
    ASSUME TypeInv, Sent(<<>>), NEW S, NEW q \in Seq(S), Sends(q),
           server' = server, stored' = stored,
           exchanges' \in {exchanges, exchanges + 1}
    PROVE  Sent(q)'
<1>1. CASE server.at = "idle" /\ toServer = <<>>
  <2>1. toServer' = q
    BY <1>1 DEF Sends
  <2> QED
    BY <1>1, <2>1 DEF Sent
<1>2. CASE server.at = "closed" /\ toServer = <<>>
  BY <1>2 DEF Sends, Sent
<1>3. CASE AtLastAck /\ \E x \in 1..exchanges : toServer = <<Text("DACK", x)>> \o <<>>
  <2>1. PICK x \in 1..exchanges : toServer = <<Text("DACK", x)>>
    BY <1>3
  <2>2. toServer' = <<Text("DACK", x)>> \o q
    BY <1>3, <2>1 DEF Sends, AtLastAck
  <2>3. x \in 1..exchanges'
    BY TypeFacts
  <2>4. AtLastAck'
    BY <1>3 DEF AtLastAck
  <2> QED
    BY <2>2, <2>3, <2>4 DEF Sent
<1> QED
  BY <1>1, <1>2, <1>3 DEF Sent

(* A connection is quiet for the server when it has heard everything. *)
LEMMA HeardIsSent ==
    ASSUME Heard PROVE Sent(<<>>)
BY DEF Heard, Sent

(* Begin an exchange: the request is on its way. *)
LEMMA BeginsTalk ==
    ASSUME ConversationInv, ~ late, NEW t \in Threads, NEW f, NEW stage, NEW m,
           Begins(t, f, stage, m),
           \/ stage = "answer" /\ m = Text("request", exchanges + 1)
           \/ stage = "begun" /\ m = Named("UPLD", exchanges + 1, f)
           \/ stage = "asked" /\ m = Named("DWNL", exchanges + 1, f)
    PROVE  InConversation'
<1>1. PICK next : next = [Free EXCEPT !.at = stage, !.exchange = exchanges + 1, !.file = f]
  OBVIOUS
<1>2. /\ holder = NoOne /\ holder' = t /\ exchanges' = exchanges + 1
      /\ Sends(<<m>>) /\ Becomes(t, next)
      /\ toClient' = toClient /\ server' = server /\ stored' = stored
  BY <1>1 DEF Begins, TakeLock
<1>3. next.at = stage /\ next.exchange = exchanges + 1 /\ next.file = f
  BY <1>1 DEF Free
<1>4. TypeInv /\ toClient = <<>> /\ Sent(<<>>)
  BY <1>2, InTime DEF ConversationInv, Quiet
<1>5. toClient' = <<>> /\ Sent(<<m>>)'
  <2>1. <<m>> \in Seq({m})
    OBVIOUS
  <2> QED
    BY <1>2, <1>4, <2>1, SentAfterQuiet
<1>6. Talks(next)'
  <2>1. CASE stage = "answer" /\ m = Text("request", exchanges + 1)
    BY <1>3, <1>5, <2>1 DEF Talks, AtAnswer
  <2>2. CASE stage = "begun" /\ m = Named("UPLD", exchanges + 1, f)
    BY <1>3, <1>5, <2>2 DEF Talks, AtBegun
  <2>3. CASE stage = "asked" /\ m = Named("DWNL", exchanges + 1, f)
    BY <1>3, <1>5, <2>3 DEF Talks, AtAsked
  <2> QED
    BY <2>1, <2>2, <2>3
<1>7. user'[t] = next
  BY <1>2 DEF TypeInv, ConversationInv, Becomes
<1>8. Talks(user[t])'
  BY <1>6, <1>7 DEF Talks
<1> QED
  BY <1>2, <1>8 DEF InConversation

(* A thread that sends a chunk, or that it is done, to its own transfer.   *)
LEMMA SendChunkTalks ==
    ASSUME TypeInv, NEW t \in Threads, holder = t, NEW k \in Nat \ {0},
           user[t].at \in {"begun", "sending"},
           Heard, Opened(user[t].exchange, user[t].file),
           SendChunk(t, user[t].exchange, k),
           toClient' = <<>>, UNCHANGED <<holder, onServer>>
    PROVE  InConversation'
<1> DEFINE u == user[t]
           x == u.exchange
<1>1. u \in UserState /\ u.file \in Files /\ u.at # "free" /\ Sent(<<>>)
  BY HeardIsSent DEF TypeInv, UserFits, Transferring
<1>2. /\ server' = server /\ stored' = stored /\ exchanges' = exchanges
      /\ transfers' = transfers
      /\ holder' = t
  BY DEF onServer
<1>3. CASE k <= NumChunks[u.file]
  <2>1. PICK next : next = [u EXCEPT !.at = "sending", !.tid = x, !.k = k]
    OBVIOUS
  <2>2. PICK msgs : msgs = <<ChunkRequest(x, x, k), Payload(x, Chunk(u.file, k))>>
    OBVIOUS
  <2>3. Sends(msgs) /\ Becomes(t, next)
    BY <1>3, <2>1, <2>2 DEF SendChunk
  <2>4. next.at = "sending" /\ next.exchange = x /\ next.tid = x /\ next.k = k /\ next.file = u.file
    BY <1>1, <2>1 DEF UserState
  <2>5. Sent(msgs)'
    <3>1. msgs \in Seq({msgs[1], msgs[2]})
      BY <2>2
    <3> QED
      BY <1>1, <1>2, <2>3, <3>1, SentAfterQuiet
  <2>6. msgs = <<ChunkRequest(next.exchange, next.exchange, next.k),
                 Payload(next.exchange, Chunk(next.file, next.k))>>
    BY <2>2, <2>4
  <2>7. Opened(next.exchange, next.file)'
    BY <1>2, <2>4 DEF Opened
  <2>8. Talks(next)'
    BY <2>4, <2>5, <2>6, <2>7 DEF Talks, AtSending
  <2> QED
    BY <1>1, <1>2, <2>3, <2>8, GoesOn
<1>4. CASE ~ (k <= NumChunks[u.file])
  <2>1. PICK next : next = [u EXCEPT !.at = "answer"]
    OBVIOUS
  <2>2. PICK msgs : msgs = <<DoneRequest(x, x, Content(u.file))>>
    OBVIOUS
  <2>3. Sends(msgs) /\ Becomes(t, next)
    BY <1>4, <2>1, <2>2 DEF SendChunk
  <2>4. next.at = "answer" /\ next.exchange = x /\ next.file = u.file
    BY <1>1, <2>1 DEF UserState
  <2>5. Sent(msgs)'
    <3>1. msgs \in Seq({msgs[1]})
      BY <2>2
    <3> QED
      BY <1>1, <1>2, <2>3, <3>1, SentAfterQuiet
  <2>6. msgs = <<DoneRequest(next.exchange, next.exchange, Content(next.file))>>
    BY <2>2, <2>4
  <2>7. Opened(next.exchange, next.file)' /\ next.file \in Files
    BY <1>1, <1>2, <2>4 DEF Opened
  <2>8. Talks(next)'
    BY <2>4, <2>5, <2>6, <2>7 DEF Talks, AtAnswer
  <2> QED
    BY <1>1, <1>2, <2>3, <2>8, GoesOn
<1> QED
  BY <1>3, <1>4

(* One text is on its way, and nothing after it. *)
LEMMA AnsweredFacts ==
    ASSUME NEW x, NEW kinds, Answered(x, kinds)
    PROVE  Heard /\ Tail(toClient) = <<>> /\ Reply.kind \in kinds
BY DEF Answered, Reply, Text

(* Each action of the client keeps the conversation, *)
LEMMA ReceiveAnswerTalk ==
    ASSUME ConversationInv, ~ late, NEW t \in Threads, ReceiveAnswer(t)
    PROVE  InConversation'
<1>1. /\ user[t].at = "answer" /\ toClient # <<>> /\ toClient' = Tail(toClient)
      /\ Ends(t) /\ UNCHANGED <<toServer, onServer>>
  BY DEF ReceiveAnswer, Receives
<1>2. AtAnswer(user[t])
  BY <1>1, InTime DEF Talks
<1>3. Answered(user[t].exchange, {"OK", "FAIL", "part"})
  BY <1>1, <1>2 DEF AtAnswer, Silent
<1>4. Heard /\ toClient' = <<>>
  BY <1>1, <1>3, AnsweredFacts
<1>5. Heard'
  BY <1>1, <1>4 DEF Heard, onServer
<1>6. Sent(<<>>)'
  BY <1>5 DEF Heard, Sent
<1> QED
  BY <1>1, <1>4, <1>6, EndsQuiet

LEMMA ReceiveTransferIdTalk ==
    ASSUME ConversationInv, ~ late, NEW t \in Threads, ReceiveTransferId(t)
    PROVE  InConversation'
<1> DEFINE x == user[t].exchange
<1>1. /\ user[t].at = "begun" /\ toClient # <<>> /\ toClient' = Tail(toClient)
      /\ UNCHANGED <<saved, onServer>>
  BY DEF ReceiveTransferId, Receives
<1>2. AtBegun(user[t]) /\ holder = t /\ TypeInv
  BY <1>1, InTime DEF Talks, ConversationInv
<1>3. Heard /\ Opened(x, user[t].file) /\ toClient = <<Accepted(x, x)>>
  BY <1>1, <1>2 DEF AtBegun, Silent
<1>4. toClient' = <<>> /\ Reply = Accepted(x, x)
  BY <1>1, <1>3 DEF Reply
<1>5. Reply.kind = "UPLD~OK" /\ Reply.tid = x /\ IsOK(Reply)
  BY <1>4 DEF Accepted, IsOK
<1>6. SendChunk(t, x, 1) /\ UNCHANGED holder
  BY <1>5 DEF ReceiveTransferId
<1> QED
  BY <1>1, <1>2, <1>3, <1>4, <1>6, SendChunkTalks

LEMMA ReceiveChunkAnswerTalk ==
    ASSUME ConversationInv, ~ late, NEW t \in Threads, ReceiveChunkAnswer(t)
    PROVE  InConversation'
<1> DEFINE x == user[t].exchange
<1>1. /\ user[t].at = "sending" /\ toClient # <<>> /\ toClient' = Tail(toClient)
      /\ SendChunk(t, user[t].tid, user[t].k + 1)
      /\ UNCHANGED <<holder, saved, onServer>>
  BY DEF ReceiveChunkAnswer, Receives
<1>2. AtSending(user[t]) /\ holder = t /\ TypeInv
  BY <1>1, InTime DEF Talks, ConversationInv
<1>3. Answered(x, {"OK", "ERRR~001"}) /\ user[t].tid = x /\ Opened(x, user[t].file)
  BY <1>1, <1>2 DEF AtSending, Silent
<1>4. Heard /\ toClient' = <<>>
  BY <1>1, <1>3, AnsweredFacts
<1>5. user[t].k + 1 \in Nat \ {0}
  BY <1>2 DEF TypeInv, UserState
<1> QED
  BY <1>1, <1>2, <1>3, <1>4, <1>5, SendChunkTalks

LEMMA ReceiveOfferTalk ==
    ASSUME ConversationInv, ~ late, NEW t \in Threads, ReceiveOffer(t)
    PROVE  InConversation'
<1> DEFINE u == user[t]
           x == u.exchange
           f == u.file
<1>1. /\ u.at = "asked" /\ toClient # <<>> /\ toClient' = Tail(toClient)
      /\ UNCHANGED <<toServer, saved, onServer>>
  BY DEF ReceiveOffer, Receives
<1>2. /\ AtAsked(u) /\ holder = t /\ TypeInv /\ u \in UserState /\ f \in Files
  BY <1>1, InTime DEF Talks, ConversationInv, TypeInv, UserFits, Transferring
<1>3. CASE Answered(x, {"FAIL", "ERRR~001"})
  <2>1. Heard /\ toClient' = <<>> /\ Reply.kind # "DWNL~OK"
    BY <1>1, <1>3, AnsweredFacts
  <2>2. Ends(t)
    BY <2>1 DEF ReceiveOffer
  <2>3. Heard'
    BY <1>1, <2>1 DEF Heard, onServer
  <2>4. Sent(<<>>)'
    BY <2>3 DEF Heard, Sent
  <2> QED
    BY <2>1, <2>2, <2>4, EndsQuiet
<1>4. ASSUME stored[f] # <<>>, NEW rest, toClient = <<Offer(x, stored[f])>> \o rest,
             Tail(toClient) = rest,
             \/ /\ ChunkIsSent(x, f, 1)
                /\ \E data \in Sending(x, stored[f][1]) : rest = <<ChunkHeader(x, 1), data>>
             \/ Heard /\ rest \in {<<>>, <<ChunkHeader(x, 1)>>}
      PROVE  InConversation'
  <2>1. Reply = Offer(x, stored[f]) /\ toClient' = rest
    BY <1>1, <1>4 DEF Reply
  <2>2. Reply.kind = "DWNL~OK" /\ Reply.md5 = stored[f]
    BY <2>1 DEF Offer
  <2>3. PICK md5, got : md5 = stored[f] /\ got = [k \in DOMAIN md5 |-> NoOne]
    OBVIOUS
  <2>4. PICK next : next = [u EXCEPT !.at = "header", !.offer = md5, !.k = 1, !.got = got]
    OBVIOUS
  <2>5. Becomes(t, next) /\ holder' = holder
    BY <2>2, <2>3, <2>4 DEF ReceiveOffer
  <2>6. /\ next.at = "header" /\ next.offer = md5 /\ next.k = 1 /\ next.got = got
        /\ next.exchange = x /\ next.file = f
    BY <1>2, <2>4 DEF UserState
  <2>7. 1 \in DOMAIN md5 /\ DOMAIN got = DOMAIN md5
    BY <1>2, <1>4, <2>3, StoredFacts
  <2>8. /\ server' = server /\ stored' = stored /\ toServer' = toServer
    BY <1>1 DEF onServer
  <2>9. HasOffer(next)'
    BY <2>3, <2>6, <2>7, <2>8 DEF HasOffer
  <2>10. x = next.exchange /\ f = next.file
    BY <2>6
  <2>11. /\ ChunkIsSent(x, f, 1) => ChunkIsSent(next.exchange, next.file, 1)'
         /\ Heard => Heard'
    BY <2>8, <2>10 DEF ChunkIsSent, Heard
  <2>12. AtHeader(next)'
    <3>1. CASE /\ ChunkIsSent(x, f, 1)
               /\ \E data \in Sending(x, stored[f][1]) : rest = <<ChunkHeader(x, 1), data>>
      BY <2>1, <2>6, <2>8, <2>9, <2>10, <2>11, <3>1 DEF AtHeader
    <3>2. CASE Heard /\ rest \in {<<>>, <<ChunkHeader(x, 1)>>}
      BY <2>1, <2>6, <2>9, <2>10, <2>11, <3>2 DEF AtHeader, Silent
    <3> QED
      BY <1>4, <3>1, <3>2
  <2>13. Talks(next)'
    BY <2>6, <2>12 DEF Talks
  <2> QED
    BY <1>1, <1>2, <2>5, <2>13, GoesOn
<1>5. CASE /\ stored[f] # <<>>
           /\ ChunkIsSent(x, f, 1)
           /\ \E data \in Sending(x, stored[f][1]) :
                 toClient = <<Offer(x, stored[f]), ChunkHeader(x, 1), data>>
  <2>1. PICK data \in Sending(x, stored[f][1]) :
          toClient = <<Offer(x, stored[f]), ChunkHeader(x, 1), data>>
    BY <1>5
  <2>2. PICK a, b : a = Offer(x, stored[f]) /\ b = ChunkHeader(x, 1)
    OBVIOUS
  <2>3. toClient = <<a>> \o <<b, data>> /\ Tail(toClient) = <<b, data>>
    BY <2>1, <2>2, TwoAndThree
  <2> QED
    BY <1>4, <1>5, <2>1, <2>2, <2>3
<1>6. CASE stored[f] # <<>> /\ Heard /\ toClient = <<Offer(x, stored[f]), ChunkHeader(x, 1)>>
  <2>1. PICK a, b : a = Offer(x, stored[f]) /\ b = ChunkHeader(x, 1)
    OBVIOUS
  <2>2. toClient = <<a>> \o <<b>> /\ Tail(toClient) = <<b>>
    BY <1>6, <2>1, TwoAndThree
  <2> QED
    BY <1>4, <1>6, <2>1, <2>2
<1>7. CASE stored[f] # <<>> /\ Heard /\ toClient = <<Offer(x, stored[f])>>
  <2>1. PICK a : a = Offer(x, stored[f])
    OBVIOUS
  <2>2. toClient = <<a>> \o <<>> /\ Tail(toClient) = <<>>
    BY <1>7, <2>1
  <2> QED
    BY <1>4, <1>7, <2>1, <2>2
<1> QED
  BY <1>1, <1>2, <1>3, <1>5, <1>6, <1>7 DEF AtAsked, Silent

LEMMA ReceiveHeaderTalk ==
    ASSUME ConversationInv, ~ late, NEW t \in Threads, ReceiveHeader(t)
    PROVE  InConversation'
<1> DEFINE u == user[t]
           x == u.exchange
           f == u.file
<1>1. /\ u.at = "header" /\ toClient # <<>> /\ toClient' = Tail(toClient)
      /\ UNCHANGED <<toServer, saved, onServer>>
  BY DEF ReceiveHeader, Receives
<1>2. AtHeader(u) /\ holder = t /\ TypeInv /\ u \in UserState
  BY <1>1, InTime DEF Talks, ConversationInv, TypeInv
<1>3. /\ HasOffer(u)
      /\ \/ /\ ChunkIsSent(x, f, u.k)
            /\ \E data \in Sending(x, stored[f][u.k]) : toClient = <<ChunkHeader(x, u.k), data>>
         \/ Heard /\ toClient = <<ChunkHeader(x, u.k)>>
  BY <1>1, <1>2 DEF AtHeader, Silent
<1>4. PICK m : m = ChunkHeader(x, u.k)
  OBVIOUS
<1>5. /\ Reply = m
      /\ \/ /\ ChunkIsSent(x, f, u.k)
            /\ \E data \in Sending(x, stored[f][u.k]) : toClient' = <<data>>
         \/ Heard /\ toClient' = <<>>
  <2>1. \A data : /\ Head(<<m, data>>) = m /\ Tail(<<m, data>>) = <<data>>
                  /\ Head(<<m>>) = m /\ Tail(<<m>>) = <<>>
    OBVIOUS
  <2>2. CASE Heard /\ toClient = <<m>>
    BY <1>1, <2>1, <2>2 DEF Reply
  <2>3. ASSUME ChunkIsSent(x, f, u.k),
               NEW data \in Sending(x, stored[f][u.k]), toClient = <<m, data>>
        PROVE  Reply = m /\ toClient' = <<data>>
    BY <1>1, <2>1, <2>3 DEF Reply
  <2> QED
    BY <1>3, <1>4, <2>2, <2>3
<1>6. Reply.kind # "payload"
  BY <1>4, <1>5 DEF ChunkHeader
<1>7. PICK next : next = [u EXCEPT !.at = "payload", !.header = m]
  OBVIOUS
<1>8. Becomes(t, next) /\ holder' = holder
  BY <1>5, <1>6, <1>7 DEF ReceiveHeader
<1>9. /\ next.at = "payload" /\ next.header = m /\ next.exchange = x /\ next.file = f
      /\ next.k = u.k /\ next.offer = u.offer /\ next.got = u.got
  BY <1>2, <1>7 DEF UserState
<1>10. server' = server /\ stored' = stored /\ toServer' = toServer
  BY <1>1 DEF onServer
<1>11. HasOffer(next)'
  BY <1>3, <1>9, <1>10 DEF HasOffer
<1>12. /\ ChunkIsSent(x, f, u.k) => ChunkIsSent(next.exchange, next.file, next.k)'
       /\ Heard => Heard'
  BY <1>9, <1>10 DEF ChunkIsSent, Heard
<1>13. next.header = ChunkHeader(next.exchange, next.k)
  BY <1>4, <1>9
<1>14. \/ /\ ChunkIsSent(next.exchange, next.file, next.k)'
          /\ \E data \in Sending(next.exchange, stored'[next.file][next.k]) : toClient' = <<data>>
       \/ Silent'
  BY <1>5, <1>9, <1>10, <1>12 DEF Silent
<1>15. Talks(next)'
  BY <1>9, <1>11, <1>13, <1>14 DEF Talks, AtPayload
<1> QED
  BY <1>1, <1>2, <1>8, <1>15, GoesOn

(* A chunk is acknowledged; after the last one the thread is free. *)
LEMMA ReceivePayloadTalk ==
    ASSUME ConversationInv, ~ late, NEW t \in Threads, ReceivePayload(t)
    PROVE  InConversation'
<1> DEFINE u == user[t]
           x == u.exchange
           f == u.file
           data == IF Reply.kind = "payload" THEN Reply.data ELSE Reply
           n == Len(stored[f])
<1>1. /\ u.at = "payload" /\ toClient # <<>> /\ toClient' = Tail(toClient)
      /\ Sends(<<Text("DACK", x)>>) /\ UNCHANGED onServer
  BY DEF ReceivePayload, Receives
<1>2. /\ AtPayload(u) /\ holder = t /\ TypeInv /\ u \in UserState /\ f \in Files
      /\ x \in 1..exchanges
  BY <1>1, InTime DEF Talks, ConversationInv, TypeInv, UserFits, Transferring
<1>3. /\ HasOffer(u) /\ ChunkIsSent(x, f, u.k) /\ u.header.kind = "DCNK"
      /\ toClient' = <<>>
  <2>1. /\ HasOffer(u) /\ ChunkIsSent(x, f, u.k) /\ u.header = ChunkHeader(x, u.k)
        /\ \E d \in Sending(x, stored[f][u.k]) : toClient = <<d>>
    BY <1>1, <1>2 DEF AtPayload, Silent
  <2>2. \A d : Tail(<<d>>) = <<>>
    OBVIOUS
  <2> QED
    BY <1>1, <2>1, <2>2 DEF ChunkHeader
<1>4. PICK got : got = GotWith(t, data)
  OBVIOUS
<1>5. got \in Seq(Pieces) /\ DOMAIN got = DOMAIN u.got
  BY <1>2, <1>4, PayloadFacts
<1>6. Len(got) = n /\ u.k \in 1..n /\ n \in Nat
  <2>1. DOMAIN got = 1..Len(got) /\ Len(got) \in Nat
    BY <1>5, LenProperties
  <2>2. DOMAIN stored[f] = 1..n /\ n \in Nat
    BY <1>2, StoredFacts
  <2>3. 1..Len(got) = 1..n /\ u.k \in 1..n
    BY <1>3, <1>5, <2>1, <2>2 DEF HasOffer
  <2> QED
    BY <2>1, <2>2, <2>3
<1>7. server' = server /\ stored' = stored /\ exchanges' = exchanges
  BY <1>1 DEF onServer
<1>8. \/ server.at = "closed" /\ toServer' = <<>>
      \/ /\ server.at = "ack" /\ server.exchange = x /\ server.file = f /\ server.k = u.k
         /\ toServer' = <<Text("DACK", x)>>
  BY <1>1, <1>3 DEF ChunkIsSent, Sends
<1>9. CASE u.k < n
  <2>1. PICK next : next = [u EXCEPT !.at = "header", !.k = u.k + 1, !.got = got]
    OBVIOUS
  <2>2. Becomes(t, next) /\ holder' = holder
    BY <1>3, <1>4, <1>6, <1>9, <2>1 DEF ReceivePayload
  <2>3. PICK k : k = u.k + 1
    OBVIOUS
  <2>4. /\ next.at = "header" /\ next.exchange = x /\ next.file = f
        /\ next.k = k /\ next.offer = u.offer /\ next.got = got
    BY <1>2, <2>1, <2>3 DEF UserState
  <2>5. k \in 1..n /\ k - 1 = u.k
    BY <1>6, <1>9, <2>3
  <2>6. k \in DOMAIN stored[f]
    BY <1>2, <2>5, StoredFacts
  <2>7. HasOffer(next)'
    BY <1>3, <1>5, <1>7, <2>4, <2>6 DEF HasOffer
  <2>8. ChunkIsAcked(next.exchange, next.file, next.k - 1)'
    BY <1>7, <1>8, <2>4, <2>5 DEF ChunkIsAcked
  <2>9. Talks(next)'
    BY <1>3, <2>4, <2>7, <2>8 DEF Talks, AtHeader
  <2> QED
    BY <1>1, <1>2, <2>2, <2>9, GoesOn
<1>10. CASE ~ (u.k < n)
  <2>1. Ends(t)
    BY <1>4, <1>6, <1>10 DEF ReceivePayload
  <2>2. u.k = n
    BY <1>6, <1>10
  <2>3. Sent(<<>>)'
    <3>1. CASE server.at = "closed" /\ toServer' = <<>>
      BY <1>7, <3>1 DEF Sent
    <3>2. CASE /\ server.at = "ack" /\ server.exchange = x /\ server.file = f /\ server.k = u.k
               /\ toServer' = <<Text("DACK", x)>>
      <4>1. AtLastAck'
        BY <1>7, <2>2, <3>2 DEF AtLastAck
      <4>2. \E y \in 1..exchanges' : toServer' = <<Text("DACK", y)>> \o <<>>
        BY <1>2, <1>7, <3>2
      <4> QED
        BY <4>1, <4>2 DEF Sent
    <3> QED
      BY <1>8, <3>1, <3>2
  <2> QED
    BY <1>3, <2>1, <2>3, EndsQuiet
<1> QED
  BY <1>9, <1>10

(* Nothing is on its way to a server that is gone. *)
LEMMA ClosedIsEmpty ==
    ASSUME ConversationInv, ~ late, server.at = "closed"
    PROVE  toServer = <<>>
<1>1. \A q : Sent(q) => toServer = <<>>
  BY DEF Sent, AtLastAck
<1>2. CASE holder = NoOne
  BY <1>1, <1>2, InTime DEF Quiet
<1>3. ASSUME NEW t \in Threads, holder = t
      PROVE  toServer = <<>>
  BY <1>1, <1>3, InTime
     DEF Talks, AtAnswer, AtBegun, AtSending, AtAsked, AtHeader, AtPayload,
         Answered, Silent, Heard, ChunkIsSent, ChunkIsAcked
<1> QED
  BY <1>2, <1>3 DEF ConversationInv, TypeInv, TypeOK

LEMMA ReceiveNothingTalk ==
    ASSUME ConversationInv, ~ late, NEW t \in Threads, ReceiveNothing(t)
    PROVE  InConversation'
<1>1. /\ toClient' = <<>> /\ server.at = "closed" /\ Ends(t)
      /\ UNCHANGED <<toServer, onServer>>
  BY DEF ReceiveNothing
<1>2. toServer = <<>>
  BY <1>1, ClosedIsEmpty
<1>3. Sent(<<>>)'
  BY <1>1, <1>2 DEF Sent, onServer
<1> QED
  BY <1>1, <1>3, EndsQuiet

(* Nothing follows a frame that is cut short. *)
LEMMA NobodyMisreads ==
    ASSUME ConversationInv, ~ late, NEW t \in Threads
    PROVE  ~ Misreads(t)
<1> SUFFICES ASSUME Misreads(t) PROVE FALSE
  OBVIOUS
<1>1. user[t].at # "free" /\ Len(toClient) > 1 /\ Reply.kind = "part"
  BY DEF Misreads
<1>2. Talks(user[t])
  BY <1>1, InTime
<1>3. toClient # <<>> /\ \A m : toClient # <<m>>
  <2>1. ASSUME NEW m, toClient = <<m>>
        PROVE  Len(toClient) = 1
    BY <2>1
  <2>2. toClient = <<>> => Len(toClient) = 0
    OBVIOUS
  <2>3. Len(toClient) \in Nat
    BY LenProperties DEF ConversationInv, TypeInv
  <2>4. Len(toClient) # 1 /\ Len(toClient) # 0
    <3>1. PICK n \in Nat : n = Len(toClient)
      BY <2>3
    <3>2. n > 1
      BY <1>1, <3>1
    <3> QED
      BY <3>1, <3>2
  <2> QED
    BY <2>1, <2>2, <2>4
<1>4. ASSUME NEW m, m.kind # "part", NEW c, NEW d
      PROVE  toClient # <<m, c>> /\ toClient # <<m, c, d>>
  BY <1>1, <1>4 DEF Reply
<1>5. \A x, e : Offer(x, e).kind # "part" /\ ChunkHeader(x, e).kind # "part"
  BY DEF Offer, ChunkHeader
<1>6. \A x, e, c, d : /\ toClient # <<Offer(x, e), c>> /\ toClient # <<Offer(x, e), c, d>>
                      /\ toClient # <<ChunkHeader(x, e), c>>
  BY <1>4, <1>5
<1> QED
  BY <1>2, <1>3, <1>6 DEF Talks, AtAnswer, AtBegun, AtSending, AtAsked, AtHeader, AtPayload,
     Answered, Silent

(* A new connection is quiet. *)
LEMMA LogInAgainTalk ==
    ASSUME LogInAgain PROVE InConversation'
<1>1. server'.at = "idle"
  BY RestingFits DEF LogInAgain
<1> QED
  BY <1>1 DEF LogInAgain, InConversation, Quiet, Sent

(* What a server that listens has heard of the exchange u. *)
Calls(u) ==
    LET x == u.exchange
        f == u.file
    IN  \/ u.at = "answer" /\ toServer = <<Text("request", x)>>
        \/ /\ u.at = "answer" /\ f \in Files /\ Opened(x, f)
           /\ toServer = <<DoneRequest(x, x, Content(f))>>
        \/ u.at = "begun" /\ toServer = <<Named("UPLD", x, f)>>
        \/ /\ u.at = "sending" /\ u.tid = x /\ Opened(x, f)
           /\ toServer = <<ChunkRequest(x, x, u.k), Payload(x, Chunk(f, u.k))>>
        \/ u.at = "asked" /\ toServer = <<Named("DWNL", x, f)>>

(* A server that listens hears the one thread that waits for an answer.    *)
LEMMA IdleHears ==
    ASSUME ConversationInv, ~ late, server.at = "idle", toServer # <<>>
    PROVE  toClient = <<>> /\ \E t \in Threads : holder = t /\ Calls(user[t])
<1>1. \A q : Sent(q) => toServer = q
  BY DEF Sent, AtLastAck
<1>2. ~ Heard
  BY DEF Heard
<1>3. holder # NoOne
  BY <1>1, InTime DEF Quiet
<1>4. PICK t \in Threads : holder = t
  BY <1>3 DEF ConversationInv, TypeInv, TypeOK
<1> DEFINE u == user[t]
<1>5. Talks(u)
  BY <1>4, InTime
<1>6. /\ \A x, kinds : ~ Answered(x, kinds)
      /\ ~ Silent /\ ~ Heard
      /\ \A x, f, k : ~ ChunkIsSent(x, f, k) /\ ~ ChunkIsAcked(x, f, k)
  BY <1>2 DEF Answered, Silent, ChunkIsSent, ChunkIsAcked
<1>7. CASE u.at = "answer" /\ AtAnswer(u)
  BY <1>1, <1>4, <1>6, <1>7 DEF AtAnswer, Calls
<1>8. CASE u.at = "begun" /\ AtBegun(u)
  BY <1>1, <1>4, <1>6, <1>8 DEF AtBegun, Calls
<1>9. CASE u.at = "sending" /\ AtSending(u)
  BY <1>1, <1>4, <1>6, <1>9 DEF AtSending, Calls
<1>10. CASE u.at = "asked" /\ AtAsked(u)
  BY <1>1, <1>4, <1>6, <1>10 DEF AtAsked, Calls
<1>11. CASE u.at = "header" /\ AtHeader(u)
  BY <1>6, <1>11 DEF AtHeader
<1>12. CASE u.at = "payload" /\ AtPayload(u)
  BY <1>6, <1>12 DEF AtPayload
<1> QED
  BY <1>5, <1>7, <1>8, <1>9, <1>10, <1>11, <1>12 DEF Talks

(* The kind of a message tells what the server was called for. *)
LEMMA CallKinds ==
    ASSUME ConversationInv, ~ late, server.at = "idle", toServer # <<>>
    PROVE  /\ toClient = <<>>
           /\ \E t \in Threads :
                LET u == user[t]
                    x == u.exchange
                    f == u.file
                IN  /\ holder = t
                    /\ Message.exchange = x
                    /\ Message.kind \in {"request", "DONE", "UPLD", "CHNK", "DWNL"}
                    /\ Message.kind # "CHNK" => Tail(toServer) = <<>>
                    /\ Message.kind = "request" => u.at = "answer"
                    /\ Message.kind = "DONE" =>
                          /\ u.at = "answer" /\ f \in Files /\ Opened(x, f)
                          /\ Message.tid = x /\ Message.md5 = Content(f)
                    /\ Message.kind = "UPLD" => u.at = "begun" /\ Message.file = f
                    /\ Message.kind = "CHNK" =>
                          /\ u.at = "sending" /\ u.tid = x /\ Opened(x, f)
                          /\ Message.tid = x
                          /\ Tail(toServer) = <<Payload(x, Chunk(f, u.k))>>
                    /\ Message.kind = "DWNL" => u.at = "asked" /\ Message.file = f
<1>1. PICK t \in Threads : holder = t /\ Calls(user[t])
  BY IdleHears
<1> DEFINE u == user[t]
           x == u.exchange
           f == u.file
<1>2. CASE u.at = "answer" /\ toServer = <<Text("request", x)>>
  <2>1. Message = Text("request", x) /\ Tail(toServer) = <<>>
    BY <1>2 DEF Message
  <2> QED
    BY <1>1, <1>2, <2>1, IdleHears DEF Text
<1>3. CASE /\ u.at = "answer" /\ f \in Files /\ Opened(x, f)
           /\ toServer = <<DoneRequest(x, x, Content(f))>>
  <2>1. Message = DoneRequest(x, x, Content(f)) /\ Tail(toServer) = <<>>
    BY <1>3 DEF Message
  <2> QED
    BY <1>1, <1>3, <2>1, IdleHears DEF DoneRequest
<1>4. CASE u.at = "begun" /\ toServer = <<Named("UPLD", x, f)>>
  <2>1. Message = Named("UPLD", x, f) /\ Tail(toServer) = <<>>
    BY <1>4 DEF Message
  <2> QED
    BY <1>1, <1>4, <2>1, IdleHears DEF Named
<1>5. CASE /\ u.at = "sending" /\ u.tid = x /\ Opened(x, f)
           /\ toServer = <<ChunkRequest(x, x, u.k), Payload(x, Chunk(f, u.k))>>
  <2>1. Message = ChunkRequest(x, x, u.k) /\ Tail(toServer) = <<Payload(x, Chunk(f, u.k))>>
    BY <1>5 DEF Message
  <2> QED
    BY <1>1, <1>5, <2>1, IdleHears DEF ChunkRequest
<1>6. CASE u.at = "asked" /\ toServer = <<Named("DWNL", x, f)>>
  <2>1. Message = Named("DWNL", x, f) /\ Tail(toServer) = <<>>
    BY <1>6 DEF Message
  <2> QED
    BY <1>1, <1>6, <2>1, IdleHears DEF Named
<1> QED
  BY <1>1, <1>2, <1>3, <1>4, <1>5, <1>6 DEF Calls

(* One text is sent, or not, on a connection that carries nothing else.    *)
LEMMA AnswersAlone ==
    ASSUME toClient = <<>>, NEW x, NEW kind, NEW kinds, kind \in kinds,
           Answers(Text(kind, x)), Heard'
    PROVE  Answered(x, kinds)' \/ Silent'
<1>1. toClient' \in {<<Text(kind, x)>>, <<>>}
  BY DEF Answers, Replies, Loses
<1> QED
  BY <1>1 DEF Answered, Silent

(* and so does each action of the server. *)
LEMMA HandleTextTalk ==
    ASSUME ConversationInv, ~ late, HandleText
    PROVE  InConversation'
<1>1. /\ server.at = "idle" /\ server' = server /\ toServer # <<>>
      /\ toServer' = Tail(toServer)
      /\ Message.kind \in {"request", "DACK", "payload"}
      /\ UNCHANGED <<onClient, transfers, stored, timeouts>>
  BY DEF HandleText, Takes, TakesAt
<1>2. PICK t \in Threads :
        /\ holder = t /\ user[t].at = "answer" /\ Message.exchange = user[t].exchange
        /\ Message.kind = "request" /\ Tail(toServer) = <<>> /\ toClient = <<>>
  BY <1>1, CallKinds
<1>3. PICK x : x = user[t].exchange
  OBVIOUS
<1>4. /\ Answers(Text("OK", x)) \/ Loses(<<Part(x)>>)
      /\ Heard'
  BY <1>1, <1>2, <1>3 DEF HandleText, AnswerKinds, Heard
<1>5. Answered(x, {"OK", "FAIL", "part"})' \/ Silent'
  <2>1. CASE Answers(Text("OK", x))
    BY <1>2, <1>4, <2>1, AnswersAlone
  <2>2. CASE Loses(<<Part(x)>>)
    <3>1. toClient' = <<Text("part", x)>>
      BY <1>2, <2>2 DEF Loses, Part
    <3> QED
      BY <1>4, <3>1 DEF Answered
  <2> QED
    BY <1>4, <2>1, <2>2
<1>6. holder' = t /\ user' = user
  BY <1>1, <1>2 DEF onClient
<1>7. Talks(user[t])'
  BY <1>2, <1>3, <1>5, <1>6 DEF Talks, AtAnswer
<1> QED
  BY <1>6, <1>7 DEF InConversation

LEMMA HandleUploadTalk ==
    ASSUME ConversationInv, ~ late, HandleUpload
    PROVE  InConversation'
<1>1. /\ server.at = "idle" /\ server' = server /\ toServer # <<>>
      /\ toServer' = Tail(toServer)
      /\ Message.kind = "UPLD"
      /\ UNCHANGED <<onClient, stored, timeouts>>
  BY DEF HandleUpload, Takes, TakesAt
<1>2. PICK t \in Threads :
        /\ holder = t /\ user[t].at = "begun" /\ Message.exchange = user[t].exchange
        /\ Message.file = user[t].file
        /\ Tail(toServer) = <<>> /\ toClient = <<>>
  BY <1>1, CallKinds
<1>3. PICK x, f, chunks : /\ x = user[t].exchange /\ f = user[t].file
                          /\ chunks = [k \in 1..NumChunks[f] |-> NoOne]
  OBVIOUS
<1>4. /\ toClient' \in {<<Accepted(x, x)>>, <<>>} /\ Heard'
      /\ transfers' = [i \in DOMAIN transfers \cup {x} |->
                         IF i = x THEN [name |-> f, chunks |-> chunks] ELSE transfers[i]]
  BY <1>1, <1>2, <1>3 DEF HandleUpload, Heard, Answers, Replies, Loses
<1>5. x \in DOMAIN transfers' /\ transfers'[x] = [name |-> f, chunks |-> chunks]
  BY <1>4
<1>6. Opened(x, f)'
  BY <1>5 DEF Opened
<1>7. holder' = t /\ user' = user
  BY <1>1, <1>2 DEF onClient
<1>8. Talks(user[t])'
  BY <1>2, <1>3, <1>4, <1>6, <1>7 DEF Talks, AtBegun, Silent
<1> QED
  BY <1>7, <1>8 DEF InConversation

(* A chunk never meets a transfer that the server does not know. *)
LEMMA HandleChunkTalk ==
    ASSUME ConversationInv, ~ late, HandleChunk
    PROVE  InConversation'
<1>1. /\ toServer # <<>> /\ Message.kind = "CHNK" /\ server.at = "idle"
      /\ UNCHANGED <<onClient, transfers, stored, timeouts>>
  BY DEF HandleChunk, Takes, TakesAt
<1>2. PICK t \in Threads :
        /\ holder = t /\ user[t].at = "sending" /\ Message.exchange = user[t].exchange
        /\ Opened(user[t].exchange, user[t].file) /\ user[t].tid = user[t].exchange
        /\ Message.tid = user[t].exchange
        /\ Tail(toServer) = <<Payload(user[t].exchange, Chunk(user[t].file, user[t].k))>>
        /\ toClient = <<>>
  BY <1>1, CallKinds
<1>3. PICK x, y : x = user[t].exchange /\ y = Message.k
  OBVIOUS
<1>4. x \in DOMAIN transfers
  BY <1>2, <1>3 DEF Opened
<1>5. /\ server' = [server EXCEPT !.at = "payload", !.exchange = x, !.tid = x, !.k = y]
      /\ toServer' = Tail(toServer) /\ toClient' = toClient
  BY <1>2, <1>3, <1>4 DEF HandleChunk, Takes, TakesAt, Replies
<1>6. server'.at = "payload" /\ server'.exchange = x /\ server'.tid = x
  <2>1. server \in ServerState
    BY DEF ConversationInv, TypeInv, ServerFits
  <2> QED
    BY <1>5, <2>1 DEF ServerState
<1>7. holder' = t /\ user' = user /\ Opened(user[t].exchange, user[t].file)'
  BY <1>1, <1>2 DEF onClient, Opened
<1>8. Talks(user[t])'
  BY <1>2, <1>3, <1>5, <1>6, <1>7 DEF Talks, AtSending
<1> QED
  BY <1>7, <1>8 DEF InConversation

(* A server that waits for a payload serves the thread that uploads. *)
LEMMA PayloadIsAwaited ==
    ASSUME ConversationInv, ~ late, server.at = "payload"
    PROVE  \E t \in Threads :
             LET u == user[t]
                 x == u.exchange
             IN  /\ holder = t /\ u.at = "sending" /\ u.tid = x /\ Opened(x, u.file)
                 /\ toClient = <<>> /\ toServer = <<Payload(x, Chunk(u.file, u.k))>>
                 /\ server.exchange = x /\ server.tid = x
<1>1. /\ \A q : ~ Sent(q)
      /\ ~ Heard
      /\ \A x, kinds : ~ Answered(x, kinds)
      /\ ~ Silent
      /\ \A x, f, k : ~ ChunkIsSent(x, f, k) /\ ~ ChunkIsAcked(x, f, k)
  BY DEF Sent, AtLastAck, Heard, Answered, Silent, ChunkIsSent, ChunkIsAcked
<1>2. holder # NoOne
  BY <1>1, InTime DEF Quiet
<1>3. PICK t \in Threads : holder = t
  BY <1>2 DEF ConversationInv, TypeInv, TypeOK
<1>4. Talks(user[t])
  BY <1>3, InTime
<1>5. user[t].at = "sending" /\ AtSending(user[t])
  BY <1>1, <1>4 DEF Talks, AtAnswer, AtBegun, AtAsked, AtHeader, AtPayload
<1> QED
  BY <1>1, <1>3, <1>5 DEF AtSending

LEMMA HandlePayloadTalk ==
    ASSUME ConversationInv, ~ late, HandlePayload
    PROVE  InConversation'
<1>1. /\ server.at = "payload" /\ server' = Listening /\ toServer' = Tail(toServer)
      /\ Answers(Text("OK", server.exchange))
      /\ UNCHANGED <<onClient, stored, timeouts>>
  BY DEF HandlePayload, Takes, TakesAt
<1>2. PICK t \in Threads :
        /\ holder = t /\ user[t].at = "sending" /\ user[t].tid = user[t].exchange
        /\ Opened(user[t].exchange, user[t].file) /\ toClient = <<>>
        /\ toServer = <<Payload(user[t].exchange, Chunk(user[t].file, user[t].k))>>
        /\ server.exchange = user[t].exchange
  BY <1>1, PayloadIsAwaited
<1>3. PICK x : x = user[t].exchange
  OBVIOUS
<1>4. toServer' = <<>> /\ server'.at = "idle"
  BY <1>1, <1>2, RestingFits
<1>5. Answered(x, {"OK", "ERRR~001"})' \/ Silent'
  <2>1. Heard' /\ Answers(Text("OK", x))
    BY <1>1, <1>2, <1>3, <1>4 DEF Heard
  <2> QED
    BY <1>2, <2>1, AnswersAlone
<1>6. holder' = t /\ user' = user
  BY <1>1, <1>2 DEF onClient
<1>7. Opened(user[t].exchange, user[t].file)'
  BY <1>2, <1>6, PayloadKept DEF Opened, ConversationInv
<1>8. Talks(user[t])'
  BY <1>2, <1>3, <1>5, <1>6, <1>7 DEF Talks, AtSending
<1> QED
  BY <1>6, <1>8 DEF InConversation

LEMMA PayloadTimesOutTalk ==
    ASSUME ConversationInv, ~ late, PayloadTimesOut
    PROVE  InConversation'
<1>1. /\ server.at = "payload" /\ HangsUp /\ Answers(Text("ERRR~001", server.exchange))
      /\ UNCHANGED <<onClient, transfers, stored, timeouts>>
  BY DEF PayloadTimesOut
<1>2. PICK t \in Threads :
        /\ holder = t /\ user[t].at = "sending" /\ user[t].tid = user[t].exchange
        /\ Opened(user[t].exchange, user[t].file) /\ toClient = <<>>
        /\ server.exchange = user[t].exchange
  BY <1>1, PayloadIsAwaited
<1>3. PICK x : x = user[t].exchange
  OBVIOUS
<1>4. Answered(x, {"OK", "ERRR~001"})' \/ Silent'
  <2>1. Heard' /\ Answers(Text("ERRR~001", x))
    BY <1>1, <1>2, <1>3, HangsUpFacts DEF Heard
  <2> QED
    BY <1>2, <2>1, AnswersAlone
<1>5. holder' = t /\ user' = user /\ Opened(user[t].exchange, user[t].file)'
  BY <1>1, <1>2 DEF onClient, Opened
<1>6. Talks(user[t])'
  BY <1>2, <1>3, <1>4, <1>5 DEF Talks, AtSending
<1> QED
  BY <1>5, <1>6 DEF InConversation

LEMMA HandleDoneTalk ==
    ASSUME ConversationInv, ~ late, HandleDone
    PROVE  InConversation'
<1>1. /\ toServer # <<>> /\ Message.kind = "DONE" /\ server.at = "idle"
      /\ server' = server /\ toServer' = Tail(toServer)
      /\ UNCHANGED <<onClient, timeouts>>
  BY DEF HandleDone, Takes, TakesAt
<1>2. PICK t \in Threads :
        /\ holder = t /\ user[t].at = "answer" /\ Message.exchange = user[t].exchange
        /\ Tail(toServer) = <<>> /\ toClient = <<>>
  BY <1>1, CallKinds
<1>3. PICK x : x = user[t].exchange
  OBVIOUS
<1>4. PICK kind \in {"OK", "FAIL"} : Answers(Text(kind, x))
  BY <1>2, <1>3 DEF HandleDone
<1>5. Answered(x, {"OK", "FAIL", "part"})' \/ Silent'
  <2>1. Heard'
    BY <1>1, <1>2 DEF Heard
  <2> QED
    BY <1>2, <1>4, <2>1, AnswersAlone
<1>6. holder' = t /\ user' = user
  BY <1>1, <1>2 DEF onClient
<1>7. Talks(user[t])'
  BY <1>2, <1>3, <1>5, <1>6 DEF Talks, AtAnswer
<1> QED
  BY <1>6, <1>7 DEF InConversation

(* What may be on its way when a chunk was to be sent after two texts, *)
LEMMA ServedAfterTwo ==
    ASSUME toClient = <<>>, NEW a, NEW b, NEW k, NEW waiting, ServesChunk(<<a, b>>, k, waiting)
    PROVE  LET x == waiting.exchange
           IN  \/ /\ server' = waiting
                  /\ \E data \in Sending(x, stored[waiting.file][k]) : toClient' = <<a, b, data>>
               \/ server' = Listening /\ toClient' \in {<<>>, <<a>>, <<a, b>>}
<1> DEFINE x == waiting.exchange
           data == Payload(x, stored[waiting.file][k])
           texts == <<a, b>>
<1>1. texts \in Seq({a, b}) /\ Len(texts) = 2
  <2>1. a \in {a, b} /\ b \in {a, b}
    OBVIOUS
  <2> QED
    BY <2>1
<1>2. \A c : texts \o <<c>> = <<a, b, c>>
  BY TwoAndThree
<1>3. \A n \in 0..2 : SubSeq(texts, 1, n) \in {<<>>, <<a>>, <<a, b>>}
  <2>1. SubSeq(texts, 1, 0) = <<>>
    BY <1>1, SubSeqEmpty
  <2>2. SubSeq(texts, 1, 1) = <<a>>
    <3>1. \A i \in 1..1 : texts[i] \in {a}
      OBVIOUS
    <3>2. PICK p : p = <<a>>
      OBVIOUS
    <3>3. p \in Seq({a}) /\ Len(p) = 1 /\ p[1] = a
      BY <3>2
    <3>4. PICK q : q = SubSeq(texts, 1, 1)
      OBVIOUS
    <3> HIDE DEF texts
    <3>5. q \in Seq({a}) /\ Len(q) = 1
      BY <3>1, <3>4, SubSeqProperties
    <3>6. q[1] = a
      BY <3>5, ElementOfSeq
    <3>7. \A i \in 1..Len(q) : q[i] = p[i]
      BY <3>3, <3>5, <3>6
    <3>8. q = p
      BY <3>3, <3>5, <3>7, SeqEqual
    <3> QED
      BY <3>2, <3>4, <3>8
  <2>3. SubSeq(texts, 1, 2) = <<a, b>>
    BY <1>1, SubSeqFull
  <2>4. 0..2 = {0, 1, 2}
    OBVIOUS
  <2> QED
    BY <2>1, <2>2, <2>3, <2>4
<1>4. \/ Replies(texts \o <<data>>) /\ server' = waiting
      \/ Loses(texts \o <<Part(x)>>) /\ server' = waiting
      \/ \E n \in 0..Len(texts) : Loses(SubSeq(texts, 1, n)) /\ server' = Listening
  BY DEF ServesChunk
<1>5. CASE Replies(texts \o <<data>>) /\ server' = waiting
  <2>1. toClient' = <<a, b, data>>
    BY <1>2, <1>5 DEF Replies
  <2> QED
    BY <1>5, <2>1 DEF Sending
<1>6. CASE Loses(texts \o <<Part(x)>>) /\ server' = waiting
  <2>1. toClient' = <<a, b, Part(x)>>
    BY <1>2, <1>6 DEF Loses
  <2> QED
    BY <1>6, <2>1 DEF Sending
<1>7. CASE \E n \in 0..Len(texts) : Loses(SubSeq(texts, 1, n)) /\ server' = Listening
  <2>1. PICK n \in 0..2 : Loses(SubSeq(texts, 1, n)) /\ server' = Listening
    BY <1>1, <1>7
  <2>2. PICK msgs \in {<<>>, <<a>>, <<a, b>>} : msgs = SubSeq(texts, 1, n)
    BY <1>3, <2>1
  <2>3. toClient' = msgs
    BY <2>1, <2>2 DEF Loses
  <2> QED
    BY <2>1, <2>2, <2>3
<1> QED
  BY <1>4, <1>5, <1>6, <1>7

(* or after one. *)
LEMMA ServedAfterOne ==
    ASSUME toClient = <<>>, NEW a, NEW k, NEW waiting, ServesChunk(<<a>>, k, waiting)
    PROVE  LET x == waiting.exchange
           IN  \/ /\ server' = waiting
                  /\ \E data \in Sending(x, stored[waiting.file][k]) : toClient' = <<a, data>>
               \/ server' = Listening /\ toClient' \in {<<>>, <<a>>}
<1> DEFINE x == waiting.exchange
           data == Payload(x, stored[waiting.file][k])
           texts == <<a>>
<1>1. texts \in Seq({a}) /\ Len(texts) = 1
  OBVIOUS
<1>2. \A c : texts \o <<c>> = <<a, c>>
  BY TwoAndThree
<1>3. \A n \in 0..1 : SubSeq(texts, 1, n) \in {<<>>, <<a>>}
  <2>1. SubSeq(texts, 1, 0) = <<>>
    BY <1>1, SubSeqEmpty
  <2>2. SubSeq(texts, 1, 1) = <<a>>
    BY <1>1, SubSeqFull
  <2>3. 0..1 = {0, 1}
    OBVIOUS
  <2> QED
    BY <2>1, <2>2, <2>3
<1>4. \/ Replies(texts \o <<data>>) /\ server' = waiting
      \/ Loses(texts \o <<Part(x)>>) /\ server' = waiting
      \/ \E n \in 0..Len(texts) : Loses(SubSeq(texts, 1, n)) /\ server' = Listening
  BY DEF ServesChunk
<1>5. CASE Replies(texts \o <<data>>) /\ server' = waiting
  <2>1. toClient' = <<a, data>>
    BY <1>2, <1>5 DEF Replies
  <2> QED
    BY <1>5, <2>1 DEF Sending
<1>6. CASE Loses(texts \o <<Part(x)>>) /\ server' = waiting
  <2>1. toClient' = <<a, Part(x)>>
    BY <1>2, <1>6 DEF Loses
  <2> QED
    BY <1>6, <2>1 DEF Sending
<1>7. CASE \E n \in 0..Len(texts) : Loses(SubSeq(texts, 1, n)) /\ server' = Listening
  <2>1. PICK n \in 0..1 : Loses(SubSeq(texts, 1, n)) /\ server' = Listening
    BY <1>1, <1>7
  <2>2. PICK msgs \in {<<>>, <<a>>} : msgs = SubSeq(texts, 1, n)
    BY <1>3, <2>1
  <2>3. toClient' = msgs
    BY <2>1, <2>2 DEF Loses
  <2> QED
    BY <2>1, <2>2, <2>3
<1> QED
  BY <1>4, <1>5, <1>6, <1>7

LEMMA HandleDownloadTalk ==
    ASSUME ConversationInv, ~ late, HandleDownload
    PROVE  InConversation'
<1>1. /\ toServer # <<>> /\ Message.kind = "DWNL" /\ server.at = "idle"
      /\ toServer' \in {Tail(toServer), <<>>}
      /\ UNCHANGED <<onClient, transfers, stored, timeouts>>
  BY HangsUpFacts DEF HandleDownload, Refuses, Takes, TakesAt
<1>2. PICK t \in Threads :
        /\ holder = t /\ user[t].at = "asked" /\ Message.exchange = user[t].exchange
        /\ Message.file = user[t].file
        /\ Tail(toServer) = <<>> /\ toClient = <<>>
  BY <1>1, CallKinds
<1>3. PICK x, f : x = user[t].exchange /\ f = user[t].file
  OBVIOUS
<1>4. holder' = t /\ user' = user /\ stored' = stored /\ toServer' = <<>>
  BY <1>1, <1>2 DEF onClient
<1>5. CASE stored[f] # <<>>
  <2>1. PICK next : next = [at |-> "ack", exchange |-> x, file |-> f, tid |-> 0, k |-> 1]
    OBVIOUS
  <2>2. PICK a, b : a = Offer(x, stored[f]) /\ b = ChunkHeader(x, 1)
    OBVIOUS
  <2>3. ServesChunk(<<a, b>>, 1, next) /\ next.exchange = x /\ next.file = f
    BY <1>2, <1>3, <1>5, <2>1, <2>2 DEF HandleDownload
  <2>4. ASSUME server' = next,
               \E data \in Sending(x, stored[f][1]) : toClient' = <<a, b, data>>
        PROVE  Talks(user[t])'
    <3>1. ChunkIsSent(x, f, 1)'
      BY <1>4, <2>1, <2>4 DEF ChunkIsSent
    <3>2. \E data \in Sending(x, stored'[f][1]) :
             toClient' = <<Offer(x, stored'[f]), ChunkHeader(x, 1), data>>
      BY <1>4, <2>2, <2>4
    <3> QED
      BY <1>2, <1>3, <1>4, <1>5, <3>1, <3>2 DEF Talks, AtAsked
  <2>5. ASSUME server' = Listening, toClient' \in {<<>>, <<a>>, <<a, b>>}
        PROVE  Talks(user[t])'
    <3>1. Heard'
      BY <1>4, <2>5, RestingFits DEF Heard
    <3>2. \/ toClient' = <<>>
          \/ toClient' = <<Offer(x, stored'[f])>>
          \/ toClient' = <<Offer(x, stored'[f]), ChunkHeader(x, 1)>>
      BY <1>4, <2>2, <2>5
    <3> QED
      BY <1>2, <1>3, <1>4, <1>5, <3>1, <3>2 DEF Talks, AtAsked, Silent
  <2>6. Talks(user[t])'
    <3>1. \/ /\ server' = next
             /\ \E data \in Sending(x, stored[f][1]) : toClient' = <<a, b, data>>
          \/ server' = Listening /\ toClient' \in {<<>>, <<a>>, <<a, b>>}
      BY <1>2, <2>3, ServedAfterTwo
    <3> QED
      BY <2>4, <2>5, <3>1
  <2> QED
    BY <1>4, <2>6 DEF InConversation
<1>6. CASE stored[f] = <<>>
  <2>1. Refuses(x)
    BY <1>2, <1>3, <1>6 DEF HandleDownload
  <2>2. Heard'
    <3>1. server'.at \in {"idle", "closed"}
      BY <1>1, <2>1, HangsUpFacts DEF Refuses, Takes
    <3> QED
      BY <1>4, <3>1 DEF Heard
  <2>3. \/ toClient' = <<>>
        \/ toClient' = <<Text("FAIL", x)>>
        \/ toClient' = <<Text("ERRR~001", x)>>
    BY <1>2, <2>1 DEF Refuses, Replies, Loses
  <2>4. Answered(x, {"FAIL", "ERRR~001"})' \/ Silent'
    BY <2>2, <2>3 DEF Answered, Silent
  <2>5. Talks(user[t])'
    BY <1>2, <1>3, <1>4, <2>4 DEF Talks, AtAsked
  <2> QED
    BY <1>4, <2>5 DEF InConversation
<1> QED
  BY <1>5, <1>6

(* A step that changes neither the threads nor the replies nor the files   *)
(* leaves the conversation as it is, if what was sent is still so.         *)
LEMMA StaysInConversation ==
    ASSUME ConversationInv, ~ late,
           UNCHANGED <<holder, user, toClient, transfers, stored>>,
           server.at # "payload",
           \A S : \A q \in Seq(S) : Sent(q) => Sent(q)',
           Heard => Heard',
           \A x, f, k : ChunkIsSent(x, f, k) => ChunkIsSent(x, f, k)',
           \A t \in Threads : user[t].at = "header" => AtHeader(user[t])'
    PROVE  InConversation'
<1>1. CASE holder = NoOne
  <2>1. Quiet
    BY <1>1, InTime
  <2>2. <<>> \in Seq({})
    BY EmptySeq
  <2> QED
    BY <1>1, <2>1, <2>2 DEF InConversation, Quiet
<1>2. ASSUME NEW t \in Threads, holder = t
      PROVE  InConversation'
  <2> DEFINE u == user[t]
             x == u.exchange
             f == u.file
  <2>1. Talks(u) /\ u.at # "free"
    BY <1>2, InTime
  <2>2. /\ \A kinds : Answered(x, kinds) => Answered(x, kinds)'
        /\ Silent => Silent'
    BY DEF Answered, Silent
  <2>3. Opened(x, f) => Opened(x, f)'
    BY DEF Opened
  <2>4. ASSUME NEW m
        PROVE  Sent(<<m>>) => Sent(<<m>>)'
    <3>1. <<m>> \in Seq({m})
      OBVIOUS
    <3> QED
      BY <3>1
  <2>5. CASE u.at = "answer"
    <3>1. AtAnswer(u)
      BY <2>1, <2>5 DEF Talks
    <3>2. Sent(<<Text("request", x)>>) => Sent(<<Text("request", x)>>)'
      BY <2>4
    <3>3. Sent(<<DoneRequest(x, x, Content(f))>>) => Sent(<<DoneRequest(x, x, Content(f))>>)'
      BY <2>4
    <3>4. AtAnswer(user[t])'
      BY <2>2, <2>3, <3>1, <3>2, <3>3 DEF AtAnswer
    <3> QED
      BY <1>2, <2>5, <3>4 DEF InConversation, Talks
  <2>6. CASE u.at = "begun"
    <3>1. AtBegun(u)
      BY <2>1, <2>6 DEF Talks
    <3>2. Sent(<<Named("UPLD", x, f)>>) => Sent(<<Named("UPLD", x, f)>>)'
      BY <2>4
    <3>3. AtBegun(user[t])'
      BY <2>2, <2>3, <3>1, <3>2 DEF AtBegun
    <3> QED
      BY <1>2, <2>6, <3>3 DEF InConversation, Talks
  <2>7. CASE u.at = "sending"
    <3>1. AtSending(u)
      BY <2>1, <2>7 DEF Talks
    <3>2. PICK a, b : a = ChunkRequest(x, x, u.k) /\ b = Payload(x, Chunk(f, u.k))
      OBVIOUS
    <3>3. <<a, b>> \in Seq({a, b})
      OBVIOUS
    <3>4. Sent(<<a, b>>) => Sent(<<a, b>>)'
      BY <3>3
    <3>5. AtSending(user[t])'
      BY <2>2, <2>3, <3>1, <3>2, <3>4 DEF AtSending
    <3> QED
      BY <1>2, <2>7, <3>5 DEF InConversation, Talks
  <2>8. CASE u.at = "asked"
    <3>1. AtAsked(u)
      BY <2>1, <2>8 DEF Talks
    <3>2. Sent(<<Named("DWNL", x, f)>>) => Sent(<<Named("DWNL", x, f)>>)'
      BY <2>4
    <3>3. AtAsked(user[t])'
      BY <2>2, <3>1, <3>2 DEF AtAsked
    <3> QED
      BY <1>2, <2>8, <3>3 DEF InConversation, Talks
  <2>9. CASE u.at = "header"
    BY <1>2, <2>9 DEF InConversation, Talks
  <2>10. CASE u.at = "payload"
    <3>1. AtPayload(u)
      BY <2>1, <2>10 DEF Talks
    <3>2. AtPayload(user[t])'
      BY <2>2, <3>1 DEF AtPayload, HasOffer
    <3> QED
      BY <1>2, <2>10, <3>2 DEF InConversation, Talks
  <2> QED
    BY <2>1, <2>5, <2>6, <2>7, <2>8, <2>9, <2>10 DEF Talks
<1> QED
  BY <1>1, <1>2 DEF ConversationInv, TypeInv, TypeOK

(* The server takes the acknowledgement of a chunk and sends the next, or  *)
(* that of the last one and listens.                                       *)
LEMMA HandleAckTalk ==
    ASSUME ConversationInv, ~ late, HandleAck
    PROVE  InConversation'
<1> DEFINE n == Len(stored[server.file])
           k == server.k + 1
           more == Message.kind = "DACK" /\ k <= n
<1>1. /\ toServer # <<>> /\ server.at = "ack" /\ toServer' = Tail(toServer)
      /\ UNCHANGED <<onClient, transfers, stored, timeouts>>
  BY DEF HandleAck, TakesAt
<1>2. holder' = holder /\ user' = user
  BY <1>1 DEF onClient
<1>3. /\ TypeInv /\ server \in ServerState /\ server.k \in Nat /\ server.file \in Files
      /\ n \in Nat /\ DOMAIN stored[server.file] = 1..n
  <2>1. TypeInv /\ server \in ServerState /\ server.file \in Files
    BY <1>1 DEF ConversationInv, TypeInv, ServerFits
  <2> QED
    BY <2>1, StoredFacts DEF ServerState
<1>4. ASSUME NEW t \in Threads, user[t].at = "header"
      PROVE  LET u == user[t]
             IN  /\ holder = t /\ HasOffer(u)
                 /\ server.file = u.file /\ server.exchange = u.exchange
                 /\ server.k = u.k - 1 /\ u.k \in 1..n
                 /\ toServer = <<Text("DACK", u.exchange)>> /\ toClient = <<>>
  <2> DEFINE u == user[t]
  <2>1. holder = t /\ AtHeader(u)
    BY <1>4, InTime DEF Talks
  <2>2. ~ ChunkIsSent(u.exchange, u.file, u.k) /\ ~ Silent /\ ~ Heard
    BY <1>1 DEF ChunkIsSent, Silent, Heard
  <2>3. HasOffer(u) /\ ChunkIsAcked(u.exchange, u.file, u.k - 1) /\ toClient = <<>>
    BY <2>1, <2>2 DEF AtHeader
  <2>4. u.k \in DOMAIN stored[u.file]
    BY <2>3 DEF HasOffer
  <2> QED
    BY <1>1, <1>3, <2>1, <2>3, <2>4 DEF ChunkIsAcked
<1>5. CASE AtLastAck
  <2>1. k = n + 1 /\ ~ more
    BY <1>3, <1>5 DEF AtLastAck
  <2>2. server' = Listening /\ toClient' = toClient
    BY <2>1 DEF HandleAck, Replies
  <2>3. server'.at = "idle"
    BY <2>2, RestingFits
  <2>4. ASSUME NEW S, NEW q \in Seq(S), Sent(q)
        PROVE  Sent(q)'
    <3>1. PICK x \in 1..exchanges : toServer = <<Text("DACK", x)>> \o q
      BY <1>1, <2>4 DEF Sent
    <3>2. PICK a : a = Text("DACK", x)
      OBVIOUS
    <3>3. q \in Seq(S \cup {a}) /\ a \in S \cup {a}
      BY <2>4, SeqMonotonic
    <3>4. Tail(<<a>> \o q) = q
      BY <3>3
    <3> QED
      BY <1>1, <2>3, <3>1, <3>2, <3>4 DEF Sent
  <2>5. \A t \in Threads : user[t].at # "header"
    <3>1. ASSUME NEW t \in Threads, user[t].at = "header"
          PROVE  FALSE
      <4>1. server.k = user[t].k - 1 /\ user[t].k \in 1..n
        BY <1>4, <3>1
      <4> QED
        BY <1>3, <1>5, <4>1 DEF AtLastAck
    <3> QED
      BY <3>1
  <2>6. ~ Heard /\ \A x, f, i : ~ ChunkIsSent(x, f, i)
    BY <1>1 DEF Heard, ChunkIsSent
  <2> QED
    BY <1>1, <1>2, <2>2, <2>4, <2>5, <2>6, StaysInConversation
<1>6. CASE ~ AtLastAck
  <2>1. /\ \A q : ~ Sent(q)
        /\ ~ Heard
        /\ \A x, kinds : ~ Answered(x, kinds)
        /\ ~ Silent
        /\ \A x, f, i : ~ ChunkIsSent(x, f, i)
    BY <1>1, <1>6 DEF Sent, Heard, Answered, Silent, ChunkIsSent
  <2>2. holder # NoOne
    BY <2>1, InTime DEF Quiet
  <2>3. PICK t \in Threads : holder = t
    BY <2>2 DEF ConversationInv, TypeInv, TypeOK
  <2>4. Talks(user[t])
    BY <2>3, InTime
  <2>5. user[t].at = "header"
    BY <1>1, <2>1, <2>4 DEF Talks, AtAnswer, AtBegun, AtSending, AtAsked, AtPayload
  <2>6. PICK x, f, i : x = user[t].exchange /\ f = user[t].file /\ i = user[t].k
    OBVIOUS
  <2>7. /\ HasOffer(user[t]) /\ server.file = f /\ server.exchange = x /\ server.k = i - 1
        /\ i \in 1..n /\ toServer = <<Text("DACK", x)>> /\ toClient = <<>>
    BY <1>4, <2>5, <2>6
  <2>8. k = i /\ more
    <3>1. Message.kind = "DACK"
      BY <2>7 DEF Message, Text
    <3> QED
      BY <1>3, <2>7, <3>1
  <2>9. PICK next, a : next = [server EXCEPT !.k = i] /\ a = ChunkHeader(x, i)
    OBVIOUS
  <2>10. /\ next.exchange = x /\ next.file = f /\ next.at = "ack" /\ next.k = i
         /\ ServesChunk(<<a>>, i, next) /\ toServer' = <<>>
    BY <1>1, <1>3, <2>7, <2>8, <2>9 DEF HandleAck, ServerState
  <2>11. \/ /\ server' = next
            /\ \E data \in Sending(x, stored[f][i]) : toClient' = <<a, data>>
         \/ server' = Listening /\ toClient' \in {<<>>, <<a>>}
    BY <2>7, <2>10, ServedAfterOne
  <2>12. HasOffer(user[t])'
    BY <1>1, <1>2, <2>7 DEF HasOffer
  <2>13. ASSUME server' = next,
                \E data \in Sending(x, stored[f][i]) : toClient' = <<a, data>>
         PROVE  Talks(user[t])'
    <3>1. ChunkIsSent(x, f, i)'
      BY <2>10, <2>13 DEF ChunkIsSent
    <3>2. \E data \in Sending(x, stored'[f][i]) : toClient' = <<ChunkHeader(x, i), data>>
      BY <1>1, <2>9, <2>13
    <3> QED
      BY <1>2, <2>5, <2>6, <2>12, <3>1, <3>2 DEF Talks, AtHeader
  <2>14. ASSUME server' = Listening, toClient' \in {<<>>, <<a>>}
         PROVE  Talks(user[t])'
    <3>1. Heard'
      BY <2>10, <2>14, RestingFits DEF Heard
    <3> QED
      BY <1>2, <2>5, <2>6, <2>9, <2>12, <2>14, <3>1 DEF Talks, AtHeader, Silent
  <2> QED
    BY <1>2, <2>3, <2>11, <2>13, <2>14 DEF InConversation
<1> QED
  BY <1>5, <1>6

LEMMA BreaksTalk ==
    ASSUME ConversationInv, ~ late, Breaks
    PROVE  InConversation'
<1>1. /\ server.at # "payload" /\ server'.at = "closed" /\ toServer' = <<>>
      /\ UNCHANGED <<onClient, toClient, transfers, stored, timeouts, lost, losses>>
  BY HangsUpFacts DEF Breaks
<1>2. holder' = holder /\ user' = user
  BY <1>1 DEF onClient
<1>3. /\ \A q : Sent(q)'
      /\ Heard'
      /\ \A x, f, k : ChunkIsSent(x, f, k)' /\ ChunkIsAcked(x, f, k)'
  BY <1>1 DEF Sent, Heard, ChunkIsSent, ChunkIsAcked
<1>4. ASSUME NEW t \in Threads, user[t].at = "header"
      PROVE  AtHeader(user[t])'
  <2>1. AtHeader(user[t])
    BY <1>4, InTime DEF Talks
  <2>2. HasOffer(user[t])'
    BY <1>1, <1>2, <2>1 DEF AtHeader, HasOffer
  <2>3. PICK x, f, k, l : /\ x = user[t].exchange /\ f = user[t].file
                          /\ k = user[t].k /\ l = user[t].k - 1
    OBVIOUS
  <2>4. ChunkIsSent(x, f, k)' /\ ChunkIsAcked(x, f, l)'
    BY <1>3
  <2>5. \/ \E data \in Sending(x, stored'[f][k]) : toClient' = <<ChunkHeader(x, k), data>>
        \/ toClient' = <<ChunkHeader(x, k)>>
        \/ toClient' = <<>>
    BY <1>1, <2>1, <2>3 DEF AtHeader, Silent
  <2> QED
    BY <1>2, <1>3, <2>2, <2>3, <2>4, <2>5 DEF AtHeader
<1> QED
  BY <1>1, <1>2, <1>3, <1>4, StaysInConversation

(* At first nothing is on its way. *)
LEMMA ConversationInit == Init => ConversationInv
<1> SUFFICES ASSUME Init PROVE ConversationInv
  OBVIOUS
<1>1. server.at = "idle" /\ holder = NoOne /\ toClient = <<>> /\ toServer = <<>>
  BY RestingFits DEF Init
<1> QED
  BY <1>1, TypeInit DEF ConversationInv, InConversation, Quiet, Sent

(* Every step keeps the conversation, or is a late acknowledgement. *)
LEMMA ConversationNext == ConversationInv /\ [Next]_vars => ConversationInv'
<1> SUFFICES ASSUME ConversationInv, [Next]_vars, ~ late' PROVE InConversation'
  BY TypeNext DEF ConversationInv
<1>1. ASSUME NEW t \in Threads, Request(t)
      PROVE  InConversation'
  BY <1>1, BeginsTalk DEF Request, Begins, bounds
<1>2. ASSUME NEW t \in Threads, NEW f \in Files, Upload(t, f) \/ Download(t, f)
      PROVE  InConversation'
  <2>1. CASE Upload(t, f)
    BY <2>1, BeginsTalk DEF Upload, Begins, bounds
  <2>2. CASE Download(t, f)
    BY <2>2, BeginsTalk DEF Download, Begins, bounds
  <2> QED
    BY <1>2, <2>1, <2>2
<1>3. ASSUME NEW t \in Threads, ClientReceives(t)
      PROVE  InConversation'
  <2>1. late' = late
    BY <1>3 DEF ClientReceives, ReceiveAnswer, ReceiveTransferId, ReceiveChunkAnswer,
       ReceiveOffer, ReceiveHeader, ReceivePayload, ReceiveNothing, onServer, bounds
  <2> QED
    BY <1>3, <2>1, ReceiveAnswerTalk, ReceiveTransferIdTalk, ReceiveChunkAnswerTalk,
       ReceiveOfferTalk, ReceiveHeaderTalk, ReceivePayloadTalk, ReceiveNothingTalk
       DEF ClientReceives
<1>4. ASSUME NEW t \in Threads, Misreads(t)
      PROVE  InConversation'
  <2>1. late' = late
    BY <1>4 DEF Misreads, onServer, bounds
  <2> QED
    BY <1>4, <2>1, NobodyMisreads
<1>5. CASE LogInAgain
  BY <1>5, LogInAgainTalk
<1>6. CASE ServerReceives
  <2>1. late' = late
    BY <1>6 DEF ServerReceives, HandleText, HandleUpload, HandleChunk, HandlePayload,
       HandleDone, HandleDownload, HandleAck, timeouts
  <2> QED
    BY <1>6, <2>1, HandleTextTalk, HandleUploadTalk, HandleChunkTalk, HandlePayloadTalk,
       HandleDoneTalk, HandleDownloadTalk, HandleAckTalk DEF ServerReceives
<1>7. CASE PayloadTimesOut \/ Breaks
  <2>1. late' = late
    BY <1>7 DEF PayloadTimesOut, Breaks, timeouts
  <2> QED
    BY <1>7, <2>1, PayloadTimesOutTalk, BreaksTalk
<1>8. ~ AckTimesOut
  BY DEF AckTimesOut
<1>9. CASE UNCHANGED vars
  <2>1. /\ UNCHANGED <<toServer, toClient, holder, user, server, transfers, stored, exchanges>>
        /\ ~ late
    BY <1>9 DEF vars, bounds
  <2>2. /\ \A q : Sent(q) => Sent(q)'
        /\ Heard => Heard'
        /\ \A x, kinds : Answered(x, kinds) => Answered(x, kinds)'
        /\ Silent => Silent'
        /\ \A x, f : Opened(x, f) => Opened(x, f)'
        /\ \A x, f, k : /\ ChunkIsSent(x, f, k) => ChunkIsSent(x, f, k)'
                        /\ ChunkIsAcked(x, f, k) => ChunkIsAcked(x, f, k)'
        /\ \A u : HasOffer(u) => HasOffer(u)'
    BY <2>1 DEF Sent, AtLastAck, Heard, Answered, Silent, Opened, ChunkIsSent, ChunkIsAcked,
       HasOffer
  <2>3. ASSUME NEW u, Talks(u)
        PROVE  Talks(u)'
    BY <2>1, <2>2, <2>3 DEF Talks, AtAnswer, AtBegun, AtSending, AtAsked, AtHeader, AtPayload
  <2>4. InConversation
    BY <2>1 DEF ConversationInv
  <2>5. CASE holder = NoOne /\ Quiet
    BY <2>1, <2>2, <2>5 DEF InConversation, Quiet
  <2>6. ASSUME NEW t \in Threads, holder = t, Talks(user[t])
        PROVE  InConversation'
    <3>1. PICK u : u = user[t]
      OBVIOUS
    <3>2. Talks(u)' /\ u = user'[t]
      BY <2>1, <2>3, <2>6, <3>1
    <3>3. Talks(user[t])'
      BY <3>2 DEF Talks
    <3> QED
      BY <2>1, <2>6, <3>3 DEF InConversation
  <2> QED
    BY <2>4, <2>5, <2>6 DEF InConversation
<1> QED
  BY <1>1, <1>2, <1>3, <1>4, <1>5, <1>6, <1>7, <1>8, <1>9 DEF Next

(* While no acknowledgement was late, what is on its way in either         *)
(* direction is what the stage of the one thread in an exchange calls for. *)
THEOREM ConversationCorrect == Spec => []ConversationInv
BY ConversationInit, ConversationNext, PTL DEF Spec

(* What is on its way to the client is a few messages of one exchange.     *)
LEMMA RepliesBelong == ConversationInv => AnswersBelongInTime
<1> SUFFICES ASSUME ConversationInv, ~ late, NEW m \in InFlight(toClient)
             PROVE  holder # NoOne /\ m.exchange = user[holder].exchange
  BY DEF AnswersBelongInTime, AnswersBelong
<1>1. InFlight(<<>>) = {}
  BY DEF InFlight
<1>2. PICK t \in Threads : holder = t /\ Talks(user[t])
  BY <1>1, InTime DEF ConversationInv, TypeInv, TypeOK, Quiet
<1> DEFINE x == user[t].exchange
<1>3. /\ \A a : InFlight(<<a>>) = {a}
      /\ \A a, b : InFlight(<<a, b>>) = {a, b}
      /\ \A a, b, c : InFlight(<<a, b, c>>) = {a, b, c}
  BY DEF InFlight
<1>4. /\ \A kind : Text(kind, x).exchange = x
      /\ \A i : Accepted(x, i).exchange = x /\ ChunkHeader(x, i).exchange = x
      /\ \A d : Offer(x, d).exchange = x
      /\ \A d : \A s \in Sending(x, d) : s.exchange = x
  BY DEF Text, Part, Accepted, ChunkHeader, Offer, Payload, Sending
<1>5. m.exchange = x
  <2>1. \A kinds : Answered(x, kinds) => m.exchange = x
    BY <1>3, <1>4 DEF Answered
  <2> QED
    BY <1>1, <1>2, <1>3, <1>4, <2>1
       DEF Talks, AtAnswer, AtBegun, AtSending, AtAsked, AtHeader, AtPayload, Silent
<1> QED
  BY <1>2, <1>5, FilesAssumption

(* What is on its way to the server was sent last, or acknowledges a       *)
(* download.                                                               *)
LEMMA SentCarries ==
    ASSUME NEW S, NEW q \in Seq(S), Sent(q), NEW m \in InFlight(toServer)
    PROVE  m \in InFlight(q) \/ m.kind = "DACK"
<1>1. CASE toServer = q
  BY <1>1
<1>2. CASE toServer = <<>>
  BY <1>2 DEF InFlight
<1>3. ASSUME NEW x, toServer = <<Text("DACK", x)>> \o q
      PROVE  m \in InFlight(q) \/ m.kind = "DACK"
  <2>1. PICK a : a = Text("DACK", x)
    OBVIOUS
  <2> DEFINE T == S \cup {a}
  <2>2. <<a>> \in Seq(T) /\ q \in Seq(T) /\ Len(<<a>>) = 1
    BY SeqMonotonic
  <2> HIDE DEF T
  <2>3. /\ toServer \in Seq(T) /\ Len(toServer) = 1 + Len(q) /\ Len(q) \in Nat
        /\ DOMAIN toServer = 1..Len(toServer) /\ DOMAIN q = 1..Len(q)
        /\ \A i \in 1..(1 + Len(q)) : toServer[i] = IF i <= 1 THEN <<a>>[i] ELSE q[i - 1]
    BY <1>3, <2>1, <2>2, ConcatProperties, LenProperties
  <2>4. PICK i \in 1..(1 + Len(q)) : m = toServer[i]
    BY <2>3 DEF InFlight
  <2>5. CASE i = 1
    BY <2>1, <2>3, <2>4, <2>5 DEF Text
  <2>6. CASE i # 1
    <3>1. i - 1 \in DOMAIN q /\ m = q[i - 1]
      BY <2>3, <2>4, <2>6
    <3> QED
      BY <3>1 DEF InFlight
  <2> QED
    BY <2>5, <2>6
<1> QED
  BY <1>1, <1>2, <1>3 DEF Sent

(* What is on its way to the server is of the upload, or an acknowledgement. *)
LEMMA UploadsUnbroken == ConversationInv => UploadUnbroken
<1> SUFFICES ASSUME ConversationInv, ~ late, NEW t \in Threads,
                    user[t].at \in {"begun", "sending"}, NEW m \in InFlight(toServer)
             PROVE  m.exchange = user[t].exchange \/ m.kind = "DACK"
  BY DEF UploadUnbroken
<1> DEFINE x == user[t].exchange
<1>1. Talks(user[t])
  BY InTime
<1>2. /\ \A a : InFlight(<<a>>) = {a}
      /\ \A a, b : InFlight(<<a, b>>) = {a, b}
      /\ InFlight(<<>>) = {}
  BY DEF InFlight
<1>3. \A a, b : /\ Sent(<<a>>) => m = a \/ m.kind = "DACK"
                /\ Sent(<<a, b>>) => m \in {a, b} \/ m.kind = "DACK"
  <2>1. ASSUME NEW a, NEW b
        PROVE  /\ Sent(<<a>>) => m = a \/ m.kind = "DACK"
               /\ Sent(<<a, b>>) => m \in {a, b} \/ m.kind = "DACK"
    <3>1. <<a>> \in Seq({a, b}) /\ <<a, b>> \in Seq({a, b})
      OBVIOUS
    <3>2. Sent(<<a>>) => m \in InFlight(<<a>>) \/ m.kind = "DACK"
      BY <3>1, SentCarries
    <3>3. Sent(<<a, b>>) => m \in InFlight(<<a, b>>) \/ m.kind = "DACK"
      BY <3>1, SentCarries
    <3> QED
      BY <1>2, <3>2, <3>3
  <2> QED
    BY <2>1
<1>4. /\ \A f : Named("UPLD", x, f).exchange = x
      /\ \A i, k : ChunkRequest(x, i, k).exchange = x
      /\ \A d : Payload(x, d).exchange = x
  BY DEF Named, ChunkRequest, Payload
<1>5. \A kinds : Answered(x, kinds) => toServer = <<>>
  BY DEF Answered, Heard
<1>6. CASE user[t].at = "begun"
  BY <1>1, <1>2, <1>3, <1>4, <1>6 DEF Talks, AtBegun, Heard, Silent
<1>7. CASE user[t].at = "sending"
  <2>1. AtSending(user[t])
    BY <1>1, <1>7 DEF Talks
  <2>2. PICK a, b : /\ a = ChunkRequest(x, x, user[t].k)
                    /\ b = Payload(x, Chunk(user[t].file, user[t].k))
    OBVIOUS
  <2>3. a.exchange = x /\ b.exchange = x
    BY <1>4, <2>2
  <2>4. Sent(<<a, b>>) \/ toServer = <<b>> \/ toServer = <<>>
    BY <1>5, <2>1, <2>2 DEF AtSending, Silent, Heard
  <2>5. CASE Sent(<<a, b>>)
    BY <1>3, <2>3, <2>5
  <2>6. CASE toServer = <<b>>
    BY <1>2, <2>3, <2>6
  <2>7. CASE toServer = <<>>
    BY <1>2, <2>7
  <2> QED
    BY <2>4, <2>5, <2>6, <2>7
<1> QED
  BY <1>6, <1>7

(* Until an acknowledgement is late, no thread reads the answer of another *)
(* thread's exchange, whatever the network and the server's time-outs do.  *)
THEOREM NobodyReadsAnothersAnswer == Spec => []AnswersBelongInTime
BY ConversationCorrect, RepliesBelong, PTL

(* Until then, nothing gets between the messages of an upload. *)
THEOREM UploadsStayUnbroken == Spec => []UploadUnbroken
BY ConversationCorrect, UploadsUnbroken, PTL

-----------------------------------------------------------------------------
(* Files and their names. *)

(* The steps that change files, or how late acknowledgements have been. *)
LEMMA FileSteps ==
    ASSUME [Next]_vars
    PROVE  \/ AckTimesOut
           \/ \E t \in Threads : ReceivePayload(t)
           \/ HandleDone
           \/ UNCHANGED <<stored, saved, ackTimeouts>>
<1>1. ASSUME NEW t \in Threads, ~ ReceivePayload(t),
             Request(t) \/ ClientReceives(t) \/ Misreads(t)
      PROVE  UNCHANGED <<stored, saved, ackTimeouts>>
  BY <1>1 DEF Request, Begins, ClientReceives, ReceiveAnswer, ReceiveTransferId,
     ReceiveChunkAnswer, ReceiveOffer, ReceiveHeader, ReceiveNothing, Misreads, onServer, bounds
<1>2. ASSUME NEW t \in Threads, NEW f \in Files, Upload(t, f) \/ Download(t, f)
      PROVE  UNCHANGED <<stored, saved, ackTimeouts>>
  BY <1>2 DEF Upload, Download, Begins, bounds
<1>3. CASE ServerReceives /\ ~ HandleDone
  BY <1>3 DEF ServerReceives, HandleText, HandleUpload, HandleChunk, HandlePayload,
     HandleDownload, HandleAck, onClient, timeouts
<1>4. CASE LogInAgain \/ PayloadTimesOut \/ Breaks
  BY <1>4 DEF LogInAgain, PayloadTimesOut, Breaks, onClient, timeouts
<1>5. CASE UNCHANGED vars
  BY <1>5 DEF vars, bounds
<1> QED
  BY <1>1, <1>2, <1>3, <1>4, <1>5 DEF Next

(* While acknowledgements are in time, an upload is stored under its own   *)
(* name.  At any time, it is one file.                                     *)
LEMMA StoresAFile ==
    ASSUME ConversationInv, HandleDone, stored' # stored
    PROVE  /\ UNCHANGED <<saved, ackTimeouts>>
           /\ \E f, g \in Files : /\ stored' = [stored EXCEPT ![f] = Content(g)]
                                  /\ ackTimeouts = 0 => f = g
<1> DEFINE name == transfers[Message.tid].name
<1>1. /\ server.at = "idle" /\ toServer # <<>> /\ Message.kind = "DONE"
      /\ UNCHANGED <<saved, ackTimeouts>>
  BY DEF HandleDone, Takes, TakesAt, onClient, timeouts
<1>2. /\ TypeInv /\ name \in Files /\ stored' = [stored EXCEPT ![name] = Message.md5]
      /\ Message.md5 \in Contents
  BY DoneFacts DEF ConversationInv
<1>3. CASE ackTimeouts = 0
  <2>1. ~ late
    BY <1>2, <1>3 DEF TypeInv
  <2>2. PICK t \in Threads : /\ Opened(Message.tid, user[t].file)
                             /\ Message.md5 = Content(user[t].file)
    BY <1>1, <2>1, CallKinds
  <2>3. Message.md5 = Content(name)
    BY <2>2 DEF Opened
  <2> QED
    BY <1>1, <1>2, <2>3
<1>4. CASE ackTimeouts # 0
  <2>1. PICK g \in Files : Message.md5 = Content(g)
    BY <1>2 DEF Contents
  <2> QED
    BY <1>1, <1>2, <1>4, <2>1
<1> QED
  BY <1>3, <1>4

(* So a download is saved as what the server has under its name, and at    *)
(* any time as one file.                                                   *)
LEMMA SavesAFile ==
    ASSUME ConversationInv, NEW t \in Threads, ReceivePayload(t), saved' # saved
    PROVE  /\ UNCHANGED <<stored, ackTimeouts>>
           /\ \E f, g \in Files : /\ saved' = [saved EXCEPT ![f] = Content(g)]
                                  /\ ackTimeouts = 0 => stored[f] = Content(g)
<1> DEFINE u == user[t]
           f == u.file
<1>1. TypeInv /\ u.at = "payload" /\ UNCHANGED <<stored, ackTimeouts>>
  BY DEF ConversationInv, ReceivePayload, Receives, onServer, bounds
<1>2. /\ f \in Files /\ u.offer \in Contents
      /\ saved' = [saved EXCEPT ![f] = u.offer]
  BY <1>1, PayloadFacts
<1>3. ackTimeouts = 0 => u.offer = stored[f]
  <2>1. ackTimeouts = 0 => ~ late
    BY <1>1 DEF TypeInv
  <2>2. ~ late => AtPayload(u)
    BY <1>1, InTime DEF Talks
  <2> QED
    BY <2>1, <2>2 DEF AtPayload, HasOffer
<1>4. PICK g \in Files : u.offer = Content(g)
  BY <1>2 DEF Contents
<1> QED
  BY <1>1, <1>2, <1>3, <1>4

(* At first the files that are stored are under their own names. *)
LEMMA NamesInit == Init => NamesInv
<1> SUFFICES ASSUME Init PROVE FilesKeepTheirNames
  BY ConversationInit DEF NamesInv
<1> QED
  BY DEF Init, FilesKeepTheirNames

(* Only the end of an upload or of a download puts a file under a name. *)
LEMMA NamesNext == NamesInv /\ [Next]_vars => NamesInv'
<1> SUFFICES ASSUME NamesInv, [Next]_vars, ackTimeouts' = 0, NEW h \in Files
             PROVE  {stored'[h], saved'[h]} \subseteq {<<>>, Content(h)}
  BY ConversationNext DEF NamesInv, FilesKeepTheirNames
<1>1. ConversationInv /\ TypeInv
  BY DEF NamesInv, ConversationInv
<1>2. ackTimeouts = 0 => /\ \A f \in Files : /\ stored[f] \in {<<>>, Content(f)}
                                              /\ saved[f] \in {<<>>, Content(f)}
                         /\ stored \in [Files -> Stored] /\ saved \in [Files -> Stored]
  BY <1>1 DEF NamesInv, FilesKeepTheirNames, TypeInv
<1>3. ~ AckTimesOut
  BY <1>1, TypeFacts DEF AckTimesOut
<1>4. CASE UNCHANGED <<stored, saved, ackTimeouts>>
  BY <1>2, <1>4
<1>5. CASE HandleDone
  <2>1. UNCHANGED <<saved, ackTimeouts>>
    BY <1>5 DEF HandleDone, onClient, timeouts
  <2>2. CASE stored' = stored
    BY <1>4, <2>1, <2>2
  <2>3. CASE stored' # stored
    <3>1. PICK f \in Files : stored' = [stored EXCEPT ![f] = Content(f)]
      BY <1>1, <1>5, <2>1, <2>3, StoresAFile
    <3> QED
      BY <1>2, <2>1, <3>1
  <2> QED
    BY <2>2, <2>3
<1>6. ASSUME NEW t \in Threads, ReceivePayload(t)
      PROVE  {stored'[h], saved'[h]} \subseteq {<<>>, Content(h)}
  <2>1. UNCHANGED <<stored, ackTimeouts>>
    BY <1>6 DEF ReceivePayload, onServer, bounds
  <2>2. CASE saved' = saved
    BY <1>4, <2>1, <2>2
  <2>3. CASE saved' # saved
    <3>1. PICK f, g \in Files : saved' = [saved EXCEPT ![f] = Content(g)] /\ stored[f] = Content(g)
      BY <1>1, <1>6, <2>1, <2>3, SavesAFile
    <3>2. Content(g) = Content(f)
      BY <1>2, <2>1, <3>1, ContentFacts
    <3> QED
      BY <1>2, <2>1, <3>1, <3>2
  <2> QED
    BY <2>2, <2>3
<1> QED
  BY <1>3, <1>4, <1>5, <1>6, FileSteps

(* Until an acknowledgement is late, what is stored or saved under a name  *)
(* is the file of that name.                                               *)
THEOREM NamesAreKept == Spec => []FilesKeepTheirNames
<1>1. NamesInv => FilesKeepTheirNames
  BY DEF NamesInv
<1> QED
  BY <1>1, NamesInit, NamesNext, PTL DEF Spec

(* A step of the session is an upload, a download or a late acknowledgement *)
(* of FileTransfer, or changes nothing there.                              *)
LEMMA StepTransfers ==
    ASSUME ConversationInv, [Next]_vars
    PROVE  [Transfers!Next]_(Transfers!vars)
<1>1. CASE AckTimesOut
  <2>1. /\ UNCHANGED <<stored, saved>>
        /\ (ackTimeouts' = 0) = FALSE
    BY <1>1, TypeFacts DEF AckTimesOut, onClient, ConversationInv
  <2> QED
    BY <2>1 DEF Transfers!Next, Transfers!FallBehind
<1>2. CASE HandleDone /\ stored' # stored
  BY <1>2, StoresAFile DEF Transfers!Next, Transfers!Upload
<1>3. ASSUME NEW t \in Threads, ReceivePayload(t), saved' # saved
      PROVE  Transfers!Next
  BY <1>3, SavesAFile DEF Transfers!Next, Transfers!Download
<1>4. CASE UNCHANGED <<stored, saved, ackTimeouts>>
  BY <1>4 DEF Transfers!vars
<1>5. /\ HandleDone => UNCHANGED <<saved, ackTimeouts>>
      /\ \A t \in Threads : ReceivePayload(t) => UNCHANGED <<stored, ackTimeouts>>
  BY DEF HandleDone, ReceivePayload, onClient, timeouts, onServer, bounds
<1> QED
  BY <1>1, <1>2, <1>3, <1>4, <1>5, FileSteps

(* However exchanges, time-outs and failures interleave, each upload and   *)
(* each download does what FileTransfer says, or nothing.                  *)
THEOREM SessionImplementsFileTransfer == Spec => ImplementsFileTransfer
<1>1. Init => Transfers!Init
  <2> SUFFICES ASSUME Init PROVE Transfers!Init
    OBVIOUS
  <2>1. \A f \in Files : stored[f] \in {Content(f), <<>>}
    BY DEF Init
  <2>2. saved = [f \in Files |-> <<>>] /\ (ackTimeouts = 0) = TRUE
    BY DEF Init
  <2> QED
    BY <2>1, <2>2 DEF Transfers!Init
<1>2. ConversationInv /\ [Next]_vars => [Transfers!Next]_(Transfers!vars)
  BY StepTransfers
<1> QED
  BY <1>1, <1>2, ConversationCorrect, PTL DEF Spec, ImplementsFileTransfer, Transfers!Spec

=============================================================================
