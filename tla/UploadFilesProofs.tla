------------------------- MODULE UploadFilesProofs --------------------------
(***************************************************************************)
(* Proofs about the files of UploadServer: an upload that was answered is  *)
(* on the disk whole, until its name is purged or uploaded again, or a     *)
(* move has to copy the file of that name.                                 *)
(***************************************************************************)
EXTENDS UploadServerProofs

-----------------------------------------------------------------------------
(* The inductive invariant. *)

(* Another of the uploads J has the name of upload t. *)
Shared(t, J) == \E u \in DOMAIN J \ {t} : J[u].name = J[t].name

(* The files that uploads/ and .trash/ have under the name n. *)
Under(n) == {uploads[n], trash[n]} \ {NoOne}

(* The stages from the write of the file to the answer. *)
WrittenStages == {"stored", "mining", "mined", "saving", "saved"}

Written(t) ==
    t \in acked \/ \E c \in Conns : thread[c].at \in WrittenStages /\ thread[c].tid = t

(* Transfers and records have name and content of the upload they are of. *)
Named ==
    /\ \A t \in DOMAIN transfers : transfers[t].name = jobs[t].name
    /\ \A c \in Conns : thread[c].at = "opened" =>
          /\ thread[c].tx.name = jobs[thread[c].tid].name
          /\ thread[c].tx.hash = Bytes(jobs[thread[c].tid].data)

(* No file has two names. *)
Single(dir)     == \A m, n \in Names : m # n /\ dir[m] # NoOne => dir[m] # dir[n]
Apart(one, two) == \A m, n \in Names : one[m] # NoOne => one[m] # two[n]

AllDistinct(u, t, s) ==
    /\ Single(u) /\ Single(t) /\ Single(s)
    /\ Apart(u, t) /\ Apart(u, s) /\ Apart(t, s)

Distinct == AllDistinct(uploads, trash, starred)

(* A thread that writes the file of a name into uploads/ or .trash/, and   *)
(* one that writes into .starred/.                                         *)
Starring(x) == x.at = "copying" /\ x.act = "star"
Writing(x)  == x.at \in {"opened", "copying"} /\ ~ Starring(x)
Into(x)     == IF x.at = "opened" THEN x.tx.name ELSE x.target

(* The file that a thread writes is under no other name than the one it is *)
(* written for, and in .starred/ only if it is written for that.           *)
OpenUnderName ==
    /\ \A c \in Conns, n \in Names :
         /\ Writing(thread[c]) /\ thread[c].fd \in Under(n) => n = Into(thread[c])
         /\ Writing(thread[c]) => starred[n] # thread[c].fd
         /\ Starring(thread[c]) => thread[c].fd \notin Under(n)
    /\ \A c, d \in Conns : Writing(thread[c]) /\ thread[c].fd = thread[d].fd =>
         /\ Writing(thread[d]) => Into(thread[d]) = Into(thread[c])
         /\ ~ Starring(thread[d])

(* A move that copies has opened its target. *)
CopyStages == {"copying", "stamping", "unlinking"}

CopiesMarked ==
    \A c \in Conns : thread[c].at \in CopyStages =>
        thread[c].act = "star" \/ thread[c].target \in copied

(* An upload is not answered before its thread is done. *)
NotYetAnswered == \A c \in Conns : thread[c].at \in Busy => thread[c].tid \notin acked

(* No client is sending upload t, and none will. *)
Sent(t) == \A c \in Conns : thread[c].at = "sending" => thread[c].tid # t

(* A file came from an upload that is sent. *)
FilesHaveUploads ==
    \A n \in Names : n \notin copied /\ Under(n) # {} =>
        \E t \in DOMAIN jobs : jobs[t].name = n /\ Sent(t)

(* A name in uploads/ and in .trash/ was uploaded twice. *)
BothMeansTwo ==
    \A n \in Names : n \notin copied /\ uploads[n] # NoOne /\ trash[n] # NoOne =>
        \A t \in DOMAIN jobs : jobs[t].name = n => Shared(t, jobs)

(* Nothing is promised of upload t. *)
Excused(t) == jobs[t].name \in purged \cup copied \/ Shared(t, jobs)

(* Upload t is whole on the disk. *)
Safe(t) ==
    Excused(t) \/ \E i \in Under(jobs[t].name) : content[i] = Bytes(jobs[t].data)

WrittenAreSafe == \A t \in DOMAIN jobs : Written(t) => Safe(t)

(* A file that is open and not yet written is empty. *)
EmptyFor(t, i) ==
    \/ Excused(t)
    \/ i \in Under(jobs[t].name) /\ content[i] = <<>>

OpenedAreEmpty ==
    \A c \in Conns : thread[c].at = "opened" => EmptyFor(thread[c].tid, thread[c].fd)

FilesInv ==
    /\ TypeInv
    /\ Named
    /\ Distinct
    /\ OpenUnderName
    /\ CopiesMarked
    /\ NotYetAnswered
    /\ FilesHaveUploads
    /\ BothMeansTwo
    /\ WrittenAreSafe
    /\ OpenedAreEmpty

-----------------------------------------------------------------------------
(* Names and files. *)

(* What an upload is of. *)
LEMMA JobTypes ==
    ASSUME TypeInv, NEW t \in DOMAIN jobs
    PROVE  /\ jobs[t] \in Job /\ jobs[t].name \in Names
           /\ jobs[t].data \in Seq(Chunks \cup {NoBytes})
<1>1. jobs \in Seq(Job)
  BY DEF TypeInv, TypeOK, Job
<1>2. jobs[t] \in Job
  BY <1>1, ElementOfSeq, LenProperties
<1> QED
  BY <1>2, DataAssumption DEF Job

(* What is shared stays so when more uploads are begun. *)
LEMMA StaysShared ==
    ASSUME NEW J, NEW K, NEW t \in DOMAIN J, Shared(t, J),
           \A k \in DOMAIN J : k \in DOMAIN K /\ K[k] = J[k]
    PROVE  Shared(t, K)
BY DEF Shared

(* A rename leaves each file under one name. *)
LEMMA RenameDistinct ==
    ASSUME NEW u \in Directory, NEW t \in Directory, NEW s \in Directory,
           NEW n \in Names, AllDistinct(u, t, s)
    PROVE  /\ AllDistinct([u EXCEPT ![n] = NoOne], [t EXCEPT ![n] = u[n]], s)
           /\ AllDistinct(t, u, s)
<1> DEFINE v == [u EXCEPT ![n] = NoOne]
           w == [t EXCEPT ![n] = u[n]]
<1>1. /\ \A m \in Names : v[m] = IF m = n THEN NoOne ELSE u[m]
      /\ \A m \in Names : w[m] = IF m = n THEN u[n] ELSE t[m]
  BY DEF Directory
<1> HIDE DEF v, w
<1>2. Single(v) /\ Single(w) /\ Apart(v, w) /\ Apart(v, s) /\ Apart(w, s)
  BY <1>1 DEF AllDistinct, Single, Apart
<1>3. AllDistinct(t, u, s)
  BY DEF AllDistinct, Apart
<1> QED
  BY <1>2, <1>3 DEF AllDistinct, v, w

(* A name that is taken away leaves the rest distinct. *)
LEMMA RemoveDistinct ==
    ASSUME NEW u \in Directory, NEW t \in Directory, NEW s \in Directory,
           NEW n \in Names, AllDistinct(u, t, s)
    PROVE  /\ AllDistinct(u, [t EXCEPT ![n] = NoOne], s)
           /\ AllDistinct(u, t, [s EXCEPT ![n] = NoOne])
<1> DEFINE v == [s EXCEPT ![n] = NoOne]
           w == [t EXCEPT ![n] = NoOne]
<1>1. /\ \A m \in Names : v[m] = IF m = n THEN NoOne ELSE s[m]
      /\ \A m \in Names : w[m] = IF m = n THEN NoOne ELSE t[m]
  BY DEF Directory
<1> HIDE DEF v, w
<1>2. Single(v) /\ Single(w) /\ Apart(u, w) /\ Apart(u, v) /\ Apart(w, s) /\ Apart(t, v)
  BY <1>1 DEF AllDistinct, Single, Apart
<1> QED
  BY <1>2 DEF AllDistinct, v, w

(* A new file gets one name. *)
LEMMA CreateDistinct ==
    ASSUME NEW u \in Directory, NEW t \in Directory, NEW s \in Directory,
           NEW n \in Names, NEW i \in Inodes, AllDistinct(u, t, s),
           \A m \in Names : u[m] # i /\ t[m] # i /\ s[m] # i
    PROVE  /\ AllDistinct([u EXCEPT ![n] = i], t, s)
           /\ AllDistinct(u, t, [s EXCEPT ![n] = i])
<1> DEFINE v == [s EXCEPT ![n] = i]
           w == [u EXCEPT ![n] = i]
<1>1. /\ \A m \in Names : v[m] = IF m = n THEN i ELSE s[m]
      /\ \A m \in Names : w[m] = IF m = n THEN i ELSE u[m]
  BY DEF Directory
<1> HIDE DEF v, w
<1>2. Single(v) /\ Single(w) /\ Apart(w, t) /\ Apart(w, s) /\ Apart(u, v) /\ Apart(t, v)
  BY <1>1 DEF AllDistinct, Single, Apart
<1> QED
  BY <1>2 DEF AllDistinct, v, w

(* No name and no thread has the file that NewFile gives. *)
LEMMA NewIsUnused ==
    ASSUME NEW i, NewFile(i)
    PROVE  /\ i \in Inodes
           /\ \A n \in Names : uploads[n] # i /\ trash[n] # i /\ starred[n] # i
           /\ \A c \in Conns : thread[c].fd # i /\ thread[c].src # i
<1>1. i \in Inodes /\ i \notin InUse
  BY DEF NewFile
<1>2. \A n \in Names : uploads[n] \in InUse /\ trash[n] \in InUse /\ starred[n] \in InUse
  BY DEF InUse
<1>3. \A c \in Conns : thread[c].fd \in InUse /\ thread[c].src \in InUse
  BY DEF InUse
<1> QED
  BY <1>1, <1>2, <1>3

(* A name keeps the file that is opened, or gets a new one. *)
LEMMA OpenDistinct ==
    ASSUME NEW u \in Directory, NEW n \in Names, NEW i, u[n] = i
    PROVE  [u EXCEPT ![n] = i] = u
BY DEF Directory

(* What upload t is excused for, it stays excused for. *)
LEMMA ExcusedStays ==
    ASSUME NEW t \in DOMAIN jobs, Excused(t), purged \subseteq purged', copied \subseteq copied',
           \A k \in DOMAIN jobs : k \in DOMAIN jobs' /\ jobs'[k] = jobs[k]
    PROVE  Excused(t)'
<1>1. Shared(t, jobs) => Shared(t, jobs')
  BY StaysShared
<1> QED
  BY <1>1 DEF Excused

(* The content of what lies under a name stays. *)
SameFiles(n) ==
    Under(n)' = Under(n) /\ \A i \in Under(n) : content'[i] = content[i]

(* What is whole or empty stays so, if the step leaves it alone. *)
LEMMA AllStay ==
    ASSUME FilesInv, purged \subseteq purged', copied \subseteq copied',
           \A k \in DOMAIN jobs : k \in DOMAIN jobs' /\ jobs'[k] = jobs[k],
           NEW T,
           \A t \in DOMAIN jobs : t \notin T => Excused(t)' \/ SameFiles(jobs[t].name),
           \A t \in DOMAIN jobs' : t \notin T /\ Written(t)' => t \in DOMAIN jobs /\ Written(t),
           \A t \in T : t \in DOMAIN jobs' /\ Written(t)' => Safe(t)',
           \A d \in Conns : thread'[d].at = "opened" =>
              \/ EmptyFor(thread[d].tid, thread[d].fd)'
              \/ /\ thread'[d] = thread[d]
                 /\ thread[d].tid \in DOMAIN jobs \ T
    PROVE  WrittenAreSafe' /\ OpenedAreEmpty'
<1>1. ASSUME NEW t \in DOMAIN jobs, t \notin T, ~ Excused(t)'
      PROVE  /\ ~ Excused(t)
             /\ jobs'[t] = jobs[t]
             /\ Under(jobs[t].name)' = Under(jobs[t].name)
             /\ \A i \in Under(jobs[t].name) : content'[i] = content[i]
  <2>1. PICK n : n = jobs[t].name
    OBVIOUS
  <2>2. SameFiles(n)
    BY <1>1, <2>1
  <2>3. Under(n)' = Under(n) /\ jobs'[t].name = n
    BY <2>1, <2>2 DEF SameFiles
  <2>4. Under(jobs[t].name)' = Under(n)
    BY <2>3 DEF Under
  <2> QED
    BY <1>1, <2>1, <2>2, <2>4, ExcusedStays DEF SameFiles
<1>2. ASSUME NEW t \in DOMAIN jobs', Written(t)' PROVE Safe(t)'
  <2>1. CASE t \in T
    BY <1>2, <2>1
  <2>2. CASE t \notin T
    <3>1. t \in DOMAIN jobs /\ Safe(t)
      BY <1>2, <2>2 DEF FilesInv, WrittenAreSafe
    <3>2. CASE Excused(t)'
      BY <3>2 DEF Safe
    <3>3. CASE ~ Excused(t)'
      BY <1>1, <2>2, <3>1, <3>3 DEF Safe
    <3> QED
      BY <3>2, <3>3
  <2> QED
    BY <2>1, <2>2
<1>3. ASSUME NEW d \in Conns, thread'[d].at = "opened"
      PROVE  EmptyFor(thread[d].tid, thread[d].fd)'
  <2>1. CASE EmptyFor(thread[d].tid, thread[d].fd)'
    BY <2>1
  <2>2. CASE thread'[d] = thread[d] /\ thread[d].tid \in DOMAIN jobs \ T
    <3>1. PICK t, i : t = thread[d].tid /\ i = thread[d].fd /\ t \in DOMAIN jobs \ T
      BY <2>2
    <3>2. EmptyFor(t, i)
      BY <1>3, <2>2, <3>1 DEF FilesInv, OpenedAreEmpty
    <3>3. EmptyFor(t, i)'
      <4>1. CASE Excused(t)'
        BY <4>1 DEF EmptyFor
      <4>2. CASE ~ Excused(t)'
        BY <1>1, <3>1, <3>2, <4>2 DEF EmptyFor
      <4> QED
        BY <4>1, <4>2
    <3> QED
      BY <2>2, <3>1, <3>3 DEF EmptyFor
  <2> QED
    BY <1>3, <2>1, <2>2
<1> QED
  BY <1>2, <1>3 DEF WrittenAreSafe, OpenedAreEmpty

(* Threads go on writing what they write. *)
LEMMA WritersStay ==
    ASSUME FilesInv,
           \A d \in Conns : thread'[d].at \in {"opened", "copying"} => thread'[d] = thread[d],
           \A m \in Names : Under(m)' \subseteq Under(m),
           \A d \in Conns, m \in Names : Writing(thread[d]) => starred'[m] # thread[d].fd
    PROVE  OpenUnderName'
<1>1. \A d \in Conns : \/ Writing(thread'[d]) \/ Starring(thread'[d])
                           => thread'[d] = thread[d]
  BY DEF Writing, Starring
<1>2. /\ \A d \in Conns : Writing(thread[d])' => thread'[d] = thread[d] /\ Writing(thread[d])
      /\ \A d \in Conns : Starring(thread[d])' => thread'[d] = thread[d] /\ Starring(thread[d])
      /\ \A d \in Conns : Writing(thread[d])' => Into(thread[d])' = Into(thread[d])
  BY <1>1 DEF Writing, Starring, Into
<1>3. ASSUME NEW d \in Conns, NEW n \in Names
      PROVE  /\ Writing(thread[d])' /\ thread'[d].fd \in Under(n)' => n = Into(thread[d])'
             /\ Writing(thread[d])' => starred'[n] # thread'[d].fd
             /\ Starring(thread[d])' => thread'[d].fd \notin Under(n)'
  BY <1>2 DEF FilesInv, OpenUnderName
<1>4. ASSUME NEW d \in Conns, NEW e \in Conns, Writing(thread[d])',
             thread'[d].fd = thread'[e].fd
      PROVE  /\ Writing(thread[e])' => Into(thread[e])' = Into(thread[d])'
             /\ ~ Starring(thread[e])'
  BY <1>2, <1>4 DEF FilesInv, OpenUnderName
<1> QED
  BY <1>3, <1>4 DEF OpenUnderName

-----------------------------------------------------------------------------
(* Steps. *)

(* At first there are no files. *)
LEMMA FilesInit == Init => FilesInv
<1> SUFFICES ASSUME Init PROVE FilesInv
  OBVIOUS
<1>1. /\ \A n \in Names : uploads[n] = NoOne /\ trash[n] = NoOne /\ starred[n] = NoOne
      /\ DOMAIN transfers = {} /\ acked = {} /\ DOMAIN jobs = {}
      /\ \A c \in Conns : thread[c].at = "closed"
  <2>1. \A c \in Conns : thread[c].at = "closed"
    BY QuietThreads DEF Init
  <2>2. DOMAIN jobs = {}
    BY DEF Init
  <2> QED
    BY <2>1, <2>2 DEF Init
<1>2. \A n \in Names : Under(n) = {}
  BY <1>1 DEF Under
<1>3. /\ Named /\ OpenUnderName /\ CopiesMarked
      /\ NotYetAnswered /\ OpenedAreEmpty
  BY <1>1 DEF Named, OpenUnderName, Writing, Starring, CopiesMarked, CopyStages,
              NotYetAnswered, OpenedAreEmpty, Busy
<1>4. Distinct
  BY <1>1 DEF Distinct, AllDistinct, Single, Apart
<1>5. FilesHaveUploads /\ BothMeansTwo /\ WrittenAreSafe
  BY <1>1, <1>2 DEF FilesHaveUploads, BothMeansTwo, WrittenAreSafe
<1> QED
  BY <1>3, <1>4, <1>5, TypeInit DEF FilesInv

(* The thread of one connection moves on and leaves the files alone; it     *)
(* goes to no stage of an upload that its own stage does not lead to.       *)
LEMMA FilesAside ==
    ASSUME FilesInv, TypeInv', NEW c \in Conns, NEW y,
           thread' = [thread EXCEPT ![c] = y],
           UNCHANGED <<disk, marks>>,
           \A k \in DOMAIN jobs : k \in DOMAIN jobs' /\ jobs'[k] = jobs[k],
           \A t \in DOMAIN transfers' : transfers'[t].name = jobs'[t].name,
           y.at \notin CopyStages \cup {"opened"},
           y.at \in WrittenStages => thread[c].at \in WrittenStages /\ y.tid = thread[c].tid,
           y.at = "sending" => \/ thread[c].at = "sending" /\ y.tid = thread[c].tid
                               \/ y.tid \notin DOMAIN jobs,
           \/ UNCHANGED acked
           \/ /\ thread[c].at \in WrittenStages
              /\ y.at \notin Busy
              /\ acked' = acked \cup {thread[c].tid}
    PROVE  FilesInv'
<1> DEFINE x == thread[c]
<1>1. /\ thread'[c] = y
      /\ \A d \in Conns : d # c => thread'[d] = thread[d]
  BY DEF FilesInv, TypeInv, TypeOK
<1>2. /\ \A d \in Conns : thread[d].at \in Busy => thread[d].tid \in DOMAIN jobs
      /\ acked \subseteq DOMAIN jobs
  BY DEF FilesInv, TypeInv, TypeOK, Equipped, Fit
<1>3. /\ WrittenStages \subseteq Busy /\ "opened" \in Busy
      /\ "sending" \in Busy \ WrittenStages
      /\ \A s \in Busy : s \in WrittenStages \cup {"sending", "opened"}
  BY DEF WrittenStages, Busy
<1>4. \A d \in Conns : thread'[d].at \in CopyStages \cup {"opened"} => thread'[d] = thread[d]
  BY <1>1
<1>5. UNCHANGED <<uploads, trash, starred, content, purged, copied>>
  BY DEF disk, marks
<1>6. \A n \in Names : UNCHANGED Under(n)
  BY <1>5 DEF Under
<1>7. Named'
  BY <1>2, <1>3, <1>4 DEF FilesInv, Named
<1>8. Distinct'
  BY <1>5 DEF FilesInv, Distinct
<1>9. OpenUnderName'
  <2>1. \A d \in Conns : thread'[d].at \in {"opened", "copying"} => thread'[d] = thread[d]
    BY <1>4 DEF CopyStages
  <2>2. \A d \in Conns, m \in Names : Writing(thread[d]) => starred'[m] # thread[d].fd
    BY <1>5 DEF FilesInv, OpenUnderName
  <2> QED
    BY <1>6, <2>1, <2>2, WritersStay
<1>10. CopiesMarked'
  BY <1>4, <1>5 DEF FilesInv, CopiesMarked
<1>11. NotYetAnswered'
  <2>1. ASSUME NEW d \in Conns, thread'[d].at \in Busy PROVE thread'[d].tid \notin acked'
    <3>1. CASE d = c
      <4>1. UNCHANGED acked /\ y.at \in Busy
        BY <1>1, <2>1, <3>1
      <4>2. y.tid \notin acked
        BY <1>2, <1>3, <4>1 DEF FilesInv, NotYetAnswered
      <4> QED
        BY <1>1, <3>1, <4>1, <4>2
    <3>2. CASE d # c
      <4>1. thread[d].at \in Busy /\ thread[d].tid \notin acked
        BY <1>1, <2>1, <3>2 DEF FilesInv, NotYetAnswered
      <4>2. x.at \in WrittenStages => x.tid # thread[d].tid
        BY <1>3, <3>2, <4>1 DEF FilesInv, TypeInv, OwnTransfers
      <4> QED
        BY <1>1, <3>2, <4>1, <4>2
    <3> QED
      BY <3>1, <3>2
  <2> QED
    BY <2>1 DEF NotYetAnswered
<1>12. \A t \in DOMAIN jobs : Sent(t) => Sent(t)'
  BY <1>1 DEF Sent
<1>13. FilesHaveUploads'
  BY <1>5, <1>6, <1>12 DEF FilesInv, FilesHaveUploads
<1>14. BothMeansTwo'
  <2> SUFFICES ASSUME NEW n \in Names, n \notin copied, uploads[n] # NoOne, trash[n] # NoOne,
                      NEW t \in DOMAIN jobs', jobs'[t].name = n
               PROVE  Shared(t, jobs')
    BY <1>5 DEF BothMeansTwo
  <2>1. CASE t \in DOMAIN jobs
    BY <2>1, StaysShared DEF FilesInv, BothMeansTwo
  <2>2. CASE t \notin DOMAIN jobs
    <3>1. Under(n) # {}
      BY DEF Under
    <3>2. PICK u \in DOMAIN jobs : jobs[u].name = n
      BY <3>1 DEF FilesInv, FilesHaveUploads
    <3> QED
      BY <2>2, <3>2 DEF Shared
  <2> QED
    BY <2>1, <2>2
<1>15. \A t : Written(t)' => t \in DOMAIN jobs /\ Written(t)
  <2> SUFFICES ASSUME NEW t, Written(t)' PROVE t \in DOMAIN jobs /\ Written(t)
    OBVIOUS
  <2>1. CASE t \in acked'
    BY <1>2, <1>3, <2>1 DEF Written
  <2>2. CASE \E d \in Conns : thread'[d].at \in WrittenStages /\ thread'[d].tid = t
    BY <1>1, <1>2, <1>3, <2>2 DEF Written
  <2> QED
    BY <2>1, <2>2 DEF Written
<1>16. WrittenAreSafe' /\ OpenedAreEmpty'
  <2>1. \A t \in DOMAIN jobs : SameFiles(jobs[t].name)
    <3>1. \A t \in DOMAIN jobs : jobs[t].name \in Names
      BY JobTypes DEF FilesInv
    <3> QED
      BY <1>5, <1>6, <3>1 DEF SameFiles
  <2>2. \A d \in Conns : thread'[d].at = "opened" =>
           thread'[d] = thread[d] /\ thread[d].tid \in DOMAIN jobs \ {}
    BY <1>2, <1>3, <1>4
  <2> QED
    BY <1>5, <1>15, <2>1, <2>2, AllStay
<1> QED
  BY <1>7, <1>8, <1>9, <1>10, <1>11, <1>13, <1>14, <1>16 DEF FilesInv

(* What lies under the name n stays, unless the name is purged, or one of  *)
(* its two files replaces the other.                                       *)
Keeps(n) ==
    /\ Under(n)' \subseteq Under(n)
    /\ \/ n \in purged'
       \/ uploads[n] # NoOne /\ trash[n] # NoOne
       \/ Under(n)' = Under(n)
    /\ uploads'[n] # NoOne /\ trash'[n] # NoOne => uploads[n] # NoOne /\ trash[n] # NoOne
    /\ \A i \in Under(n) : content'[i] = content[i]

(* A request about a file keeps the names that no move had to copy. *)
LEMMA FilesMove ==
    ASSUME FilesInv, TypeInv', NEW c \in Conns, NEW y,
           thread' = [thread EXCEPT ![c] = y],
           thread[c].at \in AtFile, y.at \notin Busy,
           UNCHANGED <<transfers, jobs, acked>>,
           Distinct', OpenUnderName', CopiesMarked',
           purged \subseteq purged', copied \subseteq copied',
           \A m \in Names : m \in copied' \/ Keeps(m)
    PROVE  FilesInv'
<1>1. /\ thread'[c] = y
      /\ \A d \in Conns : d # c => thread'[d] = thread[d]
      /\ thread[c].at \notin Busy
  BY StageNames DEF FilesInv, TypeInv, TypeOK, AtFile, Busy
<1>2. \A d \in Conns : /\ thread[d].at \in Busy => thread[d].tid \in DOMAIN jobs
                       /\ thread'[d].at \in Busy => thread'[d] = thread[d]
  BY <1>1 DEF FilesInv, TypeInv, Equipped, Fit
<1>3. /\ WrittenStages \subseteq Busy /\ "opened" \in Busy /\ "sending" \in Busy
      /\ acked \subseteq DOMAIN jobs
  BY DEF WrittenStages, Busy, FilesInv, TypeInv, TypeOK
<1>4. Named'
  BY <1>2, <1>3 DEF FilesInv, Named
<1>5. NotYetAnswered'
  BY <1>2 DEF FilesInv, NotYetAnswered
<1>6. \A t : Sent(t) => Sent(t)'
  BY <1>2, <1>3 DEF Sent
<1>7. FilesHaveUploads'
  BY <1>6 DEF FilesInv, FilesHaveUploads, Keeps
<1>8. BothMeansTwo'
  BY DEF FilesInv, BothMeansTwo, Keeps
<1>9. \A t \in DOMAIN jobs : Excused(t)' \/ SameFiles(jobs[t].name)
  <2> SUFFICES ASSUME NEW t \in DOMAIN jobs, ~ Excused(t)'
               PROVE  SameFiles(jobs[t].name)
    OBVIOUS
  <2>1. PICK n \in Names : n = jobs[t].name
    BY JobTypes DEF FilesInv
  <2>2. n \notin copied' /\ n \notin purged' /\ ~ Shared(t, jobs)
    BY <2>1 DEF Excused
  <2>3. Keeps(n) /\ ~ (uploads[n] # NoOne /\ trash[n] # NoOne)
    BY <2>1, <2>2 DEF FilesInv, BothMeansTwo
  <2> QED
    BY <2>1, <2>2, <2>3 DEF Keeps, SameFiles
<1>10. \A t : Written(t)' => t \in DOMAIN jobs /\ Written(t)
  BY <1>2, <1>3 DEF Written
<1>11. \A d \in Conns : thread'[d].at = "opened" =>
          thread'[d] = thread[d] /\ thread[d].tid \in DOMAIN jobs \ {}
  BY <1>2, <1>3
<1>12. WrittenAreSafe' /\ OpenedAreEmpty'
  BY <1>9, <1>10, <1>11, AllStay
<1> QED
  BY <1>4, <1>5, <1>7, <1>8, <1>12 DEF FilesInv

(* A rename of the file that a name has, if it has one. *)
Renamed(n, from, to, f, t) ==
    \/ from[n] = NoOne /\ f = from /\ t = to
    \/ from[n] # NoOne /\ f = [from EXCEPT ![n] = NoOne] /\ t = [to EXCEPT ![n] = from[n]]

(* No name has a file that it did not have, and one that had only one file *)
(* still has it.                                                           *)
Narrows(from, to, f, t) ==
    \A m \in Names :
        /\ {f[m], t[m]} \ {NoOne} \subseteq {from[m], to[m]} \ {NoOne}
        /\ \/ from[m] # NoOne /\ to[m] # NoOne
           \/ {f[m], t[m]} \ {NoOne} = {from[m], to[m]} \ {NoOne}
        /\ f[m] # NoOne /\ t[m] # NoOne => from[m] # NoOne /\ to[m] # NoOne

(* A rename from one directory to another gives no file a second name. *)
LEMMA RenameFacts ==
    ASSUME NEW from \in Directory, NEW to \in Directory, NEW n \in Names,
           NEW f, NEW t, Renamed(n, from, to, f, t), NEW s,
           s \in Directory, AllDistinct(from, to, s)
    PROVE  /\ AllDistinct(f, t, s)
           /\ Narrows(from, to, f, t)
<1>1. CASE from[n] = NoOne
  <2>1. f = from /\ t = to
    BY <1>1 DEF Renamed
  <2> QED
    BY <2>1 DEF Narrows
<1>2. CASE from[n] # NoOne
  <2>1. f = [from EXCEPT ![n] = NoOne] /\ t = [to EXCEPT ![n] = from[n]]
    BY <1>2 DEF Renamed
  <2>2. AllDistinct(f, t, s)
    BY <2>1, RenameDistinct
  <2>3. \A m \in Names : /\ f[m] = IF m = n THEN NoOne ELSE from[m]
                         /\ t[m] = IF m = n THEN from[n] ELSE to[m]
    BY <2>1 DEF Directory
  <2> QED
    BY <1>2, <2>2, <2>3 DEF Narrows
<1> QED
  BY <1>1, <1>2

(* A file that is opened to be written for name n, in uploads/ or .trash/, *)
(* is the one it has there or a new one.                                   *)
LEMMA OpenFacts ==
    ASSUME FilesInv, NEW n \in Names, NEW i \in Inodes,
           \/ OpensForWriting(uploads, n, i) /\ UNCHANGED trash
           \/ OpensForWriting(trash, n, i) /\ UNCHANGED uploads,
           UNCHANGED starred
    PROVE  /\ \A m \in Names : starred[m] # i /\ (m # n => i \notin Under(m))
           /\ \A d \in Conns : /\ Writing(thread[d]) /\ thread[d].fd = i => Into(thread[d]) = n
                               /\ Starring(thread[d]) => thread[d].fd # i
           /\ \A m \in Names : m # n => Under(m)' = Under(m) /\ UNCHANGED <<uploads[m], trash[m]>>
           /\ Under(n)' \subseteq Under(n) \cup {i}
           /\ \A j \in Inodes : content'[j] = IF j = i THEN <<>> ELSE content[j]
           /\ Distinct'
<1>1. /\ uploads \in Directory /\ trash \in Directory /\ starred \in Directory
      /\ content \in [Inodes -> Seq(Chunks)] /\ i # NoOne
      /\ AllDistinct(uploads, trash, starred)
  BY NamesAssumption DEF FilesInv, Distinct, TypeInv, TypeOK
<1>2. \A j \in Inodes : content'[j] = IF j = i THEN <<>> ELSE content[j]
  BY <1>1 DEF OpensForWriting
<1>3. CASE OpensForWriting(uploads, n, i) /\ UNCHANGED trash
  <2>1. /\ IF uploads[n] = NoOne THEN NewFile(i) ELSE i = uploads[n]
        /\ uploads' = [uploads EXCEPT ![n] = i]
        /\ \A m \in Names : uploads'[m] = IF m = n THEN i ELSE uploads[m]
    BY <1>1, <1>3 DEF OpensForWriting, Directory
  <2>2. CASE uploads[n] = NoOne
    <3>1. /\ \A m \in Names : uploads[m] # i /\ trash[m] # i /\ starred[m] # i
          /\ \A d \in Conns : thread[d].fd # i
      BY <2>1, <2>2, NewIsUnused
    <3>2. Distinct'
      BY <1>1, <1>3, <2>1, <3>1, CreateDistinct DEF Distinct
    <3> QED
      BY <1>2, <1>3, <2>1, <3>1, <3>2 DEF Under
  <2>3. CASE uploads[n] # NoOne
    <3>1. i = uploads[n] /\ uploads' = uploads
      BY <1>1, <2>1, <2>3, OpenDistinct
    <3>2. \A m \in Names : trash[m] # i /\ starred[m] # i /\ (m # n => uploads[m] # i)
      BY <1>1, <2>3, <3>1 DEF AllDistinct, Single, Apart
    <3>3. i \in Under(n)
      BY <2>3, <3>1 DEF Under
    <3>4. Distinct' /\ \A m \in Names : Under(m)' = Under(m)
      BY <1>1, <1>3, <3>1 DEF Distinct, Under
    <3> QED
      BY <1>2, <1>3, <3>1, <3>2, <3>3, <3>4 DEF FilesInv, OpenUnderName, Under
  <2> QED
    BY <2>2, <2>3
<1>4. CASE OpensForWriting(trash, n, i) /\ UNCHANGED uploads
  <2>1. /\ IF trash[n] = NoOne THEN NewFile(i) ELSE i = trash[n]
        /\ trash' = [trash EXCEPT ![n] = i]
        /\ \A m \in Names : trash'[m] = IF m = n THEN i ELSE trash[m]
    BY <1>1, <1>4 DEF OpensForWriting, Directory
  <2>2. CASE trash[n] = NoOne
    <3>1. /\ \A m \in Names : uploads[m] # i /\ trash[m] # i /\ starred[m] # i
          /\ \A d \in Conns : thread[d].fd # i
      BY <2>1, <2>2, NewIsUnused
    <3>2. AllDistinct(trash', uploads, starred)
      BY <1>1, <2>1, <3>1, RenameDistinct, CreateDistinct
    <3>3. Distinct'
      BY <1>4, <3>2 DEF Distinct, AllDistinct, Apart
    <3> QED
      BY <1>2, <1>4, <2>1, <3>1, <3>3 DEF Under
  <2>3. CASE trash[n] # NoOne
    <3>1. i = trash[n] /\ trash' = trash
      BY <1>1, <2>1, <2>3, OpenDistinct
    <3>2. \A m \in Names : uploads[m] # i /\ starred[m] # i /\ (m # n => trash[m] # i)
      BY <1>1, <2>3, <3>1 DEF AllDistinct, Single, Apart
    <3>3. i \in Under(n)
      BY <2>3, <3>1 DEF Under
    <3>4. Distinct' /\ \A m \in Names : Under(m)' = Under(m)
      BY <1>1, <1>4, <3>1 DEF Distinct, Under
    <3> QED
      BY <1>2, <1>4, <3>1, <3>2, <3>3, <3>4 DEF FilesInv, OpenUnderName, Under
  <2> QED
    BY <2>2, <2>3
<1> QED
  BY <1>3, <1>4

(* One more thread writes a file. *)
LEMMA WriterJoins ==
    ASSUME FilesInv, TypeInv', NEW c \in Conns, NEW y,
           thread' = [thread EXCEPT ![c] = y],
           Writing(y), UNCHANGED starred,
           \A m \in Names : starred[m] # y.fd /\ (m # Into(y) => y.fd \notin Under(m)),
           \A d \in Conns : /\ Writing(thread[d]) /\ thread[d].fd = y.fd
                                => Into(thread[d]) = Into(y)
                            /\ Starring(thread[d]) => thread[d].fd # y.fd,
           \A m \in Names : m # Into(y) => Under(m)' = Under(m),
           Under(Into(y))' \subseteq Under(Into(y)) \cup {y.fd}
    PROVE  OpenUnderName'
<1>1. /\ thread'[c] = y
      /\ \A d \in Conns : d # c => thread'[d] = thread[d]
  BY DEF FilesInv, TypeInv, TypeOK
<1>2. Writing(thread[c])' /\ ~ Starring(thread[c])' /\ Into(thread[c])' = Into(y)
  BY <1>1 DEF Writing, Starring, Into
<1>3. ASSUME NEW d \in Conns, d # c
      PROVE  /\ Writing(thread[d])' <=> Writing(thread[d])
             /\ Starring(thread[d])' <=> Starring(thread[d])
             /\ Into(thread[d])' = Into(thread[d])
  <2>1. thread'[d] = thread[d]
    BY <1>1, <1>3
  <2> QED
    BY <2>1 DEF Writing, Starring, Into
<1>4. PICK k : k = Into(y)
  OBVIOUS
<1>5. /\ \A m \in Names : m # k => Under(m)' = Under(m) /\ y.fd \notin Under(m)
      /\ Under(k)' \subseteq Under(k) \cup {y.fd}
  BY <1>4 DEF Under
<1>6. ASSUME NEW d \in Conns, NEW n \in Names
      PROVE  /\ Writing(thread[d])' /\ thread'[d].fd \in Under(n)' => n = Into(thread[d])'
             /\ Writing(thread[d])' => starred'[n] # thread'[d].fd
             /\ Starring(thread[d])' => thread'[d].fd \notin Under(n)'
  <2>1. CASE d = c
    BY <1>1, <1>2, <1>4, <1>5, <2>1
  <2>2. CASE d # c
    <3>1. /\ Writing(thread[d]) /\ thread[d].fd \in Under(n) => n = Into(thread[d])
          /\ Writing(thread[d]) => starred[n] # thread[d].fd
          /\ Starring(thread[d]) => thread[d].fd \notin Under(n)
          /\ Writing(thread[d]) /\ thread[d].fd = y.fd => Into(thread[d]) = k
          /\ Starring(thread[d]) => thread[d].fd # y.fd
      BY <1>4 DEF FilesInv, OpenUnderName
    <3> QED
      BY <1>1, <1>5, <1>3, <2>2, <3>1
  <2> QED
    BY <2>1, <2>2
<1>7. ASSUME NEW d \in Conns, NEW e \in Conns, Writing(thread[d])',
             thread'[d].fd = thread'[e].fd
      PROVE  /\ Writing(thread[e])' => Into(thread[e])' = Into(thread[d])'
             /\ ~ Starring(thread[e])'
  <2>1. CASE d = c \/ e = c
    BY <1>1, <1>2, <1>7, <1>3, <2>1
  <2>2. CASE d # c /\ e # c
    BY <1>1, <1>7, <1>3, <2>2 DEF FilesInv, OpenUnderName
  <2> QED
    BY <2>1, <2>2
<1> QED
  BY <1>6, <1>7 DEF OpenUnderName

(* What a request about a file does to the files. *)
LEMMA FilesActs ==
    ASSUME FilesInv, TypeInv', NEW c \in Conns, FileStep(c)
    PROVE  FilesInv'
<1> DEFINE x == thread[c]
           n == x.target
<1>1. /\ uploads \in Directory /\ trash \in Directory /\ starred \in Directory
      /\ AllDistinct(uploads, trash, starred)
      /\ x.at \in AtFile => n \in Names
      /\ TypeInv /\ x \in Thread
  BY DEF FilesInv, Distinct, TypeInv, TypeOK, Equipped, Fit
<1>2. \A d \in Conns, m \in Names : Writing(thread[d]) =>
         starred[m] # thread[d].fd /\ thread[d].fd # NoOne
  <2>1. \A d \in Conns : Writing(thread[d]) => thread[d].fd \in Inodes
    BY <1>1 DEF Writing, TypeInv, Equipped, Fit
  <2> QED
    BY <2>1, NamesAssumption DEF FilesInv, OpenUnderName
<1>3. ASSUME NEW s \in AtFile, NEW Z \in SUBSET (AtFile \ Copying),
             Answered(c, s) \/ Fails(c, s) \/ \E z \in Z : Moves(c, s, z),
             \A z \in Z : z \in CopyStages => s \in CopyStages,
             UNCHANGED <<offDisk, copied, content>>,
             Distinct', purged \subseteq purged',
             \A m \in Names : starred'[m] \in {NoOne, starred[m]},
             \A m \in Names : \/ Keeps(m)
                              \/ m \in copied /\ Under(m)' \subseteq Under(m)
      PROVE  FilesInv'
  <2>1. PICK y \in Thread :
          /\ x.at = s
          /\ thread' = [thread EXCEPT ![c] = y]
          /\ y.at \in {"closed", "refused", "ready"} \cup Z
          /\ y.at \in Z => y.act = x.act /\ y.target = x.target
    BY <1>1, <1>3, FileThreads
  <2>2. /\ y.at \notin Busy /\ y.at \notin {"opened", "copying"}
        /\ y.at \in CopyStages => y.at \in Z
    BY <2>1 DEF Busy, AtFile, Copying, CopyStages
  <2>3. /\ thread'[c] = y
        /\ \A d \in Conns : d # c => thread'[d] = thread[d]
    BY <1>1, <2>1 DEF TypeInv, TypeOK
  <2>4. OpenUnderName'
    <3>1. \A d \in Conns : thread'[d].at \in {"opened", "copying"} => thread'[d] = thread[d]
      BY <2>2, <2>3
    <3>2. \A m \in Names : Under(m)' \subseteq Under(m)
      BY <1>3 DEF Keeps
    <3> QED
      BY <1>2, <1>3, <3>1, <3>2, WritersStay
  <2>5. CopiesMarked'
    BY <1>3, <2>1, <2>2, <2>3 DEF FilesInv, CopiesMarked
  <2>6. UNCHANGED <<transfers, jobs, acked>>
    BY <1>3 DEF offDisk
  <2> QED
    BY <1>3, <2>1, <2>2, <2>4, <2>5, <2>6, FilesMove
<1>4. ASSUME NEW s \in AtFile, NEW Z \in SUBSET (AtFile \ Copying),
             Answered(c, s) \/ Fails(c, s) \/ \E z \in Z : Moves(c, s, z),
             \A z \in Z : z \in CopyStages => s \in CopyStages,
             UNCHANGED <<offDisk, marks, disk>>
      PROVE  FilesInv'
  <2>1. Distinct' /\ UNCHANGED <<uploads, trash, starred, content, purged, copied>>
    BY <1>1, <1>4 DEF Distinct, disk, marks
  <2>2. \A m \in Names : Keeps(m)
    BY <2>1 DEF Keeps, Under
  <2> QED
    BY <1>3, <1>4, <2>1, <2>2
<1>5. CASE MoveToTrash(c)
  <2>1. /\ x.at = "moving" /\ Renames(n, uploads, trash)
        /\ \E z \in {"sourcing", "clearing"} : Moves(c, "moving", z)
        /\ UNCHANGED <<content, starred, offDisk, marks>>
    BY <1>5 DEF MoveToTrash
  <2>2. /\ {"sourcing", "clearing"} \in SUBSET (AtFile \ Copying) /\ "moving" \in AtFile
        /\ \A z \in {"sourcing", "clearing"} : z \notin CopyStages
        /\ n \in Names
    BY <1>1, <2>1 DEF AtFile, Copying, CopyStages
  <2>3. Renamed(n, uploads, trash, uploads', trash')
    BY <2>1 DEF Renames, Renamed
  <2>4. Distinct'
    BY <1>1, <2>1, <2>2, <2>3, RenameFacts DEF Distinct
  <2>5. \A m \in Names : Keeps(m)
    <3>1. Narrows(uploads, trash, uploads', trash')
      BY <1>1, <2>2, <2>3, RenameFacts
    <3> QED
      BY <2>1, <3>1 DEF Narrows, Under, Keeps
  <2> QED
    BY <1>3, <2>1, <2>2, <2>4, <2>5 DEF marks
<1>6. CASE MoveBack(c)
  <2>1. /\ x.at = "moving" /\ Renames(n, trash, uploads)
        /\ Answered(c, "moving") \/ \E z \in {"sourcing"} : Moves(c, "moving", z)
        /\ UNCHANGED <<content, starred, offDisk, marks>>
    BY <1>6 DEF MoveBack
  <2>2. /\ {"sourcing"} \in SUBSET (AtFile \ Copying) /\ "moving" \in AtFile
        /\ \A z \in {"sourcing"} : z \notin CopyStages
        /\ n \in Names
    BY <1>1, <2>1 DEF AtFile, Copying, CopyStages
  <2>3. Renamed(n, trash, uploads, trash', uploads')
    BY <2>1 DEF Renames, Renamed
  <2>4. AllDistinct(trash, uploads, starred)
    BY <1>1, <2>2, RenameDistinct
  <2>5. Distinct'
    <3>1. uploads' \in Directory /\ trash' \in Directory
      BY DEF TypeInv, TypeOK
    <3>2. AllDistinct(trash', uploads', starred)
      BY <1>1, <2>2, <2>3, <2>4, RenameFacts
    <3>3. AllDistinct(uploads', trash', starred)
      BY <1>1, <2>2, <3>1, <3>2, RenameDistinct
    <3> QED
      BY <2>1, <3>3 DEF Distinct
  <2>6. \A m \in Names : Keeps(m)
    <3>1. Narrows(trash, uploads, trash', uploads')
      BY <1>1, <2>2, <2>3, <2>4, RenameFacts
    <3>2. \A m \in Names : /\ Under(m) = {trash[m], uploads[m]} \ {NoOne}
                           /\ Under(m)' = {trash'[m], uploads'[m]} \ {NoOne}
      BY DEF Under
    <3> QED
      BY <2>1, <3>1, <3>2 DEF Narrows, Keeps
  <2> QED
    BY <1>3, <2>1, <2>2, <2>5, <2>6 DEF marks
<1>7. CASE OpenSource(c)
  <2> DEFINE i == From(c)[n]
             y == [x EXCEPT !.at = "targeting", !.src = i]
  <2>1. /\ x.at = "sourcing" /\ UNCHANGED <<disk, offDisk, marks>>
        /\ Fails(c, "sourcing") \/ Goes(c, "sourcing", y)
    BY <1>7 DEF OpenSource
  <2>2. CASE Fails(c, "sourcing")
    <3>1. {} \in SUBSET (AtFile \ Copying) /\ "sourcing" \in AtFile
      BY DEF AtFile
    <3>2. Answered(c, "sourcing") \/ Fails(c, "sourcing") \/ \E z \in {} : Moves(c, "sourcing", z)
      BY <2>2
    <3> QED
      BY <1>4, <2>1, <3>1, <3>2
  <2>3. CASE Goes(c, "sourcing", y)
    <3>1. thread' = [thread EXCEPT ![c] = y]
      BY <2>3 DEF Goes
    <3> HIDE DEF i
    <3>2. y.at = "targeting"
      BY <1>1 DEF Thread
    <3> HIDE DEF y
    <3>3. /\ thread'[c] = y
          /\ \A d \in Conns : d # c => thread'[d] = thread[d]
          /\ UNCHANGED <<uploads, trash, starred, content, purged, copied>>
      BY <1>1, <2>1, <3>1 DEF TypeInv, TypeOK, disk, marks
    <3>4. \A m \in Names : Keeps(m) /\ Under(m)' = Under(m)
      BY <3>3 DEF Keeps, Under
    <3>5. OpenUnderName'
      <4>1. \A d \in Conns : thread'[d].at \in {"opened", "copying"} => thread'[d] = thread[d]
        BY <3>2, <3>3
      <4> QED
        BY <1>2, <3>3, <3>4, <4>1, WritersStay
    <3>6. CopiesMarked' /\ Distinct'
      BY <3>2, <3>3 DEF FilesInv, CopiesMarked, CopyStages, Distinct
    <3>7. y.at \notin Busy /\ x.at \in AtFile /\ UNCHANGED <<transfers, jobs, acked>>
      BY <2>1, <3>2 DEF Busy, AtFile, offDisk
    <3> QED
      BY <3>1, <3>3, <3>4, <3>5, <3>6, <3>7, FilesMove
  <2> QED
    BY <2>1, <2>2, <2>3
<1>8. CASE OpenStarred(c) \/ OpenMoved(c)
  <2>0. x.at = "targeting" /\ n \in Names
    BY <1>1, <1>8 DEF OpenStarred, OpenMoved, OpensTarget, AtFile
  <2>1. PICK i \in Inodes, k \in Names, y \in Thread :
          /\ k = n /\ y = [x EXCEPT !.at = "copying", !.fd = i]
          /\ thread' = [thread EXCEPT ![c] = y]
          /\ UNCHANGED <<offDisk, purged>>
          /\ \/ /\ x.act = "star" /\ OpensForWriting(starred, n, i)
                /\ UNCHANGED <<uploads, trash, copied>>
             \/ /\ x.act # "star" /\ copied' = copied \cup {n} /\ UNCHANGED starred
                /\ \/ OpensForWriting(trash, n, i) /\ UNCHANGED uploads
                   \/ OpensForWriting(uploads, n, i) /\ UNCHANGED trash
    <3>1. PICK i \in Inodes :
            /\ UNCHANGED <<offDisk, purged>>
            /\ Goes(c, "targeting", [x EXCEPT !.at = "copying", !.fd = i])
            /\ \/ /\ x.act = "star" /\ OpensForWriting(starred, n, i)
                  /\ UNCHANGED <<uploads, trash, copied>>
               \/ /\ x.act # "star" /\ copied' = copied \cup {n} /\ UNCHANGED starred
                  /\ \/ OpensForWriting(trash, n, i) /\ UNCHANGED uploads
                     \/ OpensForWriting(uploads, n, i) /\ UNCHANGED trash
      BY <1>8 DEF OpenStarred, OpenMoved, OpensTarget
    <3>2. [x EXCEPT !.at = "copying", !.fd = i] \in Thread
      BY <1>1 DEF Thread, Stages
    <3> QED
      BY <2>0, <3>1, <3>2 DEF Goes
  <2>2. thread' = [thread EXCEPT ![c] = y]
    BY <2>1
  <2>3. y.at = "copying" /\ y.fd = i /\ y.act = x.act /\ y.target = k
    BY <1>1, <2>1 DEF Thread
  <2>4. /\ thread'[c] = y
        /\ \A d \in Conns : d # c => thread'[d] = thread[d]
    BY <1>1, <2>2 DEF TypeInv, TypeOK
  <2>5. /\ y.at \notin Busy /\ x.at \in AtFile
        /\ UNCHANGED <<transfers, jobs, acked>>
        /\ purged \subseteq purged' /\ copied \subseteq copied'
    BY <2>0, <2>1, <2>3 DEF Busy, AtFile, offDisk
  <2>6. CASE x.act = "star"
    <3>1. /\ OpensForWriting(starred, k, i)
          /\ UNCHANGED <<uploads, trash, copied, purged>>
      BY <2>1, <2>6
    <3>2. starred' = [starred EXCEPT ![k] = i] /\ content' = [content EXCEPT ![i] = <<>>]
      BY <3>1 DEF OpensForWriting
    <3>3. i # NoOne
      BY NamesAssumption
    <3>4. /\ Distinct'
          /\ \A m \in Names : uploads[m] # i /\ trash[m] # i
          /\ \A d \in Conns : Writing(thread[d]) => thread[d].fd # i
      <4>1. CASE starred[k] = NoOne
        <5>1. NewFile(i)
          BY <3>1, <4>1 DEF OpensForWriting
        <5>2. /\ \A m \in Names : uploads[m] # i /\ trash[m] # i /\ starred[m] # i
              /\ \A d \in Conns : thread[d].fd # i
          BY <5>1, NewIsUnused
        <5> QED
          BY <1>1, <2>5, <3>1, <3>2, <5>2, CreateDistinct DEF Distinct
      <4>2. CASE starred[k] # NoOne
        <5>1. starred[k] = i
          BY <3>1, <4>2 DEF OpensForWriting
        <5>2. starred' = starred
          BY <1>1, <3>2, <5>1 DEF Directory
        <5>3. \A m \in Names : uploads[m] # i /\ trash[m] # i
          BY <1>1, <2>5, <3>3, <5>1 DEF AllDistinct, Apart
        <5> QED
          BY <1>1, <1>2, <2>5, <3>1, <5>1, <5>2, <5>3 DEF Distinct
      <4> QED
        BY <4>1, <4>2
    <3>5. \A m \in Names : Under(m)' = Under(m) /\ i \notin Under(m)
      BY <3>1, <3>4 DEF Under
    <3>6. \A m \in Names : Keeps(m)
      <4>1. \A m \in Names : \A j \in Under(m) : content'[j] = content[j]
        <5>1. \A m \in Names : Under(m) \subseteq Inodes
          BY <1>1 DEF Under, Directory
        <5> QED
          BY <1>1, <3>2, <3>5, <5>1 DEF TypeInv, TypeOK
      <4> QED
        BY <3>1, <3>5, <4>1 DEF Keeps
    <3>7. \A m \in Names : starred'[m] \in {i, starred[m]}
      BY <1>1, <3>2 DEF Directory
    <3>8. OpenUnderName'
      <4>1. ~ Writing(thread[c])' /\ Starring(thread[c])'
        BY <2>3, <2>4, <2>6 DEF Writing, Starring
      <4>2. ASSUME NEW d \in Conns, d # c
            PROVE  /\ Writing(thread[d])' <=> Writing(thread[d])
                   /\ Starring(thread[d])' <=> Starring(thread[d])
                   /\ Into(thread[d])' = Into(thread[d])
        <5>1. thread'[d] = thread[d]
          BY <2>4, <4>2
        <5> QED
          BY <5>1 DEF Writing, Starring, Into
      <4>3. ASSUME NEW d \in Conns, NEW m \in Names
            PROVE  /\ Writing(thread[d])' /\ thread'[d].fd \in Under(m)' => m = Into(thread[d])'
                   /\ Writing(thread[d])' => starred'[m] # thread'[d].fd
                   /\ Starring(thread[d])' => thread'[d].fd \notin Under(m)'
        <5>1. CASE d = c
          BY <2>3, <2>4, <3>5, <4>1, <5>1
        <5>2. CASE d # c
          BY <2>4, <3>4, <3>5, <3>7, <4>2, <5>2 DEF FilesInv, OpenUnderName
        <5> QED
          BY <5>1, <5>2
      <4>4. ASSUME NEW d \in Conns, NEW e \in Conns, Writing(thread[d])',
                   thread'[d].fd = thread'[e].fd
            PROVE  /\ Writing(thread[e])' => Into(thread[e])' = Into(thread[d])'
                   /\ ~ Starring(thread[e])'
        <5>1. d # c /\ Writing(thread[d])
          BY <4>1, <4>2, <4>4
        <5>2. e # c
          BY <2>3, <2>4, <3>4, <4>4, <5>1
        <5> QED
          BY <2>4, <4>2, <4>4, <5>1, <5>2 DEF FilesInv, OpenUnderName
      <4> QED
        BY <4>3, <4>4 DEF OpenUnderName
    <3>9. CopiesMarked'
      BY <2>3, <2>4, <2>6, <3>1 DEF FilesInv, CopiesMarked
    <3> QED
      BY <2>2, <2>5, <3>4, <3>6, <3>8, <3>9, FilesMove
  <2>7. CASE x.act # "star"
    <3>1. /\ copied' = copied \cup {k} /\ UNCHANGED starred
          /\ \/ OpensForWriting(trash, k, i) /\ UNCHANGED uploads
             \/ OpensForWriting(uploads, k, i) /\ UNCHANGED trash
      BY <2>1, <2>7
    <3>2. /\ \A m \in Names : starred[m] # i /\ (m # k => i \notin Under(m))
          /\ \A d \in Conns : /\ Writing(thread[d]) /\ thread[d].fd = i => Into(thread[d]) = k
                              /\ Starring(thread[d]) => thread[d].fd # i
          /\ \A m \in Names : m # k => Under(m)' = Under(m) /\ UNCHANGED <<uploads[m], trash[m]>>
          /\ Under(k)' \subseteq Under(k) \cup {i}
          /\ \A j \in Inodes : content'[j] = IF j = i THEN <<>> ELSE content[j]
          /\ Distinct'
      BY <2>5, <3>1, OpenFacts
    <3>3. Writing(y) /\ Into(y) = k
      BY <2>3, <2>7 DEF Writing, Starring, Into
    <3>4. OpenUnderName'
      <4>1. Under(Into(y))' \subseteq Under(Into(y)) \cup {y.fd}
        BY <2>3, <3>2, <3>3
      <4> QED
        BY <2>2, <2>3, <3>1, <3>2, <3>3, <4>1, WriterJoins
    <3>5. CopiesMarked'
      BY <2>3, <2>4, <3>1 DEF FilesInv, CopiesMarked
    <3>6. \A m \in Names : m \in copied' \/ Keeps(m)
      <4>1. ASSUME NEW m \in Names, m # k PROVE Keeps(m)
        <5>1. Under(m) \subseteq Inodes
          BY <1>1 DEF Under, Directory
        <5>2. \A j \in Under(m) : content'[j] = content[j]
          BY <3>2, <4>1, <5>1
        <5> QED
          BY <3>2, <4>1, <5>2 DEF Keeps
      <4> QED
        BY <3>1, <4>1
    <3> QED
      BY <2>2, <2>5, <3>2, <3>4, <3>5, <3>6, FilesMove
  <2> QED
    BY <2>6, <2>7
<1>9. CASE CopyBytes(c)
  <2> DEFINE y == [x EXCEPT !.at = "stamping", !.src = NoOne, !.fd = NoOne]
             text == Overwrite(content[x.src], content[x.fd])
  <2>1. /\ x.at = "copying" /\ thread' = [thread EXCEPT ![c] = y]
        /\ content' = [content EXCEPT ![x.fd] = text]
        /\ UNCHANGED <<uploads, trash, starred, offDisk, marks>>
    BY <1>9 DEF CopyBytes, Goes
  <2>2. y.at = "stamping" /\ y.act = x.act /\ y.target = x.target
    BY <1>1 DEF Thread
  <2> HIDE DEF y, text
  <2>3. /\ thread'[c] = y
        /\ \A d \in Conns : d # c => thread'[d] = thread[d]
        /\ \A m \in Names : Under(m)' = Under(m) /\ Under(m) \subseteq Inodes
    BY <1>1, <2>1 DEF TypeInv, TypeOK, Under, Directory
  <2>4. OpenUnderName'
    <3>1. \A d \in Conns : thread'[d].at \in {"opened", "copying"} => thread'[d] = thread[d]
      BY <2>2, <2>3
    <3> QED
      BY <1>2, <2>1, <2>3, <3>1, WritersStay
  <2>5. CopiesMarked' /\ Distinct'
    BY <2>1, <2>2, <2>3 DEF FilesInv, CopiesMarked, CopyStages, Distinct, marks
  <2>6. \A m \in Names : m \in copied' \/ Keeps(m)
    <3>1. ASSUME NEW m \in Names, m \notin copied PROVE x.fd \notin Under(m)
      <4>1. CASE x.act = "star"
        BY <2>1, <4>1 DEF FilesInv, OpenUnderName, Starring
      <4>2. CASE x.act # "star"
        <5>1. n \in copied
          BY <2>1, <4>2 DEF FilesInv, CopiesMarked, CopyStages
        <5>2. x.fd \in Under(m) => m = n
          BY <2>1, <4>2 DEF FilesInv, OpenUnderName, Writing, Starring, Into
        <5> QED
          BY <3>1, <5>1, <5>2
      <4> QED
        BY <4>1, <4>2
    <3>2. \A j \in Inodes : j # x.fd => content'[j] = content[j]
      BY <1>1, <2>1 DEF TypeInv, TypeOK
    <3> QED
      BY <2>1, <2>3, <3>1, <3>2 DEF Keeps, marks
  <2>7. /\ y.at \notin Busy /\ x.at \in AtFile /\ UNCHANGED <<transfers, jobs, acked>>
        /\ UNCHANGED <<purged, copied>>
    BY <2>1, <2>2 DEF Busy, AtFile, offDisk, marks
  <2> QED
    BY <2>1, <2>4, <2>5, <2>6, <2>7, FilesMove
<1>10. CASE CopyTimes(c)
  <2>1. /\ \/ Answered(c, "stamping") \/ Fails(c, "stamping")
           \/ \E z \in {"unlinking"} : Moves(c, "stamping", z)
        /\ UNCHANGED <<disk, offDisk, marks>>
    BY <1>10 DEF CopyTimes
  <2>2. /\ "stamping" \in AtFile /\ "stamping" \in CopyStages
        /\ {"unlinking"} \in SUBSET (AtFile \ Copying)
    BY DEF AtFile, Copying, CopyStages
  <2> QED
    BY <1>4, <2>1, <2>2
<1>11. CASE Unlink(c)
  <2>1. /\ x.at = "unlinking" /\ UNCHANGED <<content, offDisk, copied, starred, purged>>
        /\ \/ uploads' = [uploads EXCEPT ![n] = NoOne] /\ UNCHANGED trash
           \/ trash' = [trash EXCEPT ![n] = NoOne] /\ UNCHANGED uploads
        /\ Answered(c, "unlinking") \/ Fails(c, "unlinking")
              \/ \E z \in {"clearing"} : Moves(c, "unlinking", z)
        /\ x.act # "star"
        /\ UNCHANGED <<offDisk, copied, content>>
        /\ \A m \in Names : starred'[m] \in {NoOne, starred[m]}
    BY <1>11 DEF Unlink, Removes
  <2>2. /\ {"clearing"} \in SUBSET (AtFile \ Copying) /\ "unlinking" \in AtFile
        /\ \A z \in {"clearing"} : z \notin CopyStages
        /\ n \in Names /\ n \in copied
    BY <1>1, <2>1 DEF AtFile, Copying, CopyStages, FilesInv, CopiesMarked
  <2>3. Distinct'
    <3>1. /\ uploads' \in Directory /\ trash' \in Directory
          /\ AllDistinct(trash, uploads, starred)
      BY <1>1, <2>2, RenameDistinct DEF TypeInv, TypeOK
    <3>2. CASE trash' = [trash EXCEPT ![n] = NoOne] /\ UNCHANGED uploads
      BY <1>1, <2>1, <2>2, <3>2, RemoveDistinct DEF Distinct
    <3>3. CASE uploads' = [uploads EXCEPT ![n] = NoOne] /\ UNCHANGED trash
      <4>1. AllDistinct(trash, uploads', starred)
        BY <1>1, <2>2, <3>1, <3>3, RemoveDistinct
      <4> QED
        BY <1>1, <2>1, <2>2, <3>1, <3>3, <4>1, RenameDistinct DEF Distinct
    <3> QED
      BY <2>1, <3>2, <3>3
  <2>4. \A m \in Names : Keeps(m) \/ (m \in copied /\ Under(m)' \subseteq Under(m))
    <3>1. \A m \in Names : /\ uploads'[m] \in {NoOne, uploads[m]} /\ trash'[m] \in {NoOne, trash[m]}
                           /\ m # n => uploads'[m] = uploads[m] /\ trash'[m] = trash[m]
      BY <1>1, <2>1 DEF Directory
    <3>2. \A m \in Names : Under(m)' \subseteq Under(m)
      BY <3>1 DEF Under
    <3>3. \A m \in Names : m # n => Keeps(m)
      BY <2>1, <3>1 DEF Under, Keeps
    <3> QED
      BY <2>2, <3>2, <3>3
  <2>5. /\ Answered(c, "unlinking") \/ Fails(c, "unlinking")
              \/ \E z \in {"clearing"} : Moves(c, "unlinking", z)
        /\ UNCHANGED <<offDisk, copied, content>>
        /\ \A m \in Names : starred'[m] \in {NoOne, starred[m]}
        /\ purged \subseteq purged'
    BY <2>1
  <2>6. /\ {"clearing"} \in SUBSET (AtFile \ Copying) /\ "unlinking" \in AtFile
        /\ \A z \in {"clearing"} : z \in CopyStages => "unlinking" \in CopyStages
    BY <2>2
  <2> QED
    BY <1>3, <2>3, <2>4, <2>5, <2>6
<1>12. CASE ClearStar(c)
  <2>1. /\ Answered(c, "clearing") \/ \E z \in {"unstarring"} : Moves(c, "clearing", z)
        /\ UNCHANGED <<disk, offDisk, marks>>
    BY <1>12 DEF ClearStar
  <2>2. /\ "clearing" \in AtFile /\ {"unstarring"} \in SUBSET (AtFile \ Copying)
        /\ \A z \in {"unstarring"} : z \notin CopyStages
    BY DEF AtFile, Copying, CopyStages
  <2> QED
    BY <1>4, <2>1, <2>2
<1>13. CASE Unstar(c)
  <2>1. /\ x.at = "unstarring" /\ starred' = [starred EXCEPT ![n] = NoOne]
        /\ Answered(c, "unstarring") \/ Fails(c, "unstarring") \/ \E z \in {} : Moves(c, "unstarring", z)
        /\ UNCHANGED <<offDisk, copied, content>>
        /\ UNCHANGED <<content, uploads, trash, purged, copied, offDisk>>
    BY <1>13 DEF Unstar, Removes
  <2>2. "unstarring" \in AtFile /\ n \in Names /\ {} \in SUBSET (AtFile \ Copying)
    BY <1>1, <2>1 DEF AtFile
  <2>3. Distinct'
    BY <1>1, <2>1, <2>2, RemoveDistinct DEF Distinct
  <2>4. \A m \in Names : Keeps(m) /\ starred'[m] \in {NoOne, starred[m]}
    BY <1>1, <2>1 DEF Under, Keeps, Directory
  <2> QED
    BY <1>3, <2>1, <2>2, <2>3, <2>4
<1>14. CASE PurgeFromTrash(c)
  <2>1. /\ x.at = "purging" /\ trash' = [trash EXCEPT ![n] = NoOne]
        /\ purged' = purged \cup {n}
        /\ Answered(c, "purging") \/ Fails(c, "purging") \/ \E z \in {} : Moves(c, "purging", z)
        /\ UNCHANGED <<offDisk, copied, content>>
        /\ UNCHANGED <<content, uploads, starred, copied, offDisk>>
    BY <1>14 DEF PurgeFromTrash, Removes
  <2>2. "purging" \in AtFile /\ n \in Names /\ {} \in SUBSET (AtFile \ Copying)
    BY <1>1, <2>1 DEF AtFile
  <2>3. Distinct'
    BY <1>1, <2>1, <2>2, RemoveDistinct DEF Distinct
  <2>4. \A m \in Names : trash'[m] = IF m = n THEN NoOne ELSE trash[m]
    BY <1>1, <2>1 DEF Directory
  <2>5. \A m \in Names : Keeps(m)
    BY <2>1, <2>4 DEF Under, Keeps
  <2> QED
    BY <1>3, <2>1, <2>2, <2>3, <2>5
<1> QED
  BY <1>5, <1>6, <1>7, <1>8, <1>9, <1>10, <1>11, <1>12, <1>13, <1>14 DEF FileStep

(* The file of an upload is opened: it is the one of its name, or new, and *)
(* it is empty.                                                            *)
LEMMA FilesOpen ==
    ASSUME FilesInv, TypeInv', NEW c \in Conns, OpenUpload(c)
    PROVE  FilesInv'
<1> DEFINE x == thread[c]
<1>1. TypeInv
  BY DEF FilesInv
<1>2. PICK i \in Inodes, y \in Thread : Opened(c, i, y)
  BY <1>1, OpensWhole
<1>3. /\ x.at = "sending" /\ x.tid \in DOMAIN jobs \cap DOMAIN transfers
      /\ thread' = [thread EXCEPT ![c] = y]
      /\ y.at = "opened" /\ y.tid = x.tid /\ y.fd = i
      /\ y.tx.hash = Bytes(jobs[x.tid].data)
      /\ y.tx.name = transfers[x.tid].name
      /\ OpensForWriting(uploads, transfers[x.tid].name, i)
      /\ UNCHANGED <<trash, starred, jobs, acked, purged, copied>>
  BY <1>2 DEF Opened, history, marks
<1>4. PICK n \in Names, id \in DOMAIN jobs : n = jobs[id].name /\ id = x.tid
  BY <1>1, <1>3, JobTypes
<1>5. y.tx.name = n /\ y.tid = id /\ transfers[x.tid].name = n
  BY <1>3, <1>4 DEF FilesInv, Named
<1>6. /\ IF uploads[n] = NoOne THEN NewFile(i) ELSE i = uploads[n]
      /\ uploads' = [uploads EXCEPT ![n] = i]
      /\ content' = [content EXCEPT ![i] = <<>>]
  BY <1>3, <1>5 DEF OpensForWriting
<1>7. OpensForWriting(uploads, n, i) /\ UNCHANGED trash /\ UNCHANGED starred
  BY <1>3, <1>6 DEF OpensForWriting
<1>8. /\ thread'[c] = y
      /\ \A d \in Conns : d # c => thread'[d] = thread[d]
  BY <1>1, <1>3 DEF TypeInv, TypeOK
<1>9. /\ \A d \in Conns : thread[d].at \in Busy => thread[d].tid \in DOMAIN jobs
      /\ \A d \in Conns : d # c /\ thread[d].at \in Busy => thread[d].tid # id
      /\ WrittenStages \subseteq Busy /\ {"opened", "sending"} \subseteq Busy
      /\ "opened" \notin WrittenStages /\ "sending" \notin WrittenStages
      /\ id \notin acked
  <2>1. /\ WrittenStages \subseteq Busy /\ {"opened", "sending"} \subseteq Busy
        /\ "opened" \notin WrittenStages /\ "sending" \notin WrittenStages
    BY DEF WrittenStages, Busy
  <2> QED
    BY <1>1, <1>3, <1>4, <2>1 DEF FilesInv, NotYetAnswered, TypeInv, Equipped, Fit, OwnTransfers
<1>10. /\ \A m \in Names : starred[m] # i /\ (m # n => i \notin Under(m))
       /\ \A d \in Conns : /\ Writing(thread[d]) /\ thread[d].fd = i => Into(thread[d]) = n
                           /\ Starring(thread[d]) => thread[d].fd # i
       /\ \A m \in Names : m # n => Under(m)' = Under(m) /\ UNCHANGED <<uploads[m], trash[m]>>
       /\ Under(n)' \subseteq Under(n) \cup {i}
       /\ \A j \in Inodes : content'[j] = IF j = i THEN <<>> ELSE content[j]
       /\ Distinct'
  BY <1>7, OpenFacts
<1>11. Named'
  <2>1. /\ DOMAIN transfers' \subseteq DOMAIN transfers
        /\ \A t \in DOMAIN transfers' : transfers'[t] = transfers[t]
    BY <1>2 DEF Opened, PopTransfer
  <2>2. \A t \in DOMAIN transfers' : transfers'[t].name = jobs'[t].name
    BY <1>3, <2>1 DEF FilesInv, Named
  <2>3. ASSUME NEW d \in Conns, thread'[d].at = "opened"
        PROVE  /\ thread'[d].tx.name = jobs'[thread'[d].tid].name
               /\ thread'[d].tx.hash = Bytes(jobs'[thread'[d].tid].data)
    BY <1>3, <1>4, <1>5, <1>8, <2>3 DEF FilesInv, Named
  <2> QED
    BY <2>2, <2>3 DEF Named
<1>12. OpenUnderName'
  <2>1. Writing(y) /\ Into(y) = n /\ y.fd = i
    BY <1>3, <1>5 DEF Writing, Starring, Into
  <2>2. Under(Into(y))' \subseteq Under(Into(y)) \cup {y.fd}
    BY <1>10, <2>1
  <2>3. /\ \A m \in Names : starred[m] # y.fd /\ (m # Into(y) => y.fd \notin Under(m))
        /\ \A d \in Conns : /\ Writing(thread[d]) /\ thread[d].fd = y.fd
                                => Into(thread[d]) = Into(y)
                            /\ Starring(thread[d]) => thread[d].fd # y.fd
        /\ \A m \in Names : m # Into(y) => Under(m)' = Under(m)
    BY <1>10, <2>1
  <2>4. thread' = [thread EXCEPT ![c] = y] /\ UNCHANGED starred
    BY <1>3
  <2> QED
    BY <2>1, <2>2, <2>3, <2>4, WriterJoins
<1>13. CopiesMarked'
  BY <1>3, <1>8 DEF FilesInv, CopiesMarked, CopyStages
<1>14. NotYetAnswered'
  BY <1>3, <1>5, <1>8, <1>9 DEF FilesInv, NotYetAnswered
<1>15. \A t : Sent(t) \/ t = id => Sent(t)'
  BY <1>3, <1>8, <1>9 DEF Sent
<1>16. FilesHaveUploads'
  <2> SUFFICES ASSUME NEW m \in Names, m \notin copied, Under(m)' # {}
               PROVE  \E t \in DOMAIN jobs : jobs[t].name = m /\ Sent(t)'
    BY <1>3 DEF FilesHaveUploads
  <2>1. CASE m = n
    BY <1>4, <1>15, <2>1
  <2>2. CASE m # n
    BY <1>10, <1>15, <2>2 DEF FilesInv, FilesHaveUploads
  <2> QED
    BY <2>1, <2>2
<1>17. BothMeansTwo'
  <2> SUFFICES ASSUME NEW m \in Names, m \notin copied, uploads'[m] # NoOne, trash'[m] # NoOne,
                      NEW t \in DOMAIN jobs, jobs[t].name = m
               PROVE  Shared(t, jobs)
    BY <1>3 DEF BothMeansTwo
  <2>1. CASE m = n
    <3>1. Under(n) # {}
      BY <1>3, <2>1 DEF Under
    <3>2. PICK u \in DOMAIN jobs : jobs[u].name = n /\ Sent(u)
      BY <2>1, <3>1 DEF FilesInv, FilesHaveUploads
    <3>3. u # id
      BY <1>3, <1>4, <3>2 DEF Sent
    <3> QED
      BY <1>4, <2>1, <3>2, <3>3 DEF Shared
  <2>2. CASE m # n
    BY <1>10, <2>2 DEF FilesInv, BothMeansTwo
  <2> QED
    BY <2>1, <2>2
<1>18. WrittenAreSafe' /\ OpenedAreEmpty'
  <2>1. ASSUME NEW t \in DOMAIN jobs, t \notin {id}
        PROVE  Excused(t)' \/ SameFiles(jobs[t].name)
    <3>1. PICK m \in Names : m = jobs[t].name
      BY <1>1, JobTypes
    <3>2. CASE m = n
      BY <1>3, <1>4, <2>1, <3>1, <3>2 DEF Excused, Shared
    <3>3. CASE m # n
      <4>1. Under(m) \subseteq Inodes
        BY <1>1 DEF Under, TypeInv, TypeOK, Directory
      <4>2. SameFiles(m)
        BY <1>10, <3>3, <4>1 DEF SameFiles
      <4> QED
        BY <3>1, <4>2
    <3> QED
      BY <3>2, <3>3
  <2>2. \A t : Written(t)' => t # id /\ Written(t)
    BY <1>3, <1>8, <1>9 DEF Written
  <2>3. \A t : Written(t) => t \in DOMAIN jobs
    BY <1>1, <1>9 DEF Written, TypeInv, TypeOK
  <2>4. ASSUME NEW d \in Conns, thread'[d].at = "opened"
        PROVE  \/ EmptyFor(thread[d].tid, thread[d].fd)'
               \/ thread'[d] = thread[d] /\ thread[d].tid \in DOMAIN jobs \ {id}
    <3>1. CASE d = c
      <4>1. uploads'[n] = i /\ content'[i] = <<>> /\ i # NoOne
        BY <1>1, <1>6, NamesAssumption DEF TypeInv, TypeOK, Directory
      <4>2. i \in Under(n)'
        BY <4>1 DEF Under
      <4>3. EmptyFor(id, i)'
        <5>1. jobs'[id].name = n
          BY <1>3, <1>4
        <5>2. i \in Under(jobs[id].name)'
          BY <4>2, <5>1 DEF Under
        <5> QED
          BY <4>1, <5>2 DEF EmptyFor
      <4>4. thread'[d].tid = id /\ thread'[d].fd = i
        BY <1>3, <1>5, <1>8, <3>1
      <4> QED
        BY <4>3, <4>4 DEF EmptyFor
    <3>2. CASE d # c
      BY <1>8, <1>9, <2>4, <3>2
    <3> QED
      BY <3>1, <3>2
  <2> QED
    BY <1>3, <2>1, <2>2, <2>3, <2>4, AllStay
<1> QED
  BY <1>10, <1>11, <1>12, <1>13, <1>14, <1>16, <1>17, <1>18 DEF FilesInv

(* A file that was empty holds what is written in it. *)
LEMMA OverwriteEmpty ==
    ASSUME NEW S, NEW d \in Seq(S)
    PROVE  Overwrite(d, <<>>) = d
<1>1. Len(d) \in Nat /\ Len(<<>>) = 0
  BY LenProperties
<1>2. SubSeq(<<>>, Len(d) + 1, Len(<<>>)) = <<>>
  BY <1>1, SubSeqEmpty
<1> QED
  BY <1>2, ConcatEmptySeq DEF Overwrite

(* The file is written, and no other that must be kept. *)
LEMMA FilesWrite ==
    ASSUME FilesInv, TypeInv', NEW c \in Conns, WriteFile(c)
    PROVE  FilesInv'
<1> DEFINE x == thread[c]
           y == [x EXCEPT !.at = "stored", !.fd = NoOne]
           text == Overwrite(x.tx.hash, content[x.fd])
<1>1. TypeInv
  BY DEF FilesInv
<1>2. /\ x.at = "opened" /\ thread' = [thread EXCEPT ![c] = y]
      /\ content' = [content EXCEPT ![x.fd] = text]
      /\ UNCHANGED <<uploads, trash, starred, transfers, jobs, acked, purged, copied>>
  BY DEF WriteFile, Goes, history, marks
<1>3. /\ x \in Thread /\ x.fd \in Inodes /\ x.tx \in Tx /\ x.tid \in DOMAIN jobs
  BY <1>1, <1>2 DEF TypeInv, TypeOK, Equipped, Fit, Busy
<1>4. y.at = "stored" /\ y.tid = x.tid
  BY <1>3 DEF Thread
<1> HIDE DEF y
<1>5. /\ thread'[c] = y
      /\ \A d \in Conns : d # c => thread'[d] = thread[d]
  BY <1>1, <1>2 DEF TypeInv, TypeOK
<1>6. \A j \in Inodes : content'[j] = IF j = x.fd THEN text ELSE content[j]
  BY <1>1, <1>2, <1>3 DEF TypeInv, TypeOK
<1>7. PICK n \in Names, id \in DOMAIN jobs : n = jobs[id].name /\ id = x.tid
  BY <1>1, <1>3, JobTypes
<1>8. /\ x.tx.name = n /\ x.tx.hash = Bytes(jobs[id].data)
      /\ x.tx.hash \in Seq(Chunks)
      /\ Writing(x) /\ Into(x) = n
  BY <1>2, <1>3, <1>7 DEF FilesInv, Named, Tx, Writing, Starring, Into
<1>9. /\ \A d \in Conns : thread[d].at \in Busy => thread[d].tid \in DOMAIN jobs
      /\ \A d \in Conns : d # c /\ thread[d].at \in Busy => thread[d].tid # id
      /\ WrittenStages \subseteq Busy /\ {"opened", "sending"} \subseteq Busy
      /\ "stored" \in WrittenStages
  <2>1. /\ WrittenStages \subseteq Busy /\ {"opened", "sending"} \subseteq Busy
        /\ "stored" \in WrittenStages
    BY DEF WrittenStages, Busy
  <2> QED
    BY <1>1, <1>2, <1>7, <2>1 DEF TypeInv, Equipped, Fit, OwnTransfers
<1>10. \A d \in Conns : thread'[d].at \in {"opened"} \cup CopyStages
                           => d # c /\ thread'[d] = thread[d]
  BY <1>4, <1>5 DEF CopyStages
<1>11. /\ \A m \in Names : Under(m)' = Under(m) /\ Under(m) \subseteq Inodes
       /\ \A m \in Names : m # n => x.fd \notin Under(m)
  <2>1. \A m \in Names : Under(m)' = Under(m)
    BY <1>2 DEF Under
  <2>2. \A m \in Names : Under(m) \subseteq Inodes
    BY <1>1 DEF Under, TypeInv, TypeOK, Directory
  <2>3. \A m \in Names : x.fd \in Under(m) => m = n
    BY <1>8 DEF FilesInv, OpenUnderName
  <2> QED
    BY <2>1, <2>2, <2>3
<1>12. Named'
  BY <1>2, <1>10 DEF FilesInv, Named
<1>13. Distinct'
  BY <1>2 DEF FilesInv, Distinct
<1>14. OpenUnderName'
  <2>1. \A d \in Conns : thread'[d].at \in {"opened", "copying"} => thread'[d] = thread[d]
    BY <1>10 DEF CopyStages
  <2>2. \A d \in Conns, m \in Names : Writing(thread[d]) => starred'[m] # thread[d].fd
    BY <1>2 DEF FilesInv, OpenUnderName
  <2> QED
    BY <1>11, <2>1, <2>2, WritersStay
<1>15. CopiesMarked'
  BY <1>2, <1>10 DEF FilesInv, CopiesMarked
<1>16. NotYetAnswered'
  BY <1>2, <1>4, <1>5, <1>9 DEF FilesInv, NotYetAnswered
<1>17. \A t : Sent(t) => Sent(t)'
  BY <1>4, <1>5 DEF Sent
<1>18. FilesHaveUploads' /\ BothMeansTwo'
  BY <1>2, <1>11, <1>17 DEF FilesInv, FilesHaveUploads, BothMeansTwo
<1>19. WrittenAreSafe' /\ OpenedAreEmpty'
  <2>1. ASSUME NEW t \in DOMAIN jobs, t \notin {id}
        PROVE  Excused(t)' \/ SameFiles(jobs[t].name)
    <3>1. PICK m \in Names : m = jobs[t].name
      BY <1>1, JobTypes
    <3>2. CASE m = n
      BY <1>2, <1>7, <2>1, <3>1, <3>2 DEF Excused, Shared
    <3>3. CASE m # n
      <4>1. SameFiles(m)
        BY <1>6, <1>11, <3>3 DEF SameFiles
      <4> QED
        BY <3>1, <4>1
    <3> QED
      BY <3>2, <3>3
  <2>2. \A t : t # id /\ Written(t)' => Written(t)
    BY <1>2, <1>4, <1>5, <1>7 DEF Written
  <2>3. \A t : Written(t) => t \in DOMAIN jobs
    BY <1>1, <1>9 DEF Written, TypeInv, TypeOK
  <2>4. Safe(id)'
    <3>1. EmptyFor(id, x.fd)
      BY <1>2, <1>7 DEF FilesInv, OpenedAreEmpty
    <3>2. CASE Excused(id)
      BY <1>2, <3>2, ExcusedStays DEF Safe
    <3>3. CASE x.fd \in Under(n) /\ content[x.fd] = <<>>
      <4>1. text = Bytes(jobs[id].data)
        BY <1>8, <3>3, OverwriteEmpty
      <4>2. x.fd \in Under(n)' /\ content'[x.fd] = Bytes(jobs[id].data)
        BY <1>3, <1>6, <1>11, <3>3, <4>1
      <4>3. jobs' = jobs /\ x.fd \in Under(jobs[id].name)'
        BY <1>2, <1>7, <4>2 DEF Under
      <4> QED
        BY <4>2, <4>3 DEF Safe
    <3> QED
      BY <1>7, <3>1, <3>2, <3>3 DEF EmptyFor
  <2>5. \A d \in Conns : thread'[d].at = "opened" =>
           thread'[d] = thread[d] /\ thread[d].tid \in DOMAIN jobs \ {id}
    BY <1>9, <1>10
  <2>6. /\ \A t \in {id} : t \in DOMAIN jobs' /\ Written(t)' => Safe(t)'
        /\ \A t \in DOMAIN jobs' : t \notin {id} /\ Written(t)' => t \in DOMAIN jobs /\ Written(t)
        /\ \A k \in DOMAIN jobs : k \in DOMAIN jobs' /\ jobs'[k] = jobs[k]
        /\ purged \subseteq purged' /\ copied \subseteq copied'
    BY <1>2, <2>2, <2>3, <2>4
  <2> QED
    BY <2>1, <2>5, <2>6, AllStay
<1> QED
  BY <1>12, <1>13, <1>14, <1>15, <1>16, <1>18, <1>19 DEF FilesInv

(* A thread ends a request and leaves the files alone. *)
LEMMA FilesEnd ==
    ASSUME FilesInv, TypeInv', NEW c \in Conns, NEW y,
           thread' = [thread EXCEPT ![c] = y],
           y.at \in {"closed", "refused", "ready"} \cup (AtFile \ CopyStages),
           UNCHANGED <<disk, marks, jobs>>,
           DOMAIN transfers' \subseteq DOMAIN transfers,
           \A t \in DOMAIN transfers' : transfers'[t] = transfers[t],
           \/ UNCHANGED acked
           \/ thread[c].at \in WrittenStages /\ acked' = acked \cup {thread[c].tid}
    PROVE  FilesInv'
<1>1. /\ y.at \notin Busy /\ y.at \notin WrittenStages /\ y.at # "sending"
      /\ y.at \notin CopyStages \cup {"opened"}
  BY DEF Busy, AtFile, WrittenStages, CopyStages
<1>2. /\ \A k \in DOMAIN jobs : k \in DOMAIN jobs' /\ jobs'[k] = jobs[k]
      /\ \A t \in DOMAIN transfers' : transfers'[t].name = jobs'[t].name
      /\ UNCHANGED <<disk, marks>>
  BY DEF FilesInv, Named
<1> QED
  BY <1>1, <1>2, FilesAside

(* A client begins an upload, or sends a chunk of one. *)
LEMMA FilesSend ==
    ASSUME FilesInv, TypeInv', NEW c \in Conns,
           \/ \E n \in Names, d \in Data : BeginUpload(c, n, d)
           \/ SendChunk(c)
    PROVE  FilesInv'
<1> DEFINE x == thread[c]
<1>1. x \in Thread
  BY DEF FilesInv, TypeInv, TypeOK
<1>2. ASSUME NEW n \in Names, NEW d \in Data, BeginUpload(c, n, d)
      PROVE  FilesInv'
  <2> DEFINE t == Len(jobs) + 1
             job == [name |-> n, data |-> d, user |-> x.user]
             new == [name |-> n, chunks |-> [i \in 1..Len(d) |-> NoOne], owner |-> x.owner]
             y == [x EXCEPT !.at = "sending", !.tid = t]
  <2>1. /\ thread' = [thread EXCEPT ![c] = y]
        /\ jobs' = Append(jobs, job)
        /\ transfers' = [u \in DOMAIN transfers \cup {t} |->
                            IF u = t THEN new ELSE transfers[u]]
        /\ UNCHANGED <<disk, marks>> /\ UNCHANGED acked
    BY <1>2 DEF BeginUpload, Goes
  <2>2. y.at = "sending" /\ y.tid = t
    BY <1>1 DEF Thread
  <2>3. job.name = n /\ new.name = n
    OBVIOUS
  <2>4. /\ t \notin DOMAIN jobs /\ jobs'[t] = job
        /\ \A k \in DOMAIN jobs : k \in DOMAIN jobs' /\ jobs'[k] = jobs[k]
    <3>1. jobs \in Seq(Job)
      BY DEF FilesInv, TypeInv, TypeOK, Job
    <3>2. job \in Job
      BY <1>1 DEF Job, Thread
    <3> HIDE DEF job
    <3> QED
      BY <2>1, <3>1, <3>2, AppendFacts
  <2> HIDE DEF job, new
  <2>5. \A u \in DOMAIN transfers' : transfers'[u].name = jobs'[u].name
    <3>1. DOMAIN transfers \subseteq DOMAIN jobs
      BY DEF FilesInv, TypeInv, TypeOK
    <3>2. /\ DOMAIN transfers' = DOMAIN transfers \cup {t} /\ transfers'[t] = new
          /\ \A u \in DOMAIN transfers : u # t => transfers'[u] = transfers[u]
      BY <2>1
    <3> QED
      BY <2>3, <2>4, <3>1, <3>2 DEF FilesInv, Named
  <2> HIDE DEF y, t
  <2>6. y.at \notin CopyStages \cup {"opened"} /\ y.at \notin WrittenStages
    BY <2>2 DEF WrittenStages, CopyStages
  <2> QED
    BY <2>1, <2>2, <2>4, <2>5, <2>6, FilesAside
<1>3. CASE SendChunk(c)
  <2> DEFINE t == x.tid
             k == x.sent + 1
             y == [x EXCEPT !.sent = k]
             tr == transfers[t]
             z == [tr EXCEPT !.chunks = [tr.chunks EXCEPT ![k] = jobs[t].data[k]]]
  <2>1. /\ x.at = "sending" /\ thread' = [thread EXCEPT ![c] = y]
        /\ transfers' = IF jobs[t].data[k] = NoBytes THEN transfers
                        ELSE [transfers EXCEPT ![t] = z]
        /\ UNCHANGED <<disk, marks>> /\ UNCHANGED acked /\ UNCHANGED jobs
    BY <1>3 DEF SendChunk, Goes, history
  <2>2. y.at = "sending" /\ y.tid = x.tid
    BY <1>1, <2>1 DEF Thread
  <2>3. t \in DOMAIN transfers /\ z.name = tr.name
    <3>1. t \in DOMAIN transfers /\ tr \in Transfer
      BY <2>1 DEF FilesInv, TypeInv, TypeOK, Equipped, Fit
    <3> HIDE DEF tr
    <3> QED
      BY <3>1 DEF Transfer
  <2> HIDE DEF y, z
  <2>4. \A u \in DOMAIN transfers' : transfers'[u].name = jobs'[u].name
    <3>1. /\ DOMAIN transfers' = DOMAIN transfers
          /\ \A u \in DOMAIN transfers : transfers'[u] \in {transfers[u], z}
          /\ \A u \in DOMAIN transfers : u # t => transfers'[u] = transfers[u]
      BY <2>1
    <3> QED
      BY <2>1, <2>3, <3>1 DEF FilesInv, Named
  <2>5. y.at \notin CopyStages \cup {"opened"} /\ y.at \notin WrittenStages
    BY <2>2 DEF WrittenStages, CopyStages
  <2>6. \A u \in DOMAIN jobs : u \in DOMAIN jobs' /\ jobs'[u] = jobs[u]
    BY <2>1
  <2> QED
    BY <2>1, <2>2, <2>4, <2>5, <2>6, FilesAside
<1> QED
  BY <1>2, <1>3

(* What an upload does from the write of its file to its answer. *)
LEMMA FilesRecord ==
    ASSUME FilesInv, TypeInv', NEW c \in Conns,
           \/ StartMining(c) \/ FinishMining(c) \/ StartSave(c) \/ FinishSave(c)
    PROVE  FilesInv'
<1> DEFINE x == thread[c]
<1>1. x \in Thread
  BY DEF FilesInv, TypeInv, TypeOK
<1>2. ASSUME NEW s \in WrittenStages, x.at = s, NEW z \in WrittenStages, NEW y,
             y.at = z, y.tid = x.tid, thread' = [thread EXCEPT ![c] = y],
             UNCHANGED <<disk, transfers, history>>
      PROVE  FilesInv'
  <2>1. y.at \notin CopyStages \cup {"opened"} /\ y.at # "sending"
    BY <1>2 DEF WrittenStages, CopyStages
  <2>2. /\ UNCHANGED <<disk, marks>> /\ UNCHANGED acked
        /\ \A u \in DOMAIN jobs : u \in DOMAIN jobs' /\ jobs'[u] = jobs[u]
        /\ \A t \in DOMAIN transfers' : transfers'[t].name = jobs'[t].name
    BY <1>2 DEF history, FilesInv, Named
  <2> QED
    BY <1>2, <2>1, <2>2, FilesAside
<1>3. CASE StartMining(c)
  <2> DEFINE b == [index |-> Len(chain), txs |-> pending \cup {x.tx}]
             y == [x EXCEPT !.at = "mining", !.block = b]
  <2>1. /\ x.at = "stored" /\ thread' = [thread EXCEPT ![c] = y]
        /\ UNCHANGED <<disk, transfers, history>>
    BY <1>3 DEF StartMining, Goes
  <2> HIDE DEF b
  <2>2. y.at = "mining" /\ y.tid = x.tid
    BY <1>1 DEF Thread
  <2> HIDE DEF y
  <2> QED
    BY <1>2, <2>1, <2>2 DEF WrittenStages
<1>4. CASE FinishMining(c)
  <2> DEFINE y == [x EXCEPT !.at = "mined"]
  <2>1. /\ x.at = "mining" /\ thread' = [thread EXCEPT ![c] = y]
        /\ UNCHANGED <<disk, transfers, history>>
    BY <1>4 DEF FinishMining, Mines, Moves, Goes
  <2>2. y.at = "mined" /\ y.tid = x.tid
    BY <1>1 DEF Thread
  <2> HIDE DEF y
  <2> QED
    BY <1>2, <2>1, <2>2 DEF WrittenStages
<1>5. CASE StartSave(c)
  <2> DEFINE y == [x EXCEPT !.at = "saving", !.snap = chain]
  <2>1. /\ x.at = "mined" /\ thread' = [thread EXCEPT ![c] = y]
        /\ UNCHANGED <<disk, transfers, history>>
    BY <1>5 DEF StartSave, Goes
  <2>2. y.at = "saving" /\ y.tid = x.tid
    BY <1>1 DEF Thread
  <2> HIDE DEF y
  <2> QED
    BY <1>2, <2>1, <2>2 DEF WrittenStages
<1>6. CASE FinishSave(c)
  <2> DEFINE y == [x EXCEPT !.at = "saved"]
  <2>1. /\ x.at = "saving" /\ thread' = [thread EXCEPT ![c] = y]
        /\ UNCHANGED <<disk, transfers, history>>
    BY <1>6 DEF FinishSave, Moves, Goes
  <2>2. y.at = "saved" /\ y.tid = x.tid
    BY <1>1 DEF Thread
  <2> HIDE DEF y
  <2> QED
    BY <1>2, <2>1, <2>2 DEF WrittenStages
<1> QED
  BY <1>3, <1>4, <1>5, <1>6

(* A crash leaves the disk, and ends every thread. *)
LEMMA FilesCrash ==
    ASSUME FilesInv, TypeInv', Crash \/ Start \/ UNCHANGED vars
    PROVE  FilesInv'
<1>1. /\ UNCHANGED <<uploads, trash, starred, content, jobs, acked, purged, copied>>
      /\ \A d \in Conns : thread'[d].at # "closed" => thread'[d] = thread[d]
      /\ DOMAIN transfers' \subseteq DOMAIN transfers
      /\ \A t \in DOMAIN transfers' : transfers'[t] = transfers[t]
  <2>1. CASE Crash
    BY <2>1, QuietThreads DEF Crash, disk, history, marks
  <2>2. CASE Start \/ UNCHANGED vars
    BY <2>2 DEF Start, Starts, vars, disk, history, marks
  <2> QED
    BY <2>1, <2>2
<1>2. /\ WrittenStages \subseteq Busy /\ {"opened", "sending"} \subseteq Busy
      /\ "closed" \notin Busy \cup CopyStages
  BY DEF WrittenStages, Busy, CopyStages
<1>3. \A d \in Conns : thread'[d].at \in Busy \cup CopyStages => thread'[d] = thread[d]
  BY <1>1, <1>2
<1>4. \A m \in Names : Under(m)' = Under(m)
  BY <1>1 DEF Under
<1>5. Named' /\ Distinct' /\ CopiesMarked' /\ NotYetAnswered'
  BY <1>1, <1>2, <1>3 DEF FilesInv, Named, Distinct, CopiesMarked, NotYetAnswered
<1>6. OpenUnderName'
  <2>1. \A d \in Conns : thread'[d].at \in {"opened", "copying"} => thread'[d] = thread[d]
    BY <1>2, <1>3 DEF CopyStages
  <2>2. \A d \in Conns, m \in Names : Writing(thread[d]) => starred'[m] # thread[d].fd
    BY <1>1 DEF FilesInv, OpenUnderName
  <2> QED
    BY <1>4, <2>1, <2>2, WritersStay
<1>7. \A t : Sent(t) => Sent(t)'
  BY <1>2, <1>3 DEF Sent
<1>8. FilesHaveUploads' /\ BothMeansTwo'
  BY <1>1, <1>4, <1>7 DEF FilesInv, FilesHaveUploads, BothMeansTwo
<1>9. WrittenAreSafe' /\ OpenedAreEmpty'
  <2>1. \A t \in DOMAIN jobs : SameFiles(jobs[t].name)
    <3>1. \A t \in DOMAIN jobs : jobs[t].name \in Names
      BY JobTypes DEF FilesInv
    <3> QED
      BY <1>1, <1>4, <3>1 DEF SameFiles
  <2>2. /\ \A d \in Conns : thread[d].at \in Busy => thread[d].tid \in DOMAIN jobs
        /\ acked \subseteq DOMAIN jobs
    BY DEF FilesInv, TypeInv, TypeOK, Equipped, Fit
  <2>3. \A t : Written(t)' => t \in DOMAIN jobs /\ Written(t)
    BY <1>1, <1>2, <1>3, <2>2 DEF Written
  <2>4. \A d \in Conns : thread'[d].at = "opened" =>
           thread'[d] = thread[d] /\ thread[d].tid \in DOMAIN jobs \ {}
    BY <1>2, <1>3, <2>2
  <2> QED
    BY <1>1, <2>1, <2>3, <2>4, AllStay
<1> QED
  BY <1>5, <1>6, <1>8, <1>9 DEF FilesInv

(* Every step keeps the parts of the invariant; each action disturbs a few. *)
LEMMA FilesNext == FilesInv /\ [Next]_vars => FilesInv'
<1> SUFFICES ASSUME FilesInv, [Next]_vars PROVE FilesInv'
  OBVIOUS
<1>1. TypeInv /\ TypeInv'
  BY TypeNext DEF FilesInv
<1>2. ASSUME NEW c \in Conns, NEW u \in Users,
             SignUp(c, u) \/ SignUpRefused(c, u) \/ LogIn(c, u) \/ LogInRefused(c, u)
      PROVE  FilesInv'
  <2>1. /\ UNCHANGED <<disk, marks, jobs>> /\ UNCHANGED acked /\ UNCHANGED transfers
    BY <1>2 DEF SignUp, SignUpRefused, LogIn, LogInRefused, Enters, history
  <2>2. Idle \in Thread /\ Idle.at = "ready"
    BY QuietThreads
  <2>3. /\ [Idle EXCEPT !.at = "refused"].at = "refused"
        /\ [Idle EXCEPT !.owner = u, !.user = u].at = "ready"
        /\ [Idle EXCEPT !.at = "refused", !.owner = u].at = "refused"
    BY <2>2 DEF Thread
  <2>4. \E y : /\ thread' = [thread EXCEPT ![c] = y]
               /\ y.at \in {"closed", "refused", "ready"} \cup (AtFile \ CopyStages)
    BY <1>2, <2>2, <2>3 DEF SignUp, SignUpRefused, LogIn, LogInRefused, Enters, Goes
  <2> QED
    BY <1>1, <2>1, <2>4, FilesEnd
<1>3. ASSUME NEW c \in Conns, NEW n \in Names,
             Star(c, n) \/ Delete(c, n) \/ Restore(c, n) \/ Purge(c, n)
      PROVE  FilesInv'
  <2>1. PICK s \in AtFile \ CopyStages, a \in Requests : Looks(c, n, a, s)
    BY <1>3 DEF Star, Delete, Restore, Purge, AtFile, CopyStages, Requests
  <2> DEFINE y == [thread[c] EXCEPT !.at = s, !.act = a, !.target = n]
  <2>2. /\ thread' = [thread EXCEPT ![c] = y]
        /\ UNCHANGED <<disk, marks, jobs>> /\ UNCHANGED acked /\ UNCHANGED transfers
    BY <2>1 DEF Looks, Goes, offDisk
  <2>3. y.at = s
    BY <1>1 DEF TypeInv, TypeOK, Thread
  <2> HIDE DEF y
  <2> QED
    BY <1>1, <2>2, <2>3, FilesEnd
<1>4. ASSUME NEW c \in Conns,
             \/ RefuseUpload(c) \/ Acknowledge(c) \/ Disconnect(c) \/ Refused(c)
      PROVE  FilesInv'
  <2>1. \E s : Answered(c, s) \/ Fails(c, s)
    BY <1>4 DEF RefuseUpload, Acknowledge, Disconnect, Refused, HangsUp
  <2>2. PICK y \in Thread : /\ thread' = [thread EXCEPT ![c] = y]
                            /\ y.at \in {"closed", "refused", "ready"}
    BY <1>1, <2>1, EndsQuiet
  <2>3. /\ UNCHANGED <<disk, marks, jobs>>
        /\ DOMAIN transfers' \subseteq DOMAIN transfers
        /\ \A t \in DOMAIN transfers' : transfers'[t] = transfers[t]
    BY <1>4 DEF RefuseUpload, PopTransfer, Acknowledge, Disconnect, Refused, history
  <2>4. \/ UNCHANGED acked
        \/ thread[c].at \in WrittenStages /\ acked' = acked \cup {thread[c].tid}
    BY <1>4 DEF RefuseUpload, Acknowledge, Answered, Goes, Disconnect, Refused, history,
                WrittenStages
  <2> QED
    BY <1>1, <2>2, <2>3, <2>4, FilesEnd
<1>5. ASSUME NEW c \in Conns, FinishUpload(c) \/ SendChunk(c) \/ FileStep(c)
      PROVE  FilesInv'
  BY <1>1, <1>4, <1>5, FilesOpen, FilesWrite, FilesRecord, FilesSend, FilesActs
  DEF FinishUpload
<1>6. ASSUME NEW c \in Conns, NEW n \in Names, NEW d \in Data, BeginUpload(c, n, d)
      PROVE  FilesInv'
  BY <1>1, <1>6, FilesSend
<1> QED
  BY <1>1, <1>2, <1>3, <1>4, <1>5, <1>6, FilesCrash DEF Next

(* A file is under one name and is written for that name alone, and what is *)
(* there of the one upload of a name stays whole, unless the name is purged *)
(* or a move copies a file of that name.                                    *)
THEOREM FilesCorrect == Spec => []FilesInv
BY FilesInit, FilesNext, PTL DEF Spec

(* An upload that was answered, whose name no other upload has, is on the   *)
(* disk whole, among the uploads or in the trash, until the name is purged, *)
(* or a move has copied a file of that name because its rename found none.  *)
THEOREM AnswersAreKept == Spec => []AckedIsKept
<1>1. ASSUME FilesInv, NEW t \in acked
      PROVE  LET n == jobs[t].name
             IN  \/ n \in purged \cup copied
                 \/ \E u \in DOMAIN jobs \ {t} : jobs[u].name = n
                 \/ \E dir \in {uploads, trash} :
                        dir[n] # NoOne /\ content[dir[n]] = Bytes(jobs[t].data)
  <2>1. Safe(t)
    BY <1>1 DEF FilesInv, WrittenAreSafe, Written, TypeInv, TypeOK
  <2> QED
    BY <2>1 DEF Safe, Excused, Shared, Under
<1>2. FilesInv => AckedIsKept
  BY <1>1 DEF AckedIsKept
<1> QED
  BY <1>2, FilesCorrect, PTL
=============================================================================
