---------------------------- MODULE UploadsProofs ----------------------------
(***************************************************************************)
(* The safety of resumable uploads for any number of accounts, uploads and *)
(* requests, any document and any limits, with overlapping requests,       *)
(* chunks that break off and restarts of the server.                       *)
(*                                                                         *)
(* The properties are not inductive by themselves: that a file stays a     *)
(* prefix depends on where the chunk being copied comes from, that on the  *)
(* size compared with its offset, and that on the mutex.  UploadInv adds   *)
(* what a request in flight knows (RequestOK) and what holds of an upload  *)
(* whose file nobody is writing to (SessionOK).                            *)
(***************************************************************************)
EXTENDS Uploads, TLAPS

USE UploadAssumption

Live(r) == pc[r] \notin {"new", "done", "dead"}

\* A free mutex is held by nobody.
LEMMA NoneHolds == None \notin Request
BY DEF Request

\* The bytes of a chunk that are left are the document's from here on.
ChunkInPlace(j) ==
  /\ j.offset + j.copied + Len(j.body) <= DocLen
  /\ \A i \in 1..Len(j.body) : j.body[i] = j.offset + j.copied + i

\* What a request has established so far.
RequestOK(r) ==
  /\ Live(r) => job[r].upload \in Upload /\ owner[job[r].upload] # None
  /\ pc[r] \in {"open", "size", "verify", "store", "stamp", "discard", "remove"} =>
       job[r].result # "none"
  /\ pc[r] = "copy" <=> mutex = r
  /\ pc[r] \in {"append", "copy"} => ChunkInPlace(job[r])
  /\ pc[r] = "append" => job[r].copied = 0
  /\ pc[r] = "copy" =>
       /\ job[r].offset = size[job[r].upload]
       /\ Len(file[job[r].upload]) = size[job[r].upload] + job[r].copied

InOrder(s) == Len(s) <= DocLen /\ \A i \in 1..Len(s) : s[i] = i

Copying(u) == \E r \in Request : pc[r] = "copy" /\ job[r].upload = u

\* A session's file; one whose session is gone may have outgrown its size.
SessionOK(u) ==
  /\ owner[u] = None => size[u] = 0 /\ file[u] = <<>> /\ u \notin listed
  /\ InOrder(file[u])
  /\ Len(file[u]) <= MaxUploadBytes + 1
  /\ (u \in listed \/ Busy(u)) /\ ~Copying(u) => size[u] = Len(file[u])

RecordOK(r) == record[r] # None => InOrder(record[r].bytes)

(* The inductive invariant of resumable uploads.                              *)
UploadInv ==
  /\ UploadTypeOK
  /\ \A r \in Request : RequestOK(r) /\ RecordOK(r)
  /\ \A u \in Upload : SessionOK(u)
  /\ ScratchAccounted

-----------------------------------------------------------------------------
(* Types *)

\* The server starts with well-typed tables.
LEMMA UploadTypeInit == UploadInit => UploadTypeOK
BY DEF UploadInit, UploadTypeOK, NoJob, Job, UploadLabels

\* A request that is answered keeps the types.
LEMMA ReplyType ==
  ASSUME UploadTypeOK, NEW r \in Request, NEW s \in UploadAnswers, Reply(r, s)
  PROVE  /\ pc' \in [Request -> UploadLabels] /\ job' \in [Request -> Job]
         /\ answer' \in [Request -> UploadAnswers \cup {None}]
BY DEF Reply, UploadTypeOK, UploadLabels, Job, NoJob

\* So does one that goes on.
LEMMA EnterType ==
  ASSUME UploadTypeOK, NEW r \in Request, NEW l \in UploadLabels, NEW j \in Job, Enter(r, l, j)
  PROVE  /\ pc' \in [Request -> UploadLabels] /\ job' \in [Request -> Job]
         /\ answer' \in [Request -> UploadAnswers \cup {None}]
BY DEF Enter, Goto, UploadTypeOK

\* A piece of the document is a sequence of its bytes, in their places.
LEMMA ChunkType ==
  ASSUME NEW offset \in 0..DocLen, NEW n \in 0..(DocLen - offset)
  PROVE  /\ SubSeq(Document, offset + 1, offset + n) \in Seq(1..DocLen)
         /\ Len(SubSeq(Document, offset + 1, offset + n)) = n
         /\ \A i \in 1..n : SubSeq(Document, offset + 1, offset + n)[i] = offset + i
<1>1. Document \in Seq(1..DocLen) /\ Len(Document) = DocLen
  BY DEF Document
<1>2. \A i \in 1..n : SubSeq(Document, offset + 1, offset + n)[i] = Document[offset + i]
  BY <1>1
<1> QED
  BY <1>1, <1>2 DEF Document

\* Taking the first byte off ...
LEMMA RestOf ==
  ASSUME NEW s \in Seq(1..DocLen), s # <<>>
  PROVE  /\ Len(s) \in Nat \ {0} /\ Head(s) \in 1..DocLen /\ Tail(s) \in Seq(1..DocLen)
         /\ Len(Tail(s)) = Len(s) - 1 /\ Head(s) = s[1]
         /\ \A i \in 1..Len(Tail(s)) : Tail(s)[i] = s[i + 1]
OBVIOUS

\* ... and adding one to the end.
LEMMA Appended ==
  ASSUME NEW s \in Seq(1..DocLen), NEW b \in 1..DocLen
  PROVE  /\ Append(s, b) \in Seq(1..DocLen) /\ Len(Append(s, b)) = Len(s) + 1
         /\ \A i \in 1..Len(s) : Append(s, b)[i] = s[i]
         /\ Append(s, b)[Len(s) + 1] = b
OBVIOUS

-----------------------------------------------------------------------------
(* Steps of one request that touch neither sessions nor files nor the mutex *)

\* What a request in flight may rely on does not depend on the others.
LEMMA Frame ==
  ASSUME UploadInv, NEW r \in Request,
         UNCHANGED <<sessionVars, fileVars, mutex>>,
         \A q \in Request \ {r} : pc'[q] = pc[q] /\ job'[q] = job[q],
         pc[r] \notin {"copy", "list", "remove"}, pc'[r] # "copy",
         Live(r)' => job'[r].upload \in listed \/ (Live(r) /\ job'[r].upload = job[r].upload),
         RequestOK(r)'
  PROVE  /\ \A q \in Request : RequestOK(q)'
         /\ \A u \in Upload : SessionOK(u)'
         /\ ScratchAccounted'
<1>1. ASSUME NEW q \in Request PROVE RequestOK(q)'
  <2>1. CASE q # r
    BY <2>1 DEF UploadInv, RequestOK, Live, sessionVars, fileVars
  <2> QED
    BY <2>1
<1>2. ASSUME NEW u \in Upload PROVE SessionOK(u)'
  <2>1. Copying(u) <=> Copying(u)'
    BY DEF Copying
  <2>2. Busy(u)' => Busy(u) \/ u \in listed
    BY DEF Busy, Live
  <2> QED
    BY <2>1, <2>2 DEF UploadInv, SessionOK, sessionVars, fileVars
<1>3. ScratchAccounted'
  BY DEF UploadInv, ScratchAccounted, sessionVars, fileVars
<1> QED
  BY <1>1, <1>2, <1>3

\* An early return.
LEMMA Replied ==
  ASSUME UploadInv, NEW r \in Request, NEW s \in UploadAnswers, Reply(r, s),
         UNCHANGED <<sessionVars, fileVars, mutex, record>>,
         pc[r] \notin {"copy", "list", "remove"}
  PROVE  UploadInv'
<1>1. UploadTypeOK'
  BY ReplyType DEF UploadInv, UploadTypeOK, sessionVars, fileVars
<1>2. /\ \A q \in Request \ {r} : pc'[q] = pc[q] /\ job'[q] = job[q]
      /\ pc'[r] = "done" /\ job'[r] = NoJob
  BY DEF UploadInv, UploadTypeOK, Reply
<1>3. RequestOK(r)'
  BY <1>2 DEF UploadInv, RequestOK, Live
<1>4. \A q \in Request : RecordOK(q)'
  BY DEF UploadInv, RecordOK
<1> QED
  BY <1>1, <1>2, <1>3, <1>4, Frame DEF UploadInv, Live

\* A request goes on, with new values of its local variables.
LEMMA Entered ==
  ASSUME UploadInv, NEW r \in Request, NEW l \in UploadLabels \ {"copy"}, NEW j \in Job,
         Enter(r, l, j),
         UNCHANGED <<sessionVars, fileVars, mutex, record>>,
         pc[r] \notin {"copy", "list", "remove"},
         j.upload \in listed \/ (Live(r) /\ j.upload = job[r].upload),
         l \notin {"append", "status"} => j.result # "none",
         l = "append" => ChunkInPlace(j) /\ j.copied = 0
  PROVE  UploadInv'
<1>1. UploadTypeOK'
  BY EnterType DEF UploadInv, UploadTypeOK, sessionVars, fileVars
<1>2. /\ \A q \in Request \ {r} : pc'[q] = pc[q] /\ job'[q] = job[q]
      /\ pc'[r] = l /\ job'[r] = j
  BY DEF UploadInv, UploadTypeOK, Enter, Goto
<1>3. j.upload \in Upload /\ owner'[j.upload] # None
  BY DEF UploadInv, UploadTypeOK, RequestOK, SessionOK, sessionVars
<1>4. RequestOK(r)'
  BY <1>2, <1>3 DEF UploadInv, RequestOK, Live, ChunkInPlace
<1>5. \A q \in Request : RecordOK(q)'
  BY DEF UploadInv, RecordOK
<1> QED
  BY <1>1, <1>2, <1>4, <1>5, Frame DEF UploadInv, Live

\* um.get and what follows it at once.
LEMMA GetInv ==
  ASSUME UploadInv, NEW r \in Request, NEW a \in Account, NEW u \in Upload,
         \/ StatusGet(r, a, u)
         \/ \E stamp \in BOOLEAN : InputGet(r, a, u, stamp)
         \/ \E offset \in 0..DocLen : \E n \in 0..(DocLen - offset) : ChunkGet(r, a, u, offset, n)
  PROVE  UploadInv'
<1>. NoJob \in Job
  BY DEF NoJob, Job
<1>0. "not_found" \in UploadAnswers /\ {"status", "open", "append"} \subseteq UploadLabels \ {"copy"}
  BY DEF UploadAnswers, UploadLabels
<1>1. ASSUME StatusGet(r, a, u) PROVE UploadInv'
  <2>1. [NoJob EXCEPT !.upload = u] \in Job /\ [NoJob EXCEPT !.upload = u].upload = u
    BY DEF Job
  <2> QED
    BY <1>0, <1>1, <2>1, Replied, Entered DEF StatusGet, Found, Arrives
<1>2. ASSUME NEW stamp \in BOOLEAN, InputGet(r, a, u, stamp) PROVE UploadInv'
  <2> DEFINE j == [NoJob EXCEPT !.upload = u, !.result = IF stamp THEN "stamped" ELSE "ok"]
  <2>1. j \in Job /\ j.upload = u /\ j.result # "none"
    BY DEF Job
  <2>2. (Found(u, a) /\ Enter(r, "open", j)) \/ Reply(r, "not_found")
    BY <1>2 DEF InputGet
  <2>3. pc[r] = "new" /\ UNCHANGED <<sessionVars, fileVars, mutex, record>>
    BY <1>2 DEF InputGet, Arrives
  <2> HIDE DEF j
  <2> QED
    BY <1>0, <2>1, <2>2, <2>3, Replied, Entered DEF Found
<1>3. ASSUME NEW offset \in 0..DocLen, NEW n \in 0..(DocLen - offset), ChunkGet(r, a, u, offset, n)
      PROVE  UploadInv'
  <2> DEFINE body == SubSeq(Document, offset + 1, offset + n)
             j == [NoJob EXCEPT !.upload = u, !.offset = offset, !.body = body]
  <2>1. (Found(u, a) /\ Enter(r, "append", j)) \/ Reply(r, "not_found")
    BY <1>3 DEF ChunkGet
  <2>2. pc[r] = "new" /\ UNCHANGED <<sessionVars, fileVars, mutex, record>>
    BY <1>3 DEF ChunkGet, Arrives
  <2>3. body \in Seq(1..DocLen) /\ Len(body) = n /\ \A i \in 1..n : body[i] = offset + i
    BY ChunkType
  <2> HIDE DEF body
  <2>4. j \in Job /\ j.upload = u /\ j.copied = 0 /\ j.offset = offset /\ j.body = body
    BY <2>3 DEF NoJob, Job
  <2> HIDE DEF j
  <2>5. ChunkInPlace(j)
    BY <2>3, <2>4 DEF ChunkInPlace
  <2> QED
    BY <1>0, <2>1, <2>2, <2>4, <2>5, Replied, Entered DEF Found
<1> QED
  BY <1>1, <1>2, <1>3

\* hGetUpload's answer, signedInput, hSubmitDocument and hStamp.
LEMMA InputInv ==
  ASSUME UploadInv, NEW r \in Request,
         StatusRead(r) \/ InputOpen(r) \/ InputSize(r) \/ SubmitUpload(r) \/ StampUpload(r)
  PROVE  UploadInv'
<1>0. job \in [Request -> Job] /\ job[r] \in Job
  BY DEF UploadInv, UploadTypeOK
<1>1. ASSUME NEW l \in {"size", "verify", "store", "stamp", "discard"} PROVE l \in UploadLabels \ {"copy"}
  BY DEF UploadLabels
<1>2. ASSUME NEW s \in {"received", "read_error", "too_large", "rejected"} PROVE s \in UploadAnswers
  BY DEF UploadAnswers
<1>3. CASE StatusRead(r)
  BY <1>2, <1>3, Replied DEF StatusRead
<1>4. CASE InputOpen(r)
  <2>1. CASE job[r].upload \in linked
    <3>1. Enter(r, "size", job[r])
      BY <1>0, <1>4, <2>1 DEF InputOpen, Enter, Goto
    <3>2. job[r].result # "none"
      BY <1>4 DEF InputOpen, UploadInv, RequestOK
    <3> QED
      BY <1>0, <1>1, <1>4, <3>1, <3>2, Entered DEF InputOpen, Live
  <2>2. CASE job[r].upload \notin linked
    BY <1>2, <1>4, <2>2, Replied DEF InputOpen
  <2> QED
    BY <2>1, <2>2
<1>5. CASE InputSize(r)
  <2> DEFINE n == size[job[r].upload]
             j == [job[r] EXCEPT !.size = n]
  <2>1. pc[r] = "size" /\ UNCHANGED <<sessionVars, fileVars, mutex, record>>
    BY <1>5 DEF InputSize
  <2>2. n \in Nat
    BY <2>1 DEF UploadInv, UploadTypeOK, RequestOK, Live
  <2>3. Reply(r, "too_large") \/ \E l \in {"verify", "store", "stamp"} : Enter(r, l, j)
    BY <1>5 DEF InputSize
  <2> HIDE DEF n
  <2>4. job[r].result # "none"
    BY <2>1 DEF UploadInv, RequestOK
  <2>5. j \in Job /\ j.upload = job[r].upload /\ j.result # "none"
    BY <1>0, <2>2, <2>4 DEF Job
  <2> HIDE DEF j
  <2> QED
    BY <1>1, <1>2, <2>1, <2>3, <2>5, Replied, Entered DEF Live
<1>6. CASE SubmitUpload(r)
  <2>1. CASE Reply(r, "rejected") /\ UNCHANGED record
    BY <1>2, <1>6, <2>1, Replied DEF SubmitUpload
  <2>2. CASE Goto(r, "discard") /\ UNCHANGED job
    \* The record holds what the scratch file held.
    <3>0. pc[r] \in {"verify", "store"} /\ UNCHANGED <<sessionVars, fileVars, mutex>>
      BY <1>6 DEF SubmitUpload
    <3>1. job[r].upload \in Upload /\ owner[job[r].upload] # None /\ mutex # r
      BY <3>0 DEF UploadInv, RequestOK, Live
    <3>2. Contents(r) \in Seq(1..DocLen) /\ InOrder(Contents(r)) /\ job[r].size \in Nat
      BY <1>0, <3>1 DEF UploadInv, UploadTypeOK, SessionOK, Contents, Job
    <3>3. PICK rec \in RecordType :
            record' = [record EXCEPT ![r] = rec] /\ rec.bytes = Contents(r)
      <4>1. VerifiedRecord(r) \in RecordType /\ VerifiedRecord(r).bytes = Contents(r)
        BY <3>2 DEF RecordType, VerifiedRecord
      <4>2. StoredRecord(r) \in RecordType /\ StoredRecord(r).bytes = Contents(r)
        BY <3>2 DEF RecordType, StoredRecord
      <4> QED
        BY <1>6, <2>2, <3>0, <4>1, <4>2 DEF SubmitUpload, Reply, Goto, UploadInv, UploadTypeOK
    <3>4. pc' = [pc EXCEPT ![r] = "discard"] /\ job' = job /\ answer' = answer
      BY <2>2 DEF Goto
    <3>5. UploadTypeOK'
      BY <1>1, <3>0, <3>3, <3>4 DEF UploadInv, UploadTypeOK, sessionVars, fileVars
    <3>6. \A q \in Request : RecordOK(q)'
      BY <3>2, <3>3 DEF UploadInv, UploadTypeOK, RecordOK, InOrder
    <3>7. /\ \A q \in Request \ {r} : pc'[q] = pc[q] /\ job'[q] = job[q]
          /\ pc'[r] = "discard"
      BY <3>4 DEF UploadInv, UploadTypeOK
    <3>8. job[r].result # "none"
      BY <3>0 DEF UploadInv, RequestOK
    <3>9. RequestOK(r)'
      BY <3>0, <3>1, <3>4, <3>7, <3>8 DEF RequestOK, Live, sessionVars
    <3> QED
      BY <3>0, <3>4, <3>5, <3>6, <3>7, <3>9, Frame DEF UploadInv, Live
  <2> QED
    BY <1>6, <2>1, <2>2 DEF SubmitUpload
<1>7. CASE StampUpload(r)
  <2>1. PICK result \in {"stamped", "stamp_failed"} :
          job' = [job EXCEPT ![r].result = result]
    BY <1>7 DEF StampUpload
  <2> DEFINE j == [job[r] EXCEPT !.result = result]
  <2>2. Enter(r, "discard", j)
    BY <1>0, <1>7, <2>1 DEF StampUpload, Enter
  <2>3. j \in Job /\ j.upload = job[r].upload /\ j.result = result
    BY <1>0 DEF Job
  <2> HIDE DEF j
  <2> QED
    BY <1>1, <1>7, <2>2, <2>3, Entered DEF StampUpload, Live
<1> QED
  BY <1>3, <1>4, <1>5, <1>6, <1>7

-----------------------------------------------------------------------------
(* Creating and discarding *)

\* hCreateUpload makes the file of an upload nobody has used before ...
LEMMA CreateFileInv ==
  ASSUME UploadInv, NEW r \in Request, NEW a \in Account, NEW u \in Upload, CreateFile(r, a, u)
  PROVE  UploadInv'
<1> DEFINE j == [NoJob EXCEPT !.upload = u]
<1>1. j \in Job /\ j.upload = u
  <2>1. NoJob \in Job
    BY DEF NoJob, Job
  <2> QED
    BY <2>1 DEF Job
<1>2. /\ owner[u] = None /\ pc[r] = "new"
      /\ owner' = [owner EXCEPT ![u] = a] /\ linked' = linked \cup {u}
      /\ Enter(r, "list", j)
      /\ UNCHANGED <<size, listed, stale, file, orphaned, mutex, record>>
  BY DEF CreateFile, Arrives
<1> HIDE DEF j
<1>3. "list" \in UploadLabels \ {"copy"}
  BY DEF UploadLabels
<1>4. UploadTypeOK'
  BY <1>1, <1>2, <1>3, EnterType DEF UploadInv, UploadTypeOK
<1>5. /\ \A q \in Request \ {r} : pc'[q] = pc[q] /\ job'[q] = job[q]
      /\ pc'[r] = "list" /\ job'[r] = j
      /\ owner'[u] = a /\ a # None /\ \A v \in Upload \ {u} : owner'[v] = owner[v]
  BY <1>2 DEF UploadInv, UploadTypeOK, Enter, Goto
<1>6. ASSUME NEW q \in Request PROVE RequestOK(q)' /\ RecordOK(q)'
  <2>1. CASE q = r
    BY <1>1, <1>2, <1>5, <2>1 DEF UploadInv, RequestOK, RecordOK, Live
  <2>2. CASE q # r
    BY <1>2, <1>5, <2>2 DEF UploadInv, RequestOK, RecordOK, Live
  <2> QED
    BY <2>1, <2>2
<1>7. ASSUME NEW v \in Upload PROVE SessionOK(v)'
  <2>1. Copying(v) <=> Copying(v)'
    BY <1>2, <1>5 DEF Copying
  <2>2. v # u => (Busy(v)' => Busy(v))
    BY <1>1, <1>5 DEF Busy
  <2>3. Len(<<>>) = 0
    OBVIOUS
  <2> QED
    BY <1>2, <1>5, <2>1, <2>2, <2>3 DEF UploadInv, SessionOK
<1>8. ScratchAccounted'
  BY <1>1, <1>2, <1>5 DEF UploadInv, ScratchAccounted
<1> QED
  BY <1>4, <1>6, <1>7, <1>8 DEF UploadInv

\* ... and lists it.
LEMMA CreateListInv ==
  ASSUME UploadInv, NEW r \in Request, CreateList(r)
  PROVE  UploadInv'
<1>1. /\ pc[r] = "list" /\ listed' = listed \cup {job[r].upload} /\ Reply(r, "created")
      /\ UNCHANGED <<owner, size, stale, fileVars, mutex, record>>
  BY DEF CreateList
<1>2. job[r].upload \in Upload /\ owner[job[r].upload] # None /\ mutex # r
  BY <1>1 DEF UploadInv, RequestOK, Live
<1>3. UploadTypeOK'
  BY <1>1, <1>2, ReplyType DEF UploadInv, UploadTypeOK, fileVars, UploadAnswers
<1>4. /\ \A q \in Request \ {r} : pc'[q] = pc[q] /\ job'[q] = job[q]
      /\ pc'[r] = "done"
  BY <1>1 DEF UploadInv, UploadTypeOK, Reply
<1>5. ASSUME NEW q \in Request PROVE RequestOK(q)' /\ RecordOK(q)'
  BY <1>1, <1>2, <1>4 DEF UploadInv, RequestOK, RecordOK, Live, fileVars
<1>6. ASSUME NEW v \in Upload PROVE SessionOK(v)'
  <2>1. Copying(v) <=> Copying(v)'
    BY <1>1, <1>4 DEF Copying
  <2>2. v \in listed' \/ Busy(v)' => v \in listed \/ Busy(v)
    BY <1>1, <1>4 DEF Busy
  <2> QED
    BY <1>1, <1>2, <2>1, <2>2 DEF UploadInv, SessionOK, fileVars
<1>7. ScratchAccounted'
  BY <1>1, <1>4 DEF UploadInv, ScratchAccounted, fileVars
<1> QED
  BY <1>3, <1>5, <1>6, <1>7 DEF UploadInv

\* um.discard: the entry goes first, the file is then this request's to remove ...
LEMMA DiscardDeleteInv ==
  ASSUME UploadInv, NEW r \in Request, DiscardDelete(r)
  PROVE  UploadInv'
<1>1. /\ pc[r] = "discard" /\ listed' = listed \ {job[r].upload} /\ stale' \subseteq stale
      /\ pc' = [pc EXCEPT ![r] = "remove"]
      /\ UNCHANGED <<owner, size, fileVars, mutex, job, answer, record>>
  BY DEF DiscardDelete, Goto
<1>2. UploadTypeOK'
  BY <1>1 DEF UploadInv, UploadTypeOK, fileVars, UploadLabels
<1>3. /\ \A q \in Request \ {r} : pc'[q] = pc[q]
      /\ pc'[r] = "remove"
  BY <1>1 DEF UploadInv, UploadTypeOK
<1>4. ASSUME NEW q \in Request PROVE RequestOK(q)' /\ RecordOK(q)'
  BY <1>1, <1>3 DEF UploadInv, RequestOK, RecordOK, Live, fileVars
<1>5. ASSUME NEW v \in Upload PROVE SessionOK(v)'
  <2>1. Copying(v) <=> Copying(v)'
    BY <1>1, <1>3 DEF Copying
  <2>2. v \in listed' \/ Busy(v)' => v \in listed \/ Busy(v)
    BY <1>1, <1>3 DEF Busy
  <2> QED
    BY <1>1, <2>1, <2>2 DEF UploadInv, SessionOK, fileVars
<1>6. ScratchAccounted'
  BY <1>1, <1>3 DEF UploadInv, ScratchAccounted, fileVars
<1> QED
  BY <1>2, <1>4, <1>5, <1>6 DEF UploadInv

\* ... which it does, and then answers.
LEMMA DiscardRemoveInv ==
  ASSUME UploadInv, NEW r \in Request, DiscardRemove(r)
  PROVE  UploadInv'
<1>1. /\ pc[r] = "remove" /\ linked' = linked \ {job[r].upload} /\ Reply(r, job[r].result)
      /\ UNCHANGED <<sessionVars, file, orphaned, mutex, record>>
  BY DEF DiscardRemove
<1>2. job[r].result \in UploadAnswers /\ mutex # r
  BY <1>1 DEF UploadInv, UploadTypeOK, RequestOK, Job, UploadAnswers
<1>3. UploadTypeOK'
  BY <1>1, <1>2, ReplyType DEF UploadInv, UploadTypeOK, sessionVars
<1>4. /\ \A q \in Request \ {r} : pc'[q] = pc[q] /\ job'[q] = job[q]
      /\ pc'[r] = "done"
  BY <1>1 DEF UploadInv, UploadTypeOK, Reply
<1>5. ASSUME NEW q \in Request PROVE RequestOK(q)' /\ RecordOK(q)'
  BY <1>1, <1>2, <1>4 DEF UploadInv, RequestOK, RecordOK, Live, sessionVars
<1>6. ASSUME NEW v \in Upload PROVE SessionOK(v)'
  <2>1. Copying(v) <=> Copying(v)'
    BY <1>1, <1>4 DEF Copying
  <2>2. Busy(v)' => Busy(v)
    BY <1>4 DEF Busy
  <2> QED
    BY <1>1, <2>1, <2>2 DEF UploadInv, SessionOK, sessionVars
<1>7. ScratchAccounted'
  BY <1>1, <1>4 DEF UploadInv, ScratchAccounted, sessionVars
<1> QED
  BY <1>3, <1>5, <1>6, <1>7 DEF UploadInv

-----------------------------------------------------------------------------
(* appendChunk *)

\* The copy begins where the file ends, because the offset is the size.
LEMMA AppendBeginInv ==
  ASSUME UploadInv, NEW r \in Request, AppendBegin(r)
  PROVE  UploadInv'
<1>0. pc[r] = "append" /\ mutex = None /\ UNCHANGED <<sessionVars, fileVars, record>>
  BY DEF AppendBegin, Free
<1>1. CASE UNCHANGED mutex
  <2>1. \E s \in {"offset_mismatch", "write_error"} : Reply(r, s)
    BY <1>0, <1>1, NoneHolds DEF AppendBegin
  <2> QED
    BY <1>0, <1>1, <2>1, Replied DEF UploadAnswers
<1>2. CASE OffsetMatches(r) /\ mutex' = r /\ Goto(r, "copy") /\ UNCHANGED job
  <2>1. pc' = [pc EXCEPT ![r] = "copy"] /\ job' = job /\ answer' = answer /\ mutex' = r
    BY <1>2 DEF Goto
  <2>2. UploadTypeOK'
    BY <1>0, <2>1 DEF UploadInv, UploadTypeOK, sessionVars, fileVars, UploadLabels
  <2>3. pc'[r] = "copy" /\ \A q \in Request \ {r} : pc'[q] = pc[q] /\ pc[q] # "copy"
    BY <1>0, <2>1, NoneHolds DEF UploadInv, UploadTypeOK, RequestOK
  <2>4. /\ job[r].upload \in Upload /\ Busy(job[r].upload) /\ ~Copying(job[r].upload)
        /\ job[r].offset = size[job[r].upload] /\ job[r].copied = 0 /\ ChunkInPlace(job[r])
        /\ size[job[r].upload] \in Nat /\ owner[job[r].upload] # None
    BY <1>0, <1>2, <2>3 DEF UploadInv, UploadTypeOK, RequestOK, Live, Busy, Copying, OffsetMatches
  <2>5. Len(file[job[r].upload]) = size[job[r].upload] + job[r].copied
    BY <2>4 DEF UploadInv, SessionOK
  <2>6. ASSUME NEW q \in Request PROVE RequestOK(q)' /\ RecordOK(q)'
    <3>1. CASE q = r
      BY <1>0, <2>1, <2>3, <2>4, <2>5, <3>1
      DEF UploadInv, RequestOK, RecordOK, ChunkInPlace, Live, sessionVars, fileVars
    <3>2. CASE q # r
      BY <1>0, <2>1, <2>3, <3>2
      DEF UploadInv, RequestOK, RecordOK, ChunkInPlace, Live, sessionVars, fileVars
    <3> QED
      BY <3>1, <3>2
  <2>7. ASSUME NEW v \in Upload PROVE SessionOK(v)'
    <3>1. Copying(v) => Copying(v)'
      BY <2>1, <2>3 DEF Copying
    <3>2. Busy(v)' => Busy(v)
      BY <1>0, <2>1, <2>3 DEF Busy
    <3> QED
      BY <1>0, <3>1, <3>2 DEF UploadInv, SessionOK, sessionVars, fileVars
  <2>8. ScratchAccounted'
    BY <1>0, <2>1, <2>3 DEF UploadInv, ScratchAccounted, sessionVars, fileVars
  <2> QED
    BY <2>2, <2>6, <2>7, <2>8 DEF UploadInv
<1> QED
  BY <1>1, <1>2 DEF AppendBegin

\* Nobody else writes to a file that is being copied to.
LEMMA OneCopy ==
  ASSUME UploadInv, NEW r \in Request, pc[r] = "copy"
  PROVE  /\ mutex = r /\ job[r].upload \in Upload /\ owner[job[r].upload] # None
         /\ \A q \in Request \ {r} : pc[q] # "copy"
         /\ \A v \in Upload : Copying(v) <=> v = job[r].upload
BY DEF UploadInv, RequestOK, Live, Copying

\* The rest of a chunk (s, from position o + c on) and the file (f) after one
\* more byte: the next one of the document.
LEMMA NextByte ==
  ASSUME NEW s \in Seq(1..DocLen), s # <<>>, NEW o \in Nat, NEW c \in Nat,
         o + c + Len(s) <= DocLen, \A i \in 1..Len(s) : s[i] = o + c + i,
         NEW f \in Seq(1..DocLen), InOrder(f),
         Len(f) = o + c, o + c <= MaxUploadBytes + 1, o + c # MaxUploadBytes + 1
  PROVE  /\ o + (c + 1) + Len(Tail(s)) <= DocLen
         /\ \A i \in 1..Len(Tail(s)) : Tail(s)[i] = o + (c + 1) + i
         /\ Tail(s) \in Seq(1..DocLen)
         /\ Append(f, Head(s)) \in Seq(1..DocLen) /\ Len(Append(f, Head(s))) = o + (c + 1)
         /\ InOrder(Append(f, Head(s))) /\ o + (c + 1) <= MaxUploadBytes + 1
<1>1. PICK t \in Seq(1..DocLen) :
        /\ t = Tail(s) /\ Len(s) \in Nat \ {0} /\ Len(t) = Len(s) - 1
        /\ \A i \in 1..Len(t) : t[i] = s[i + 1]
  BY RestOf
<1>2. o + (c + 1) + Len(t) <= DocLen /\ \A i \in 1..Len(t) : t[i] = o + (c + 1) + i
  <2>1. \A i \in 1..Len(t) : i + 1 \in 1..Len(s)
    BY <1>1
  <2> QED
    BY <1>1, <2>1
<1>3. PICK b \in 1..DocLen : b = Head(s) /\ b = Len(f) + 1
  <2>1. Head(s) = s[1] /\ 1 \in 1..Len(s)
    BY <1>1, RestOf
  <2> QED
    BY <1>1, <2>1
<1>4. PICK g \in Seq(1..DocLen) :
        /\ g = Append(f, b) /\ Len(g) = Len(f) + 1
        /\ \A i \in 1..Len(f) : g[i] = f[i]
        /\ g[Len(f) + 1] = b
  BY Appended
<1>5. InOrder(g) /\ Len(g) = o + (c + 1)
  BY <1>3, <1>4 DEF InOrder
<1> QED
  BY <1>1, <1>2, <1>3, <1>4, <1>5

\* io.Copy moves one byte.
LEMMA CopyByteInv ==
  ASSUME UploadInv, NEW r \in Request, CopyByte(r)
  PROVE  UploadInv'
<1> DEFINE u == job[r].upload
           k == [job[r] EXCEPT !.body = Tail(job[r].body), !.copied = job[r].copied + 1]
           g == Append(file[u], Head(job[r].body))
<1>0. pc[r] = "copy" /\ u \in Upload /\ mutex = r
  BY OneCopy DEF CopyByte
<1>1. /\ file' = [file EXCEPT ![u] = Append(@, Head(job[r].body))]
      /\ job' = [job EXCEPT ![r].body = Tail(@), ![r].copied = @ + 1]
      /\ UNCHANGED <<sessionVars, linked, orphaned, mutex, pc, answer, record>>
      /\ job[r].body # <<>> /\ job[r].copied # CopyLimit(r)
  BY DEF CopyByte, CopyComplete
<1>2. /\ job[r] \in Job /\ job[r].copied \in Nat /\ file[u] \in Seq(1..DocLen) /\ size[u] \in Nat
  BY <1>0 DEF UploadInv, UploadTypeOK, Job
<1>3. /\ ChunkInPlace(job[r])
      /\ job[r].offset = size[u] /\ Len(file[u]) = size[u] + job[r].copied
      /\ InOrder(file[u]) /\ Len(file[u]) <= MaxUploadBytes + 1
  BY <1>0 DEF UploadInv, RequestOK, SessionOK
<1>4. Len(file[u]) # MaxUploadBytes + 1
  <2>1. job[r].copied # MaxUploadBytes - size[u] + 1
    BY <1>1 DEF CopyLimit
  <2>2. size[u] \in Nat /\ job[r].copied \in Nat /\ Len(file[u]) = size[u] + job[r].copied
    BY <1>2, <1>3
  <2> HIDE DEF u
  <2> QED
    BY <2>1, <2>2
<1>5. /\ k \in Job /\ k.upload = u /\ k.offset = job[r].offset
      /\ ChunkInPlace(k) /\ Len(g) = k.offset + k.copied
      /\ g \in Seq(1..DocLen) /\ InOrder(g) /\ Len(g) <= MaxUploadBytes + 1
  <2>1. PICK s \in Seq(1..DocLen), o \in Nat, c \in Nat, f \in Seq(1..DocLen) :
          s = job[r].body /\ o = job[r].offset /\ c = job[r].copied /\ f = file[u]
    BY <1>2 DEF Job
  <2>2. /\ s # <<>> /\ o + c + Len(s) <= DocLen /\ \A i \in 1..Len(s) : s[i] = o + c + i
        /\ InOrder(f) /\ Len(f) = o + c /\ Len(f) <= MaxUploadBytes + 1 /\ Len(f) # MaxUploadBytes + 1
    BY <1>1, <1>3, <1>4, <2>1 DEF ChunkInPlace
  <2>3. /\ o + (c + 1) + Len(Tail(s)) <= DocLen
        /\ \A i \in 1..Len(Tail(s)) : Tail(s)[i] = o + (c + 1) + i
        /\ Tail(s) \in Seq(1..DocLen)
        /\ Append(f, Head(s)) \in Seq(1..DocLen) /\ Len(Append(f, Head(s))) = o + (c + 1)
        /\ InOrder(Append(f, Head(s))) /\ o + (c + 1) <= MaxUploadBytes + 1
    BY <2>2, NextByte
  <2>4. k = [job[r] EXCEPT !.body = Tail(s), !.copied = c + 1] /\ g = Append(f, Head(s))
    BY <2>1
  <2> HIDE DEF k, g
  <2>5. PICK t \in Seq(1..DocLen) : t = Tail(s)
    BY <2>3
  <2>6. PICK d \in Nat : d = c + 1
    OBVIOUS
  <2>7. k \in Job /\ k.body = t /\ k.copied = d /\ k.upload = job[r].upload /\ k.offset = job[r].offset
    <3>1. k = [job[r] EXCEPT !.body = t, !.copied = d]
      BY <2>4, <2>5, <2>6
    <3> QED
      BY <1>2, <3>1 DEF Job
  <2>8. /\ o + d + Len(t) <= DocLen /\ \A i \in 1..Len(t) : t[i] = o + d + i
        /\ g \in Seq(1..DocLen) /\ InOrder(g) /\ Len(g) = o + d /\ o + d <= MaxUploadBytes + 1
    BY <2>3, <2>4, <2>5, <2>6
  <2>9. k.offset = o /\ k.copied = d /\ k.body = t
    BY <2>1, <2>7
  <2>10. ChunkInPlace(k)
    BY <2>8, <2>9 DEF ChunkInPlace
  <2> QED
    BY <2>7, <2>8, <2>9, <2>10
<1>6. /\ job' \in [Request -> Job] /\ job'[r] = k /\ \A q \in Request \ {r} : job'[q] = job[q]
      /\ file' \in [Upload -> Seq(1..DocLen)]
      /\ file'[u] = g /\ \A v \in Upload \ {u} : file'[v] = file[v]
  <2>1. job' = [job EXCEPT ![r] = k] /\ file' = [file EXCEPT ![u] = g]
    BY <1>0, <1>1 DEF UploadInv, UploadTypeOK
  <2> HIDE DEF k, g
  <2> QED
    BY <1>0, <1>5, <2>1 DEF UploadInv, UploadTypeOK
<1> HIDE DEF u, k, g
<1>7. UploadTypeOK'
  BY <1>1, <1>6 DEF UploadInv, UploadTypeOK, sessionVars
<1>8. ASSUME NEW q \in Request PROVE RequestOK(q)' /\ RecordOK(q)'
  <2>1. CASE q = r
    <3>1. owner[u] # None
      BY <1>0 DEF UploadInv, RequestOK, Live, u
    <3>2. Len(file'[u]) = size[u] + job'[r].copied
      <4>1. k.offset = size[u] /\ Len(g) = k.offset + k.copied
        BY <1>3, <1>5
      <4>2. file'[u] = g /\ job'[r] = k
        BY <1>6
      <4> QED
        BY <4>1, <4>2
    <3>3. job'[r].upload = u /\ job'[r].offset = size[u] /\ ChunkInPlace(job'[r])
      BY <1>3, <1>5, <1>6
    <3>4. UNCHANGED <<owner, size, mutex, pc, record>>
      BY <1>1 DEF sessionVars
    <3> QED
      BY <1>0, <2>1, <3>1, <3>2, <3>3, <3>4
      DEF UploadInv, RequestOK, RecordOK, Live, ChunkInPlace
  <2>2. CASE q # r
    BY <1>0, <1>1, <1>6, <2>2, OneCopy
    DEF UploadInv, RequestOK, RecordOK, Live, sessionVars, ChunkInPlace
  <2> QED
    BY <2>1, <2>2
<1>9. ASSUME NEW v \in Upload PROVE SessionOK(v)'
  <2>1. Copying(v)' <=> v = u
    BY <1>0, <1>1, <1>5, <1>6, OneCopy DEF Copying, u
  <2>2. Copying(v) <=> v = u
    BY <1>0, OneCopy DEF u
  <2>3. Busy(v)' => Busy(v)
    BY <1>1, <1>5, <1>6 DEF Busy, u
  <2>4. owner[u] # None
    BY <1>0 DEF UploadInv, RequestOK, Live, u
  <2>5. UNCHANGED <<size, owner, listed>>
    BY <1>1 DEF sessionVars
  <2>6. InOrder(g) /\ Len(g) <= MaxUploadBytes + 1 /\ file'[u] = g
    BY <1>5, <1>6
  <2>7. CASE v = u
    BY <2>1, <2>4, <2>5, <2>6, <2>7 DEF SessionOK, InOrder
  <2>8. CASE v # u
    BY <1>6, <2>1, <2>2, <2>3, <2>5, <2>8 DEF UploadInv, SessionOK
  <2> QED
    BY <2>7, <2>8
<1>10. ScratchAccounted'
  <2>1. \A q \in Request : job'[q].upload = job[q].upload
    BY <1>5, <1>6 DEF u
  <2>2. UNCHANGED <<listed, linked, orphaned, pc>>
    BY <1>1 DEF sessionVars
  <2> QED
    BY <2>1, <2>2 DEF UploadInv, ScratchAccounted
<1> QED
  BY <1>7, <1>8, <1>9, <1>10 DEF UploadInv

\* Afterwards the size counts what was copied, complete or not.
LEMMA CopyEndInv ==
  ASSUME UploadInv, NEW r \in Request, CopyEnd(r)
  PROVE  UploadInv'
<1> DEFINE u == job[r].upload
<1>0. /\ pc[r] = "copy" /\ u \in Upload /\ mutex = r /\ owner[u] # None
      /\ \A q \in Request \ {r} : pc[q] # "copy"
      /\ \A v \in Upload : Copying(v) <=> v = u
  BY OneCopy DEF CopyEnd
<1>1. /\ size' = [size EXCEPT ![u] = @ + job[r].copied] /\ stale' \subseteq stale /\ mutex' = None
      /\ UNCHANGED <<owner, listed, fileVars, record>>
      /\ \/ \E s \in {"write_error", "received"} : Reply(r, s)
         \/ Goto(r, "discard") /\ job' = [job EXCEPT ![r].result = "too_large"]
  BY DEF CopyEnd, SizeAfter
<1>2. job[r] \in Job /\ job[r].copied \in Nat /\ size[u] \in Nat
  BY <1>0 DEF UploadInv, UploadTypeOK, Job
<1>3. size' \in [Upload -> Nat] /\ size'[u] = size[u] + job[r].copied
      /\ \A v \in Upload \ {u} : size'[v] = size[v]
  BY <1>0, <1>1, <1>2 DEF UploadInv, UploadTypeOK
<1>4. size'[u] = Len(file'[u])
  BY <1>0, <1>1, <1>3 DEF UploadInv, RequestOK, fileVars
<1>5. /\ pc' \in [Request -> UploadLabels] /\ job' \in [Request -> Job]
      /\ answer' \in [Request -> UploadAnswers \cup {None}]
      /\ \A q \in Request \ {r} : pc'[q] = pc[q] /\ job'[q] = job[q]
      /\ \/ pc'[r] = "done"
         \/ pc'[r] = "discard" /\ job'[r].upload = u /\ job'[r].result = "too_large"
  <2>1. ASSUME NEW s \in {"write_error", "received"}, Reply(r, s) PROVE <1>5!:
    BY <2>1, ReplyType DEF UploadInv, UploadTypeOK, UploadAnswers, Reply
  <2>2. CASE Goto(r, "discard") /\ job' = [job EXCEPT ![r].result = "too_large"]
    BY <1>2, <2>2 DEF UploadInv, UploadTypeOK, Goto, UploadLabels, Job
  <2> QED
    BY <1>1, <2>1, <2>2
<1> HIDE DEF u
<1>6. UploadTypeOK'
  BY <1>1, <1>3, <1>5 DEF UploadInv, UploadTypeOK, fileVars
<1>7. ASSUME NEW q \in Request PROVE RequestOK(q)' /\ RecordOK(q)'
  <2>1. CASE q = r
    BY <1>0, <1>1, <1>5, <2>1, NoneHolds DEF UploadInv, RequestOK, RecordOK, Live
  <2>2. CASE q # r
    BY <1>0, <1>1, <1>5, <2>2, NoneHolds DEF UploadInv, RequestOK, RecordOK, Live, ChunkInPlace
  <2> QED
    BY <2>1, <2>2
<1>8. ASSUME NEW v \in Upload PROVE SessionOK(v)'
  <2>1. Busy(v)' => Busy(v)
    BY <1>0, <1>5 DEF Busy, u
  <2>2. CASE v = u
    BY <1>0, <1>1, <1>4, <2>2 DEF UploadInv, SessionOK, fileVars
  <2>3. CASE v # u
    BY <1>0, <1>1, <1>3, <2>1, <2>3 DEF UploadInv, SessionOK, fileVars
  <2> QED
    BY <2>2, <2>3
<1>9. ScratchAccounted'
  BY <1>0, <1>1, <1>5 DEF UploadInv, ScratchAccounted, fileVars
<1> QED
  BY <1>6, <1>7, <1>8, <1>9 DEF UploadInv

-----------------------------------------------------------------------------
(* Time and restarts *)

\* Ageing and reaping take sessions away, with their files.
LEMMA ReapInv ==
  ASSUME UploadInv, Reap \/ \E u \in Upload : GrowOld(u)
  PROVE  UploadInv'
<1>1. /\ UNCHANGED <<owner, size, file, orphaned, mutex, pc, job, answer, record>>
      /\ listed' \subseteq listed /\ linked' \subseteq linked /\ stale' \subseteq Upload
      /\ linked' \cap listed \subseteq listed'
  BY DEF Reap, GrowOld, ExpiredFiles, fileVars, UploadInv, UploadTypeOK
<1>2. UploadTypeOK'
  BY <1>1 DEF UploadInv, UploadTypeOK
<1>3. \A q \in Request : RequestOK(q)' /\ RecordOK(q)'
  BY <1>1 DEF UploadInv, RequestOK, RecordOK, Live
<1>4. \A v \in Upload : SessionOK(v)'
  BY <1>1 DEF UploadInv, SessionOK, Busy, Copying
<1>5. ScratchAccounted'
  BY <1>1 DEF UploadInv, ScratchAccounted
<1> QED
  BY <1>2, <1>3, <1>4, <1>5 DEF UploadInv

\* After a restart nobody is left who could use an old session.
LEMMA RestartInv ==
  ASSUME UploadInv, Restart
  PROVE  UploadInv'
<1>1. /\ listed' = {} /\ orphaned' = orphaned \cup linked /\ mutex' = None /\ stale' = {}
      /\ pc' = [r \in Request |-> IF pc[r] \in {"new", "done"} THEN pc[r] ELSE "dead"]
      /\ job' = [r \in Request |-> NoJob]
      /\ UNCHANGED <<owner, size, file, linked, answer, record>>
  BY DEF Restart
<1>2. \A r \in Request : pc'[r] \in {"new", "done", "dead"}
  BY <1>1
<1>3. UploadTypeOK'
  <2>1. NoJob \in Job
    BY DEF NoJob, Job
  <2>2. pc' \in [Request -> UploadLabels] /\ job' \in [Request -> Job]
    BY <1>1, <2>1 DEF UploadInv, UploadTypeOK, UploadLabels
  <2> QED
    BY <1>1, <2>2 DEF UploadInv, UploadTypeOK
<1>4. \A q \in Request : RequestOK(q)' /\ RecordOK(q)'
  BY <1>1, <1>2, NoneHolds DEF UploadInv, RequestOK, RecordOK, Live
<1>5. \A v \in Upload : SessionOK(v)'
  BY <1>1, <1>2 DEF UploadInv, SessionOK, Busy
<1>6. ScratchAccounted'
  BY <1>1 DEF ScratchAccounted
<1> QED
  BY <1>3, <1>4, <1>5, <1>6 DEF UploadInv

-----------------------------------------------------------------------------
(* The theorems *)

\* A server that has just started satisfies the invariant ...
LEMMA UploadInitInv == UploadInit => UploadInv
<1> SUFFICES ASSUME UploadInit PROVE UploadInv
  OBVIOUS
<1>1. \A r \in Request : RequestOK(r) /\ RecordOK(r)
  BY NoneHolds DEF UploadInit, RequestOK, RecordOK, Live
<1>2. \A u \in Upload : SessionOK(u)
  BY DEF UploadInit, SessionOK, Busy, InOrder
<1> QED
  BY <1>1, <1>2, UploadTypeInit DEF UploadInit, UploadInv, ScratchAccounted

\* ... and every step keeps it.
LEMMA UploadNextInv == UploadInv /\ [UploadNext]_uploadVars => UploadInv'
<1> SUFFICES ASSUME UploadInv, [UploadNext]_uploadVars PROVE UploadInv'
  OBVIOUS
<1>1. CASE UNCHANGED uploadVars
  <2>1. UNCHANGED <<owner, size, listed, stale, file, linked, orphaned, mutex, pc, job, answer, record>>
    BY <1>1 DEF uploadVars, sessionVars, fileVars
  <2> QED
    BY <2>1 DEF UploadInv, UploadTypeOK, RequestOK, RecordOK, SessionOK, ScratchAccounted, Live,
                Busy, Copying
<1>2. ASSUME NEW r \in Request, UploadStep(r) PROVE UploadInv'
  BY <1>2, CreateListInv, AppendBeginInv, CopyByteInv, CopyEndInv, DiscardDeleteInv,
     DiscardRemoveInv, InputInv
  DEF UploadStep
<1>3. ASSUME NEW r \in Request, NEW a \in Account, NEW u \in Upload,
             \/ CreateFile(r, a, u)
             \/ StatusGet(r, a, u)
             \/ \E stamp \in BOOLEAN : InputGet(r, a, u, stamp)
             \/ \E offset \in 0..DocLen : \E n \in 0..(DocLen - offset) : ChunkGet(r, a, u, offset, n)
      PROVE  UploadInv'
  BY <1>3, CreateFileInv, GetInv
<1> QED
  BY <1>1, <1>2, <1>3, ReapInv, RestartInv DEF UploadNext

(* The inductive invariant: what a request has established about its upload   *)
(* stays true until it uses it, whatever other requests, the reaper and       *)
(* restarts do.                                                               *)
THEOREM UploadInvariance == UploadSpec => []UploadInv
BY UploadInitInv, UploadNextInv, PTL DEF UploadSpec

(* Sessions, requests, answers and records keep their types.                  *)
THEOREM UploadTypeCorrect == UploadSpec => []UploadTypeOK
<1>1. UploadInv => UploadTypeOK
  BY DEF UploadInv
<1> QED
  BY UploadInvariance, <1>1, PTL

(* A sequence of bytes in their places is a prefix of the document.           *)
LEMMA InOrderIsPrefix ==
  ASSUME NEW s \in Seq(1..DocLen), InOrder(s)
  PROVE  s \in Prefixes
<1>1. Document \in Seq(1..DocLen) /\ Len(Document) = DocLen /\ \A i \in 1..DocLen : Document[i] = i
  BY DEF Document
<1>2. PICK n \in 0..DocLen : n = Len(s)
  BY DEF InOrder
<1>3. /\ SubSeq(Document, 1, n) \in Seq(1..DocLen) /\ Len(SubSeq(Document, 1, n)) = n
      /\ \A i \in 1..n : SubSeq(Document, 1, n)[i] = Document[i]
  BY <1>1
<1>4. \A i \in 1..n : SubSeq(Document, 1, n)[i] = s[i]
  BY <1>1, <1>2, <1>3 DEF InOrder
<1>5. s = SubSeq(Document, 1, n)
  BY <1>2, <1>3, <1>4
<1> QED
  BY <1>5 DEF Prefixes

(* Whatever chunks are repeated, reordered, cut off or raced, scratch files   *)
(* and the documents recorded from them are prefixes of the document that is  *)
(* sent (uploads.go:94-115).                                                  *)
THEOREM UploadsArePrefixes == UploadSpec => []UploadIsPrefix
<1>1. UploadInv => UploadIsPrefix
  <2> SUFFICES ASSUME UploadInv PROVE UploadIsPrefix
    OBVIOUS
  <2>1. \A u \in Upload : file[u] \in Prefixes
    BY InOrderIsPrefix DEF UploadInv, UploadTypeOK, SessionOK
  <2>2. ASSUME NEW r \in Request, record[r] # None PROVE record[r].bytes \in Prefixes
    <3>1. record[r] \in RecordType
      BY <2>2 DEF UploadInv, UploadTypeOK
    <3> QED
      BY <2>2, <3>1, InOrderIsPrefix DEF UploadInv, RecordOK, RecordType
  <2> QED
    BY <2>1, <2>2 DEF UploadIsPrefix
<1> QED
  BY UploadInvariance, <1>1, PTL

(* Unless a chunk is being copied, the size a session reports is the length   *)
(* of its file, so a client that asks resumes where the file ends             *)
(* (uploads.go:105-107).                                                      *)
THEOREM SizeIsTruthful == UploadSpec => []SizeMatchesFile
<1>1. UploadInv => SizeMatchesFile
  <2> SUFFICES ASSUME UploadInv, Free PROVE \A u \in listed : size[u] = Len(file[u])
    BY DEF SizeMatchesFile
  <2>1. \A u \in Upload : ~Copying(u)
    BY NoneHolds DEF UploadInv, RequestOK, Free, Copying
  <2> QED
    BY <2>1 DEF UploadInv, UploadTypeOK, SessionOK
<1> QED
  BY UploadInvariance, <1>1, PTL

(* No scratch file outgrows the limit by more than the byte that shows it is  *)
(* exceeded (uploads.go:105).                                                 *)
THEOREM DiskIsBounded == UploadSpec => []UploadsBounded
<1>1. UploadInv => UploadsBounded
  BY DEF UploadInv, SessionOK, UploadsBounded
<1> QED
  BY UploadInvariance, <1>1, PTL

(* A scratch file that no restart has orphaned has a session the reaper will  *)
(* find or a request that is about to list or remove it (uploads.go:52-63).   *)
THEOREM NoScratchLeaks == UploadSpec => []ScratchAccounted
<1>1. UploadInv => ScratchAccounted
  BY DEF UploadInv
<1> QED
  BY UploadInvariance, <1>1, PTL
=============================================================================
