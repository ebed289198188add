------------------------------ MODULE Uploads -------------------------------
(***************************************************************************)
(* Resumable uploads in the receiver (server/internal/api/uploads.go) and  *)
(* the two handlers that consume them, hSubmitDocument and hStamp, through *)
(* signedInput.  Every session has a scratch file; um.mu guards the map of *)
(* sessions and is held while a chunk is read from the network.            *)
(*                                                                         *)
(* A client sends pieces of one document, each at its own position, in any *)
(* order, more than once, and loses connections half-way.  A scratch file  *)
(* is only ever appended to, so whoever reads it to the end gets what it   *)
(* holds at that moment, also after it was removed (the descriptor stays). *)
(***************************************************************************)
EXTENDS Integers, Sequences, FiniteSets

CONSTANTS
  Account, Upload,
  MaxRequests,     \* bound: requests that arrive
  DocLen,          \* bytes of the document the clients send
  MaxUploadBytes, MaxVerifyBytes, MaxStampBytes,
  Overlap,         \* whether requests for one upload may overlap
  MayRestart,      \* whether the server process may be restarted
  None

ASSUME UploadAssumption ==
  /\ DocLen \in Nat /\ MaxRequests \in Nat
  /\ MaxVerifyBytes \in Nat /\ MaxUploadBytes \in Nat /\ MaxStampBytes \in Nat
  /\ MaxVerifyBytes <= MaxUploadBytes /\ MaxStampBytes <= MaxUploadBytes
  /\ Overlap \in BOOLEAN /\ MayRestart \in BOOLEAN
  /\ None \notin Account \cup Upload /\ None \notin Nat

\* Requests are numbered in the order of their arrival.
Request == 1..MaxRequests

VARIABLES
  owner,   \* [Upload -> None or the account that created the session]
  size,    \* [Upload -> uploadSession.size]
  listed,  \* sessions in the map (um.m)
  stale,   \* sessions whose last chunk is more than two hours old
  file,    \* [Upload -> content of its scratch file]
  linked,  \* uploads whose scratch file is still in the directory
  orphaned, \* (history) files that a restart has left behind
  mutex,   \* None or the request that holds um.mu
  pc, job, \* progress and local variables of the requests
  answer,  \* [Request -> None or the status of the answer]
  record   \* [Request -> None or the document it recorded]

sessionVars == <<owner, size, listed, stale>>
fileVars    == <<file, linked, orphaned>>
uploadVars  == <<sessionVars, fileVars, mutex, pc, job, answer, record>>

\* The document, by the position of its bytes.
Document == [i \in 1..DocLen |-> i]
Prefixes == {SubSeq(Document, 1, n) : n \in 0..DocLen}

Job == [upload : Upload \cup {None}, offset : 0..DocLen, body : Seq(1..DocLen),
        copied : Nat, size : Nat, result : {"none", "too_large", "ok", "stamped", "stamp_failed"}]
NoJob == [upload |-> None, offset |-> 0, body |-> <<>>, copied |-> 0, size |-> 0, result |-> "none"]

UploadLabels == {"new", "done", "dead", "list", "append", "copy", "discard", "remove",
                 "status", "open", "size", "verify", "store", "stamp"}
UploadAnswers == {"created", "received", "offset_mismatch", "write_error", "too_large",
                  "not_found", "read_error", "rejected", "ok", "stamped", "stamp_failed"}
RecordType == [bytes : Seq(1..DocLen), size : Nat, tier : {"verified", "store_only"}]

UploadTypeOK ==
  /\ owner \in [Upload -> Account \cup {None}]
  /\ size \in [Upload -> Nat]
  /\ listed \in SUBSET Upload /\ stale \in SUBSET Upload
  /\ file \in [Upload -> Seq(1..DocLen)]
  /\ linked \in SUBSET Upload /\ orphaned \in SUBSET Upload
  /\ mutex \in Request \cup {None}
  /\ pc \in [Request -> UploadLabels]
  /\ job \in [Request -> Job]
  /\ answer \in [Request -> UploadAnswers \cup {None}]
  /\ record \in [Request -> RecordType \cup {None}]

UploadInit ==
  /\ owner = [u \in Upload |-> None]
  /\ size = [u \in Upload |-> 0]
  /\ listed = {} /\ stale = {}
  /\ file = [u \in Upload |-> <<>>]
  /\ linked = {} /\ orphaned = {}
  /\ mutex = None
  /\ pc = [r \in Request |-> "new"]
  /\ job = [r \in Request |-> NoJob]
  /\ answer = [r \in Request |-> None]
  /\ record = [r \in Request |-> None]

-----------------------------------------------------------------------------
Free == mutex = None

Goto(r, label) == pc' = [pc EXCEPT ![r] = label] /\ UNCHANGED answer

\* The handler returns; its local variables are gone.
Reply(r, status) ==
  /\ pc' = [pc EXCEPT ![r] = "done"]
  /\ answer' = [answer EXCEPT ![r] = status]
  /\ job' = [job EXCEPT ![r] = NoJob]

Busy(u) == \E r \in Request : job[r].upload = u /\ pc[r] \notin {"new", "done", "dead"}

Arrives(r, u) ==
  /\ pc[r] = "new"
  /\ \A q \in Request : q < r => pc[q] # "new"
  /\ Overlap \/ ~Busy(u)

Enter(r, label, j) == Goto(r, label) /\ job' = [job EXCEPT ![r] = j]

\* um.get: a listed session of the account, looked up under the mutex.
Found(u, a) == u \in listed /\ owner[u] = a

-----------------------------------------------------------------------------
(* POST /api/v1/uploads *)

CreateFile(r, a, u) ==
  /\ owner[u] = None
  /\ Arrives(r, u)
  /\ owner' = [owner EXCEPT ![u] = a]
  /\ linked' = linked \cup {u}
  /\ Enter(r, "list", [NoJob EXCEPT !.upload = u])
  /\ UNCHANGED <<size, listed, stale, file, orphaned, mutex, record>>

CreateList(r) ==
  /\ pc[r] = "list"
  /\ Free
  /\ listed' = listed \cup {job[r].upload}
  /\ Reply(r, "created")
  /\ UNCHANGED <<owner, size, stale, fileVars, mutex, record>>

-----------------------------------------------------------------------------
(* PATCH /api/v1/uploads/{id}?offset=N, with the document's bytes from N on *)

ChunkGet(r, a, u, offset, n) ==
  /\ Free
  /\ Arrives(r, u)
  /\ \/ /\ Found(u, a)
        /\ Enter(r, "append", [NoJob EXCEPT !.upload = u, !.offset = offset,
                                  !.body = SubSeq(Document, offset + 1, offset + n)])
     \/ ~Found(u, a) /\ Reply(r, "not_found")
  /\ UNCHANGED <<sessionVars, fileVars, mutex, record>>

\* Mutant: the chunk is appended wherever it belongs.
AnyOffset(r) == TRUE

OffsetMatches(r) == job[r].offset = size[job[r].upload]

\* appendChunk up to the copy: the file is opened without creating it.
AppendBegin(r) ==
  /\ pc[r] = "append"
  /\ Free
  /\ \/ ~OffsetMatches(r) /\ Reply(r, "offset_mismatch") /\ UNCHANGED mutex
     \/ /\ OffsetMatches(r)
        /\ job[r].upload \notin linked
        /\ Reply(r, "write_error")
        /\ UNCHANGED mutex
     \/ /\ OffsetMatches(r)
        /\ job[r].upload \in linked
        /\ mutex' = r
        /\ Goto(r, "copy")
        /\ UNCHANGED job
  /\ UNCHANGED <<sessionVars, fileVars, record>>

\* Mutant: the limit does not count what is already there.
ChunkLimit(r) == MaxUploadBytes + 1

CopyLimit(r) == MaxUploadBytes - size[job[r].upload] + 1

\* io.Copy from the LimitReader has nothing left to read.
CopyComplete(r) == job[r].body = <<>> \/ job[r].copied = CopyLimit(r)

CopyByte(r) ==
  /\ pc[r] = "copy"
  /\ ~CopyComplete(r)
  /\ file' = [file EXCEPT ![job[r].upload] = Append(@, Head(job[r].body))]
  /\ job' = [job EXCEPT ![r].body = Tail(@), ![r].copied = @ + 1]
  /\ UNCHANGED <<sessionVars, linked, orphaned, mutex, pc, answer, record>>

\* Mutant: bytes of a chunk that broke off are not counted.
SizeIfComplete(r) ==
  [size EXCEPT ![job[r].upload] = IF CopyComplete(r) THEN @ + job[r].copied ELSE @]

SizeAfter(r) == [size EXCEPT ![job[r].upload] = @ + job[r].copied]

TooBig(n) == n > MaxUploadBytes

\* The copy is over: the chunk is complete, its limit is reached, or the
\* connection or the disk failed with some of it left.
CopyEnd(r) ==
  /\ pc[r] = "copy"
  /\ size' = SizeAfter(r)
  /\ stale' = stale \ {job[r].upload}
  /\ mutex' = None
  /\ \/ ~CopyComplete(r) /\ Reply(r, "write_error")
     \/ /\ CopyComplete(r)
        /\ TooBig(size'[job[r].upload])
        /\ Goto(r, "discard")
        /\ job' = [job EXCEPT ![r].result = "too_large"]
     \/ /\ CopyComplete(r)
        /\ ~TooBig(size'[job[r].upload])
        /\ Reply(r, "received")
  /\ UNCHANGED <<owner, listed, fileVars, record>>

-----------------------------------------------------------------------------
(* um.discard *)

DiscardDelete(r) ==
  /\ pc[r] = "discard"
  /\ Free
  /\ listed' = listed \ {job[r].upload}
  /\ stale' = stale \ {job[r].upload}
  /\ Goto(r, "remove")
  /\ UNCHANGED <<owner, size, fileVars, mutex, job, record>>

\* The file is removed after the mutex was released.
DiscardRemove(r) ==
  /\ pc[r] = "remove"
  /\ linked' = linked \ {job[r].upload}
  /\ Reply(r, job[r].result)
  /\ UNCHANGED <<sessionVars, file, orphaned, mutex, record>>

-----------------------------------------------------------------------------
(* GET /api/v1/uploads/{id} *)

StatusGet(r, a, u) ==
  /\ Free
  /\ Arrives(r, u)
  /\ \/ Found(u, a) /\ Enter(r, "status", [NoJob EXCEPT !.upload = u])
     \/ ~Found(u, a) /\ Reply(r, "not_found")
  /\ UNCHANGED <<sessionVars, fileVars, mutex, record>>

\* The size is read without the mutex and sent.
StatusRead(r) ==
  /\ pc[r] = "status"
  /\ Reply(r, "received")
  /\ UNCHANGED <<sessionVars, fileVars, mutex, record>>

-----------------------------------------------------------------------------
(* PUT .../document?upload_id= and POST .../stamp?upload_id= *)

\* signedInput: the lookup ...
InputGet(r, a, u, stamp) ==
  /\ Free
  /\ Arrives(r, u)
  /\ \/ /\ Found(u, a)
        /\ Enter(r, "open", [NoJob EXCEPT !.upload = u,
                                !.result = IF stamp THEN "stamped" ELSE "ok"])
     \/ ~Found(u, a) /\ Reply(r, "not_found")
  /\ UNCHANGED <<sessionVars, fileVars, mutex, record>>

\* ... the descriptor ...
InputOpen(r) ==
  /\ pc[r] = "open"
  /\ \/ job[r].upload \in linked /\ Goto(r, "size") /\ UNCHANGED job
     \/ job[r].upload \notin linked /\ Reply(r, "read_error")
  /\ UNCHANGED <<sessionVars, fileVars, mutex, record>>

\* ... and the size, which decides the tier, read without the mutex.
InputSize(r) ==
  LET n == size[job[r].upload] IN
  /\ pc[r] = "size"
  /\ \/ /\ job[r].result = "ok"
        /\ Enter(r, IF n <= MaxVerifyBytes THEN "verify" ELSE "store", [job[r] EXCEPT !.size = n])
     \/ /\ job[r].result = "stamped" /\ n <= MaxStampBytes
        /\ Enter(r, "stamp", [job[r] EXCEPT !.size = n])
     \/ job[r].result = "stamped" /\ n > MaxStampBytes /\ Reply(r, "too_large")
  /\ UNCHANGED <<sessionVars, fileVars, mutex, record>>

Contents(r) == file[job[r].upload]

VerifiedRecord(r) == [bytes |-> Contents(r), size |-> Len(Contents(r)), tier |-> "verified"]

\* Mutant: a store-only document is stored under a tier nobody knows.
StoredMislabelled(r) == [bytes |-> Contents(r), size |-> job[r].size, tier |-> "unknown"]

StoredRecord(r) == [bytes |-> Contents(r), size |-> job[r].size, tier |-> "store_only"]

\* Submission.tla models what happens in between; a refusal or a failing store
\* call leaves the upload for another attempt.
SubmitUpload(r) ==
  /\ \/ /\ pc[r] = "verify"
        /\ record' = [record EXCEPT ![r] = VerifiedRecord(r)]
        /\ Goto(r, "discard")
        /\ UNCHANGED job
     \/ /\ pc[r] = "store"
        /\ record' = [record EXCEPT ![r] = StoredRecord(r)]
        /\ Goto(r, "discard")
        /\ UNCHANGED job
     \/ /\ pc[r] \in {"verify", "store"}
        /\ Reply(r, "rejected")
        /\ UNCHANGED record
  /\ UNCHANGED <<sessionVars, fileVars, mutex>>

\* hStamp discards the upload as soon as it is read, whatever comes of it.
StampUpload(r) ==
  /\ pc[r] = "stamp"
  /\ \E result \in {"stamped", "stamp_failed"} : job' = [job EXCEPT ![r].result = result]
  /\ Goto(r, "discard")
  /\ UNCHANGED <<sessionVars, fileVars, mutex, record>>

-----------------------------------------------------------------------------
(* Time and restarts *)

\* Two hours pass without a chunk.
GrowOld(u) ==
  /\ u \in listed
  /\ stale' = stale \cup {u}
  /\ UNCHANGED <<owner, size, listed, fileVars, mutex, pc, job, answer, record>>

\* Mutant: expired sessions lose their entry only.
ReapedFiles == {}

ExpiredFiles == stale \cap listed

\* reaper, every 15 minutes, under the mutex.
Reap ==
  /\ Free
  /\ linked' = linked \ ExpiredFiles
  /\ listed' = listed \ stale
  /\ stale' = {}
  /\ UNCHANGED <<owner, size, file, orphaned, mutex, pc, job, answer, record>>

\* Sessions live in memory; nobody looks for the files they leave behind.
Restart ==
  /\ MayRestart
  /\ listed' = {}
  /\ orphaned' = orphaned \cup linked
  /\ mutex' = None
  /\ pc' = [r \in Request |-> IF pc[r] \in {"new", "done"} THEN pc[r] ELSE "dead"]
  /\ job' = [r \in Request |-> NoJob]
  /\ stale' = {}
  /\ UNCHANGED <<owner, size, file, linked, answer, record>>

-----------------------------------------------------------------------------
UploadStep(r) ==
  \/ CreateList(r)
  \/ AppendBegin(r) \/ CopyByte(r) \/ CopyEnd(r)
  \/ DiscardDelete(r) \/ DiscardRemove(r)
  \/ StatusRead(r)
  \/ InputOpen(r) \/ InputSize(r) \/ SubmitUpload(r) \/ StampUpload(r)

UploadNext ==
  \/ \E r \in Request, a \in Account, u \in Upload :
       \/ CreateFile(r, a, u)
       \/ StatusGet(r, a, u)
       \/ \E stamp \in BOOLEAN : InputGet(r, a, u, stamp)
       \/ \E offset \in 0..DocLen : \E n \in 0..(DocLen - offset) : ChunkGet(r, a, u, offset, n)
  \/ \E r \in Request : UploadStep(r)
  \/ \E u \in Upload : GrowOld(u)
  \/ Reap
  \/ Restart

UploadSpec == UploadInit /\ [][UploadNext]_uploadVars

(* Goroutines are scheduled, sync.Mutex hands over to whoever waits for it,   *)
(* and the ticker of the reaper goes on.  A copy with bytes left to read is   *)
(* not among the fair steps: its client may stop sending and keep the         *)
(* connection, and the server sets no time limit on a request body            *)
(* (main.go:91-95).                                                           *)
FairUploadSpec ==
  /\ UploadSpec
  /\ \A r \in Request : SF_uploadVars((pc[r] = "copy" => CopyComplete(r)) /\ UploadStep(r))
  /\ SF_uploadVars(Reap)

-----------------------------------------------------------------------------
(* Properties *)

(* "a wrong offset is a conflict, not silent corruption": whatever chunks are *)
(* repeated, reordered, cut off or raced, a scratch file and everything       *)
(* recorded from it is a prefix of the document (uploads.go:94-115).          *)
UploadIsPrefix ==
  /\ \A u \in Upload : file[u] \in Prefixes
  /\ \A r \in Request : record[r] # None => record[r].bytes \in Prefixes

(* Outside appendChunk the size a session reports is the length of its file,  *)
(* also after a chunk that broke off, so a client that asks where to resume   *)
(* is told the truth (uploads.go:105-107).                                    *)
SizeMatchesFile == Free => \A u \in listed : size[u] = Len(file[u])

(* No upload takes more disk than the limit and the one byte that shows it    *)
(* is exceeded, however many chunks it comes in (uploads.go:105).             *)
UploadsBounded == \A u \in Upload : Len(file[u]) <= MaxUploadBytes + 1

(* A scratch file has a session the reaper will find, or a request that is    *)
(* about to list or to remove it (uploads.go:52-63, :117-122); only a restart *)
(* leaves files behind.                                                       *)
ScratchAccounted ==
  \A u \in linked \ orphaned :
    u \in listed \/ \E r \in Request : job[r].upload = u /\ pc[r] \in {"list", "remove"}

(* Sessions "expire after 2 h" (docs/large-files.md:48-49): one that got no   *)
(* chunk for that long, and that no request is using, is reaped or used       *)
(* again.                                                                     *)
SessionsExpire ==
  \A u \in Upload : u \in stale /\ ~Busy(u) ~> u \notin stale \/ Busy(u)
=============================================================================
