----------------------------- MODULE Submission -----------------------------
(***************************************************************************)
(* Reservation and submission of signed documents in the receiver API      *)
(* (server/internal/api/handlers.go, verify.go) over the Postgres store.   *)
(*                                                                         *)
(* Every HTTP request runs in its own goroutine; the handlers hold no lock *)
(* and no database transaction, so each store call is one step and the     *)
(* steps of all requests interleave.  A hash is modelled by the document   *)
(* it is the hash of (SHA-512 is taken to be injective).                   *)
(***************************************************************************)
EXTENDS Integers, FiniteSets

CONSTANTS
  Account, Device, Cert, PublicId, Request,
  Doc,             \* documents clients may submit, records of DocType
  DeviceOwner,     \* [Device -> Account], fixed by hCreateDevice
  CertDevice,      \* [Cert -> Device], the device whose CSR the CA signed
  CertNotBefore,   \* [Cert -> Nat], the certificate's NotBefore
  CRLFile,         \* certificates on the CRL the server loads when it starts
  CRLs,            \* CRLs an operator may import while the server runs
  MaxPDFBytes,     \* core/verification's own ceiling
  MaxVerifyBytes,  \* largest document the server verifies
  MaxUploadBytes,  \* largest document the server takes
  MaxMonth,        \* bound: months the model lives through
  MaxInFlight,     \* bound: requests running at the same time
  MayCrash,        \* whether the server process may be killed and restarted
  DbMayFail,       \* whether a store call may return an error
  None

DocType == [id : Nat, pid : PublicId, cert : Cert, sound : BOOLEAN, size : Nat]

ASSUME ConstantsAssumption ==
  /\ Doc \subseteq DocType
  /\ DeviceOwner \in [Device -> Account]
  /\ CertDevice \in [Cert -> Device]
  /\ CertNotBefore \in [Cert -> Nat]
  /\ CRLFile \in SUBSET Cert
  /\ CRLs \in SUBSET SUBSET Cert
  /\ MaxPDFBytes \in Nat /\ MaxVerifyBytes \in Nat /\ MaxUploadBytes \in Nat
  /\ MaxVerifyBytes <= MaxUploadBytes
  /\ MaxMonth \in Nat \ {0} /\ MaxInFlight \in Nat
  /\ MayCrash \in BOOLEAN /\ DbMayFail \in BOOLEAN

VARIABLES
  \* durable state: the store
  device,       \* [Device -> status]
  cert,         \* [Cert -> status of its row, "none" before it is bound]
  reservation,  \* [PublicId -> None or reservation row]
  signature,    \* [PublicId -> None or signature row]
  object,       \* [object key -> None or the stored document]
  \* the server process
  crl,          \* certificates on the CRL in memory (Server.crl)
  month,        \* calendar month, part of the object key
  pc, job,      \* progress and local variables of every request
  \* what clients observe
  answer,       \* [Request -> None or the HTTP answer]
  seen          \* history: what was already true when the request began

storeVars  == <<device, cert, reservation, signature, object>>
serverVars == <<crl, month>>
vars == <<storeVars, serverVars, pc, job, answer, seen>>

Months == 1..MaxMonth
Key == PublicId \X Months      \* documents/YYYY/MM/<public_id>/signed.pdf

(***************************************************************************)
(* Rows and local variables                                                *)
(***************************************************************************)
DeviceStatus == {"active", "lost"}
CertStatus   == {"none", "active", "revoked"}

ReservationRow == [account : Account, device : Device, status : {"reserved", "accepted"}]

\* cert = None is the verification status "stored_unverified".
SignatureRow == [account : Account, device : Device, cert : Cert \cup {None},
                 hash : Doc, key : Key]

\* Reservations and signatures as SignatureRegistry sees them.
OwnerView  == [account : Account, device : Device]
RecordView == [account : Account, device : Device, cert : Cert \cup {None}, hash : Doc]

ReserveLabels == {"reserve_cert", "reserve_create"}
SubmitLabels  == {"replay", "input", "check_signature", "check_device", "verify_pdf",
                  "check_certificate", "put_object", "create_signature", "set_accepted"}
Labels == {"new", "done", "dead"} \cup ReserveLabels \cup SubmitLabels

Job == [account : Account \cup {None}, device : Device \cup {None},
        pid : PublicId \cup {None}, doc : Doc \cup {None},
        cert : Cert \cup {None}, month : Months \cup {None}]
NoJob == [account |-> None, device |-> None, pid |-> None, doc |-> None,
          cert |-> None, month |-> None]
ReserveJob(a, d) == [account |-> a, device |-> d, pid |-> None, doc |-> None,
                     cert |-> None, month |-> None]
SubmitJob(a, d, p, doc) == [account |-> a, device |-> d, pid |-> p, doc |-> doc,
                            cert |-> None, month |-> None]

Outcomes == {"reserved", "recorded", "replayed",
             "not_found", "device_not_active", "no_active_certificate",
             "too_large", "rejected", "over_verifier_limit", "already_completed",
             "conflict", "store_error"}
AnswerType == [outcome : Outcomes, pid : PublicId \cup {None},
               hash : Doc \cup {None}, cert : Cert \cup {None}]
SeenType == [revoked : BOOLEAN, lost : BOOLEAN, acked : BOOLEAN]
NothingSeen == [revoked |-> FALSE, lost |-> FALSE, acked |-> FALSE]

\* None is no row, no value of a local variable and no answer.
ASSUME NoneAssumption ==
  /\ None \notin Account \cup Device \cup Cert \cup PublicId \cup Doc
  /\ None \notin Nat
  /\ None \notin ReservationRow /\ None \notin SignatureRow /\ None \notin AnswerType
  /\ None \notin OwnerView /\ None \notin RecordView

TypeOK ==
  /\ device \in [Device -> DeviceStatus]
  /\ cert \in [Cert -> CertStatus]
  /\ reservation \in [PublicId -> ReservationRow \cup {None}]
  /\ signature \in [PublicId -> SignatureRow \cup {None}]
  /\ object \in [Key -> Doc \cup {None}]
  /\ crl \in SUBSET Cert
  /\ month \in Months
  /\ pc \in [Request -> Labels]
  /\ job \in [Request -> Job]
  /\ answer \in [Request -> AnswerType \cup {None}]
  /\ seen \in [Request -> SeenType]

Init ==
  /\ device = [d \in Device |-> "active"]
  /\ cert = [c \in Cert |-> "none"]
  /\ reservation = [p \in PublicId |-> None]
  /\ signature = [p \in PublicId |-> None]
  /\ object = [k \in Key |-> None]
  /\ crl = CRLFile
  /\ month = 1
  /\ pc = [r \in Request |-> "new"]
  /\ job = [r \in Request |-> NoJob]
  /\ answer = [r \in Request |-> None]
  /\ seen = [r \in Request |-> NothingSeen]

-----------------------------------------------------------------------------
Goto(r, label) == pc' = [pc EXCEPT ![r] = label]

Reply(r, a) ==
  /\ answer' = [answer EXCEPT ![r] = a]
  /\ pc' = [pc EXCEPT ![r] = "done"]

Refuse(r, why) ==
  Reply(r, [outcome |-> why, pid |-> None, hash |-> None, cert |-> None])

\* submissionResult: what a 200 tells the client about the record of p.
SubmissionResult(outcome, p) ==
  [outcome |-> outcome, pid |-> p, hash |-> signature[p].hash, cert |-> signature[p].cert]

Acking == {r \in Request : answer[r] # None /\ answer[r].outcome \in {"recorded", "replayed"}}
Acked(p) == \E r \in Acking : answer[r].pid = p

InFlight == {r \in Request : pc[r] \notin {"new", "done", "dead"}}

\* What is already true when request j arrives: its certificate is revoked (for
\* a reservation: every certificate of its device), its device is lost, its
\* public id has been acknowledged.
Noted(j) ==
  [revoked |-> IF j.doc = None
               THEN \A c \in Cert : CertDevice[c] = j.device => cert[c] = "revoked"
               ELSE cert[j.doc.cert] = "revoked",
   lost |-> IF j.device = None THEN FALSE ELSE device[j.device] = "lost",
   acked |-> IF j.pid = None THEN FALSE ELSE Acked(j.pid)]

\* A request arrives.
Arrive(r, j) ==
  /\ pc[r] = "new"
  /\ Cardinality(InFlight) < MaxInFlight
  /\ job' = [job EXCEPT ![r] = j]
  /\ seen' = [seen EXCEPT ![r] = Noted(j)]

-----------------------------------------------------------------------------
(* POST /api/v1/signatures/reserve *)

ReserveDevice(r, a, d) ==
  /\ Arrive(r, ReserveJob(a, d))
  /\ \/ /\ DeviceOwner[d] # a \/ DbMayFail
        /\ Refuse(r, "not_found")
     \/ /\ DeviceOwner[d] = a
        /\ device[d] # "active"
        /\ Refuse(r, "device_not_active")
     \/ /\ DeviceOwner[d] = a
        /\ device[d] = "active"
        /\ Goto(r, "reserve_cert")
        /\ UNCHANGED answer
  /\ UNCHANGED <<storeVars, serverVars>>

\* The rows CertificateByDevice may return: the latest NotBefore, any on a tie.
CertificateByDevice(d) ==
  LET rows == {c \in Cert : CertDevice[c] = d /\ cert[c] # "none"}
  IN {c \in rows : \A b \in rows : CertNotBefore[b] <= CertNotBefore[c]}

\* Mutant: any certificate row will do.
AnyRowPermits(d) == CertificateByDevice(d) # {}

CertificatePermits(d) == \E c \in CertificateByDevice(d) : cert[c] = "active"

CertificateForbids(d) ==
  \/ CertificateByDevice(d) = {}
  \/ \E c \in CertificateByDevice(d) : cert[c] # "active"

ReserveCertificate(r) ==
  /\ pc[r] = "reserve_cert"
  /\ \/ /\ CertificatePermits(job[r].device)
        /\ Goto(r, "reserve_create")
        /\ UNCHANGED answer
     \/ /\ CertificateForbids(job[r].device) \/ DbMayFail
        /\ Refuse(r, "no_active_certificate")
  /\ UNCHANGED <<storeVars, serverVars, job, seen>>

\* Public ids are random: one is never handed out twice.
FreshPublicId(p) ==
  /\ reservation[p] = None
  /\ \A r \in Request : answer[r] # None => ~(answer[r].outcome = "reserved" /\ answer[r].pid = p)

\* The error of CreateReservation is dropped: the client is told 201 either way.
ReserveCreate(r) ==
  /\ pc[r] = "reserve_create"
  /\ \E p \in PublicId :
       /\ FreshPublicId(p)
       /\ \/ reservation' = [reservation EXCEPT ![p] =
               [account |-> job[r].account, device |-> job[r].device, status |-> "reserved"]]
          \/ DbMayFail /\ UNCHANGED reservation
       /\ Reply(r, [outcome |-> "reserved", pid |-> p, hash |-> None, cert |-> None])
  /\ UNCHANGED <<device, cert, signature, object, serverVars, job, seen>>

-----------------------------------------------------------------------------
(* PUT /api/v1/signatures/{public_id}/document *)

ReservedBy(p, a) == reservation[p] # None /\ reservation[p].account = a

SubmitReservation(r, a, p, doc) ==
  /\ \/ /\ ~ReservedBy(p, a) \/ DbMayFail
        /\ Arrive(r, SubmitJob(a, None, p, doc))
        /\ Refuse(r, "not_found")
     \/ /\ ReservedBy(p, a)
        /\ Arrive(r, SubmitJob(a, reservation[p].device, p, doc))
        /\ Goto(r, IF reservation[p].status = "accepted" THEN "replay" ELSE "input")
        /\ UNCHANGED answer
  /\ UNCHANGED <<storeVars, serverVars>>

\* "idempotent: already completed"; a lookup error falls through to a submit.
SubmitReplay(r) ==
  /\ pc[r] = "replay"
  /\ \/ /\ signature[job[r].pid] # None
        /\ Reply(r, SubmissionResult("replayed", job[r].pid))
     \/ /\ signature[job[r].pid] = None \/ DbMayFail
        /\ Goto(r, "input")
        /\ UNCHANGED answer
  /\ UNCHANGED <<storeVars, serverVars, job, seen>>

\* signedInput gives the document, from the body or from an upload, unless it
\* is too large.
SignedInput(doc) == doc.size <= MaxUploadBytes

\* Mutant: the reservation is marked before the document is recorded.
SubmitInputMarksFirst(r) ==
  /\ pc[r] = "input"
  /\ SignedInput(job[r].doc)
  /\ job' = [job EXCEPT ![r].month = month]
  /\ reservation' = [reservation EXCEPT ![job[r].pid].status = "accepted"]
  /\ Goto(r, "check_signature")
  /\ UNCHANGED <<device, cert, signature, object, serverVars, answer, seen>>

\* The document, the object key and the tier.
SubmitInput(r) ==
  /\ pc[r] = "input"
  /\ \/ /\ ~SignedInput(job[r].doc)
        /\ Refuse(r, "too_large")
        /\ UNCHANGED job
     \/ /\ SignedInput(job[r].doc)
        /\ job' = [job EXCEPT ![r].month = month]
        /\ Goto(r, IF job[r].doc.size <= MaxVerifyBytes THEN "check_signature" ELSE "put_object")
        /\ UNCHANGED answer
  /\ UNCHANGED <<storeVars, serverVars, seen>>

\* strictVerify, "One reservation, one document": only a row that is found
\* stops the submission, an error of the lookup does not.
Unrecorded(p) == signature[p] = None \/ DbMayFail

VerifyUnrecorded(r) ==
  /\ pc[r] = "check_signature"
  /\ \/ /\ ~job[r].doc.sound        \* not even a PDF
        /\ Refuse(r, "rejected")
     \/ /\ signature[job[r].pid] # None
        /\ Refuse(r, "already_completed")
     \/ /\ Unrecorded(job[r].pid)
        /\ Goto(r, "check_device")
        /\ UNCHANGED answer
  /\ UNCHANGED <<storeVars, serverVars, job, seen>>

VerifyDevice(r) ==
  /\ pc[r] = "check_device"
  /\ \/ /\ device[job[r].device] # "active" \/ DbMayFail
        /\ Refuse(r, "device_not_active")
     \/ /\ device[job[r].device] = "active"
        /\ Goto(r, "verify_pdf")
        /\ UNCHANGED answer
  /\ UNCHANGED <<storeVars, serverVars, job, seen>>

\* ValidateCRL: the certificate's serial is on the CRL.  An outdated CRL counts
\* all the same; one of another CA, which would count for nothing, is left out.
RevokedByCRL(c) == c \in crl

\* VerifyPDF and the checks on its result.  A sound document carries exactly
\* one valid ML-DSA-65 signature that chains to the Root CA.  The verifier gives
\* up after its time limit, which a slow parse may reach for any document.
VerifyDocument(r) ==
  LET doc == job[r].doc IN
  /\ pc[r] = "verify_pdf"
  /\ \/ /\ doc.size > MaxPDFBytes
        /\ Refuse(r, "over_verifier_limit")
     \/ /\ doc.size <= MaxPDFBytes
        /\ Refuse(r, "rejected")
     \/ /\ doc.size <= MaxPDFBytes
        /\ doc.sound
        /\ ~RevokedByCRL(doc.cert)
        /\ doc.pid = job[r].pid
        /\ Goto(r, "check_certificate")
        /\ UNCHANGED answer
  /\ UNCHANGED <<storeVars, serverVars, job, seen>>

\* Mutants: the device, or the status, of the certificate is not compared.
RegisteredToAccount(c, j) == DeviceOwner[CertDevice[c]] = j.account /\ cert[c] = "active"
RegisteredOnce(c, j) == CertDevice[c] = j.device /\ cert[c] # "none"

\* CertificateBySerial finds a row of the reservation's account and device.
RegisteredTo(c, j) ==
  /\ DeviceOwner[CertDevice[c]] = j.account
  /\ CertDevice[c] = j.device
  /\ cert[c] = "active"

VerifyCertificate(r) ==
  LET c == job[r].doc.cert IN
  /\ pc[r] = "check_certificate"
  /\ \/ /\ ~RegisteredTo(c, job[r]) \/ DbMayFail
        /\ Refuse(r, "rejected")
        /\ UNCHANGED job
     \/ /\ RegisteredTo(c, job[r])
        /\ job' = [job EXCEPT ![r].cert = c]
        /\ Goto(r, "put_object")
        /\ UNCHANGED answer
  /\ UNCHANGED <<storeVars, serverVars, seen>>

JobKey(r) == <<job[r].pid, job[r].month>>

\* The objects table: a put replaces what is under the key.
PutObject(k, doc) == object' = [object EXCEPT ![k] = doc]
OpenObject(k) == object[k]

\* Mutant: an error of PutObject is dropped.
SubmitPutObjectUnchecked(r) ==
  /\ pc[r] = "put_object"
  /\ \/ PutObject(JobKey(r), job[r].doc)
     \/ DbMayFail /\ UNCHANGED object
  /\ Goto(r, "create_signature")
  /\ UNCHANGED <<device, cert, reservation, signature, serverVars, job, answer, seen>>

\* Both tiers write the object under the same key.
SubmitPutObject(r) ==
  /\ pc[r] = "put_object"
  /\ \/ /\ PutObject(JobKey(r), job[r].doc)
        /\ Goto(r, "create_signature")
        /\ UNCHANGED answer
     \/ /\ DbMayFail
        /\ Refuse(r, "store_error")
        /\ UNCHANGED object
  /\ UNCHANGED <<device, cert, reservation, signature, serverVars, job, seen>>

\* Mutant: the row is replaced when it exists.
InsertReplaces(p) == TRUE

\* CreateSignature inserts the row or fails on the primary key.
InsertSucceeds(p) == signature[p] = None

\* Whatever the error, the answer is 409.
InsertFails(p) == signature[p] # None \/ DbMayFail

SubmitCreateSignature(r) ==
  /\ pc[r] = "create_signature"
  /\ \/ /\ InsertSucceeds(job[r].pid)
        /\ signature' = [signature EXCEPT ![job[r].pid] =
             [account |-> job[r].account, device |-> job[r].device, cert |-> job[r].cert,
              hash |-> job[r].doc, key |-> JobKey(r)]]
        /\ Goto(r, "set_accepted")
        /\ UNCHANGED answer
     \/ /\ InsertFails(job[r].pid)
        /\ Refuse(r, "conflict")
        /\ UNCHANGED signature
  /\ UNCHANGED <<device, cert, reservation, object, serverVars, job, seen>>

\* Mutants: the reservation is not marked, or marked with another status.
MarkNothing(p) == UNCHANGED reservation
MarkCompleted(p) == reservation' = [reservation EXCEPT ![p].status = "completed"]

MarkAccepted(p) == reservation' = [reservation EXCEPT ![p].status = "accepted"]

\* The error of SetReservationStatus is dropped.
SubmitSetAccepted(r) ==
  /\ pc[r] = "set_accepted"
  /\ \/ MarkAccepted(job[r].pid)
     \/ DbMayFail /\ UNCHANGED reservation
  /\ Reply(r, SubmissionResult("recorded", job[r].pid))
  /\ UNCHANGED <<device, cert, signature, object, serverVars, job, seen>>

-----------------------------------------------------------------------------
(* What the rest of the receiver does to the rows a submission reads *)

\* bindIssuedCert; AccountLifecycle.tla models how it comes about.
BindCertificate(c) ==
  /\ cert[c] = "none"
  /\ cert' = [cert EXCEPT ![c] = "active"]
  /\ UNCHANGED <<device, reservation, signature, object, serverVars, pc, job, answer, seen>>

\* hRevoke, and the revocations of disableCascade.
RevokeCertificate(c) ==
  /\ cert[c] # "none"
  /\ cert' = [cert EXCEPT ![c] = "revoked"]
  /\ UNCHANGED <<device, reservation, signature, object, serverVars, pc, job, answer, seen>>

\* hReportLost by the owner, and disableCascade.
ReportLost(d) ==
  /\ device' = [device EXCEPT ![d] = "lost"]
  /\ UNCHANGED <<cert, reservation, signature, object, serverVars, pc, job, answer, seen>>

\* hImportCRL takes any CRL that parses.
ImportCRL(revoked) ==
  /\ crl' = revoked
  /\ UNCHANGED <<storeVars, month, pc, job, answer, seen>>

NextMonth ==
  /\ month < MaxMonth
  /\ month' = month + 1
  /\ UNCHANGED <<storeVars, crl, pc, job, answer, seen>>

\* The process dies and is started again: requests in flight are cut off, the
\* store survives, the CRL is read again from the configured file.
Crash ==
  /\ MayCrash
  /\ pc' = [r \in Request |-> IF r \in InFlight THEN "dead" ELSE pc[r]]
  /\ crl' = CRLFile
  /\ UNCHANGED <<storeVars, month, job, answer, seen>>

-----------------------------------------------------------------------------
RequestStep(r) ==
  \/ ReserveCertificate(r)
  \/ ReserveCreate(r)
  \/ SubmitReplay(r)
  \/ SubmitInput(r)
  \/ VerifyUnrecorded(r)
  \/ VerifyDevice(r)
  \/ VerifyDocument(r)
  \/ VerifyCertificate(r)
  \/ SubmitPutObject(r)
  \/ SubmitCreateSignature(r)
  \/ SubmitSetAccepted(r)

Next ==
  \/ \E r \in Request, a \in Account, d \in Device : ReserveDevice(r, a, d)
  \/ \E r \in Request, a \in Account, p \in PublicId, doc \in Doc :
        SubmitReservation(r, a, p, doc)
  \/ \E r \in Request : RequestStep(r)
  \/ \E c \in Cert : BindCertificate(c) \/ RevokeCertificate(c)
  \/ \E d \in Device : ReportLost(d)
  \/ \E S \in CRLs : ImportCRL(S)
  \/ NextMonth
  \/ Crash

Spec == Init /\ [][Next]_vars

(* A handler that has begun runs to its answer unless the process dies: the  *)
(* goroutine is scheduled, store calls return, VerifyPDF has a time limit.   *)
FairSpec == Spec /\ \A r \in Request : WF_vars(RequestStep(r))

-----------------------------------------------------------------------------
(* What readers get *)

\* hDownload and the public document behind the QR code.
Download(p) == OpenObject(signature[p].key)

\* The lookups of one view of the public page that may fail.
LookupFailures == IF DbMayFail THEN SUBSET {"certificate", "device"} ELSE {{}}

\* Mutant: only the device's status is looked at.
StatusOfDevice(p, failed) ==
  LET sig == signature[p] IN
  IF sig.cert = None THEN "not_server_verified"
  ELSE IF "device" \notin failed /\ device[sig.device] = "lost" THEN "device_reported_lost"
  ELSE "active"

\* publicRecord: the status the public page shows for a recorded signature.
\* The error of a failed lookup is dropped: what it would have said is not shown.
PublicStatus(p, failed) ==
  LET sig == signature[p] IN
  IF sig.cert = None THEN "not_server_verified"
  ELSE IF "certificate" \notin failed /\ cert[sig.cert] = "revoked" THEN "revoked"
  ELSE IF "device" \notin failed /\ device[sig.device] = "lost" THEN "device_reported_lost"
  ELSE "active"

-----------------------------------------------------------------------------
(* Properties *)

\* What the store and the answers given amount to, in the registry's terms.
ReservedView ==
  [p \in PublicId |->
     IF reservation[p] = None THEN None
     ELSE [account |-> reservation[p].account, device |-> reservation[p].device]]
RecordedView ==
  [p \in PublicId |->
     IF signature[p] = None THEN None
     ELSE [account |-> signature[p].account, device |-> signature[p].device,
           cert |-> signature[p].cert, hash |-> signature[p].hash]]
AckedView == {<<answer[r].pid, answer[r].hash>> : r \in Acking}

Registry == INSTANCE SignatureRegistry WITH
  reserved <- ReservedView, recorded <- RecordedView, acked <- AckedView

(* The receiver implements the registry of write-once records: whatever the   *)
(* interleaving of submissions, whatever call fails and whenever the process  *)
(* dies, hSubmitDocument records at most one document per reservation, never  *)
(* changes a record, and answers 200 only with the hash on record.            *)
ImplementsRegistry == Registry!RegistrySpec

(* A reservation marked accepted has its signature row: hSubmitDocument       *)
(* inserts the row before it marks the reservation (handlers.go:435, :466).   *)
AcceptedHasRecord ==
  \A p \in PublicId :
    reservation[p] # None /\ reservation[p].status = "accepted" => signature[p] # None

(* Every signature row points at a stored object: a crash or an error between *)
(* PutObject and CreateSignature (handlers.go:431, :435) may leave an object  *)
(* nobody refers to, never a record whose document is missing.                *)
RecordHasObject ==
  \A p \in PublicId : signature[p] # None => Download(p) # None

(* A record whose public page reads "active" was made from a sound document   *)
(* that carries this public id, by a certificate of the very device and       *)
(* account that reserved it, and neither certificate nor device has been      *)
(* withdrawn (strictVerify and publicRecord together).  A lookup that fails   *)
(* hides the withdrawal it would have found (handlers.go:600-606) and nothing *)
(* else.                                                                      *)
ActiveRecordIsBacked ==
  \A p \in PublicId, failed \in LookupFailures :
    signature[p] # None /\ PublicStatus(p, failed) = "active" =>
      LET sig == signature[p] IN
      /\ sig.hash.sound /\ sig.hash.pid = p /\ sig.hash.cert = sig.cert
      /\ sig.hash.size <= MaxVerifyBytes
      /\ CertDevice[sig.cert] = reservation[p].device
      /\ DeviceOwner[reservation[p].device] = reservation[p].account
      /\ "certificate" \notin failed => cert[sig.cert] = "active"
      /\ "device" \notin failed => device[reservation[p].device] = "active"

(* Revocation is a barrier for verified submissions: a submission that began  *)
(* after the certificate was revoked or the device reported lost is never     *)
(* recorded as verified, whatever was reserved before (verify.go:35, :80).    *)
RevocationBarrier ==
  \A r \in Request :
    answer[r] # None /\ answer[r].outcome = "recorded" /\ answer[r].cert # None =>
      ~seen[r].revoked /\ ~seen[r].lost

(* hReserve: a reservation that was granted had a device that was not lost,   *)
(* and a certificate of that device that was not revoked, when the request    *)
(* arrived (handlers.go:362, :367).                                           *)
ReservationBarrier ==
  \A r \in Request :
    answer[r] # None /\ answer[r].outcome = "reserved" =>
      ~seen[r].revoked /\ ~seen[r].lost

(* Resubmission is idempotent: once a client was told 200 for a public id, a  *)
(* later submission of it by its owner is answered by replaying the record    *)
(* (handlers.go:390-396), never by a refusal.                                 *)
AckedStaysReplayable ==
  \A r \in Request :
    /\ answer[r] # None
    /\ job[r].doc # None
    /\ seen[r].acked
    /\ job[r].account = reservation[job[r].pid].account
    => answer[r].outcome = "replayed"

(* The document served for a record is the one whose hash is on record: the   *)
(* bytes under a recorded key never change.                                   *)
RecordedObjectIntact ==
  \A p \in PublicId : signature[p] # None => Download(p) = signature[p].hash

(* A recorded document's reservation becomes accepted, after which every      *)
(* resubmission is answered by replay.                                        *)
RecordedBecomesAccepted ==
  \A p \in PublicId :
    signature[p] # None ~> (reservation[p] # None /\ reservation[p].status = "accepted")

-----------------------------------------------------------------------------
(* The inductive invariant *)

Verifying == {"check_signature", "check_device", "verify_pdf", "check_certificate"}
Storing   == {"put_object", "create_signature", "set_accepted"}

ReservationsOwned ==
  \A p \in PublicId :
    reservation[p] # None => DeviceOwner[reservation[p].device] = reservation[p].account

\* What the local variables of a reserving request are worth.
ReserveInv(r) ==
  pc[r] \in ReserveLabels =>
    /\ job[r].device \in Device
    /\ DeviceOwner[job[r].device] = job[r].account
    /\ ~seen[r].lost
    /\ seen[r].revoked => /\ pc[r] = "reserve_cert"
                          /\ \A c \in Cert : CertDevice[c] = job[r].device => cert[c] = "revoked"

\* The reservation a submission read is still that of the public id.
SubmitInv(r) ==
  pc[r] \in SubmitLabels =>
    /\ job[r].pid \in PublicId
    /\ job[r].doc \in Doc
    /\ ReservedBy(job[r].pid, job[r].account)
    /\ reservation[job[r].pid].device = job[r].device
    /\ pc[r] \in Verifying \cup Storing => job[r].month \in Months
    /\ pc[r] \notin Storing => job[r].cert = None
    /\ pc[r] \in Verifying => job[r].doc.size <= MaxVerifyBytes
    /\ pc[r] = "check_certificate" => job[r].doc.sound /\ job[r].doc.pid = job[r].pid

\* Withdrawals are final, so what had been withdrawn on arrival still is.
SeenIsFinal(r) ==
  pc[r] \in SubmitLabels =>
    /\ seen[r].lost => device[job[r].device] = "lost"
    /\ seen[r].revoked => cert[job[r].doc.cert] = "revoked"
    /\ pc[r] \in {"verify_pdf", "check_certificate"} => ~seen[r].lost

\* What it means that c verified document d for public id p.
VerifiedBy(c, d, p) ==
  /\ d.sound /\ d.pid = p /\ d.cert = c /\ d.size <= MaxVerifyBytes
  /\ CertDevice[c] = reservation[p].device
  /\ cert[c] # "none"

VerifiedInv(r) ==
  pc[r] \in Storing /\ job[r].cert # None =>
    /\ VerifiedBy(job[r].cert, job[r].doc, job[r].pid)
    /\ ~seen[r].revoked /\ ~seen[r].lost

StoredInOrder(r) ==
  /\ pc[r] = "create_signature" => object[JobKey(r)] # None
  /\ pc[r] = "set_accepted" => /\ signature[job[r].pid] # None
                               /\ signature[job[r].pid].hash = job[r].doc
                               /\ signature[job[r].pid].cert = job[r].cert

RequestInv(r) ==
  ReserveInv(r) /\ SubmitInv(r) /\ SeenIsFinal(r) /\ VerifiedInv(r) /\ StoredInOrder(r)

SignaturesBound ==
  \A p \in PublicId : signature[p] # None =>
    /\ ReservedBy(p, signature[p].account)
    /\ signature[p].device = reservation[p].device
    /\ object[signature[p].key] # None
    /\ signature[p].cert # None => VerifiedBy(signature[p].cert, signature[p].hash, p)

AnswersRecorded ==
  \A r \in Request :
    answer[r] # None /\ answer[r].outcome \in {"recorded", "replayed"} =>
      /\ answer[r].pid \in PublicId
      /\ signature[answer[r].pid] # None
      /\ signature[answer[r].pid].hash = answer[r].hash

\* Answers are given once.
AnsweredWhenDone == \A r \in Request : answer[r] # None => pc[r] = "done"

(* The invariant from which the safety of Submission is proved: besides the   *)
(* claims themselves, what every request in flight knows is still true of     *)
(* the store at each of its steps (handlers.go:346-472, verify.go:27-93).     *)
IndInv ==
  /\ TypeOK
  /\ \A r \in Request : RequestInv(r)
  /\ ReservationsOwned /\ SignaturesBound /\ AcceptedHasRecord
  /\ AnswersRecorded /\ AnsweredWhenDone /\ RevocationBarrier /\ ReservationBarrier
=============================================================================
