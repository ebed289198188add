-------------------------- MODULE SubmissionProofs --------------------------
(***************************************************************************)
(* The safety of reservation and submission for any number of accounts,    *)
(* devices, certificates, public ids, requests and documents, with failing *)
(* store calls and crashes.  The type lemmas come first, then the          *)
(* inductive invariant IndInv action by action, the properties that follow *)
(* from it, the refinement of SignatureRegistry, and at last what holds of *)
(* replays as long as no store call fails (AllReplay).                     *)
(***************************************************************************)
EXTENDS Submission, TLAPS

USE ConstantsAssumption, NoneAssumption

\* The rows, local variables and answers of an idle server are well typed.
LEMMA TypeInit == Init => TypeOK
  BY DEF Init, TypeOK, Labels, Months, DeviceStatus, CertStatus, Job, NoJob, SeenType, NothingSeen

\* Answering keeps the types of answers and labels.
LEMMA ReplyType ==
  ASSUME TypeOK, NEW r \in Request, NEW a \in AnswerType, Reply(r, a)
  PROVE  /\ answer' \in [Request -> AnswerType \cup {None}]
         /\ pc' \in [Request -> Labels]
  BY DEF TypeOK, Reply, Labels

\* So does refusing.
LEMMA RefuseType ==
  ASSUME TypeOK, NEW r \in Request, NEW why \in Outcomes, Refuse(r, why)
  PROVE  /\ answer' \in [Request -> AnswerType \cup {None}]
         /\ pc' \in [Request -> Labels]
  BY ReplyType DEF Refuse, AnswerType

\* Going on to another label keeps the type of the labels.
LEMMA GotoType ==
  ASSUME TypeOK, NEW r \in Request, NEW l \in Labels, Goto(r, l)
  PROVE  pc' \in [Request -> Labels]
  BY DEF TypeOK, Goto

\* The local variables and the history of a new request are well typed.
LEMMA ArriveType ==
  ASSUME TypeOK, NEW r \in Request, NEW j \in Job, Arrive(r, j)
  PROVE  /\ job' \in [Request -> Job]
         /\ seen' \in [Request -> SeenType]
  <1>1. Noted(j) \in SeenType
    BY DEF Noted, SeenType, Acked
  <1> QED  BY <1>1 DEF TypeOK, Arrive

\* hReserve keeps the types: the device lookup ...
LEMMA ReserveDeviceType ==
  ASSUME TypeOK, NEW r \in Request, NEW a \in Account, NEW d \in Device, ReserveDevice(r, a, d)
  PROVE  TypeOK'
  <1>1. ReserveJob(a, d) \in Job
    BY DEF Job, ReserveJob
  <1>2. job' \in [Request -> Job] /\ seen' \in [Request -> SeenType]
    BY <1>1, ArriveType DEF ReserveDevice
  <1>3. pc' \in [Request -> Labels] /\ answer' \in [Request -> AnswerType \cup {None}]
    BY RefuseType, GotoType DEF ReserveDevice, Outcomes, Labels, ReserveLabels, TypeOK
  <1> QED  BY <1>2, <1>3 DEF ReserveDevice, TypeOK, storeVars, serverVars

\* ... and the new reservation row.
LEMMA ReserveCreateType ==
  ASSUME TypeOK, NEW r \in Request, ReserveInv(r), ReserveCreate(r)
  PROVE  TypeOK'
  <1>1. PICK p \in PublicId :
          /\ \/ reservation' = [reservation EXCEPT ![p] =
                  [account |-> job[r].account, device |-> job[r].device, status |-> "reserved"]]
             \/ DbMayFail /\ UNCHANGED reservation
          /\ Reply(r, [outcome |-> "reserved", pid |-> p, hash |-> None, cert |-> None])
    BY DEF ReserveCreate
  <1>2. pc' \in [Request -> Labels] /\ answer' \in [Request -> AnswerType \cup {None}]
    BY <1>1, ReplyType DEF AnswerType, Outcomes
  <1>3. reservation' \in [PublicId -> ReservationRow \cup {None}]
    BY <1>1 DEF ReserveCreate, TypeOK, ReserveInv, ReservationRow, ReserveLabels, Job
  <1> QED  BY <1>2, <1>3 DEF ReserveCreate, TypeOK, serverVars

\* hSubmitDocument keeps the types: the reservation lookup ...
LEMMA SubmitReservationType ==
  ASSUME TypeOK, NEW r \in Request, NEW a \in Account, NEW p \in PublicId, NEW doc \in Doc,
         SubmitReservation(r, a, p, doc)
  PROVE  TypeOK'
  <1>1. SubmitJob(a, None, p, doc) \in Job
    BY DEF Job, SubmitJob
  <1>2. ReservedBy(p, a) => SubmitJob(a, reservation[p].device, p, doc) \in Job
    BY DEF Job, SubmitJob, TypeOK, ReservationRow, ReservedBy
  <1>3. job' \in [Request -> Job] /\ seen' \in [Request -> SeenType]
    BY <1>1, <1>2, ArriveType DEF SubmitReservation
  <1>4. pc' \in [Request -> Labels] /\ answer' \in [Request -> AnswerType \cup {None}]
    BY RefuseType, GotoType DEF SubmitReservation, Outcomes, Labels, SubmitLabels, TypeOK
  <1> QED  BY <1>3, <1>4 DEF SubmitReservation, TypeOK, storeVars, serverVars

\* (submissionResult of a recorded document is an answer)
LEMMA ResultType ==
  ASSUME TypeOK, NEW p \in PublicId, signature[p] # None, NEW o \in Outcomes
  PROVE  SubmissionResult(o, p) \in AnswerType
  BY DEF TypeOK, SubmissionResult, AnswerType, SignatureRow

\* ... the replayed answer ...
LEMMA SubmitReplayType ==
  ASSUME TypeOK, NEW r \in Request, SubmitInv(r), SubmitReplay(r)
  PROVE  TypeOK'
  <1>1. job[r].pid \in PublicId
    BY DEF SubmitReplay, SubmitInv, SubmitLabels
  <1>2. pc' \in [Request -> Labels] /\ answer' \in [Request -> AnswerType \cup {None}]
    BY <1>1, ResultType, ReplyType, GotoType DEF SubmitReplay, Outcomes, Labels, SubmitLabels, TypeOK
  <1> QED  BY <1>2 DEF SubmitReplay, TypeOK, storeVars, serverVars

\* (storing the month in the local variables)
LEMMA SetMonth ==
  ASSUME NEW j \in Job, NEW m \in Months
  PROVE  [j EXCEPT !.month = m] \in Job
  BY DEF Job

\* (storing the certificate in the local variables)
LEMMA SetCert ==
  ASSUME NEW j \in Job, NEW c \in Cert
  PROVE  [j EXCEPT !.cert = c] \in Job
  BY DEF Job

\* ... the object key ...
LEMMA SubmitInputType ==
  ASSUME TypeOK, NEW r \in Request, SubmitInput(r)
  PROVE  TypeOK'
  <1>0. [job[r] EXCEPT !.month = month] \in Job
    BY SetMonth DEF TypeOK
  <1>1. job' \in [Request -> Job]
    BY <1>0 DEF SubmitInput, TypeOK
  <1>2. pc' \in [Request -> Labels] /\ answer' \in [Request -> AnswerType \cup {None}]
    BY RefuseType, GotoType DEF SubmitInput, Outcomes, Labels, SubmitLabels, TypeOK
  <1> QED  BY <1>1, <1>2 DEF SubmitInput, TypeOK, storeVars, serverVars

\* ... the certificate strictVerify found ...
LEMMA VerifyCertificateType ==
  ASSUME TypeOK, NEW r \in Request, SubmitInv(r), VerifyCertificate(r)
  PROVE  TypeOK'
  <1>0. job[r].doc.cert \in Cert
    BY DEF SubmitInv, SubmitLabels, VerifyCertificate, DocType
  <1>a. [job[r] EXCEPT !.cert = job[r].doc.cert] \in Job
    BY <1>0, SetCert DEF TypeOK
  <1>1. job' \in [Request -> Job]
    BY <1>a DEF VerifyCertificate, TypeOK
  <1>2. pc' \in [Request -> Labels] /\ answer' \in [Request -> AnswerType \cup {None}]
    BY RefuseType, GotoType DEF VerifyCertificate, Outcomes, Labels, SubmitLabels, TypeOK
  <1> QED  BY <1>1, <1>2 DEF VerifyCertificate, TypeOK, storeVars, serverVars

\* ... the stored object ...
LEMMA SubmitPutObjectType ==
  ASSUME TypeOK, NEW r \in Request, SubmitInv(r), SubmitPutObject(r)
  PROVE  TypeOK'
  <1>1. object' \in [Key -> Doc \cup {None}]
    BY DEF SubmitPutObject, PutObject, TypeOK, SubmitInv, SubmitLabels
  <1>2. pc' \in [Request -> Labels] /\ answer' \in [Request -> AnswerType \cup {None}]
    BY RefuseType, GotoType DEF SubmitPutObject, Outcomes, Labels, SubmitLabels, TypeOK
  <1> QED  BY <1>1, <1>2 DEF SubmitPutObject, TypeOK, serverVars

\* ... the signature row ...
LEMMA SubmitCreateSignatureType ==
  ASSUME TypeOK, NEW r \in Request, SubmitInv(r), SubmitCreateSignature(r)
  PROVE  TypeOK'
  <1>0. /\ job[r].pid \in PublicId /\ job[r].doc \in Doc /\ job[r].month \in Months
        /\ job[r].account \in Account /\ job[r].device \in Device
        /\ job[r].cert \in Cert \cup {None}
    BY DEF TypeOK, SubmitInv, SubmitLabels, Storing, SubmitCreateSignature, ReservedBy,
           ReservationRow, Job
  <1>1. signature' \in [PublicId -> SignatureRow \cup {None}]
    BY <1>0 DEF SubmitCreateSignature, TypeOK, SignatureRow, JobKey, Key
  <1>2. pc' \in [Request -> Labels] /\ answer' \in [Request -> AnswerType \cup {None}]
    BY RefuseType, GotoType DEF SubmitCreateSignature, Outcomes, Labels, SubmitLabels, TypeOK
  <1> QED  BY <1>1, <1>2 DEF SubmitCreateSignature, TypeOK, serverVars

\* ... and the accepted reservation.
LEMMA SubmitSetAcceptedType ==
  ASSUME TypeOK, NEW r \in Request, SubmitInv(r), StoredInOrder(r), SubmitSetAccepted(r)
  PROVE  TypeOK'
  <1>0. /\ job[r].pid \in PublicId /\ reservation[job[r].pid] # None
        /\ signature[job[r].pid] # None
    BY DEF SubmitInv, StoredInOrder, SubmitLabels, SubmitSetAccepted, ReservedBy
  <1>1. reservation' \in [PublicId -> ReservationRow \cup {None}]
    BY <1>0 DEF SubmitSetAccepted, MarkAccepted, TypeOK, ReservationRow
  <1>2. pc' \in [Request -> Labels] /\ answer' \in [Request -> AnswerType \cup {None}]
    BY <1>0, ResultType, ReplyType DEF SubmitSetAccepted, Outcomes
  <1> QED  BY <1>1, <1>2 DEF SubmitSetAccepted, TypeOK, serverVars

\* Every step keeps the types, given what requests know about their variables.
LEMMA NextType ==
  ASSUME TypeOK, \A r \in Request : RequestInv(r), [Next]_vars
  PROVE  TypeOK'
  <1>1. ASSUME NEW r \in Request, NEW a \in Account, NEW d \in Device, ReserveDevice(r, a, d)
        PROVE  TypeOK'
    BY <1>1, ReserveDeviceType
  <1>2. ASSUME NEW r \in Request, NEW a \in Account, NEW p \in PublicId, NEW doc \in Doc,
               SubmitReservation(r, a, p, doc)
        PROVE  TypeOK'
    BY <1>2, SubmitReservationType
  <1>3. ASSUME NEW r \in Request, RequestStep(r)
        PROVE  TypeOK'
    <2>1. CASE ReserveCertificate(r)
      <3>1. pc' \in [Request -> Labels] /\ answer' \in [Request -> AnswerType \cup {None}]
        BY <2>1, RefuseType, GotoType DEF ReserveCertificate, Outcomes, Labels, ReserveLabels, TypeOK
      <3> QED  BY <2>1, <3>1 DEF ReserveCertificate, TypeOK, storeVars, serverVars
    <2>2. CASE VerifyUnrecorded(r)
      <3>1. pc' \in [Request -> Labels] /\ answer' \in [Request -> AnswerType \cup {None}]
        BY <2>2, RefuseType, GotoType DEF VerifyUnrecorded, Outcomes, Labels, SubmitLabels, TypeOK
      <3> QED  BY <2>2, <3>1 DEF VerifyUnrecorded, TypeOK, storeVars, serverVars
    <2>3. CASE VerifyDevice(r)
      <3>1. pc' \in [Request -> Labels] /\ answer' \in [Request -> AnswerType \cup {None}]
        BY <2>3, RefuseType, GotoType DEF VerifyDevice, Outcomes, Labels, SubmitLabels, TypeOK
      <3> QED  BY <2>3, <3>1 DEF VerifyDevice, TypeOK, storeVars, serverVars
    <2>4. CASE VerifyDocument(r)
      <3>1. pc' \in [Request -> Labels] /\ answer' \in [Request -> AnswerType \cup {None}]
        BY <2>4, RefuseType, GotoType DEF VerifyDocument, Outcomes, Labels, SubmitLabels, TypeOK
      <3> QED  BY <2>4, <3>1 DEF VerifyDocument, TypeOK, storeVars, serverVars
    <2> QED
      BY <1>3, <2>1, <2>2, <2>3, <2>4, ReserveCreateType, SubmitReplayType, SubmitInputType,
         VerifyCertificateType, SubmitPutObjectType, SubmitCreateSignatureType,
         SubmitSetAcceptedType DEF RequestStep, RequestInv
  <1>4. ASSUME NEW c \in Cert, BindCertificate(c) \/ RevokeCertificate(c)
        PROVE  TypeOK'
    BY <1>4 DEF BindCertificate, RevokeCertificate, TypeOK, CertStatus, serverVars
  <1>5. ASSUME NEW d \in Device, ReportLost(d)
        PROVE  TypeOK'
    BY <1>5 DEF ReportLost, TypeOK, DeviceStatus, serverVars
  <1>6. ASSUME NEW S \in CRLs, ImportCRL(S)
        PROVE  TypeOK'
    BY <1>6 DEF ImportCRL, TypeOK, storeVars
  <1>7. CASE NextMonth
    BY <1>7 DEF NextMonth, TypeOK, storeVars, Months
  <1>8. CASE Crash
    BY <1>8 DEF Crash, TypeOK, storeVars, Labels
  <1>9. CASE UNCHANGED vars
    BY <1>9 DEF vars, storeVars, serverVars, TypeOK
  <1> QED  BY <1>1, <1>2, <1>3, <1>4, <1>5, <1>6, <1>7, <1>8, <1>9 DEF Next

-----------------------------------------------------------------------------
Refusals == Outcomes \ {"reserved", "recorded", "replayed"}

\* The invariant holds of an idle server.
LEMMA InitInv == Init => IndInv
  <1> SUFFICES ASSUME Init PROVE IndInv
    OBVIOUS
  <1>1. TypeOK
    BY TypeInit
  <1>2. ASSUME NEW r \in Request PROVE RequestInv(r)
    BY DEF Init, RequestInv, ReserveInv, SubmitInv, SeenIsFinal, VerifiedInv, StoredInOrder,
           ReserveLabels, SubmitLabels, Storing
  <1>3. /\ ReservationsOwned /\ SignaturesBound /\ AcceptedHasRecord
        /\ AnswersRecorded /\ AnsweredWhenDone /\ RevocationBarrier /\ ReservationBarrier
    BY DEF Init, ReservationsOwned, SignaturesBound, AcceptedHasRecord, AnswersRecorded,
           AnsweredWhenDone, RevocationBarrier, ReservationBarrier
  <1> QED  BY <1>1, <1>2, <1>3 DEF IndInv

\* A request whose own variables and the store stay as they are keeps its knowledge.
LEMMA OthersKeep ==
  ASSUME NEW q, RequestInv(q),
         pc'[q] = pc[q], job'[q] = job[q], seen'[q] = seen[q], UNCHANGED storeVars
  PROVE  RequestInv(q)'
  BY DEF storeVars, RequestInv, ReserveInv, SubmitInv, SeenIsFinal, VerifiedInv, VerifiedBy,
         StoredInOrder, JobKey, ReservedBy

\* The conjuncts about rows and answers hold as long as those do not change.
LEMMA StoreKeeps ==
  ASSUME IndInv, UNCHANGED <<storeVars, answer>>,
         \A q \in Request : answer[q] # None => pc'[q] = "done" /\ seen'[q] = seen[q]
  PROVE  /\ ReservationsOwned' /\ SignaturesBound' /\ AcceptedHasRecord'
         /\ AnswersRecorded' /\ AnsweredWhenDone' /\ RevocationBarrier' /\ ReservationBarrier'
  <1>1. ReservationsOwned' /\ SignaturesBound' /\ AcceptedHasRecord'
    BY DEF IndInv, storeVars, ReservationsOwned, SignaturesBound, AcceptedHasRecord, VerifiedBy,
           ReservedBy
  <1>2. AnswersRecorded' /\ AnsweredWhenDone' /\ RevocationBarrier' /\ ReservationBarrier'
    BY DEF IndInv, storeVars, AnswersRecorded, AnsweredWhenDone, RevocationBarrier,
           ReservationBarrier
  <1> QED  BY <1>1, <1>2

\* Every early return of a handler: an answer that promises nothing.
LEMMA RefusalKeeps ==
  ASSUME IndInv, TypeOK', NEW r \in Request, NEW why \in Refusals, Refuse(r, why),
         UNCHANGED storeVars,
         \A q \in Request \ {r} : job'[q] = job[q] /\ seen'[q] = seen[q]
  PROVE  IndInv'
  <1>1. /\ pc'[r] = "done"
        /\ answer'[r].outcome \notin {"reserved", "recorded", "replayed"}
        /\ \A q \in Request \ {r} : pc'[q] = pc[q] /\ answer'[q] = answer[q]
    BY DEF IndInv, TypeOK, Refuse, Reply, Refusals
  <1>2. ASSUME NEW q \in Request PROVE RequestInv(q)'
    <2>1. CASE q # r
      BY <2>1, <1>1, OthersKeep DEF IndInv
    <2>2. CASE q = r
      BY <2>2, <1>1 DEF RequestInv, ReserveInv, SubmitInv, SeenIsFinal, VerifiedInv,
                        StoredInOrder, ReserveLabels, SubmitLabels, Storing
    <2> QED  BY <2>1, <2>2
  <1>3. ReservationsOwned' /\ SignaturesBound' /\ AcceptedHasRecord'
    BY DEF IndInv, storeVars, ReservationsOwned, SignaturesBound, AcceptedHasRecord, VerifiedBy,
           ReservedBy
  <1>4. AnswersRecorded' /\ AnsweredWhenDone' /\ RevocationBarrier' /\ ReservationBarrier'
    BY <1>1 DEF IndInv, storeVars, AnswersRecorded, AnsweredWhenDone, RevocationBarrier,
                ReservationBarrier
  <1> QED  BY <1>2, <1>3, <1>4 DEF IndInv

\* A step of one request that touches neither store nor answers: what the
\* request knows afterwards is all there is to show.
LEMMA LocalStepKeeps ==
  ASSUME IndInv, TypeOK', NEW r \in Request, NEW l, Goto(r, l), pc[r] # "done",
         UNCHANGED <<storeVars, answer>>,
         \A q \in Request \ {r} : job'[q] = job[q] /\ seen'[q] = seen[q],
         RequestInv(r)'
  PROVE  IndInv'
  <1>1. \A q \in Request \ {r} : pc'[q] = pc[q]
    BY DEF IndInv, TypeOK, Goto
  <1>2. ASSUME NEW q \in Request PROVE RequestInv(q)'
    BY <1>1, OthersKeep DEF IndInv
  <1>3. \A q \in Request : answer[q] # None => pc'[q] = "done" /\ seen'[q] = seen[q]
    BY <1>1 DEF IndInv, AnsweredWhenDone
  <1> QED  BY <1>2, <1>3, StoreKeeps DEF IndInv

\* The arrival of one request leaves the others alone.
LEMMA ArriveFrame ==
  ASSUME TypeOK, NEW r \in Request, NEW j, Arrive(r, j)
  PROVE  /\ pc[r] = "new" /\ job'[r] = j /\ seen'[r] = Noted(j)
         /\ \A q \in Request \ {r} : job'[q] = job[q] /\ seen'[q] = seen[q]
  BY DEF TypeOK, Arrive

\* The label Goto sets.
LEMMA GotoAt ==
  ASSUME TypeOK, NEW r \in Request, NEW l, Goto(r, l)
  PROVE  pc'[r] = l
  BY DEF TypeOK, Goto

\* An active device was not lost when the request arrived.
LEMMA ReserveDeviceInv ==
  ASSUME IndInv, TypeOK', NEW r \in Request, NEW a \in Account, NEW d \in Device,
         ReserveDevice(r, a, d)
  PROVE  IndInv'
  <1> DEFINE j == ReserveJob(a, d)
  <1>1. /\ pc[r] = "new" /\ job'[r] = j /\ seen'[r] = Noted(j)
        /\ \A q \in Request \ {r} : job'[q] = job[q] /\ seen'[q] = seen[q]
    BY ArriveFrame DEF ReserveDevice, IndInv
  <1>2. CASE Refuse(r, "not_found") \/ Refuse(r, "device_not_active")
    BY <1>1, <1>2, RefusalKeeps DEF ReserveDevice, Refusals, Outcomes
  <1>3. CASE /\ DeviceOwner[d] = a /\ device[d] = "active"
             /\ Goto(r, "reserve_cert") /\ UNCHANGED answer
    <2>1. pc'[r] = "reserve_cert"
      BY <1>3, GotoAt DEF IndInv
    <2>2. /\ ~Noted(j).lost
          /\ Noted(j).revoked => \A c \in Cert : CertDevice[c] = d => cert[c] = "revoked"
      BY <1>3 DEF Noted, ReserveJob
    <2>3. job'[r].device = d /\ job'[r].account = a /\ cert' = cert
      BY <1>1 DEF ReserveJob, ReserveDevice, storeVars
    <2>4. ReserveInv(r)'
      BY <1>1, <1>3, <2>1, <2>2, <2>3 DEF ReserveInv
    <2>5. RequestInv(r)'
      BY <2>1, <2>4 DEF RequestInv, SubmitInv, SeenIsFinal, VerifiedInv, StoredInOrder,
                        SubmitLabels, Storing
    <2> QED  BY <1>1, <1>3, <2>5, LocalStepKeeps DEF ReserveDevice
  <1> QED  BY <1>2, <1>3 DEF ReserveDevice

\* An active certificate was not revoked when the request arrived.
LEMMA ReserveCertificateInv ==
  ASSUME IndInv, TypeOK', NEW r \in Request, ReserveCertificate(r)
  PROVE  IndInv'
  <1>1. CASE Refuse(r, "no_active_certificate")
    BY <1>1, RefusalKeeps DEF ReserveCertificate, Refusals, Outcomes
  <1>2. CASE CertificatePermits(job[r].device) /\ Goto(r, "reserve_create") /\ UNCHANGED answer
    <2>1. pc'[r] = "reserve_create"
      BY <1>2, GotoAt DEF IndInv
    <2>2. ~seen[r].revoked
      BY <1>2 DEF IndInv, RequestInv, ReserveInv, ReserveCertificate, ReserveLabels,
                  CertificatePermits, CertificateByDevice
    <2>3. RequestInv(r)'
      BY <2>1, <2>2 DEF IndInv, RequestInv, ReserveInv, SubmitInv, SeenIsFinal, VerifiedInv,
         StoredInOrder, ReserveLabels, SubmitLabels, Storing, ReserveCertificate, storeVars
    <2> QED  BY <1>2, <2>3, LocalStepKeeps DEF ReserveCertificate
  <1> QED  BY <1>1, <1>2 DEF ReserveCertificate

\* The new row is owned by the device's account and disturbs no other row.
LEMMA ReserveCreateInv ==
  ASSUME IndInv, TypeOK', NEW r \in Request, ReserveCreate(r)
  PROVE  IndInv'
  <1>0. PICK p \in PublicId :
          /\ FreshPublicId(p)
          /\ \/ reservation' = [reservation EXCEPT ![p] =
                  [account |-> job[r].account, device |-> job[r].device, status |-> "reserved"]]
             \/ DbMayFail /\ UNCHANGED reservation
          /\ Reply(r, [outcome |-> "reserved", pid |-> p, hash |-> None, cert |-> None])
    BY DEF ReserveCreate
  <1>1. /\ pc'[r] = "done" /\ answer'[r].outcome = "reserved"
        /\ \A q \in Request \ {r} : pc'[q] = pc[q] /\ answer'[q] = answer[q]
    BY <1>0 DEF IndInv, TypeOK, Reply
  <1>2. \A o \in PublicId : reservation[o] # None => reservation'[o] = reservation[o]
    BY <1>0 DEF IndInv, TypeOK, FreshPublicId
  <1>3. ASSUME NEW q \in Request PROVE RequestInv(q)'
    <2>1. CASE q # r
      BY <2>1, <1>1, <1>2 DEF IndInv, ReserveCreate, RequestInv, ReserveInv, SubmitInv,
         SeenIsFinal, VerifiedInv, VerifiedBy, StoredInOrder, JobKey, ReservedBy, Storing,
         SubmitLabels
    <2>2. CASE q = r
      BY <2>2, <1>1 DEF RequestInv, ReserveInv, SubmitInv, SeenIsFinal, VerifiedInv,
                        StoredInOrder, ReserveLabels, SubmitLabels, Storing
    <2> QED  BY <2>1, <2>2
  <1>4. DeviceOwner[job[r].device] = job[r].account /\ ~seen[r].lost /\ ~seen[r].revoked
    BY DEF IndInv, RequestInv, ReserveInv, ReserveCreate, ReserveLabels
  <1>5. ReservationsOwned'
    BY <1>0, <1>4 DEF IndInv, TypeOK, ReservationsOwned
  <1>6. SignaturesBound'
    BY <1>2 DEF IndInv, SignaturesBound, ReserveCreate, ReservedBy, VerifiedBy
  <1>7. AcceptedHasRecord'
    BY <1>0 DEF IndInv, TypeOK, AcceptedHasRecord, ReserveCreate
  <1>8. AnswersRecorded' /\ AnsweredWhenDone' /\ RevocationBarrier' /\ ReservationBarrier'
    BY <1>1, <1>4 DEF IndInv, ReserveCreate, AnswersRecorded, AnsweredWhenDone,
                      RevocationBarrier, ReservationBarrier
  <1> QED  BY <1>3, <1>5, <1>6, <1>7, <1>8 DEF IndInv

\* The submission starts from the reservation row it read.
LEMMA SubmitReservationInv ==
  ASSUME IndInv, TypeOK', NEW r \in Request, NEW a \in Account, NEW p \in PublicId,
         NEW doc \in Doc, SubmitReservation(r, a, p, doc)
  PROVE  IndInv'
  <1>1. CASE Arrive(r, SubmitJob(a, None, p, doc)) /\ Refuse(r, "not_found")
    <2>1. \A q \in Request \ {r} : job'[q] = job[q] /\ seen'[q] = seen[q]
      BY <1>1, ArriveFrame DEF IndInv
    <2> QED  BY <1>1, <2>1, RefusalKeeps DEF SubmitReservation, Refusals, Outcomes
  <1>2. CASE /\ ReservedBy(p, a)
             /\ Arrive(r, SubmitJob(a, reservation[p].device, p, doc))
             /\ Goto(r, IF reservation[p].status = "accepted" THEN "replay" ELSE "input")
             /\ UNCHANGED answer
    <2> DEFINE j == SubmitJob(a, reservation[p].device, p, doc)
    <2>1. /\ pc[r] = "new" /\ job'[r] = j /\ seen'[r] = Noted(j)
          /\ \A q \in Request \ {r} : job'[q] = job[q] /\ seen'[q] = seen[q]
      BY <1>2, ArriveFrame DEF IndInv
    <2>2. pc'[r] \in {"replay", "input"}
      BY <1>2, GotoAt DEF IndInv
    <2>3. reservation[p].device \in Device
      BY <1>2 DEF ReservedBy, IndInv, TypeOK, ReservationRow
    <2>4. /\ Noted(j).lost => device[reservation[p].device] = "lost"
          /\ Noted(j).revoked => cert[doc.cert] = "revoked"
      BY <2>3 DEF Noted, SubmitJob
    <2>5. RequestInv(r)'
      BY <1>2, <2>1, <2>2, <2>4 DEF RequestInv, ReserveInv, SubmitInv, SeenIsFinal, VerifiedInv,
         StoredInOrder, ReserveLabels, SubmitLabels, Storing, Verifying, SubmitJob,
         SubmitReservation, storeVars, ReservedBy
    <2> QED  BY <1>2, <2>1, <2>5, LocalStepKeeps DEF SubmitReservation
  <1> QED  BY <1>1, <1>2 DEF SubmitReservation

\* An answer that is replayed is on record.
LEMMA SubmitReplayInv ==
  ASSUME IndInv, TypeOK', NEW r \in Request, SubmitReplay(r)
  PROVE  IndInv'
  <1>0. RequestInv(r) /\ job[r].pid \in PublicId
    BY DEF IndInv, RequestInv, SubmitInv, SubmitReplay, SubmitLabels
  <1>1. CASE signature[job[r].pid] # None /\ Reply(r, SubmissionResult("replayed", job[r].pid))
    <2>1. /\ pc'[r] = "done" /\ answer'[r].outcome = "replayed" /\ answer'[r].pid = job[r].pid
          /\ answer'[r].hash = signature[job[r].pid].hash
          /\ \A q \in Request \ {r} : pc'[q] = pc[q] /\ answer'[q] = answer[q]
      BY <1>1 DEF IndInv, TypeOK, Reply, SubmissionResult
    <2>2. ASSUME NEW q \in Request PROVE RequestInv(q)'
      <3>1. CASE q # r
        BY <3>1, <2>1, OthersKeep DEF IndInv, SubmitReplay
      <3>2. CASE q = r
        BY <3>2, <2>1 DEF RequestInv, ReserveInv, SubmitInv, SeenIsFinal, VerifiedInv,
                          StoredInOrder, ReserveLabels, SubmitLabels, Storing
      <3> QED  BY <3>1, <3>2
    <2>3. ReservationsOwned' /\ SignaturesBound' /\ AcceptedHasRecord'
      BY DEF IndInv, SubmitReplay, storeVars, ReservationsOwned, SignaturesBound,
             AcceptedHasRecord, VerifiedBy, ReservedBy
    <2>4. AnswersRecorded' /\ AnsweredWhenDone' /\ RevocationBarrier' /\ ReservationBarrier'
      BY <1>0, <1>1, <2>1 DEF IndInv, SubmitReplay, storeVars, AnswersRecorded, AnsweredWhenDone,
                              RevocationBarrier, ReservationBarrier
    <2> QED  BY <2>2, <2>3, <2>4 DEF IndInv
  <1>2. CASE Goto(r, "input") /\ UNCHANGED answer
    <2>1. pc'[r] = "input"
      BY <1>2, GotoAt DEF IndInv
    <2>2. RequestInv(r)'
      BY <1>0, <2>1 DEF SubmitReplay, RequestInv, ReserveInv, SubmitInv, SeenIsFinal,
         VerifiedInv, StoredInOrder, ReserveLabels, SubmitLabels, Storing, Verifying, storeVars,
         ReservedBy
    <2> QED  BY <1>2, <2>2, LocalStepKeeps DEF SubmitReplay
  <1> QED  BY <1>1, <1>2 DEF SubmitReplay

\* Only documents of the verified tier enter strictVerify.
LEMMA SubmitInputInv ==
  ASSUME IndInv, TypeOK', NEW r \in Request, SubmitInput(r)
  PROVE  IndInv'
  <1>0. RequestInv(r)
    BY DEF IndInv
  <1>1. CASE Refuse(r, "too_large") /\ UNCHANGED job
    BY <1>1, RefusalKeeps DEF SubmitInput, Refusals, Outcomes
  <1>2. CASE /\ job' = [job EXCEPT ![r].month = month]
             /\ Goto(r, IF job[r].doc.size <= MaxVerifyBytes THEN "check_signature"
                                                             ELSE "put_object")
             /\ UNCHANGED answer
    <2>1. \/ pc'[r] = "check_signature" /\ job[r].doc.size <= MaxVerifyBytes
          \/ pc'[r] = "put_object"
      BY <1>2, GotoAt DEF IndInv
    <2>2. /\ job'[r] = [job[r] EXCEPT !.month = month]
          /\ \A q \in Request \ {r} : job'[q] = job[q]
      BY <1>2 DEF IndInv, TypeOK
    <2>3. /\ job'[r].account = job[r].account /\ job'[r].device = job[r].device
          /\ job'[r].pid = job[r].pid /\ job'[r].doc = job[r].doc /\ job'[r].cert = job[r].cert
          /\ job'[r].month = month
      BY <2>2 DEF IndInv, TypeOK, Job
    <2>4. month \in Months
      BY DEF IndInv, TypeOK
    <2>5. RequestInv(r)'
      BY <1>0, <2>1, <2>3, <2>4 DEF SubmitInput, RequestInv, ReserveInv, SubmitInv, SeenIsFinal,
         VerifiedInv, StoredInOrder, ReserveLabels, SubmitLabels, Storing, Verifying, storeVars,
         ReservedBy
    <2> QED  BY <1>2, <2>2, <2>5, LocalStepKeeps DEF SubmitInput
  <1> QED  BY <1>1, <1>2 DEF SubmitInput

\* strictVerify, the lookup of the record.
LEMMA VerifyUnrecordedInv ==
  ASSUME IndInv, TypeOK', NEW r \in Request, VerifyUnrecorded(r)
  PROVE  IndInv'
  <1>1. CASE Refuse(r, "rejected") \/ Refuse(r, "already_completed")
    BY <1>1, RefusalKeeps DEF VerifyUnrecorded, Refusals, Outcomes
  <1>2. CASE Goto(r, "check_device") /\ UNCHANGED answer
    <2>1. pc'[r] = "check_device"
      BY <1>2, GotoAt DEF IndInv
    <2>2. RequestInv(r)'
      BY <2>1 DEF IndInv, VerifyUnrecorded, RequestInv, ReserveInv, SubmitInv, SeenIsFinal,
         VerifiedInv, StoredInOrder, ReserveLabels, SubmitLabels, Storing, Verifying, storeVars,
         ReservedBy
    <2> QED  BY <1>2, <2>2, LocalStepKeeps DEF VerifyUnrecorded
  <1> QED  BY <1>1, <1>2 DEF VerifyUnrecorded

\* A device found active was not lost when the submission arrived.
LEMMA VerifyDeviceInv ==
  ASSUME IndInv, TypeOK', NEW r \in Request, VerifyDevice(r)
  PROVE  IndInv'
  <1>1. CASE Refuse(r, "device_not_active")
    BY <1>1, RefusalKeeps DEF VerifyDevice, Refusals, Outcomes
  <1>2. CASE device[job[r].device] = "active" /\ Goto(r, "verify_pdf") /\ UNCHANGED answer
    <2>1. pc'[r] = "verify_pdf"
      BY <1>2, GotoAt DEF IndInv
    <2>2. RequestInv(r)'
      BY <1>2, <2>1 DEF IndInv, VerifyDevice, RequestInv, ReserveInv, SubmitInv, SeenIsFinal,
         VerifiedInv, StoredInOrder, ReserveLabels, SubmitLabels, Storing, Verifying, storeVars,
         ReservedBy
    <2> QED  BY <1>2, <2>2, LocalStepKeeps DEF VerifyDevice
  <1> QED  BY <1>1, <1>2 DEF VerifyDevice

\* What VerifyPDF establishes about the document.
LEMMA VerifyDocumentInv ==
  ASSUME IndInv, TypeOK', NEW r \in Request, VerifyDocument(r)
  PROVE  IndInv'
  <1>1. CASE Refuse(r, "over_verifier_limit") \/ Refuse(r, "rejected")
    BY <1>1, RefusalKeeps DEF VerifyDocument, Refusals, Outcomes
  <1>2. CASE /\ job[r].doc.sound /\ job[r].doc.pid = job[r].pid
             /\ Goto(r, "check_certificate") /\ UNCHANGED answer
    <2>1. pc'[r] = "check_certificate"
      BY <1>2, GotoAt DEF IndInv
    <2>2. RequestInv(r)'
      BY <1>2, <2>1 DEF IndInv, VerifyDocument, RequestInv, ReserveInv, SubmitInv, SeenIsFinal,
         VerifiedInv, StoredInOrder, ReserveLabels, SubmitLabels, Storing, Verifying, storeVars,
         ReservedBy
    <2> QED  BY <1>2, <2>2, LocalStepKeeps DEF VerifyDocument
  <1> QED  BY <1>1, <1>2 DEF VerifyDocument

\* An active row of the device makes the document verified.
LEMMA VerifyCertificateInv ==
  ASSUME IndInv, TypeOK', NEW r \in Request, VerifyCertificate(r)
  PROVE  IndInv'
  <1> DEFINE c == job[r].doc.cert
  <1>0. RequestInv(r)
    BY DEF IndInv
  <1>1. CASE Refuse(r, "rejected") /\ UNCHANGED job
    BY <1>1, RefusalKeeps DEF VerifyCertificate, Refusals, Outcomes
  <1>2. CASE /\ RegisteredTo(c, job[r]) /\ job' = [job EXCEPT ![r].cert = c]
             /\ Goto(r, "put_object") /\ UNCHANGED answer
    <2>1. pc'[r] = "put_object"
      BY <1>2, GotoAt DEF IndInv
    <2>2. /\ job'[r] = [job[r] EXCEPT !.cert = c]
          /\ \A q \in Request \ {r} : job'[q] = job[q]
      BY <1>2 DEF IndInv, TypeOK
    <2>3. /\ job'[r].account = job[r].account /\ job'[r].device = job[r].device
          /\ job'[r].pid = job[r].pid /\ job'[r].doc = job[r].doc /\ job'[r].cert = c
          /\ job'[r].month = job[r].month
      BY <2>2 DEF IndInv, TypeOK, Job
    <2>4. ReserveInv(r)' /\ SubmitInv(r)' /\ SeenIsFinal(r)' /\ StoredInOrder(r)'
      BY <1>0, <2>1, <2>3 DEF VerifyCertificate, RequestInv, ReserveInv, SubmitInv, SeenIsFinal,
         StoredInOrder, ReserveLabels, SubmitLabels, Storing, Verifying, storeVars, ReservedBy
    <2>5. VerifiedInv(r)'
      BY <1>0, <1>2, <2>1, <2>3 DEF VerifyCertificate, RequestInv, SubmitInv, SeenIsFinal,
         VerifiedInv, VerifiedBy, RegisteredTo, SubmitLabels, Verifying, storeVars
    <2> QED  BY <1>2, <2>2, <2>4, <2>5, LocalStepKeeps DEF VerifyCertificate, RequestInv
  <1> QED  BY <1>1, <1>2 DEF VerifyCertificate

\* Replacing an object never empties a key.
LEMMA SubmitPutObjectInv ==
  ASSUME IndInv, TypeOK', NEW r \in Request, SubmitPutObject(r)
  PROVE  IndInv'
  <1>0. /\ RequestInv(r) /\ JobKey(r) \in Key /\ job[r].doc \in Doc
    BY DEF IndInv, RequestInv, SubmitInv, SubmitPutObject, SubmitLabels, Storing, JobKey, Key
  <1>1. CASE Refuse(r, "store_error") /\ UNCHANGED object
    BY <1>1, RefusalKeeps DEF SubmitPutObject, Refusals, Outcomes, storeVars
  <1>2. CASE /\ object' = [object EXCEPT ![JobKey(r)] = job[r].doc]
             /\ Goto(r, "create_signature") /\ UNCHANGED answer
    <2>1. /\ pc'[r] = "create_signature"
          /\ \A q \in Request \ {r} : pc'[q] = pc[q]
      BY <1>2 DEF IndInv, TypeOK, Goto
    <2>2. /\ object'[JobKey(r)] # None
          /\ \A k \in Key : object[k] # None => object'[k] # None
      BY <1>0, <1>2 DEF IndInv, TypeOK
    <2>3. ASSUME NEW q \in Request PROVE RequestInv(q)'
      <3>1. CASE q # r
        <4>1. pc[q] = "create_signature" => JobKey(q) \in Key
          BY DEF IndInv, RequestInv, SubmitInv, SubmitLabels, Storing, JobKey, Key
        <4>2. StoredInOrder(q)'
          BY <2>1, <2>2, <3>1, <4>1 DEF IndInv, RequestInv, StoredInOrder, SubmitPutObject, JobKey
        <4> QED  BY <2>1, <3>1, <4>2 DEF IndInv, SubmitPutObject, RequestInv, ReserveInv,
                 SubmitInv, SeenIsFinal, VerifiedInv, VerifiedBy, ReservedBy
      <3>2. CASE q = r
        BY <1>0, <2>1, <2>2, <3>2 DEF SubmitPutObject, RequestInv, ReserveInv, SubmitInv,
           SeenIsFinal, VerifiedInv, VerifiedBy, StoredInOrder, JobKey, ReserveLabels,
           SubmitLabels, Storing, Verifying, ReservedBy
      <3> QED  BY <3>1, <3>2
    <2>4. \A p \in PublicId : signature[p] # None => signature[p].key \in Key
      BY DEF IndInv, TypeOK, SignatureRow
    <2>5. ReservationsOwned' /\ SignaturesBound' /\ AcceptedHasRecord'
      BY <2>2, <2>4 DEF IndInv, SubmitPutObject, ReservationsOwned, SignaturesBound,
                        AcceptedHasRecord, VerifiedBy, ReservedBy
    <2>6. AnswersRecorded' /\ AnsweredWhenDone' /\ RevocationBarrier' /\ ReservationBarrier'
      BY <1>2, <2>1 DEF IndInv, SubmitPutObject, AnswersRecorded, AnsweredWhenDone,
                        RevocationBarrier, ReservationBarrier
    <2> QED  BY <2>3, <2>5, <2>6 DEF IndInv
  <1> QED  BY <1>1, <1>2 DEF SubmitPutObject, PutObject

\* The row is inserted after its object, once, with what was verified.
LEMMA SubmitCreateSignatureInv ==
  ASSUME IndInv, TypeOK', NEW r \in Request, SubmitCreateSignature(r)
  PROVE  IndInv'
  <1> DEFINE p == job[r].pid
             row == [account |-> job[r].account, device |-> job[r].device, cert |-> job[r].cert,
                     hash |-> job[r].doc, key |-> JobKey(r)]
  <1>0. RequestInv(r) /\ p \in PublicId
    BY DEF IndInv, RequestInv, SubmitInv, SubmitCreateSignature, SubmitLabels
  <1>1. CASE Refuse(r, "conflict") /\ UNCHANGED signature
    BY <1>1, RefusalKeeps DEF SubmitCreateSignature, Refusals, Outcomes, storeVars
  <1>2. CASE /\ InsertSucceeds(p) /\ signature' = [signature EXCEPT ![p] = row]
             /\ Goto(r, "set_accepted") /\ UNCHANGED answer
    <2>1. /\ pc'[r] = "set_accepted"
          /\ \A q \in Request \ {r} : pc'[q] = pc[q]
      BY <1>2 DEF IndInv, TypeOK, Goto
    <2>2. /\ signature[p] = None /\ signature'[p] = row
          /\ \A o \in PublicId \ {p} : signature'[o] = signature[o]
      BY <1>0, <1>2 DEF IndInv, TypeOK, InsertSucceeds
    <2>3. row # None
      <3>1. row \in SignatureRow
        BY <1>0 DEF IndInv, TypeOK, RequestInv, SubmitInv, SubmitCreateSignature, SubmitLabels,
                    Storing, ReservedBy, ReservationRow, Job, SignatureRow, JobKey, Key
      <3> QED  BY <3>1
    <2>4. \A o \in PublicId : signature[o] # None => signature'[o] = signature[o]
      BY <2>2
    <2>5. ASSUME NEW q \in Request PROVE RequestInv(q)'
      <3>1. CASE q # r
        <4>1. pc[q] = "set_accepted" => job[q].pid \in PublicId
          BY DEF IndInv, RequestInv, SubmitInv, SubmitLabels
        <4>2. StoredInOrder(q)'
          BY <2>1, <2>4, <3>1, <4>1
             DEF IndInv, RequestInv, StoredInOrder, SubmitCreateSignature, JobKey
        <4> QED  BY <2>1, <3>1, <4>2 DEF IndInv, SubmitCreateSignature, RequestInv, ReserveInv,
                 SubmitInv, SeenIsFinal, VerifiedInv, VerifiedBy, ReservedBy
      <3>2. CASE q = r
        BY <1>0, <2>1, <2>2, <2>3, <3>2 DEF SubmitCreateSignature, RequestInv, ReserveInv,
           SubmitInv, SeenIsFinal, VerifiedInv, VerifiedBy, StoredInOrder, ReserveLabels,
           SubmitLabels, Storing, Verifying, ReservedBy
      <3> QED  BY <3>1, <3>2
    <2>6. SignaturesBound'
      <3> SUFFICES ASSUME NEW o \in PublicId, signature'[o] # None
                   PROVE  /\ ReservedBy(o, signature[o].account)'
                          /\ signature'[o].device = reservation'[o].device
                          /\ object'[signature'[o].key] # None
                          /\ signature'[o].cert # None =>
                               VerifiedBy(signature[o].cert, signature[o].hash, o)'
        BY DEF SignaturesBound
      <3>1. CASE o # p
        BY <2>2, <3>1 DEF IndInv, SignaturesBound, SubmitCreateSignature, ReservedBy, VerifiedBy
      <3>2. CASE o = p
        BY <1>0, <2>2, <3>2 DEF RequestInv, SubmitInv, VerifiedInv, StoredInOrder, SubmitLabels,
           Storing, SubmitCreateSignature, ReservedBy, VerifiedBy
      <3> QED  BY <3>1, <3>2
    <2>7. ReservationsOwned' /\ AcceptedHasRecord'
      BY <2>4 DEF IndInv, SubmitCreateSignature, ReservationsOwned, AcceptedHasRecord
    <2>8. AnswersRecorded' /\ AnsweredWhenDone' /\ RevocationBarrier' /\ ReservationBarrier'
      BY <1>2, <2>1, <2>4 DEF IndInv, SubmitCreateSignature, AnswersRecorded, AnsweredWhenDone,
                              RevocationBarrier, ReservationBarrier
    <2> QED  BY <2>5, <2>6, <2>7, <2>8 DEF IndInv
  <1> QED  BY <1>1, <1>2 DEF SubmitCreateSignature

\* The reservation is marked after the row, and the answer is on record.
LEMMA SubmitSetAcceptedInv ==
  ASSUME IndInv, TypeOK', NEW r \in Request, SubmitSetAccepted(r)
  PROVE  IndInv'
  <1> DEFINE p == job[r].pid
  <1>0. /\ RequestInv(r) /\ p \in PublicId
        /\ signature[p] # None /\ signature[p].hash = job[r].doc /\ signature[p].cert = job[r].cert
    BY DEF IndInv, RequestInv, SubmitInv, StoredInOrder, SubmitSetAccepted, SubmitLabels
  <1>1. /\ pc'[r] = "done" /\ answer'[r].outcome = "recorded" /\ answer'[r].pid = p
        /\ answer'[r].hash = signature[p].hash /\ answer'[r].cert = signature[p].cert
        /\ \A q \in Request \ {r} : pc'[q] = pc[q] /\ answer'[q] = answer[q]
    BY DEF IndInv, TypeOK, SubmitSetAccepted, Reply, SubmissionResult
  <1>2. \A o \in PublicId :
          /\ reservation'[o] = None <=> reservation[o] = None
          /\ reservation[o] # None => /\ reservation'[o].account = reservation[o].account
                                      /\ reservation'[o].device = reservation[o].device
          /\ o # p => reservation'[o] = reservation[o]
    <2>1. CASE UNCHANGED reservation
      BY <2>1
    <2>2. CASE MarkAccepted(p)
      <3>1. reservation[p] \in ReservationRow
        BY <1>0 DEF IndInv, TypeOK, RequestInv, SubmitInv, ReservedBy, SubmitSetAccepted,
                    SubmitLabels
      <3>2. /\ reservation'[p] = [reservation[p] EXCEPT !.status = "accepted"]
            /\ \A o \in PublicId \ {p} : reservation'[o] = reservation[o]
        BY <1>0, <2>2 DEF IndInv, TypeOK, MarkAccepted
      <3>3. /\ reservation'[p].account = reservation[p].account
            /\ reservation'[p].device = reservation[p].device
            /\ reservation'[p].status = "accepted"
        BY <3>1, <3>2 DEF ReservationRow
      <3>4. reservation'[p] # None /\ reservation[p] # None
        BY <1>0, <3>1, <3>2 DEF ReservationRow
      <3> QED  BY <3>2, <3>3, <3>4
    <2> QED  BY <2>1, <2>2 DEF SubmitSetAccepted
  <1>3. ASSUME NEW q \in Request PROVE RequestInv(q)'
    <2>1. CASE q # r
      <3>1. SubmitInv(q)'
        BY <1>1, <1>2, <2>1 DEF IndInv, SubmitSetAccepted, RequestInv, SubmitInv, ReservedBy
      <3>2. VerifiedInv(q)'
        <4>1. pc[q] \in Storing =>
                job[q].pid \in PublicId /\ reservation[job[q].pid] # None
          BY DEF IndInv, RequestInv, SubmitInv, ReservedBy, Storing, SubmitLabels
        <4> QED  BY <1>1, <1>2, <2>1, <4>1 DEF IndInv, SubmitSetAccepted, RequestInv,
                    VerifiedInv, VerifiedBy
      <3> QED  BY <1>1, <2>1, <3>1, <3>2 DEF IndInv, SubmitSetAccepted, RequestInv, ReserveInv,
               SeenIsFinal, StoredInOrder, JobKey
    <2>2. CASE q = r
      BY <2>2, <1>1 DEF RequestInv, ReserveInv, SubmitInv, SeenIsFinal, VerifiedInv,
                        StoredInOrder, ReserveLabels, SubmitLabels, Storing
    <2> QED  BY <2>1, <2>2
  <1>4. ReservationsOwned' /\ SignaturesBound'
    BY <1>2 DEF IndInv, SubmitSetAccepted, ReservationsOwned, SignaturesBound, VerifiedBy,
                ReservedBy
  <1>5. AcceptedHasRecord'
    BY <1>0, <1>2 DEF IndInv, SubmitSetAccepted, AcceptedHasRecord
  <1>6. AnswersRecorded' /\ AnsweredWhenDone' /\ ReservationBarrier'
    BY <1>0, <1>1 DEF IndInv, SubmitSetAccepted, AnswersRecorded, AnsweredWhenDone,
                      ReservationBarrier
  <1>7. RevocationBarrier'
    BY <1>0, <1>1 DEF IndInv, SubmitSetAccepted, RevocationBarrier, RequestInv, VerifiedInv,
                      Storing
  <1> QED  BY <1>3, <1>4, <1>5, <1>6, <1>7 DEF IndInv

\* Binding and revoking certificates only withdraws what requests rely on being final.
LEMMA CertificateChangeInv ==
  ASSUME IndInv, TypeOK', NEW c \in Cert, BindCertificate(c) \/ RevokeCertificate(c)
  PROVE  IndInv'
  <1>1. \A b \in Cert : /\ cert[b] = "revoked" => cert'[b] = "revoked"
                        /\ cert[b] # "none" => cert'[b] # "none"
    BY DEF IndInv, TypeOK, BindCertificate, RevokeCertificate
  <1>2. UNCHANGED <<device, reservation, signature, object, pc, job, answer, seen>>
    BY DEF BindCertificate, RevokeCertificate
  <1>3. ASSUME NEW q \in Request PROVE RequestInv(q)'
    <2>1. pc[q] \in SubmitLabels => job[q].doc.cert \in Cert
      BY DEF IndInv, RequestInv, SubmitInv, DocType
    <2>2. job[q].cert # None => job[q].cert \in Cert
      BY DEF IndInv, TypeOK, Job
    <2>3. ReserveInv(q)' /\ SubmitInv(q)' /\ StoredInOrder(q)'
      BY <1>1, <1>2 DEF IndInv, RequestInv, ReserveInv, SubmitInv, StoredInOrder, JobKey,
                        ReservedBy
    <2>4. SeenIsFinal(q)' /\ VerifiedInv(q)'
      BY <1>1, <1>2, <2>1, <2>2 DEF IndInv, RequestInv, SeenIsFinal, VerifiedInv, VerifiedBy
    <2> QED  BY <2>3, <2>4 DEF RequestInv
  <1>4. SignaturesBound'
    <2>1. \A p \in PublicId : signature[p] # None /\ signature[p].cert # None
                                => signature[p].cert \in Cert
      BY DEF IndInv, TypeOK, SignatureRow
    <2> QED  BY <1>1, <1>2, <2>1 DEF IndInv, SignaturesBound, VerifiedBy, ReservedBy
  <1>5. /\ ReservationsOwned' /\ AcceptedHasRecord' /\ AnswersRecorded' /\ AnsweredWhenDone'
        /\ RevocationBarrier' /\ ReservationBarrier'
    BY <1>2 DEF IndInv, ReservationsOwned, AcceptedHasRecord, AnswersRecorded, AnsweredWhenDone,
                RevocationBarrier, ReservationBarrier
  <1> QED  BY <1>3, <1>4, <1>5 DEF IndInv

\* So does losing a device.
LEMMA ReportLostInv ==
  ASSUME IndInv, TypeOK', NEW d \in Device, ReportLost(d)
  PROVE  IndInv'
  <1>1. \A e \in Device : device[e] = "lost" => device'[e] = "lost"
    BY DEF IndInv, TypeOK, ReportLost
  <1>2. UNCHANGED <<cert, reservation, signature, object, pc, job, answer, seen>>
    BY DEF ReportLost
  <1>3. ASSUME NEW q \in Request PROVE RequestInv(q)'
    <2>1. pc[q] \in SubmitLabels => job[q].device \in Device
      BY DEF IndInv, RequestInv, SubmitInv, ReservedBy, TypeOK, ReservationRow
    <2>2. SeenIsFinal(q)'
      BY <1>1, <1>2, <2>1 DEF IndInv, RequestInv, SeenIsFinal
    <2> QED  BY <1>2, <2>2 DEF IndInv, RequestInv, ReserveInv, SubmitInv, VerifiedInv,
             VerifiedBy, StoredInOrder, JobKey, ReservedBy
  <1>4. /\ ReservationsOwned' /\ SignaturesBound' /\ AcceptedHasRecord' /\ AnswersRecorded'
        /\ AnsweredWhenDone' /\ RevocationBarrier' /\ ReservationBarrier'
    BY <1>2 DEF IndInv, ReservationsOwned, SignaturesBound, VerifiedBy, ReservedBy,
                AcceptedHasRecord, AnswersRecorded, AnsweredWhenDone, RevocationBarrier,
                ReservationBarrier
  <1> QED  BY <1>3, <1>4 DEF IndInv

\* CRL imports and the calendar touch nothing the invariant mentions.
LEMMA ServerChangeInv ==
  ASSUME IndInv, TypeOK', UNCHANGED <<storeVars, pc, job, answer, seen>>
  PROVE  IndInv'
  <1>1. ASSUME NEW q \in Request PROVE RequestInv(q)'
    BY OthersKeep DEF IndInv
  <1>2. \A q \in Request : answer[q] # None => pc'[q] = "done" /\ seen'[q] = seen[q]
    BY DEF IndInv, AnsweredWhenDone
  <1> QED  BY <1>1, <1>2, StoreKeeps DEF IndInv

\* Requests that are cut off keep no promises; the store survives.
LEMMA CrashInv ==
  ASSUME IndInv, TypeOK', Crash
  PROVE  IndInv'
  <1>1. \A q \in Request : pc'[q] = pc[q] \/ pc'[q] = "dead"
    BY DEF Crash
  <1>2. ASSUME NEW q \in Request PROVE RequestInv(q)'
    <2>1. CASE pc'[q] = pc[q]
      BY <2>1, OthersKeep DEF IndInv, Crash
    <2>2. CASE pc'[q] = "dead"
      BY <2>2 DEF RequestInv, ReserveInv, SubmitInv, SeenIsFinal, VerifiedInv, StoredInOrder,
                  ReserveLabels, SubmitLabels, Storing
    <2> QED  BY <1>1, <2>1, <2>2
  <1>3. \A q \in Request : answer[q] # None => pc'[q] = "done" /\ seen'[q] = seen[q]
    BY DEF IndInv, AnsweredWhenDone, Crash, InFlight
  <1> QED  BY <1>2, <1>3, StoreKeeps DEF IndInv, Crash

\* Every step of the receiver keeps the invariant.
LEMMA NextInv == IndInv /\ [Next]_vars => IndInv'
  <1> SUFFICES ASSUME IndInv, [Next]_vars PROVE IndInv'
    OBVIOUS
  <1>0. TypeOK'
    BY NextType DEF IndInv
  <1>1. ASSUME NEW r \in Request, NEW a \in Account, NEW d \in Device, ReserveDevice(r, a, d)
        PROVE  IndInv'
    BY <1>0, <1>1, ReserveDeviceInv
  <1>2. ASSUME NEW r \in Request, NEW a \in Account, NEW p \in PublicId, NEW doc \in Doc,
               SubmitReservation(r, a, p, doc)
        PROVE  IndInv'
    BY <1>0, <1>2, SubmitReservationInv
  <1>3. ASSUME NEW r \in Request, RequestStep(r)
        PROVE  IndInv'
    BY <1>0, <1>3, ReserveCertificateInv, ReserveCreateInv, SubmitReplayInv, SubmitInputInv,
       VerifyUnrecordedInv, VerifyDeviceInv, VerifyDocumentInv, VerifyCertificateInv,
       SubmitPutObjectInv, SubmitCreateSignatureInv, SubmitSetAcceptedInv DEF RequestStep
  <1>4. ASSUME NEW c \in Cert, BindCertificate(c) \/ RevokeCertificate(c)
        PROVE  IndInv'
    BY <1>0, <1>4, CertificateChangeInv
  <1>5. ASSUME NEW d \in Device, ReportLost(d)
        PROVE  IndInv'
    BY <1>0, <1>5, ReportLostInv
  <1>6. ASSUME NEW S \in CRLs, ImportCRL(S)
        PROVE  IndInv'
    BY <1>0, <1>6, ServerChangeInv DEF ImportCRL
  <1>7. CASE NextMonth
    BY <1>0, <1>7, ServerChangeInv DEF NextMonth
  <1>8. CASE Crash
    BY <1>0, <1>8, CrashInv
  <1>9. CASE UNCHANGED vars
    BY <1>0, <1>9, ServerChangeInv DEF vars
  <1> QED  BY <1>1, <1>2, <1>3, <1>4, <1>5, <1>6, <1>7, <1>8, <1>9 DEF Next

-----------------------------------------------------------------------------
(* In every behaviour of the receiver every request in flight can rely on     *)
(* what it has read so far (IndInv): the store calls of other requests,       *)
(* failures and crashes never invalidate it.                                  *)
THEOREM Invariance == Spec => []IndInv
  BY InitInv, NextInv, PTL DEF Spec

(* Rows, local variables and answers keep their types: in particular the      *)
(* reservation and signature rows hSubmitDocument writes are well formed.     *)
THEOREM TypeCorrect == Spec => []TypeOK
  <1>1. IndInv => TypeOK
    BY DEF IndInv
  <1> QED  BY <1>1, Invariance, PTL

(* A reservation marked accepted has its signature row, whatever fails.       *)
THEOREM AcceptedImpliesRecord == Spec => []AcceptedHasRecord
  <1>1. IndInv => AcceptedHasRecord
    BY DEF IndInv
  <1> QED  BY <1>1, Invariance, PTL

(* A signature row never points at a missing object, whatever fails.          *)
THEOREM RecordImpliesObject == Spec => []RecordHasObject
  <1>1. IndInv => RecordHasObject
    BY DEF IndInv, SignaturesBound, RecordHasObject, Download, OpenObject
  <1> QED  BY <1>1, Invariance, PTL

(* What the public page calls "active" is backed by a sound document of this  *)
(* public id and a certificate of the device that reserved it, neither of     *)
(* them withdrawn unless the lookup that would show it failed                 *)
(* (handlers.go:600-606).                                                     *)
THEOREM ActiveIsBacked == Spec => []ActiveRecordIsBacked
  <1>1. IndInv => ActiveRecordIsBacked
    <2> SUFFICES ASSUME IndInv, NEW p \in PublicId, NEW failed \in LookupFailures,
                        signature[p] # None, PublicStatus(p, failed) = "active"
                 PROVE  LET sig == signature[p] IN
                        /\ sig.hash.sound /\ sig.hash.pid = p /\ sig.hash.cert = sig.cert
                        /\ sig.hash.size <= MaxVerifyBytes
                        /\ CertDevice[sig.cert] = reservation[p].device
                        /\ DeviceOwner[reservation[p].device] = reservation[p].account
                        /\ "certificate" \notin failed => cert[sig.cert] = "active"
                        /\ "device" \notin failed => device[reservation[p].device] = "active"
      BY DEF ActiveRecordIsBacked
    <2>1. /\ signature[p].cert # None
          /\ "certificate" \notin failed => cert[signature[p].cert] # "revoked"
          /\ "device" \notin failed => device[signature[p].device] # "lost"
      BY DEF PublicStatus
    <2>2. VerifiedBy(signature[p].cert, signature[p].hash, p)
      BY <2>1 DEF IndInv, SignaturesBound
    <2>3. cert[signature[p].cert] \in CertStatus
      BY <2>1 DEF IndInv, TypeOK, SignatureRow
    <2>4. DeviceOwner[reservation[p].device] = reservation[p].account
      BY DEF IndInv, SignaturesBound, ReservedBy, ReservationsOwned
    <2>5. signature[p].device = reservation[p].device /\ device[signature[p].device] \in DeviceStatus
      BY DEF IndInv, TypeOK, SignatureRow, SignaturesBound
    <2> QED  BY <2>1, <2>2, <2>3, <2>4, <2>5 DEF VerifiedBy, CertStatus, DeviceStatus
  <1> QED  BY <1>1, Invariance, PTL

(* No submission that began after the revocation of its certificate, or the   *)
(* loss of its device, is recorded as verified.                               *)
THEOREM RevocationIsBarrier == Spec => []RevocationBarrier
  <1>1. IndInv => RevocationBarrier
    BY DEF IndInv
  <1> QED  BY <1>1, Invariance, PTL

(* No reservation is granted to a request that began after its device was     *)
(* reported lost or all certificates of the device were revoked.              *)
THEOREM ReservationIsBarrier == Spec => []ReservationBarrier
  <1>1. IndInv => ReservationBarrier
    BY DEF IndInv
  <1> QED  BY <1>1, Invariance, PTL

-----------------------------------------------------------------------------
(* The receiver implements the registry *)

\* The registry view of the store depends on its rows only.
LEMMA SameStoreSameView ==
  ASSUME UNCHANGED <<reservation, signature>>
  PROVE  ReservedView' = ReservedView /\ RecordedView' = RecordedView
  BY DEF ReservedView, RecordedView

\* The registry view of the acknowledgements depends on the answers only.
LEMMA SameAnswersSameView ==
  ASSUME UNCHANGED answer
  PROVE  AckedView' = AckedView
  BY DEF AckedView, Acking

\* An answer other than a 200 with a hash acknowledges nothing.
LEMMA RefusalAcksNothing ==
  ASSUME IndInv, NEW r \in Request, pc[r] # "done", NEW a \in AnswerType,
         a.outcome \notin {"recorded", "replayed"}, Reply(r, a)
  PROVE  AckedView' = AckedView
  <1>1. /\ answer[r] = None /\ answer'[r] = a
        /\ \A q \in Request \ {r} : answer'[q] = answer[q]
    BY DEF IndInv, AnsweredWhenDone, TypeOK, Reply
  <1>2. Acking' = Acking /\ r \notin Acking
    BY <1>1 DEF Acking
  <1>3. \A q \in Acking : answer'[q] = answer[q]
    BY <1>1, <1>2 DEF Acking
  <1>4. AckedView' = {<<answer'[q].pid, answer'[q].hash>> : q \in Acking}
    BY <1>2 DEF AckedView
  <1> QED  BY <1>3, <1>4 DEF AckedView

\* No early return acknowledges anything.
LEMMA RefuseAcksNothing ==
  ASSUME IndInv, NEW r \in Request, pc[r] # "done", NEW why \in Refusals, Refuse(r, why)
  PROVE  AckedView' = AckedView
  BY RefusalAcksNothing DEF Refuse, Refusals, AnswerType

\* An answer with the hash on record is an Acknowledge step.
LEMMA AckIsAcknowledge ==
  ASSUME IndInv, NEW r \in Request, pc[r] # "done", NEW p \in PublicId, signature[p] # None,
         NEW o \in {"recorded", "replayed"}, Reply(r, SubmissionResult(o, p))
  PROVE  /\ RecordedView[p] # None
         /\ AckedView' = AckedView \cup {<<p, RecordedView[p].hash>>}
  <1>1. SubmissionResult(o, p) \in AnswerType
    BY ResultType DEF IndInv, Outcomes
  <1>2. /\ answer[r] = None /\ answer'[r] # None /\ answer'[r].outcome = o
        /\ answer'[r].pid = p /\ answer'[r].hash = signature[p].hash
        /\ \A q \in Request \ {r} : answer'[q] = answer[q]
    BY <1>1 DEF IndInv, AnsweredWhenDone, TypeOK, Reply, SubmissionResult
  <1>3. Acking' = Acking \cup {r} /\ r \notin Acking
    BY <1>2 DEF Acking
  <1>4. RecordedView[p] # None /\ RecordedView[p].hash = signature[p].hash
    <2>1. RecordedView[p] \in RecordView
      BY DEF RecordedView, RecordView, IndInv, TypeOK, SignatureRow
    <2> QED  BY <2>1 DEF RecordedView
  <1>5. \A q \in Acking : answer'[q] = answer[q]
    BY <1>2, <1>3 DEF Acking
  <1>6. AckedView' = {<<answer'[q].pid, answer'[q].hash>> : q \in Acking \cup {r}}
    BY <1>3 DEF AckedView
  <1> QED  BY <1>2, <1>4, <1>5, <1>6 DEF AckedView

\* An idle server is an empty registry.
LEMMA InitRefines == Init => Registry!RegistryInit
  BY DEF Init, Registry!RegistryInit, ReservedView, RecordedView, AckedView, Acking

\* Steps that leave rows and acknowledgements alone are stuttering steps.
LEMMA StutterRefines ==
  ASSUME UNCHANGED <<reservation, signature>>, AckedView' = AckedView
  PROVE  UNCHANGED Registry!registryVars
  BY SameStoreSameView DEF Registry!registryVars

\* hReserve's insert is a Reserve step, or a stutter when it fails.
LEMMA ReserveRefines ==
  ASSUME IndInv, IndInv', NEW r \in Request, ReserveCreate(r)
  PROVE  [Registry!RegistryNext]_Registry!registryVars
  <1> DEFINE d == job[r].device
  <1>1. PICK p \in PublicId :
          /\ FreshPublicId(p)
          /\ \/ reservation' = [reservation EXCEPT ![p] =
                  [account |-> job[r].account, device |-> d, status |-> "reserved"]]
             \/ DbMayFail /\ UNCHANGED reservation
          /\ Reply(r, [outcome |-> "reserved", pid |-> p, hash |-> None, cert |-> None])
    BY DEF ReserveCreate
  <1>2. AckedView' = AckedView
    <2>1. [outcome |-> "reserved", pid |-> p, hash |-> None, cert |-> None] \in AnswerType
      BY DEF AnswerType, Outcomes
    <2> QED  BY <1>1, <2>1, RefusalAcksNothing DEF ReserveCreate
  <1>3. CASE UNCHANGED reservation
    BY <1>2, <1>3, StutterRefines DEF ReserveCreate
  <1>4. CASE reservation' = [reservation EXCEPT ![p] =
               [account |-> job[r].account, device |-> d, status |-> "reserved"]]
    <2>1. d \in Device /\ job[r].account = DeviceOwner[d] /\ reservation[p] = None
      BY <1>1 DEF IndInv, RequestInv, ReserveInv, ReserveCreate, ReserveLabels, FreshPublicId
    <2>2. RecordedView' = RecordedView
      BY DEF ReserveCreate, RecordedView
    <2>3. /\ reservation'[p].account = DeviceOwner[d] /\ reservation'[p].device = d
          /\ reservation'[p] # None
          /\ \A o \in PublicId \ {p} : reservation'[o] = reservation[o]
      <3>1. [account |-> job[r].account, device |-> d, status |-> "reserved"] \in ReservationRow
        BY <2>1 DEF ReservationRow
      <3> QED  BY <1>4, <2>1, <3>1 DEF IndInv, TypeOK
    <2>4. ReservedView[p] = None
      BY <2>1 DEF ReservedView
    <2>5. ReservedView' = [ReservedView EXCEPT ![p] = [account |-> DeviceOwner[d], device |-> d]]
      BY <2>3 DEF ReservedView
    <2>6. Registry!Reserve(p, d)
      BY <1>2, <2>2, <2>4, <2>5 DEF Registry!Reserve
    <2> QED  BY <2>1, <2>6 DEF Registry!RegistryNext
  <1> QED  BY <1>1, <1>3, <1>4

\* CreateSignature is a Record step, or a stutter when it fails.
LEMMA RecordRefines ==
  ASSUME IndInv, IndInv', NEW r \in Request, SubmitCreateSignature(r)
  PROVE  [Registry!RegistryNext]_Registry!registryVars
  <1> DEFINE p == job[r].pid
             row == [account |-> job[r].account, device |-> job[r].device, cert |-> job[r].cert,
                     hash |-> job[r].doc, key |-> JobKey(r)]
  <1>1. CASE Refuse(r, "conflict") /\ UNCHANGED signature
    <2>1. AckedView' = AckedView
      BY <1>1, RefuseAcksNothing DEF SubmitCreateSignature, Refusals, Outcomes
    <2> QED  BY <1>1, <2>1, StutterRefines DEF SubmitCreateSignature
  <1>2. CASE /\ InsertSucceeds(p) /\ signature' = [signature EXCEPT ![p] = row]
             /\ UNCHANGED answer
    <2>1. /\ p \in PublicId /\ job[r].doc \in Doc /\ job[r].cert \in Cert \cup {None}
          /\ reservation[p] # None /\ reservation[p].account = job[r].account
          /\ reservation[p].device = job[r].device
          /\ signature[p] = None
      BY <1>2 DEF IndInv, TypeOK, Job, RequestInv, SubmitInv, SubmitCreateSignature,
                  SubmitLabels, ReservedBy, InsertSucceeds
    <2>2. job[r].cert # None => VerifiedBy(job[r].cert, job[r].doc, p)
      BY DEF IndInv, RequestInv, VerifiedInv, SubmitCreateSignature, Storing
    <2>3. /\ signature'[p] = row /\ row # None
          /\ \A o \in PublicId \ {p} : signature'[o] = signature[o]
      <3>1. /\ signature'[p] = row
            /\ \A o \in PublicId \ {p} : signature'[o] = signature[o]
        BY <1>2, <2>1 DEF IndInv, TypeOK
      <3>2. row \in SignatureRow
        BY <2>1 DEF IndInv, TypeOK, RequestInv, SubmitInv, SubmitCreateSignature, SubmitLabels,
                    Storing, ReservationRow, SignatureRow, JobKey, Key
      <3> QED  BY <3>1, <3>2
    <2>4. AckedView' = AckedView /\ ReservedView' = ReservedView
      BY <1>2, SameAnswersSameView DEF SubmitCreateSignature, ReservedView
    <2>5. /\ ReservedView[p] # None /\ ReservedView[p].account = job[r].account
          /\ ReservedView[p].device = job[r].device
      <3>1. ReservedView[p] = [account |-> job[r].account, device |-> job[r].device]
        BY <2>1 DEF ReservedView
      <3>2. ReservedView[p] \in OwnerView
        BY <2>1, <3>1 DEF OwnerView, IndInv, TypeOK, ReservationRow
      <3> QED  BY <3>1, <3>2
    <2>6. RecordedView[p] = None
      BY <2>1 DEF RecordedView
    <2>7. RecordedView' = [RecordedView EXCEPT ![p] =
            [account |-> ReservedView[p].account, device |-> ReservedView[p].device,
             cert |-> job[r].cert, hash |-> job[r].doc]]
      <3> DEFINE rec == [account |-> ReservedView[p].account, device |-> ReservedView[p].device,
                         cert |-> job[r].cert, hash |-> job[r].doc]
      <3>1. RecordedView'[p] = rec
        BY <2>1, <2>3, <2>5 DEF RecordedView
      <3>2. \A o \in PublicId \ {p} : RecordedView'[o] = RecordedView[o]
        BY <2>3 DEF RecordedView
      <3>3. /\ RecordedView = [o \in PublicId |-> RecordedView[o]]
            /\ RecordedView' = [o \in PublicId |-> RecordedView'[o]]
        BY DEF RecordedView
      <3>4. ASSUME NEW v, RecordedView'[p] = v
            PROVE  RecordedView' = [RecordedView EXCEPT ![p] = v]
        BY <2>1, <3>2, <3>3, <3>4
      <3> QED  BY <3>1, <3>4
    <2>8. job[r].cert # None =>
            /\ job[r].doc.sound /\ job[r].doc.pid = p /\ job[r].doc.cert = job[r].cert
            /\ CertDevice[job[r].cert] = ReservedView[p].device
      BY <2>1, <2>2, <2>5 DEF VerifiedBy
    <2>9. Registry!Record(p, job[r].doc, job[r].cert)
      BY <2>4, <2>5, <2>6, <2>7, <2>8 DEF Registry!Record
    <2> QED  BY <2>1, <2>9 DEF Registry!RegistryNext
  <1> QED  BY <1>1, <1>2 DEF SubmitCreateSignature

\* The answers of a replay and of a recorded submission are Acknowledge steps.
LEMMA AcknowledgeRefines ==
  ASSUME IndInv, NEW r \in Request, SubmitReplay(r) \/ SubmitSetAccepted(r)
  PROVE  [Registry!RegistryNext]_Registry!registryVars
  <1> DEFINE p == job[r].pid
  <1>1. p \in PublicId /\ pc[r] # "done"
    BY DEF IndInv, RequestInv, SubmitInv, SubmitReplay, SubmitSetAccepted, SubmitLabels
  <1>2. RecordedView' = RecordedView
    BY DEF SubmitReplay, SubmitSetAccepted, storeVars, RecordedView
  <1>3. ReservedView' = ReservedView
    <2>1. CASE UNCHANGED reservation
      BY <2>1 DEF ReservedView
    <2>2. CASE SubmitSetAccepted(r) /\ MarkAccepted(p)
      <3>1. reservation[p] \in ReservationRow
        BY <2>2, <1>1 DEF IndInv, TypeOK, RequestInv, SubmitInv, ReservedBy, SubmitSetAccepted,
                          SubmitLabels
      <3>2. /\ reservation'[p] = [reservation[p] EXCEPT !.status = "accepted"]
            /\ \A o \in PublicId \ {p} : reservation'[o] = reservation[o]
        BY <1>1, <2>2 DEF IndInv, TypeOK, MarkAccepted
      <3>3. /\ reservation'[p] \in ReservationRow
            /\ reservation'[p].account = reservation[p].account
            /\ reservation'[p].device = reservation[p].device
        BY <3>1, <3>2 DEF ReservationRow
      <3>4. ReservedView'[p] = ReservedView[p]
        BY <1>1, <3>1, <3>3 DEF ReservedView
      <3>5. \A o \in PublicId \ {p} : ReservedView'[o] = ReservedView[o]
        BY <3>2 DEF ReservedView
      <3> QED  BY <3>4, <3>5 DEF ReservedView
    <2> QED  BY <2>1, <2>2 DEF SubmitReplay, SubmitSetAccepted, storeVars
  <1>4. CASE UNCHANGED answer
    BY <1>2, <1>3, <1>4, SameAnswersSameView DEF Registry!registryVars
  <1>5. ASSUME NEW o \in {"recorded", "replayed"}, signature[p] # None,
               Reply(r, SubmissionResult(o, p))
        PROVE  Registry!Acknowledge(p)
    BY <1>1, <1>2, <1>3, <1>5, AckIsAcknowledge DEF Registry!Acknowledge
  <1>6. SubmitSetAccepted(r) => signature[p] # None
    BY DEF IndInv, RequestInv, StoredInOrder, SubmitSetAccepted
  <1> QED  BY <1>1, <1>4, <1>5, <1>6 DEF SubmitReplay, SubmitSetAccepted, Registry!RegistryNext

\* Every step of the receiver is a step of the registry or a stutter.
LEMMA NextRefines ==
  IndInv /\ IndInv' /\ [Next]_vars => [Registry!RegistryNext]_Registry!registryVars
  <1> SUFFICES ASSUME IndInv, IndInv', [Next]_vars
               PROVE  [Registry!RegistryNext]_Registry!registryVars
    OBVIOUS
  <1>1. ASSUME NEW r \in Request, pc[r] # "done", UNCHANGED <<reservation, signature>>,
               NEW why \in Refusals, Refuse(r, why) \/ UNCHANGED answer
        PROVE  UNCHANGED Registry!registryVars
    BY <1>1, RefuseAcksNothing, SameAnswersSameView, StutterRefines
  <1>2. ASSUME NEW r \in Request, NEW a \in Account, NEW d \in Device, ReserveDevice(r, a, d)
        PROVE  UNCHANGED Registry!registryVars
    BY <1>1, <1>2 DEF ReserveDevice, Arrive, Refusals, Outcomes, storeVars
  <1>3. ASSUME NEW r \in Request, NEW a \in Account, NEW p \in PublicId, NEW doc \in Doc,
               SubmitReservation(r, a, p, doc)
        PROVE  UNCHANGED Registry!registryVars
    BY <1>1, <1>3 DEF SubmitReservation, Arrive, Refusals, Outcomes, storeVars
  <1>4. ASSUME NEW r \in Request, RequestStep(r)
        PROVE  [Registry!RegistryNext]_Registry!registryVars
    <2>1. CASE ReserveCertificate(r)
      BY <1>1, <2>1 DEF ReserveCertificate, Refusals, Outcomes, storeVars
    <2>2. CASE SubmitInput(r)
      BY <1>1, <2>2 DEF SubmitInput, Refusals, Outcomes, storeVars
    <2>3. CASE VerifyUnrecorded(r)
      BY <1>1, <2>3 DEF VerifyUnrecorded, Refusals, Outcomes, storeVars
    <2>4. CASE VerifyDevice(r)
      BY <1>1, <2>4 DEF VerifyDevice, Refusals, Outcomes, storeVars
    <2>5. CASE VerifyDocument(r)
      BY <1>1, <2>5 DEF VerifyDocument, Refusals, Outcomes, storeVars
    <2>6. CASE VerifyCertificate(r)
      BY <1>1, <2>6 DEF VerifyCertificate, Refusals, Outcomes, storeVars
    <2>7. CASE SubmitPutObject(r)
      BY <1>1, <2>7 DEF SubmitPutObject, Refusals, Outcomes
    <2> QED  BY <1>4, <2>1, <2>2, <2>3, <2>4, <2>5, <2>6, <2>7, ReserveRefines, RecordRefines,
                AcknowledgeRefines DEF RequestStep
  <1>5. CASE \/ \E c \in Cert : BindCertificate(c) \/ RevokeCertificate(c)
             \/ \E d \in Device : ReportLost(d)
             \/ \E S \in CRLs : ImportCRL(S)
             \/ NextMonth \/ Crash \/ UNCHANGED vars
    <2>1. UNCHANGED <<reservation, signature, answer>>
      BY <1>5 DEF BindCertificate, RevokeCertificate, ReportLost, ImportCRL, NextMonth, Crash,
                  vars, storeVars
    <2> QED  BY <2>1, SameAnswersSameView, StutterRefines
  <1> QED  BY <1>2, <1>3, <1>4, <1>5 DEF Next

(* hReserve, hSubmitDocument and strictVerify over the store implement the    *)
(* registry of write-once records, for any number of accounts, devices,       *)
(* requests and documents, whatever fails and whenever the process dies.      *)
THEOREM Refinement == Spec => ImplementsRegistry
  BY InitRefines, NextRefines, Invariance, PTL
     DEF Spec, ImplementsRegistry, Registry!RegistrySpec

-----------------------------------------------------------------------------
(* Replay, while store calls do not fail *)

\* What request r means for replays: a public id it was acknowledged for is
\* accepted; a submission that began after an acknowledgement is replayed or
\* was made by somebody else.
ReplayInv(r) ==
  /\ answer[r] # None /\ answer[r].outcome \in {"recorded", "replayed"} =>
       reservation[answer[r].pid] # None /\ reservation[answer[r].pid].status = "accepted"
  /\ pc[r] \in ReserveLabels => job[r].doc = None
  /\ pc[r] = "replay" => reservation[job[r].pid].status = "accepted"
  /\ pc[r] \in SubmitLabels /\ seen[r].acked => pc[r] = "replay"
  /\ answer[r] # None /\ job[r].doc # None /\ seen[r].acked =>
       /\ job[r].pid \in PublicId /\ reservation[job[r].pid] # None
       /\ job[r].account = reservation[job[r].pid].account => answer[r].outcome = "replayed"

AllReplay == \A r \in Request : ReplayInv(r)

\* Rows are never deleted, an accepted reservation stays accepted and nobody
\* else's, whatever step is taken.
RowsPersist ==
  \A p \in PublicId :
    /\ reservation[p] # None =>
         /\ reservation'[p] # None
         /\ reservation'[p].account = reservation[p].account
         /\ reservation[p].status = "accepted" => reservation'[p].status = "accepted"
    /\ signature[p] # None => signature'[p] # None

\* Every step keeps the rows.
LEMMA StepPersists ==
  ASSUME IndInv, [Next]_vars
  PROVE  RowsPersist
  <1>1. ASSUME UNCHANGED <<reservation, signature>> PROVE RowsPersist
    BY <1>1 DEF RowsPersist
  <1>2. ASSUME NEW r \in Request, ReserveCreate(r) PROVE RowsPersist
    BY <1>2 DEF ReserveCreate, FreshPublicId, RowsPersist, IndInv, TypeOK
  <1>3. ASSUME NEW r \in Request, SubmitCreateSignature(r) PROVE RowsPersist
    BY <1>3 DEF SubmitCreateSignature, InsertSucceeds, RowsPersist, IndInv, TypeOK
  <1>4. ASSUME NEW r \in Request, SubmitSetAccepted(r) PROVE RowsPersist
    <2> DEFINE p == job[r].pid
    <2>0. p \in PublicId /\ reservation[p] \in ReservationRow
      BY <1>4 DEF IndInv, TypeOK, RequestInv, SubmitInv, SubmitSetAccepted, SubmitLabels,
                  ReservedBy
    <2>1. CASE MarkAccepted(p)
      <3>1. /\ reservation'[p] = [reservation[p] EXCEPT !.status = "accepted"]
            /\ \A o \in PublicId \ {p} : reservation'[o] = reservation[o]
        BY <2>0, <2>1 DEF MarkAccepted, IndInv, TypeOK
      <3>2. /\ reservation'[p] \in ReservationRow
            /\ reservation'[p].account = reservation[p].account
            /\ reservation'[p].status = "accepted"
        BY <2>0, <3>1 DEF ReservationRow
      <3> QED  BY <1>4, <3>1, <3>2 DEF RowsPersist, SubmitSetAccepted
    <2>2. CASE UNCHANGED reservation
      BY <1>1, <1>4, <2>2 DEF SubmitSetAccepted
    <2> QED  BY <1>4, <2>1, <2>2 DEF SubmitSetAccepted
  <1>5. ASSUME NEW r \in Request, RequestStep(r) PROVE RowsPersist
    BY <1>1, <1>2, <1>3, <1>4, <1>5
       DEF RequestStep, ReserveCertificate, SubmitReplay, SubmitInput, VerifyUnrecorded,
           VerifyDevice, VerifyDocument, VerifyCertificate, SubmitPutObject, storeVars
  <1> QED  BY <1>1, <1>5 DEF Next, ReserveDevice, SubmitReservation, BindCertificate,
              RevokeCertificate, ReportLost, ImportCRL, NextMonth, Crash, vars, storeVars

\* A request that does not move keeps what it means for replays.
LEMMA OthersReplay ==
  ASSUME IndInv, RowsPersist, NEW q \in Request, ReplayInv(q),
         pc'[q] \in {pc[q], "dead"}, job'[q] = job[q], seen'[q] = seen[q], answer'[q] = answer[q]
  PROVE  ReplayInv(q)'
  <1>1. /\ answer'[q] # None /\ answer'[q].outcome \in {"recorded", "replayed"} =>
             reservation'[answer'[q].pid] # None
             /\ reservation'[answer'[q].pid].status = "accepted"
        /\ answer'[q] # None /\ job'[q].doc # None /\ seen'[q].acked =>
             /\ job'[q].pid \in PublicId /\ reservation'[job'[q].pid] # None
             /\ job'[q].account = reservation'[job'[q].pid].account =>
                  answer'[q].outcome = "replayed"
    BY DEF ReplayInv, RowsPersist, IndInv, AnswersRecorded
  <1>2. pc'[q] = "replay" => reservation'[job'[q].pid].status = "accepted"
    BY DEF ReplayInv, RowsPersist, IndInv, RequestInv, SubmitInv, SubmitLabels, ReservedBy
  <1>3. /\ pc'[q] \in ReserveLabels => job'[q].doc = None
        /\ pc'[q] \in SubmitLabels /\ seen'[q].acked => pc'[q] = "replay"
    BY DEF ReplayInv, RowsPersist, ReserveLabels, SubmitLabels
  <1> QED  BY <1>1, <1>2, <1>3 DEF ReplayInv

\* A request is refused.
LEMMA RefusedReplay ==
  ASSUME TypeOK, NEW r \in Request, NEW why \in Refusals, Refuse(r, why),
         job'[r].doc # None /\ seen'[r].acked =>
           /\ job'[r].pid \in PublicId /\ reservation'[job'[r].pid] # None
           /\ job'[r].account # reservation'[job'[r].pid].account
  PROVE  ReplayInv(r)'
  <1>1. pc'[r] = "done" /\ answer'[r].outcome = why
    BY DEF TypeOK, Refuse, Reply
  <1> QED  BY <1>1 DEF ReplayInv, Refusals, ReserveLabels, SubmitLabels

\* A request goes on towards an answer of its own.
LEMMA GoesOnReplay ==
  ASSUME TypeOK, NEW r \in Request, NEW l \in Labels \ {"replay"}, Goto(r, l),
         answer'[r] = None,
         l \in ReserveLabels => job'[r].doc = None,
         l \in SubmitLabels => ~seen'[r].acked
  PROVE  ReplayInv(r)'
  <1>1. pc'[r] = l
    BY GotoAt
  <1> QED  BY <1>1 DEF ReplayInv

\* A submission that is past the replay began before any acknowledgement.
LEMMA PastReplay ==
  ASSUME NEW r \in Request, ReplayInv(r), pc[r] \in SubmitLabels \ {"replay"}
  PROVE  ~seen[r].acked
  BY DEF ReplayInv

\* hReserve's arrival: no public id, nothing to replay.
LEMMA ReserveDeviceReplay ==
  ASSUME IndInv, NEW r \in Request, NEW a \in Account, NEW d \in Device, ReserveDevice(r, a, d)
  PROVE  ReplayInv(r)'
  <1>1. pc[r] = "new" /\ job'[r].doc = None /\ answer[r] = None
    BY ArriveFrame DEF ReserveDevice, ReserveJob, IndInv, AnsweredWhenDone
  <1>2. CASE Refuse(r, "not_found") \/ Refuse(r, "device_not_active")
    BY <1>1, <1>2, RefusedReplay DEF Refusals, Outcomes, IndInv
  <1>3. CASE Goto(r, "reserve_cert") /\ UNCHANGED answer
    BY <1>1, <1>3, GoesOnReplay DEF IndInv, Labels, ReserveLabels, SubmitLabels
  <1> QED  BY <1>2, <1>3 DEF ReserveDevice

\* hSubmitDocument's arrival: an acknowledged public id is accepted, so its
\* owner is sent to the replay and only others are told not_found.
LEMMA SubmitReservationReplay ==
  ASSUME ~DbMayFail, IndInv, AllReplay, NEW r \in Request, NEW a \in Account,
         NEW p \in PublicId, NEW doc \in Doc, SubmitReservation(r, a, p, doc)
  PROVE  ReplayInv(r)'
  <1>0. \A d : Noted(SubmitJob(a, d, p, doc)).acked => Acked(p)
    BY DEF Noted, SubmitJob
  <1>1. Acked(p) => reservation[p] # None /\ reservation[p].status = "accepted"
    BY DEF Acked, Acking, AllReplay, ReplayInv
  <1>2. reservation' = reservation
    BY DEF SubmitReservation, storeVars
  <1>3. CASE /\ ~ReservedBy(p, a) /\ Arrive(r, SubmitJob(a, None, p, doc))
             /\ Refuse(r, "not_found")
    <2>1. /\ job'[r].account = a /\ job'[r].pid = p
          /\ seen'[r].acked => Acked(p)
      BY <1>0, <1>3, ArriveFrame DEF IndInv, SubmitJob
    <2> QED  BY <1>1, <1>2, <1>3, <2>1, ArriveFrame, RefusedReplay
                DEF IndInv, SubmitJob, ReservedBy, Refusals, Outcomes
  <1>4. CASE /\ ReservedBy(p, a)
             /\ Arrive(r, SubmitJob(a, reservation[p].device, p, doc))
             /\ Goto(r, IF reservation[p].status = "accepted" THEN "replay" ELSE "input")
             /\ UNCHANGED answer
    <2>1. /\ pc[r] = "new" /\ answer'[r] = None /\ job'[r].pid = p
          /\ seen'[r].acked => Acked(p)
      BY <1>0, <1>4, ArriveFrame DEF IndInv, SubmitJob, AnsweredWhenDone
    <2>2. CASE reservation[p].status = "accepted"
      <3>1. pc'[r] = "replay"
        BY <1>4, <2>2, GotoAt DEF IndInv
      <3> QED  BY <1>2, <2>1, <2>2, <3>1 DEF ReplayInv, ReserveLabels
    <2>3. CASE reservation[p].status # "accepted"
      <3>1. pc'[r] = "input"
        BY <1>4, <2>3, GotoAt DEF IndInv
      <3> QED  BY <1>1, <2>1, <2>3, <3>1 DEF ReplayInv, ReserveLabels
    <2> QED  BY <2>2, <2>3
  <1> QED  BY <1>3, <1>4 DEF SubmitReservation

\* The replay answers with the record: an accepted reservation has one.
LEMMA SubmitReplayReplay ==
  ASSUME ~DbMayFail, IndInv, NEW r \in Request, ReplayInv(r), SubmitReplay(r)
  PROVE  ReplayInv(r)'
  <1> DEFINE p == job[r].pid
  <1>1. /\ p \in PublicId /\ reservation[p] # None /\ reservation[p].status = "accepted"
        /\ signature[p] # None
    BY DEF IndInv, RequestInv, SubmitInv, SubmitReplay, SubmitLabels, ReservedBy, ReplayInv,
           AcceptedHasRecord
  <1>2. /\ pc'[r] = "done" /\ answer'[r].outcome = "replayed" /\ answer'[r].pid = p
        /\ job' = job /\ reservation' = reservation
    BY <1>1 DEF SubmitReplay, SubmissionResult, Reply, IndInv, TypeOK, storeVars
  <1> QED  BY <1>1, <1>2 DEF ReplayInv, ReserveLabels, SubmitLabels

\* A conflict is answered only to whom nobody was told 200 before.
LEMMA SubmitCreateSignatureReplay ==
  ASSUME ~DbMayFail, IndInv, NEW r \in Request, ReplayInv(r), SubmitCreateSignature(r)
  PROVE  ReplayInv(r)'
  <1>1. /\ job[r].pid \in PublicId /\ ~seen[r].acked /\ answer[r] = None
        /\ job' = job /\ seen' = seen
    BY PastReplay DEF IndInv, RequestInv, SubmitInv, SubmitCreateSignature, SubmitLabels,
                      AnsweredWhenDone
  <1>2. CASE Goto(r, "set_accepted") /\ UNCHANGED answer
    BY <1>1, <1>2, GoesOnReplay DEF IndInv, Labels, ReserveLabels, SubmitLabels
  <1>3. CASE Refuse(r, "conflict")
    <2>1. pc'[r] = "done" /\ answer'[r].outcome = "conflict"
      BY <1>3 DEF IndInv, TypeOK, Refuse, Reply
    <2> QED  BY <1>1, <2>1 DEF ReplayInv, ReserveLabels, SubmitLabels
  <1> QED  BY <1>2, <1>3 DEF SubmitCreateSignature

\* The reservation is marked before the answer is given.
LEMMA SubmitSetAcceptedReplay ==
  ASSUME ~DbMayFail, IndInv, NEW r \in Request, ReplayInv(r), SubmitSetAccepted(r)
  PROVE  ReplayInv(r)'
  <1> DEFINE p == job[r].pid
  <1>1. /\ p \in PublicId /\ reservation[p] \in ReservationRow /\ ~seen[r].acked
        /\ job' = job /\ seen' = seen
    BY PastReplay DEF IndInv, TypeOK, RequestInv, SubmitInv, SubmitSetAccepted, SubmitLabels,
                      ReservedBy
  <1>2. reservation'[p] \in ReservationRow /\ reservation'[p].status = "accepted"
    BY <1>1 DEF SubmitSetAccepted, MarkAccepted, IndInv, TypeOK, ReservationRow
  <1>3. pc'[r] = "done" /\ answer'[r].outcome = "recorded" /\ answer'[r].pid = p
    BY DEF SubmitSetAccepted, SubmissionResult, Reply, IndInv, TypeOK
  <1> QED  BY <1>1, <1>2, <1>3 DEF ReplayInv, ReserveLabels, SubmitLabels

\* hReserve's answer names a public id of its own.
LEMMA ReserveCreateReplay ==
  ASSUME IndInv, NEW r \in Request, ReplayInv(r), ReserveCreate(r)
  PROVE  ReplayInv(r)'
  <1>1. pc'[r] = "done" /\ answer'[r].outcome = "reserved" /\ job'[r].doc = None
    BY DEF ReserveCreate, Reply, IndInv, TypeOK, ReplayInv, ReserveLabels
  <1> QED  BY <1>1 DEF ReplayInv, ReserveLabels, SubmitLabels

\* The checks in between refuse, or go on, only what nobody was told 200 for.
LEMMA ChecksReplay ==
  ASSUME ~DbMayFail, IndInv, NEW r \in Request, ReplayInv(r),
         \/ ReserveCertificate(r) \/ SubmitInput(r) \/ VerifyUnrecorded(r) \/ VerifyDevice(r)
         \/ VerifyDocument(r) \/ VerifyCertificate(r) \/ SubmitPutObject(r)
  PROVE  ReplayInv(r)'
  <1>1. TypeOK /\ answer[r] = None
    BY DEF IndInv, AnsweredWhenDone, ReserveCertificate, SubmitInput, VerifyUnrecorded,
           VerifyDevice, VerifyDocument, VerifyCertificate, SubmitPutObject
  <1>2. CASE ReserveCertificate(r)
    <2>1. job'[r].doc = None
      BY <1>2 DEF ReserveCertificate, ReplayInv, ReserveLabels
    <2>2. CASE Refuse(r, "no_active_certificate")
      BY <1>1, <2>1, <2>2, RefusedReplay DEF Refusals, Outcomes
    <2>3. CASE Goto(r, "reserve_create") /\ UNCHANGED answer
      BY <1>1, <2>1, <2>3, GoesOnReplay DEF Labels, ReserveLabels, SubmitLabels
    <2> QED  BY <1>2, <2>2, <2>3 DEF ReserveCertificate
  <1>3. CASE \/ SubmitInput(r) \/ VerifyUnrecorded(r) \/ VerifyDevice(r) \/ VerifyDocument(r)
             \/ VerifyCertificate(r) \/ SubmitPutObject(r)
    <2>1. ~seen'[r].acked
      BY <1>3, PastReplay DEF SubmitLabels, SubmitInput, VerifyUnrecorded, VerifyDevice,
         VerifyDocument, VerifyCertificate, SubmitPutObject
    <2>2. ASSUME NEW why \in Refusals, Refuse(r, why) PROVE ReplayInv(r)'
      BY <1>1, <2>1, <2>2, RefusedReplay
    <2>3. ASSUME NEW l \in SubmitLabels \ {"replay"}, Goto(r, l), UNCHANGED answer
          PROVE  ReplayInv(r)'
      BY <1>1, <2>1, <2>3, GoesOnReplay DEF Labels, ReserveLabels, SubmitLabels
    <2>4. CASE SubmitInput(r)
      BY <2>4, <2>2, <2>3 DEF SubmitInput, Refusals, Outcomes, SubmitLabels
    <2>5. CASE VerifyUnrecorded(r)
      BY <2>5, <2>2, <2>3 DEF VerifyUnrecorded, Refusals, Outcomes, SubmitLabels
    <2>6. CASE VerifyDevice(r)
      BY <2>6, <2>2, <2>3 DEF VerifyDevice, Refusals, Outcomes, SubmitLabels
    <2>7. CASE VerifyDocument(r)
      BY <2>7, <2>2, <2>3 DEF VerifyDocument, Refusals, Outcomes, SubmitLabels
    <2>8. CASE VerifyCertificate(r)
      BY <2>8, <2>2, <2>3 DEF VerifyCertificate, Refusals, Outcomes, SubmitLabels
    <2>9. CASE SubmitPutObject(r)
      BY <2>9, <2>2, <2>3 DEF SubmitPutObject, Refusals, Outcomes, SubmitLabels
    <2> QED  BY <1>3, <2>4, <2>5, <2>6, <2>7, <2>8, <2>9
  <1> QED  BY <1>2, <1>3

\* Answering and going on are steps of one request.
LEMMA OneMoves ==
  ASSUME IndInv, RowsPersist, AllReplay, NEW r \in Request, ReplayInv(r)',
         \A q \in Request \ {r} : /\ pc'[q] = pc[q] /\ job'[q] = job[q]
                                  /\ seen'[q] = seen[q] /\ answer'[q] = answer[q]
  PROVE  AllReplay'
  <1>1. ASSUME NEW q \in Request \ {r} PROVE ReplayInv(q)'
    BY <1>1, OthersReplay DEF AllReplay
  <1> QED  BY <1>1 DEF AllReplay

\* Which request a step moves.
LEMMA StepFrame ==
  ASSUME IndInv, NEW r \in Request,
         \/ RequestStep(r)
         \/ \E a \in Account, d \in Device : ReserveDevice(r, a, d)
         \/ \E a \in Account, p \in PublicId, doc \in Doc : SubmitReservation(r, a, p, doc)
  PROVE  \A q \in Request \ {r} : /\ pc'[q] = pc[q] /\ job'[q] = job[q]
                                  /\ seen'[q] = seen[q] /\ answer'[q] = answer[q]
  <1> USE DEF IndInv, TypeOK, Goto, Refuse, Reply
  <1>1. ASSUME NEW a \in Account, NEW d \in Device, ReserveDevice(r, a, d)
        PROVE  \A q \in Request \ {r} : /\ pc'[q] = pc[q] /\ job'[q] = job[q]
                                        /\ seen'[q] = seen[q] /\ answer'[q] = answer[q]
    BY <1>1, ArriveFrame DEF ReserveDevice
  <1>2. ASSUME NEW a \in Account, NEW p \in PublicId, NEW doc \in Doc,
               SubmitReservation(r, a, p, doc)
        PROVE  \A q \in Request \ {r} : /\ pc'[q] = pc[q] /\ job'[q] = job[q]
                                        /\ seen'[q] = seen[q] /\ answer'[q] = answer[q]
    BY <1>2, ArriveFrame DEF SubmitReservation
  <1>3. CASE \/ ReserveCertificate(r) \/ ReserveCreate(r) \/ SubmitReplay(r)
             \/ VerifyUnrecorded(r) \/ VerifyDevice(r) \/ VerifyDocument(r)
             \/ SubmitPutObject(r) \/ SubmitCreateSignature(r) \/ SubmitSetAccepted(r)
    BY <1>3 DEF ReserveCertificate, ReserveCreate, SubmitReplay, VerifyUnrecorded, VerifyDevice,
                VerifyDocument, SubmitPutObject, SubmitCreateSignature, SubmitSetAccepted
  <1>4. CASE SubmitInput(r) \/ VerifyCertificate(r)
    BY <1>4 DEF SubmitInput, VerifyCertificate
  <1> QED  BY <1>1, <1>2, <1>3, <1>4 DEF RequestStep

\* Every step keeps the answers about replays right.
LEMMA NextReplay ==
  ASSUME ~DbMayFail, IndInv, AllReplay, [Next]_vars
  PROVE  AllReplay'
  <1>0. RowsPersist
    BY StepPersists
  <1>1. ASSUME NEW r \in Request, NEW a \in Account, NEW d \in Device, ReserveDevice(r, a, d)
        PROVE  AllReplay'
    BY <1>0, <1>1, ReserveDeviceReplay, StepFrame, OneMoves
  <1>2. ASSUME NEW r \in Request, NEW a \in Account, NEW p \in PublicId, NEW doc \in Doc,
               SubmitReservation(r, a, p, doc)
        PROVE  AllReplay'
    BY <1>0, <1>2, SubmitReservationReplay, StepFrame, OneMoves
  <1>3. ASSUME NEW r \in Request, RequestStep(r)
        PROVE  AllReplay'
    <2>1. ReplayInv(r)
      BY DEF AllReplay
    <2>2. ReplayInv(r)'
      BY <1>3, <2>1, ReserveCreateReplay, SubmitReplayReplay, SubmitCreateSignatureReplay,
         SubmitSetAcceptedReplay, ChecksReplay DEF RequestStep
    <2> QED  BY <1>0, <1>3, <2>2, StepFrame, OneMoves
  <1>4. CASE \/ \E c \in Cert : BindCertificate(c) \/ RevokeCertificate(c)
             \/ \E d \in Device : ReportLost(d)
             \/ \E S \in CRLs : ImportCRL(S)
             \/ NextMonth \/ Crash \/ UNCHANGED vars
    <2>1. /\ UNCHANGED <<job, seen, answer>>
          /\ \A q \in Request : pc'[q] \in {pc[q], "dead"}
      BY <1>4 DEF BindCertificate, RevokeCertificate, ReportLost, ImportCRL, NextMonth, Crash, vars
    <2> QED  BY <1>0, <2>1, OthersReplay DEF AllReplay
  <1> QED  BY <1>1, <1>2, <1>3, <1>4 DEF Next

\* While no store call fails, the invariant behind the theorem below.
LEMMA ReplayInvariance == ~DbMayFail => (Spec => []AllReplay)
  <1>1. Init => AllReplay
    BY DEF Init, AllReplay, ReplayInv, ReserveLabels, SubmitLabels
  <1>2. CASE DbMayFail
    BY <1>2
  <1>3. CASE ~DbMayFail
    <2>1. IndInv /\ AllReplay /\ [Next]_vars => AllReplay'
      BY <1>3, NextReplay
    <2> QED  BY <1>1, <2>1, Invariance, PTL DEF Spec
  <1> QED  BY <1>2, <1>3

(* Resubmission is idempotent (handlers.go:390-396) while no store call      *)
(* fails: whatever races and whenever the process dies, the owner of a       *)
(* public id that was answered 200 gets the record replayed from then on.    *)
THEOREM ResubmissionReplays == ~DbMayFail => (Spec => []AckedStaysReplayable)
  <1>1. AllReplay => AckedStaysReplayable
    BY DEF AllReplay, ReplayInv, AckedStaysReplayable
  <1> QED  BY <1>1, ReplayInvariance, PTL
=============================================================================
