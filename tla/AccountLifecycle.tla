-------------------------- MODULE AccountLifecycle --------------------------
(***************************************************************************)
(* Accounts, sessions, devices, enrolments and certificates in the         *)
(* receiver (server/internal/api/handlers.go, accounts.go, devissue.go)    *)
(* over the Postgres store, composed with the CA of CaLedger.tla: hSubmitCSR *)
(* and hLabIssue run `ca-admin issue`, disableCascade runs `ca-admin       *)
(* revoke` and `ca-admin crl`, each as a process of the request (Proc).    *)
(*                                                                         *)
(* Handlers that make one store call are one action.  hSubmitCSR,          *)
(* hIssueCertificate, hLabIssue, hDisableAccount and hDeleteAccount make    *)
(* several, which interleave with everything else; some of those calls'    *)
(* errors are dropped (Fault), and the process may die between any two     *)
(* (Crash).  A failing call of a handler that makes only one is an answer  *)
(* that changes nothing.                                                   *)
(***************************************************************************)
EXTENDS CaLedger

CONSTANTS
  Account, Device,
  AdminIssues,  \* whether an admin issues or uploads certificates by hand
  OperatorRuns, \* whether an operator runs ca-admin and imports CRLs by hand
  MaxFaults     \* bound: failing store calls, killed commands and restarts

VARIABLES
  account,    \* [Account -> status of its row]
  token,      \* accounts with an unexpired access token
  device,     \* [Device -> None or its row]
  enrollment, \* [Proc -> None or the enrolment its CSR request created]
  certRow,    \* [Serial -> None or the row of the certificate]
  crl,        \* serials on the CRL in memory (Server.crl)
  pc, job,    \* progress and local variables of the longer handlers
  \* history
  signedFor,  \* [Serial -> None or the enrolment whose CSR the CA signed]
  caOnly,     \* serials sent to the CA without their row being revoked first
  faults      \* number of faults so far

rowVars == <<account, token, device, enrollment, certRow>>
acVars  == <<rowVars, crl, pc, job, signedFor, caOnly, faults>>
allVars == <<caVars, acVars>>

Request == Proc      \* an enrolment is named by the request that created it

AccountStatus == {"none", "pending", "active", "disabled", "deleted"}
DeviceRow     == [account : Account, status : {"active", "lost"}]
EnrollmentRow == [device : Device, status : {"submitted", "approved", "issued"}]
CertRow       == [enrollment : Request, status : {"active", "revoked"}]

ASSUME AccountAssumption ==
  /\ AdminIssues \in BOOLEAN /\ OperatorRuns \in BOOLEAN
  /\ MaxFaults \in Nat
  /\ None \notin Account \cup Request \cup DeviceRow \cup EnrollmentRow \cup CertRow

IssueLabels   == {"csr_account", "issue", "issuing", "create_certificate", "set_issued"}
CascadeLabels == {"list", "revoke", "revoke_ca", "revoking_ca", "device_lost",
                  "publish", "publishing", "finish"}
AtRest == {"new", "done", "dead"}

\* held and found are histories of a cascade: the certificates that were active
\* when it was called and those it set out to revoke, less the ones whose row
\* or device a failing store call left as it was.
Job == [enrollment : Request \cup {None}, serial : Serial \cup {None},
        account : Account \cup {None}, delete : BOOLEAN,
        todo : SUBSET Serial, found : SUBSET Serial, held : SUBSET Serial]
NoJob == [enrollment |-> None, serial |-> None, account |-> None, delete |-> FALSE,
          todo |-> {}, found |-> {}, held |-> {}]

AccountTypeOK ==
  /\ CaTypeOK
  /\ account \in [Account -> AccountStatus]
  /\ token \in SUBSET Account
  /\ device \in [Device -> DeviceRow \cup {None}]
  /\ enrollment \in [Request -> EnrollmentRow \cup {None}]
  /\ certRow \in [Serial -> CertRow \cup {None}]
  /\ crl \in SUBSET Serial
  /\ pc \in [Request -> AtRest \cup {"operator"} \cup IssueLabels \cup CascadeLabels]
  /\ job \in [Request -> Job]
  /\ signedFor \in [Serial -> Request \cup {None}]
  /\ caOnly \in SUBSET Serial
  /\ faults \in Nat

Init ==
  /\ CaInit
  /\ account = [a \in Account |-> "none"]
  /\ token = {}
  /\ device = [d \in Device |-> None]
  /\ enrollment = [r \in Request |-> None]
  /\ certRow = [s \in Serial |-> None]
  /\ crl = {}
  /\ pc = [r \in Request |-> "new"]
  /\ job = [r \in Request |-> NoJob]
  /\ signedFor = [s \in Serial |-> None]
  /\ caOnly = {}
  /\ faults = 0

-----------------------------------------------------------------------------
Exists(a) == account[a] \in {"pending", "active", "disabled"}

CertDevice(s)  == enrollment[certRow[s].enrollment].device
CertAccount(s) == device[CertDevice(s)].account
ActiveCerts(a) ==
  {s \in Serial : certRow[s] # None /\ certRow[s].status = "active" /\ CertAccount(s) = a}

Goto(r, label) == pc' = [pc EXCEPT ![r] = label]

\* One more store call has failed, command was killed or process died.
Fault == faults < MaxFaults /\ faults' = faults + 1

\* The handler has answered; its local variables are gone.
Answer(r) == Goto(r, "done") /\ job' = [job EXCEPT ![r] = NoJob]

\* A request arrives.
Arrive(r, label, j) ==
  /\ pc[r] = "new"
  /\ Goto(r, label)
  /\ job' = [job EXCEPT ![r] = j]

\* LabIssuer.run returns: the command has ended and its process is gone.
Reaped(r) ==
  /\ cmd[r].pc \in Finished
  /\ cmd' = [cmd EXCEPT ![r] = [pc |-> "idle", serial |-> None, ledger |-> EmptyLedger]]
  /\ UNCHANGED <<ledger, crlFile, issued, certs, confirmed, published>>

-----------------------------------------------------------------------------
(* Handlers of one store call *)

SetStatus(a, status) ==
  /\ account' = [account EXCEPT ![a] = status]
  /\ UNCHANGED <<caVars, token, device, enrollment, certRow, crl, pc, job, signedFor, caOnly, faults>>

\* hRegister
Register(a) == account[a] = "none" /\ SetStatus(a, "pending")

\* hApproveAccount: any account that is not active yet, disabled ones included.
Approve(a) == Exists(a) /\ account[a] # "active" /\ SetStatus(a, "active")

\* hEnableAccount
Enable(a) == Exists(a) /\ SetStatus(a, "active")

MayLogin(a) == account[a] = "active"

\* hLogin
Login(a) ==
  /\ MayLogin(a)
  /\ token' = token \cup {a}
  /\ UNCHANGED <<caVars, account, device, enrollment, certRow, crl, pc, job, signedFor, caOnly, faults>>

\* Signer.Parse refuses a token from its expiry on; nothing else ends it.
Expire(a) ==
  /\ token' = token \ {a}
  /\ UNCHANGED <<caVars, account, device, enrollment, certRow, crl, pc, job, signedFor, caOnly, faults>>

InsertDevice(a, d) == [device EXCEPT ![d] = [account |-> a, status |-> "active"]]
DeviceLost(d) == [device EXCEPT ![d].status = "lost"]
InsertEnrollment(e, d) == [enrollment EXCEPT ![e] = [device |-> d, status |-> "submitted"]]
EnrollmentSet(e, status) ==
  IF enrollment[e] = None THEN enrollment ELSE [enrollment EXCEPT ![e].status = status]

\* hCreateDevice; for a deleted account the insert fails, which nobody notices.
CreateDevice(a, d) ==
  /\ a \in token
  /\ Exists(a)
  /\ device[d] = None
  /\ device' = InsertDevice(a, d)
  /\ UNCHANGED <<caVars, account, token, enrollment, certRow, crl, pc, job, signedFor, caOnly, faults>>

\* hReportLost
ReportLost(d) ==
  /\ device[d] # None
  /\ device[d].account \in token
  /\ device' = DeviceLost(d)
  /\ UNCHANGED <<caVars, account, token, enrollment, certRow, crl, pc, job, signedFor, caOnly, faults>>

\* hApproveEnrollment: whatever the status was.
ApproveEnrollment(e) ==
  /\ enrollment[e] # None
  /\ enrollment' = EnrollmentSet(e, "approved")
  /\ UNCHANGED <<caVars, account, token, device, certRow, crl, pc, job, signedFor, caOnly, faults>>

\* Mutant: the status is not written.
RowUnchanged(s) == certRow

RowRevoked(s) == [certRow EXCEPT ![s].status = "revoked"]

\* hRevoke: the row only; the CA and the CRL are left to an operator.
RevokeCertificate(s) ==
  /\ certRow[s] # None
  /\ certRow' = RowRevoked(s)
  /\ UNCHANGED <<caVars, account, token, device, enrollment, crl, pc, job, signedFor, caOnly, faults>>

-----------------------------------------------------------------------------
(* POST /api/v1/devices/{device_id}/csr and the admin's two ways to issue *)

\* The error of CreateEnrollment is dropped: the handler goes on without a row.
SubmitCSR(r, d) ==
  /\ device[d] # None
  /\ device[d].account \in token
  /\ Arrive(r, "csr_account", [NoJob EXCEPT !.enrollment = r, !.account = device[d].account])
  /\ \/ enrollment' = InsertEnrollment(r, d) /\ UNCHANGED faults
     \/ Fault /\ UNCHANGED enrollment
  /\ UNCHANGED <<caVars, account, token, device, certRow, crl, signedFor, caOnly>>


\* Auto-issue is for active accounts; others wait for an admin.
AutoIssues(r) == account[job[r].account] = "active"

CheckAccount(r) ==
  /\ pc[r] = "csr_account"
  /\ \/ AutoIssues(r) /\ Goto(r, "issue") /\ UNCHANGED <<job, faults>>
     \/ ~AutoIssues(r) /\ Answer(r) /\ UNCHANGED faults
     \/ Fault /\ Answer(r)
  /\ UNCHANGED <<caVars, rowVars, crl, signedFor, caOnly>>

\* hLabIssue: any enrolment, whatever its status and its account's.
LabIssue(r, e) ==
  /\ AdminIssues
  /\ enrollment[e] # None
  /\ Arrive(r, "issue", [NoJob EXCEPT !.enrollment = e])
  /\ UNCHANGED <<caVars, rowVars, crl, signedFor, caOnly, faults>>

\* hIssueCertificate: bindIssuedCert accepts a certificate of the CA for the
\* enrolment's key, also one it has seen before.
UploadCertificate(r, e, s) ==
  /\ AdminIssues
  /\ enrollment[e] # None
  /\ signedFor[s] = e
  /\ Arrive(r, "create_certificate", [NoJob EXCEPT !.enrollment = e, !.serial = s])
  /\ UNCHANGED <<caVars, rowVars, crl, signedFor, caOnly, faults>>

\* issueViaCA starts ca-admin, or fails to.
IssueViaCA(r) ==
  /\ pc[r] = "issue"
  /\ \/ \E s \in Serial :
          /\ IssueSign(r, s)
          /\ signedFor' = [signedFor EXCEPT ![s] = job[r].enrollment]
          /\ job' = [job EXCEPT ![r].serial = s]
          /\ Goto(r, "issuing")
     \/ Answer(r) /\ UNCHANGED <<caVars, signedFor>>
  /\ UNCHANGED <<rowVars, crl, caOnly, faults>>

IssueReturns(r) ==
  /\ pc[r] = "issuing"
  /\ Reaped(r)
  /\ \/ cmd[r].pc = "ok" /\ Goto(r, "create_certificate") /\ UNCHANGED job
     \/ cmd[r].pc # "ok" /\ Answer(r)
  /\ UNCHANGED <<rowVars, crl, signedFor, caOnly, faults>>

\* Mutant: the row of a known serial is replaced.
UpsertCertificate(s, e) ==
  IF enrollment[e] # None
  THEN [certRow EXCEPT ![s] = [enrollment |-> e, status |-> "active"]]
  ELSE certRow

\* CreateCertificate: serials are unique and the enrolment must have its row.
InsertCertificate(s, e) ==
  IF certRow[s] = None /\ enrollment[e] # None
  THEN [certRow EXCEPT ![s] = [enrollment |-> e, status |-> "active"]]
  ELSE certRow

\* Whatever error CreateCertificate returns is dropped ...
BindCertificate(r) ==
  /\ pc[r] = "create_certificate"
  /\ \/ certRow' = InsertCertificate(job[r].serial, job[r].enrollment) /\ UNCHANGED faults
     \/ Fault /\ UNCHANGED certRow
  /\ Goto(r, "set_issued")
  /\ UNCHANGED <<caVars, account, token, device, enrollment, crl, job, signedFor, caOnly>>

\* ... and that of SetEnrollmentStatus.
SetIssued(r) ==
  /\ pc[r] = "set_issued"
  /\ \/ enrollment' = EnrollmentSet(job[r].enrollment, "issued") /\ UNCHANGED faults
     \/ Fault /\ UNCHANGED enrollment
  /\ Answer(r)
  /\ UNCHANGED <<caVars, account, token, device, certRow, crl, signedFor, caOnly>>

-----------------------------------------------------------------------------
(* hDisableAccount and hDeleteAccount *)

\* The error of SetAccountStatus is dropped.
Disable(r, a, delete) ==
  /\ Exists(a)
  /\ Arrive(r, "list", [NoJob EXCEPT !.account = a, !.delete = delete, !.held = ActiveCerts(a)])
  /\ \/ account' = [account EXCEPT ![a] = "disabled"] /\ UNCHANGED faults
     \/ Fault /\ UNCHANGED account
  /\ UNCHANGED <<caVars, token, device, enrollment, certRow, crl, signedFor, caOnly>>

\* disableCascade: CertificatesByAccount, of which the active ones are revoked;
\* it returns what it has read when the query or a row fails.
CascadeList(r) ==
  LET active == ActiveCerts(job[r].account) IN
  /\ pc[r] = "list"
  /\ \E certsOf \in SUBSET active :
       /\ \/ certsOf = active /\ UNCHANGED faults
          \/ certsOf # active /\ Fault
       /\ job' = [job EXCEPT ![r].todo = certsOf, ![r].found = certsOf,
                              ![r].held = @ \ (active \ certsOf)]
       /\ Goto(r, IF certsOf = {} THEN "finish" ELSE "revoke")
  /\ UNCHANGED <<caVars, rowVars, crl, signedFor, caOnly>>

\* The error of RevokeCertificate is dropped and the serial goes to the CA.
CascadeRevoke(r) ==
  /\ pc[r] = "revoke"
  /\ \E s \in job[r].todo :
       \/ /\ certRow' = RowRevoked(s)
          /\ job' = [job EXCEPT ![r].todo = @ \ {s}, ![r].serial = s]
          /\ UNCHANGED <<caOnly, faults>>
       \/ /\ Fault
          /\ job' = [job EXCEPT ![r].todo = @ \ {s}, ![r].serial = s, ![r].held = @ \ {s}]
          /\ caOnly' = caOnly \cup {s}
          /\ UNCHANGED certRow
  /\ Goto(r, "revoke_ca")
  /\ UNCHANGED <<caVars, account, token, device, enrollment, crl, signedFor>>

\* revokeViaCA
RevokeViaCA(r) ==
  /\ pc[r] = "revoke_ca"
  /\ RevokeLoad(r, job[r].serial)
  /\ Goto(r, "revoking_ca")
  /\ UNCHANGED <<rowVars, crl, job, signedFor, caOnly, faults>>

\* Its error is dropped.
RevokeReturns(r) ==
  /\ pc[r] = "revoking_ca"
  /\ Reaped(r)
  /\ Goto(r, "device_lost")
  /\ UNCHANGED <<rowVars, crl, job, signedFor, caOnly, faults>>

\* The errors of DevicesByAccount and SetDeviceStatus are dropped.
CascadeDevice(r) ==
  /\ pc[r] = "device_lost"
  /\ \/ device' = DeviceLost(CertDevice(job[r].serial)) /\ UNCHANGED <<job, faults>>
     \/ /\ Fault
        /\ job' = [job EXCEPT ![r].found = @ \ {job[r].serial}]
        /\ UNCHANGED device
  /\ Goto(r, IF job[r].todo = {} THEN "publish" ELSE "revoke")
  /\ UNCHANGED <<caVars, account, token, enrollment, certRow, crl, signedFor, caOnly>>

\* publishCRLViaCA
PublishViaCA(r) ==
  /\ pc[r] = "publish"
  /\ CRLSign(r)
  /\ Goto(r, "publishing")
  /\ UNCHANGED <<rowVars, crl, job, signedFor, caOnly, faults>>

\* The new CRL replaces the one in memory; a failure leaves the old one.
PublishReturns(r) ==
  /\ pc[r] = "publishing"
  /\ Reaped(r)
  /\ \/ cmd[r].pc = "ok" /\ crl' = cmd[r].ledger.revoked
     \/ cmd[r].pc # "ok" /\ UNCHANGED crl
  /\ Goto(r, "finish")
  /\ UNCHANGED <<rowVars, job, signedFor, caOnly, faults>>

\* Mutant: nothing stops the deletion.
NeverReferenced(a) == FALSE

\* Foreign keys keep an account that has devices (and whatever hangs off them).
Referenced(a) == \E d \in Device : device[d] # None /\ device[d].account = a

\* The end of both handlers; a deletion that cannot remove the row leaves the
\* account disabled, a tombstone that Enable and Approve accept like any other.
Finish(r) ==
  LET a == job[r].account IN
  /\ pc[r] = "finish"
  /\ \/ /\ ~job[r].delete \/ Referenced(a) \/ ~Exists(a)
        /\ UNCHANGED <<account, faults>>
     \/ /\ job[r].delete /\ ~Referenced(a) /\ Exists(a)
        /\ account' = [account EXCEPT ![a] = "deleted"]
        /\ UNCHANGED faults
     \/ job[r].delete /\ Fault /\ UNCHANGED account
  /\ Goto(r, "done")
  /\ job' = [job EXCEPT ![r] = [NoJob EXCEPT !.found = job[r].found, !.held = job[r].held]]
  /\ UNCHANGED <<caVars, token, device, enrollment, certRow, crl, signedFor, caOnly>>

-----------------------------------------------------------------------------
(* An operator at the CA's machine, and the admin who imports its CRL *)

OperatorCommand(r) ==
  /\ OperatorRuns
  /\ Arrive(r, "operator", NoJob)
  /\ \/ \E s \in certs : RevokeLoad(r, s) /\ caOnly' = caOnly \cup {s}
     \/ CRLSign(r) /\ UNCHANGED caOnly
  /\ UNCHANGED <<rowVars, crl, signedFor, faults>>

OperatorDone(r) ==
  /\ pc[r] = "operator"
  /\ Reaped(r)
  /\ Goto(r, "done")
  /\ UNCHANGED <<rowVars, crl, job, signedFor, caOnly, faults>>

\* hImportCRL takes any CRL that parses, also one that is out of date.
ImportCRL ==
  /\ OperatorRuns
  /\ \E x \in published : crl' = x.revoked
  /\ UNCHANGED <<caVars, rowVars, pc, job, signedFor, caOnly, faults>>

\* The receiver dies and is started again.  Handlers are gone, tokens and rows
\* stay, ca-admin commands go on unless they are killed too.  The CRL is read
\* from the configured file: a copy of any age, or none (the empty one).
Crash ==
  /\ Fault
  /\ pc' = [r \in Request |-> IF pc[r] \in IssueLabels \cup CascadeLabels THEN "dead" ELSE pc[r]]
  /\ job' = [r \in Request |-> IF pc[r] \in IssueLabels \cup CascadeLabels THEN NoJob ELSE job[r]]
  /\ \E x \in published : crl' = x.revoked
  /\ UNCHANGED <<caVars, rowVars, signedFor, caOnly>>

-----------------------------------------------------------------------------
HandlerStep(r) ==
  \/ CheckAccount(r) \/ IssueViaCA(r) \/ IssueReturns(r) \/ BindCertificate(r) \/ SetIssued(r)
  \/ CascadeList(r) \/ CascadeRevoke(r) \/ RevokeViaCA(r) \/ RevokeReturns(r)
  \/ CascadeDevice(r) \/ PublishViaCA(r) \/ PublishReturns(r) \/ Finish(r)
  \/ OperatorDone(r)

CommandStep(r) ==
  \/ CaCommandStep(r) /\ UNCHANGED acVars
  \/ Kill(r) /\ Fault /\ UNCHANGED <<rowVars, crl, pc, job, signedFor, caOnly>>

Next ==
  \/ \E a \in Account : Register(a) \/ Approve(a) \/ Enable(a) \/ Login(a) \/ Expire(a)
  \/ \E a \in Account, d \in Device : CreateDevice(a, d)
  \/ \E d \in Device : ReportLost(d)
  \/ \E e \in Request : ApproveEnrollment(e)
  \/ \E s \in Serial : RevokeCertificate(s)
  \/ \E r \in Request, d \in Device : SubmitCSR(r, d)
  \/ \E r \in Request, e \in Request : LabIssue(r, e)
  \/ \E r \in Request, e \in Request, s \in Serial : UploadCertificate(r, e, s)
  \/ \E r \in Request, a \in Account, delete \in BOOLEAN : Disable(r, a, delete)
  \/ \E r \in Request : OperatorCommand(r) \/ HandlerStep(r) \/ CommandStep(r)
  \/ ImportCRL
  \/ Crash

Spec == Init /\ [][Next]_allVars

-----------------------------------------------------------------------------
(* Properties *)

(* A certificate belongs to an account that was approved and whose row is     *)
(* still there: no enrolment slips in before approval, and no deletion leaves *)
(* certificates without their account (handlers.go:84-99, :174,               *)
(* accounts.go:302), whatever the interleaving.                               *)
CertificatesAccountable ==
  \A s \in Serial : certRow[s] # None => account[CertAccount(s)] \in {"active", "disabled"}

(* When hDisableAccount or hDeleteAccount answers, every certificate that was *)
(* active when it was called reads revoked, and the device of every one the   *)
(* cascade listed reads lost, except where the very store call for it failed: *)
(* one dropped error, a failing ca-admin command or another handler costs no  *)
(* other certificate (accounts.go:253-266).                                   *)
CascadeComplete ==
  \A r \in Request : pc[r] = "done" =>
    /\ \A s \in job[r].held : certRow[s].status = "revoked"
    /\ \A s \in job[r].found : device[CertDevice(s)].status = "lost"

(* Disabling an account leaves it without an active certificate: outside the  *)
(* cascade, a disabled account holds none.                                    *)
DisabledHoldsNoActive ==
  \A a \in Account :
    /\ account[a] = "disabled"
    /\ \A r \in Request : pc[r] \in CascadeLabels => job[r].account # a
    => ActiveCerts(a) = {}

(* "prior certificates stay revoked" (accounts.go:222): neither enabling the  *)
(* account nor a second upload of the certificate revives a revoked row.      *)
RevokedStaysRevoked ==
  [][\A s \in Serial :
       certRow[s] # None /\ certRow[s].status = "revoked"
         => certRow'[s] # None /\ certRow'[s].status = "revoked"]_allVars

(* A certificate on the CRL in memory has a revoked row as well, so that the  *)
(* public page and the verifier agree, unless an operator revoked it with     *)
(* ca-admin or the update of its row failed just before the CA was called     *)
(* (accounts.go:257-258).  Restarts, imports of old CRLs, overlapping         *)
(* cascades and a second upload of the certificate never lead there.          *)
CrlExplained ==
  \A s \in crl : s \in caOnly \/ (certRow[s] # None /\ certRow[s].status = "revoked")
=============================================================================
