----------------------- MODULE AccountLifecycleProofs -----------------------
(***************************************************************************)
(* Proofs about AccountLifecycle.tla and the CA it is composed with, for   *)
(* any number of accounts, devices, serials and requests.                  *)
(***************************************************************************)
EXTENDS AccountLifecycle, CaLedgerProofs

-----------------------------------------------------------------------------
(* The inductive invariant *)

\* Tokens, devices, enrolments and certificates hang together, and nothing
\* hangs off an account that was never approved or is gone.
RowsInv ==
  /\ \A a \in token : account[a] \notin {"none", "pending"}
  /\ \A d \in Device : device[d] # None => account[device[d].account] \in {"active", "disabled"}
  /\ \A e \in Request : enrollment[e] # None => device[enrollment[e].device] # None
  /\ \A s \in Serial : certRow[s] # None => enrollment[certRow[s].enrollment] # None

RevokedCerts == {s \in Serial : certRow[s] # None /\ certRow[s].status = "revoked"}
LostCerts == {s \in Serial : certRow[s] # None /\ device[CertDevice(s)].status = "lost"}

AtCertificate == {"revoke_ca", "revoking_ca", "device_lost"}

\* What the local variables of a handler say about the rows, in any
\* interleaving: the certificates its cascade still has to revoke, and the
\* device it still has to report lost.
JobOK(r) ==
  /\ pc[r] = "new" => enrollment[r] = None
  /\ pc[r] \in IssueLabels => job[r].enrollment \in Request
  /\ pc[r] \in {"issuing", "create_certificate", "set_issued"} => job[r].serial \in Serial
  /\ pc[r] \in CascadeLabels => job[r].account \in Account
  /\ pc[r] \in AtCertificate =>
       /\ job[r].serial \in Serial /\ certRow[job[r].serial] # None
       /\ job[r].serial \in RevokedCerts \cup caOnly
  /\ pc[r] \in {"new", "dead", "operator"} \cup IssueLabels => job[r].held = {} /\ job[r].found = {}
  /\ pc[r] = "list" =>
       /\ job[r].found = {}
       /\ \A s \in job[r].held : certRow[s] # None /\ (s \in RevokedCerts \/ CertAccount(s) = job[r].account)
  /\ pc[r] \in CascadeLabels \ {"list"} =>
       /\ \A s \in job[r].todo : certRow[s] # None
       /\ job[r].held \subseteq RevokedCerts \cup job[r].todo
       /\ \A s \in job[r].found :
            s \in LostCerts \/ s \in job[r].todo \/ (pc[r] \in AtCertificate /\ s = job[r].serial)
  /\ pc[r] \in {"publish", "publishing", "finish"} => job[r].todo = {}
  /\ pc[r] = "done" =>
       job[r].held \subseteq RevokedCerts /\ job[r].found \subseteq LostCerts

\* A command that will write a serial has one.
SerialsCarried ==
  \A p \in Proc :
    cmd[p].pc \in {"append_issued", "revoke_truncate", "revoke_write"} => cmd[p].serial \in Serial

(* The inductive invariant of accounts and certificates, for any overlap of   *)
(* handlers and of ca-admin commands.                                         *)
AccountInv ==
  /\ AccountTypeOK
  /\ SerialsCarried
  /\ RowsInv
  /\ \A r \in Request : JobOK(r)

USE CaAssumption, AccountAssumption

-----------------------------------------------------------------------------
(* The CA inside the composition *)

CaTypeInv == CaTypeOK /\ SerialsCarried

LEMMA BeginType ==
  ASSUME CaTypeInv, NEW p \in Proc, NEW label \in Running \cup Finished,
         NEW s \in Serial \cup {None}, NEW l \in LedgerType, CaBegin(p, label, s, l),
         label \in {"append_issued", "revoke_truncate", "revoke_write"} => s \in Serial
  PROVE  cmd' \in [Proc -> CmdType] /\ SerialsCarried'
BY DEF CaTypeInv, CaTypeOK, SerialsCarried, CaBegin, CmdType

LEMMA GotoType ==
  ASSUME CaTypeInv, NEW p \in Proc, NEW label \in Running \cup Finished, CaGoto(p, label),
         label = "revoke_write" => cmd[p].pc = "revoke_truncate",
         label \notin {"append_issued", "revoke_truncate"}
  PROVE  cmd' \in [Proc -> CmdType] /\ SerialsCarried'
<1>1. /\ cmd' \in [Proc -> CmdType] /\ cmd'[p].pc = label /\ cmd'[p].serial = cmd[p].serial
      /\ \A q \in Proc \ {p} : cmd'[q] = cmd[q]
  BY DEF CaTypeInv, CaTypeOK, CaGoto, CmdType
<1> QED
  BY <1>1 DEF CaTypeInv, SerialsCarried

LEMMA EmptyLedgerType == EmptyLedger \in LedgerType
BY DEF EmptyLedger, LedgerType

\* A command keeps the types, with or without others running.
LEMMA CaStepType ==
  ASSUME CaTypeInv, CaNext
  PROVE  CaTypeInv'
<1>0. CaTypeOK
  BY DEF CaTypeInv
<1>1. ASSUME NEW p \in Proc, NEW s \in Serial, IssueSign(p, s) PROVE CaTypeInv'
  <2>1. cmd' \in [Proc -> CmdType] /\ SerialsCarried'
    BY <1>1, BeginType, EmptyLedgerType DEF IssueSign, Running
  <2> QED
    BY <1>0, <1>1, <2>1 DEF IssueSign, CaTypeOK, CaTypeInv
<1>2. ASSUME NEW p \in Proc, NEW s \in Serial, RevokeLoad(p, s) PROVE CaTypeInv'
  <2>1. ledger # Torn => ledger \in LedgerType /\ WithRevocation(s) \in LedgerType
    BY <1>0 DEF CaTypeOK, LedgerType, WithRevocation
  <2>2. cmd' \in [Proc -> CmdType] /\ SerialsCarried'
    BY <1>2, <2>1, BeginType, EmptyLedgerType DEF RevokeLoad, LedgerLoads, Running, Finished
  <2>3. confirmed' \in SUBSET Serial /\ UNCHANGED <<ledger, crlFile, issued, certs, published>>
    BY <1>0, <1>2 DEF RevokeLoad, LedgerLoads, CaTypeOK
  <2> QED
    BY <1>0, <2>2, <2>3 DEF CaTypeOK, CaTypeInv
<1>3. ASSUME NEW p \in Proc, CRLSign(p) PROVE CaTypeInv'
  <2>1. ledger # Torn => NextNumber(ledger) \in LedgerType
    BY <1>0 DEF CaTypeOK, LedgerType, NextNumber
  <2>2. cmd' \in [Proc -> CmdType] /\ SerialsCarried'
    BY <1>3, <2>1, BeginType, EmptyLedgerType DEF CRLSign, LedgerLoads, Running, Finished
  <2>3. UNCHANGED <<ledger, crlFile, issued, certs, confirmed, published>>
    BY <1>3 DEF CRLSign, LedgerLoads
  <2> QED
    BY <1>0, <2>2, <2>3 DEF CaTypeOK, CaTypeInv
<1>4. ASSUME NEW p \in Proc, CaCommandStep(p) \/ Kill(p) PROVE CaTypeInv'
  <2>1. cmd' \in [Proc -> CmdType] /\ SerialsCarried'
    BY <1>4, GotoType
    DEF CaCommandStep, AppendIssued, PublishTruncate, PublishWrite, SaveTruncate, SaveWrite,
        CRLOut, Kill, Running, Finished
  <2>2. cmd[p].pc \in {"append_issued", "revoke_write"} => cmd[p].serial \in Serial
    BY DEF CaTypeInv, SerialsCarried
  <2>3. cmd[p].ledger \in LedgerType
    BY <1>0 DEF CaTypeOK, CmdType
  <2>4. /\ ledger' \in LedgerType \cup {Torn} /\ crlFile' \in LedgerType \cup {Torn}
        /\ issued' \in SUBSET Serial /\ confirmed' \in SUBSET Serial
        /\ published' \in SUBSET LedgerType
        /\ UNCHANGED certs
    BY <1>0, <1>4, <2>2, <2>3, PublishedIsCopy
    DEF CaCommandStep, AppendIssued, PublishTruncate, PublishWrite, SaveTruncate, SaveWrite,
        CRLOut, Kill, CaTypeOK, Written, WithLine
  <2> QED
    BY <1>0, <2>1, <2>4 DEF CaTypeOK, CaTypeInv
<1> QED
  BY <1>1, <1>2, <1>3, <1>4 DEF CaNext

\* What Reaped and the steps of a command leave alone.
LEMMA ReapedMoves ==
  ASSUME CaTypeOK, NEW r \in Request, Reaped(r)
  PROVE  /\ cmd' \in [Proc -> CmdType]
         /\ cmd'[r].pc = "idle" /\ cmd'[r].ledger = EmptyLedger
         /\ \A q \in Proc \ {r} : cmd'[q] = cmd[q]
         /\ UNCHANGED <<ledger, crlFile, issued, certs, confirmed, published>>
BY EmptyLedgerType DEF Reaped, CaTypeOK, CmdType, Finished, Request

\* The CA sees commands, and processes that go away once they have ended.  A
\* certificate it is told to revoke has a revoked row or is in caOnly.
CaMove ==
  \/ UNCHANGED caVars
  \/ \E p \in Proc :
       \/ \E s \in Serial : IssueSign(p, s)
       \/ \E s \in Serial : RevokeLoad(p, s) /\ s \in RevokedCerts \cup caOnly'
       \/ CRLSign(p) \/ CaCommandStep(p) \/ Kill(p)
       \/ Reaped(p)

LEMMA CaMoveKinds == CaMove => [CaNext]_caVars \/ \E r \in Request : Reaped(r)
BY DEF CaMove, CaNext, Request

LEMMA CaMoveType ==
  ASSUME CaTypeInv, CaMove
  PROVE  CaTypeInv'
<1>1. CASE UNCHANGED caVars
  BY <1>1 DEF caVars, CaTypeInv, CaTypeOK, SerialsCarried
<1>2. ASSUME NEW r \in Request, Reaped(r) PROVE CaTypeInv'
  BY <1>2, ReapedMoves DEF CaTypeInv, CaTypeOK, SerialsCarried, Request
<1> QED
  BY <1>1, <1>2, CaStepType, CaMoveKinds

\* Every step of the composition is one of those.
LEMMA NextIsCaMove ==
  ASSUME AccountInv, Next
  PROVE  CaMove
<1>1. ASSUME NEW r \in Request, RevokeViaCA(r) PROVE CaMove
  <2>1. job[r].serial \in Serial /\ job[r].serial \in RevokedCerts \cup caOnly'
    BY <1>1 DEF RevokeViaCA, AccountInv, JobOK, AtCertificate
  <2> QED
    BY <1>1, <2>1 DEF RevokeViaCA, CaMove, Request
<1>2. ASSUME NEW r \in Request, IssueViaCA(r) \/ PublishViaCA(r) PROVE CaMove
  BY <1>2 DEF IssueViaCA, PublishViaCA, CaMove, Request
<1>3. ASSUME NEW r \in Request, IssueReturns(r) \/ RevokeReturns(r) \/ PublishReturns(r) \/ OperatorDone(r)
      PROVE  CaMove
  BY <1>3 DEF IssueReturns, RevokeReturns, PublishReturns, OperatorDone, CaMove, Request
<1>4. ASSUME NEW r \in Request,
             CheckAccount(r) \/ BindCertificate(r) \/ SetIssued(r) \/ CascadeList(r)
             \/ CascadeRevoke(r) \/ CascadeDevice(r) \/ Finish(r)
      PROVE  CaMove
  BY <1>4 DEF CheckAccount, BindCertificate, SetIssued, CascadeList, CascadeRevoke, CascadeDevice,
              Finish, CaMove
<1>5. ASSUME NEW r \in Request, OperatorCommand(r) PROVE CaMove
  <2>1. certs \subseteq Serial
    BY DEF AccountInv, AccountTypeOK, CaTypeOK
  <2> QED
    BY <1>5, <2>1 DEF OperatorCommand, CaMove, Request
<1>6. ASSUME NEW r \in Request, CommandStep(r) PROVE CaMove
  BY <1>6 DEF CommandStep, CaMove, Request
<1>7. ASSUME NEW a \in Account, Register(a) \/ Approve(a) \/ Enable(a) \/ Login(a) \/ Expire(a)
      PROVE  CaMove
  BY <1>7 DEF Register, Approve, Enable, Login, Expire, SetStatus, CaMove
<1>8. ASSUME NEW r \in Request, NEW a \in Account, NEW delete \in BOOLEAN, Disable(r, a, delete)
      PROVE  CaMove
  BY <1>8 DEF Disable, CaMove
<1>9. /\ \A r \in Request, d \in Device : SubmitCSR(r, d) => CaMove
      /\ \A r, e \in Request : LabIssue(r, e) => CaMove
      /\ \A r, e \in Request, s \in Serial : UploadCertificate(r, e, s) => CaMove
  BY DEF SubmitCSR, LabIssue, UploadCertificate, CaMove
<1>10. /\ \A a \in Account, d \in Device : CreateDevice(a, d) => CaMove
       /\ \A d \in Device : ReportLost(d) => CaMove
       /\ \A e \in Request : ApproveEnrollment(e) => CaMove
       /\ \A s \in Serial : RevokeCertificate(s) => CaMove
  BY DEF CreateDevice, ReportLost, ApproveEnrollment, RevokeCertificate, CaMove
<1>11. (ImportCRL => CaMove) /\ (Crash => CaMove)
  BY DEF ImportCRL, Crash, CaMove
<1> QED
  BY <1>1, <1>2, <1>3, <1>4, <1>5, <1>6, <1>7, <1>8, <1>9, <1>10, <1>11 DEF Next, HandlerStep

-----------------------------------------------------------------------------
(* Steps on the tables *)

RowsType ==
  /\ account \in [Account -> AccountStatus] /\ token \in SUBSET Account
  /\ device \in [Device -> DeviceRow \cup {None}]
  /\ enrollment \in [Request -> EnrollmentRow \cup {None}]
  /\ certRow \in [Serial -> CertRow \cup {None}]

\* A status is set; an account is deleted only when nothing refers to it.
AccountMove ==
  /\ \E a \in Account, status \in AccountStatus :
       /\ account' = [account EXCEPT ![a] = status]
       /\ \/ account[a] = "none" /\ status = "pending"
          \/ Exists(a) /\ status \in {"active", "disabled"}
          \/ Exists(a) /\ ~Referenced(a) /\ status = "deleted"
  /\ UNCHANGED <<token, device, enrollment, certRow>>

TokenMove ==
  /\ \E a \in Account : token' = token \ {a} \/ (account[a] = "active" /\ token' = token \cup {a})
  /\ UNCHANGED <<account, device, enrollment, certRow>>

DeviceMove ==
  /\ \/ \E a \in token, d \in Device : Exists(a) /\ device[d] = None /\ device' = InsertDevice(a, d)
     \/ \E d \in Device : device[d] # None /\ device' = DeviceLost(d)
  /\ UNCHANGED <<account, token, enrollment, certRow>>

EnrollmentMove ==
  /\ \/ \E r \in Request, d \in Device :
          /\ device[d] # None /\ enrollment[r] = None /\ pc'[r] # "new"
          /\ enrollment' = InsertEnrollment(r, d)
     \/ \E e \in Request, status \in {"approved", "issued"} :
          enrollment[e] # None /\ enrollment' = EnrollmentSet(e, status)
  /\ UNCHANGED <<account, token, device, certRow>>

CertMove ==
  /\ \/ \E s \in Serial : certRow[s] # None /\ certRow' = RowRevoked(s)
     \/ \E s \in Serial, e \in Request : certRow' = InsertCertificate(s, e)
  /\ UNCHANGED <<account, token, device, enrollment>>

RowMove ==
  AccountMove \/ TokenMove \/ DeviceMove \/ EnrollmentMove \/ CertMove \/ UNCHANGED rowVars

\* The histories beside them.
HistoryMove == caOnly \subseteq caOnly' /\ caOnly' \in SUBSET Serial /\ faults' \in Nat

\* No row disappears or changes what it belongs to, a revoked certificate stays
\* revoked and a lost device lost.
RowsGrow ==
  /\ \A d \in Device : device[d] # None =>
       /\ device'[d] # None /\ device'[d].account = device[d].account
       /\ device[d].status = "lost" => device'[d].status = "lost"
  /\ \A e \in Request : enrollment[e] # None =>
       enrollment'[e] # None /\ enrollment'[e].device = enrollment[e].device
  /\ \A e \in Request : enrollment[e] = None => enrollment'[e] = None \/ pc'[e] # "new"
  /\ \A s \in Serial : certRow[s] # None =>
       /\ certRow'[s] # None /\ certRow'[s].enrollment = certRow[s].enrollment
       /\ certRow[s].status = "revoked" => certRow'[s].status = "revoked"

LEMMA AccountMoveKeeps ==
  ASSUME RowsType, RowsInv, AccountMove
  PROVE  RowsType' /\ RowsInv' /\ RowsGrow
<1>1. PICK a \in Account, status \in AccountStatus :
        /\ account' = [account EXCEPT ![a] = status]
        /\ \/ account[a] = "none" /\ status = "pending"
           \/ Exists(a) /\ status \in {"active", "disabled"}
           \/ Exists(a) /\ ~Referenced(a) /\ status = "deleted"
  BY DEF AccountMove
<1>2. /\ account' \in [Account -> AccountStatus] /\ account'[a] = status
      /\ \A b \in Account \ {a} : account'[b] = account[b]
  BY <1>1 DEF RowsType
<1>3. UNCHANGED <<token, device, enrollment, certRow>>
  BY DEF AccountMove
<1>4. RowsType' /\ RowsGrow
  BY <1>2, <1>3 DEF RowsType, RowsGrow
<1>5. \A b \in token' : account'[b] \notin {"none", "pending"}
  BY <1>1, <1>2, <1>3 DEF RowsInv, RowsType, Exists
<1>6. \A d \in Device : device'[d] # None => account'[device'[d].account] \in {"active", "disabled"}
  BY <1>1, <1>2, <1>3 DEF RowsInv, RowsType, DeviceRow, Exists, Referenced
<1> QED
  BY <1>3, <1>4, <1>5, <1>6 DEF RowsInv

LEMMA DeviceMoveKeeps ==
  ASSUME RowsType, RowsInv, DeviceMove
  PROVE  RowsType' /\ RowsInv' /\ RowsGrow
<1>0. UNCHANGED <<account, token, enrollment, certRow>>
  BY DEF DeviceMove
<1>1. PICK d \in Device :
        /\ device' \in [Device -> DeviceRow \cup {None}] /\ device'[d] # None
        /\ \A c \in Device \ {d} : device'[c] = device[c]
        /\ \/ device[d] = None /\ account[device'[d].account] \in {"active", "disabled"}
           \/ /\ device[d] # None /\ device'[d].account = device[d].account
              /\ device'[d].status = "lost"
  <2>1. ASSUME NEW a \in token, NEW d \in Device, Exists(a), device[d] = None,
               device' = InsertDevice(a, d)
        PROVE  /\ device' \in [Device -> DeviceRow \cup {None}] /\ device'[d] # None
               /\ \A c \in Device \ {d} : device'[c] = device[c]
               /\ device[d] = None /\ account[device'[d].account] \in {"active", "disabled"}
    <3>1. [account |-> a, status |-> "active"] \in DeviceRow
      BY <2>1 DEF RowsType, DeviceRow
    <3>2. account[a] \in {"active", "disabled"}
      BY <2>1 DEF RowsInv, Exists
    <3>3. device' = [device EXCEPT ![d] = [account |-> a, status |-> "active"]]
      BY <2>1 DEF InsertDevice
    <3> QED
      BY <2>1, <3>1, <3>2, <3>3 DEF RowsType
  <2>2. ASSUME NEW d \in Device, device[d] # None, device' = DeviceLost(d)
        PROVE  /\ device' \in [Device -> DeviceRow \cup {None}] /\ device'[d] # None
               /\ \A c \in Device \ {d} : device'[c] = device[c]
               /\ device[d] # None /\ device'[d].account = device[d].account
               /\ device'[d].status = "lost"
    BY <2>2 DEF RowsType, DeviceRow, DeviceLost
  <2> QED
    BY <2>1, <2>2 DEF DeviceMove
<1> QED
  BY <1>0, <1>1 DEF RowsType, RowsInv, RowsGrow, EnrollmentRow, DeviceRow

LEMMA EnrollmentMoveKeeps ==
  ASSUME RowsType, RowsInv, EnrollmentMove
  PROVE  RowsType' /\ RowsInv' /\ RowsGrow
<1>0. UNCHANGED <<account, token, device, certRow>>
  BY DEF EnrollmentMove
<1>1. PICK e \in Request :
        /\ enrollment' \in [Request -> EnrollmentRow \cup {None}] /\ enrollment'[e] # None
        /\ \A f \in Request \ {e} : enrollment'[f] = enrollment[f]
        /\ device[enrollment'[e].device] # None
        /\ \/ enrollment[e] = None /\ pc'[e] # "new"
           \/ enrollment[e] # None /\ enrollment'[e].device = enrollment[e].device
  <2>1. ASSUME NEW r \in Request, NEW d \in Device, device[d] # None, enrollment[r] = None,
               pc'[r] # "new", enrollment' = InsertEnrollment(r, d)
        PROVE  /\ enrollment' \in [Request -> EnrollmentRow \cup {None}] /\ enrollment'[r] # None
               /\ \A f \in Request \ {r} : enrollment'[f] = enrollment[f]
               /\ device[enrollment'[r].device] # None
    BY <2>1 DEF RowsType, EnrollmentRow, InsertEnrollment
  <2>2. ASSUME NEW e \in Request, NEW status \in {"approved", "issued"}, enrollment[e] # None,
               enrollment' = EnrollmentSet(e, status)
        PROVE  /\ enrollment' \in [Request -> EnrollmentRow \cup {None}] /\ enrollment'[e] # None
               /\ \A f \in Request \ {e} : enrollment'[f] = enrollment[f]
               /\ device[enrollment'[e].device] # None
               /\ enrollment'[e].device = enrollment[e].device
    BY <2>2 DEF RowsType, RowsInv, EnrollmentRow, EnrollmentSet
  <2> QED
    BY <2>1, <2>2 DEF EnrollmentMove
<1> QED
  BY <1>0, <1>1 DEF RowsType, RowsInv, RowsGrow, CertRow

LEMMA CertMoveKeeps ==
  ASSUME RowsType, RowsInv, CertMove
  PROVE  RowsType' /\ RowsInv' /\ RowsGrow
<1>0. UNCHANGED <<account, token, device, enrollment>>
  BY DEF CertMove
<1>1. SUFFICES ASSUME ~UNCHANGED certRow PROVE RowsType' /\ RowsInv' /\ RowsGrow
  BY <1>0 DEF RowsType, RowsInv, RowsGrow
<1>2. PICK s \in Serial :
        /\ certRow' \in [Serial -> CertRow \cup {None}] /\ certRow'[s] # None
        /\ \A t \in Serial \ {s} : certRow'[t] = certRow[t]
        /\ enrollment[certRow'[s].enrollment] # None
        /\ certRow[s] # None =>
             /\ certRow'[s].enrollment = certRow[s].enrollment
             /\ certRow[s].status = "revoked" => certRow'[s].status = "revoked"
  <2>1. ASSUME NEW s \in Serial, certRow[s] # None, certRow' = RowRevoked(s)
        PROVE  /\ certRow' \in [Serial -> CertRow \cup {None}] /\ certRow'[s] # None
               /\ \A t \in Serial \ {s} : certRow'[t] = certRow[t]
               /\ certRow'[s].enrollment = certRow[s].enrollment
               /\ certRow'[s].status = "revoked"
    BY <2>1 DEF RowsType, CertRow, RowRevoked
  <2>2. ASSUME NEW s \in Serial, NEW e \in Request, enrollment[e] # None, certRow[s] = None,
               certRow' = InsertCertificate(s, e)
        PROVE  /\ certRow' \in [Serial -> CertRow \cup {None}] /\ certRow'[s] # None
               /\ \A t \in Serial \ {s} : certRow'[t] = certRow[t]
               /\ certRow'[s].enrollment = e
    BY <2>2 DEF RowsType, CertRow, InsertCertificate
  <2> QED
    BY <1>1, <2>1, <2>2 DEF CertMove, InsertCertificate, RowsInv, RowsType
<1> QED
  BY <1>0, <1>2 DEF RowsType, RowsInv, RowsGrow

\* Together:
LEMMA RowMoveKeeps ==
  ASSUME RowsType, RowsInv, RowMove
  PROVE  RowsType' /\ RowsInv' /\ RowsGrow
<1>1. CASE TokenMove
  BY <1>1 DEF TokenMove, RowsType, RowsInv, RowsGrow
<1>2. CASE UNCHANGED rowVars
  BY <1>2 DEF rowVars, RowsType, RowsInv, RowsGrow
<1> QED
  BY <1>1, <1>2, AccountMoveKeeps, DeviceMoveKeeps, EnrollmentMoveKeeps, CertMoveKeeps DEF RowMove


-----------------------------------------------------------------------------
(* What handlers rely on *)

\* A certificate's row names an enrolment, that a device, and that an account.
LEMMA CertReaches ==
  ASSUME RowsType, RowsInv, NEW s \in Serial, certRow[s] # None
  PROVE  /\ certRow[s].enrollment \in Request /\ enrollment[certRow[s].enrollment] # None
         /\ CertDevice(s) \in Device /\ device[CertDevice(s)] # None
         /\ CertAccount(s) \in Account /\ account[CertAccount(s)] \in {"active", "disabled"}
<1>1. certRow[s].enrollment \in Request /\ enrollment[certRow[s].enrollment] # None
  BY DEF RowsType, RowsInv, CertRow
<1>2. CertDevice(s) \in Device /\ device[CertDevice(s)] # None
  BY <1>1 DEF RowsType, RowsInv, EnrollmentRow, CertDevice
<1> QED
  BY <1>1, <1>2 DEF RowsType, RowsInv, DeviceRow, CertAccount

LEMMA CertFactsKept ==
  ASSUME RowsType, RowsInv, RowsGrow, NEW s \in Serial, certRow[s] # None
  PROVE  /\ certRow'[s] # None
         /\ CertDevice(s)' = CertDevice(s) /\ CertAccount(s)' = CertAccount(s)
         /\ s \in RevokedCerts => s \in RevokedCerts'
         /\ s \in LostCerts => s \in LostCerts'
<1>1. /\ certRow[s].enrollment \in Request /\ enrollment[certRow[s].enrollment] # None
      /\ CertDevice(s) \in Device /\ device[CertDevice(s)] # None
  BY CertReaches
<1>2. certRow'[s] # None /\ certRow'[s].enrollment = certRow[s].enrollment
  BY DEF RowsGrow
<1>3. CertDevice(s)' = CertDevice(s)
  BY <1>1, <1>2 DEF RowsGrow, CertDevice
<1>4. CertAccount(s)' = CertAccount(s)
  BY <1>1, <1>3 DEF RowsGrow, CertAccount
<1>5. s \in RevokedCerts => s \in RevokedCerts'
  BY DEF RowsGrow, RevokedCerts
<1>6. s \in LostCerts => s \in LostCerts'
  BY <1>1, <1>2, <1>3 DEF RowsGrow, LostCerts
<1> QED
  BY <1>2, <1>3, <1>4, <1>5, <1>6

\* What AccountInv says of one handler's local variables.
LEMMA JobTyped ==
  ASSUME AccountInv, NEW r \in Request
  PROVE  /\ job[r].held \subseteq Serial /\ job[r].found \subseteq Serial
         /\ job[r].todo \subseteq Serial
         /\ job[r] \in Job /\ JobOK(r)
BY DEF AccountInv, AccountTypeOK, Job

\* Another handler's step takes nothing of that away.
LEMMA JobKept ==
  ASSUME AccountInv, RowsGrow, caOnly \subseteq caOnly',
         NEW q \in Request, pc'[q] = pc[q], job'[q] = job[q]
  PROVE  JobOK(q)'
<1>0. RowsType /\ RowsInv
  BY DEF AccountInv, AccountTypeOK, RowsType
<1>1. \A s \in Serial : certRow[s] # None =>
        /\ certRow'[s] # None
        /\ CertAccount(s)' = CertAccount(s)
        /\ s \in RevokedCerts => s \in RevokedCerts'
        /\ s \in LostCerts => s \in LostCerts'
  BY <1>0, CertFactsKept
<1>2. RevokedCerts \subseteq RevokedCerts' /\ LostCerts \subseteq LostCerts'
  BY <1>1 DEF RevokedCerts, LostCerts
<1>3. \A e \in Request : enrollment[e] # None => enrollment'[e] # None
  BY DEF RowsGrow
<1>4. pc'[q] = "new" /\ enrollment[q] = None => enrollment'[q] = None
  BY DEF RowsGrow
<1> QED
  BY <1>1, <1>2, <1>3, <1>4, JobTyped DEF JobOK, CascadeLabels, AtCertificate

\* A step of one handler: its progress and local variables, and no other's.
LEMMA HandlerMoves ==
  ASSUME AccountInv, NEW r \in Request, NEW label, NEW j, Goto(r, label),
         job' = [job EXCEPT ![r] = j]
  PROVE  /\ pc'[r] = label /\ job'[r] = j
         /\ \A q \in Request \ {r} : pc'[q] = pc[q] /\ job'[q] = job[q]
         /\ label \in AtRest \cup {"operator"} \cup IssueLabels \cup CascadeLabels =>
              pc' \in [Request -> AtRest \cup {"operator"} \cup IssueLabels \cup CascadeLabels]
         /\ j \in Job => job' \in [Request -> Job]
BY DEF AccountInv, AccountTypeOK, Goto

\* What is left to show of an action of handler r.
LEMMA HandlerInv ==
  ASSUME AccountInv, CaMove, RowMove, HistoryMove, NEW r \in Request,
         NEW label \in AtRest \cup {"operator"} \cup IssueLabels \cup CascadeLabels,
         NEW j \in Job, Goto(r, label), job' = [job EXCEPT ![r] = j],
         RowsType' /\ RowsInv' /\ RowsGrow => JobOK(r)',
         crl' \in SUBSET Serial, signedFor' \in [Serial -> Request \cup {None}]
  PROVE  AccountInv'
<1>0. RowsType /\ RowsInv /\ CaTypeInv
  BY DEF AccountInv, AccountTypeOK, RowsType, CaTypeInv
<1>1. RowsType' /\ RowsInv' /\ RowsGrow
  BY <1>0, RowMoveKeeps
<1>2. CaTypeInv'
  BY <1>0, CaMoveType
<1>3. /\ \A q \in Request \ {r} : pc'[q] = pc[q] /\ job'[q] = job[q]
      /\ pc' \in [Request -> AtRest \cup {"operator"} \cup IssueLabels \cup CascadeLabels]
      /\ job' \in [Request -> Job]
  BY HandlerMoves
<1>4. \A q \in Request : JobOK(q)'
  BY <1>1, <1>3, JobKept DEF HistoryMove
<1> QED
  BY <1>1, <1>2, <1>3, <1>4 DEF AccountInv, AccountTypeOK, RowsType, CaTypeInv, HistoryMove

\* And of one that is no handler's.
LEMMA RowsOnlyInv ==
  ASSUME AccountInv, CaMove, RowMove, HistoryMove, UNCHANGED <<pc, job>>,
         crl' \in SUBSET Serial, UNCHANGED signedFor
  PROVE  AccountInv'
<1>0. RowsType /\ RowsInv /\ CaTypeInv
  BY DEF AccountInv, AccountTypeOK, RowsType, CaTypeInv
<1>1. RowsType' /\ RowsInv' /\ RowsGrow
  BY <1>0, RowMoveKeeps
<1>2. CaTypeInv'
  BY <1>0, CaMoveType
<1>3. \A q \in Request : JobOK(q)'
  BY <1>1, JobKept DEF HistoryMove
<1> QED
  BY <1>1, <1>2, <1>3 DEF AccountInv, AccountTypeOK, RowsType, CaTypeInv, HistoryMove


\* Every step is such a step on the tables.
LEMMA NextIsRowMove ==
  ASSUME AccountInv, Next
  PROVE  RowMove
<1>0. RowsType /\ RowsInv /\ \A r \in Request : JobOK(r)
  BY DEF AccountInv, AccountTypeOK, RowsType
<1>1. ASSUME NEW r \in Request,
             CheckAccount(r) \/ IssueViaCA(r) \/ IssueReturns(r) \/ CascadeList(r) \/ RevokeViaCA(r)
             \/ RevokeReturns(r) \/ PublishViaCA(r) \/ PublishReturns(r) \/ OperatorDone(r)
             \/ OperatorCommand(r) \/ CommandStep(r)
      PROVE  UNCHANGED rowVars
  BY <1>1 DEF CheckAccount, IssueViaCA, IssueReturns, CascadeList, RevokeViaCA, RevokeReturns,
              PublishViaCA, PublishReturns, OperatorDone, OperatorCommand, CommandStep, acVars
<1>2. ASSUME NEW r \in Request, BindCertificate(r) PROVE CertMove \/ UNCHANGED rowVars
  <2>1. job[r].serial \in Serial /\ job[r].enrollment \in Request
    BY <1>0, <1>2 DEF BindCertificate, JobOK, IssueLabels
  <2> QED
    BY <1>2, <2>1 DEF BindCertificate, CertMove, rowVars
<1>3. ASSUME NEW r \in Request, SetIssued(r) PROVE EnrollmentMove \/ UNCHANGED rowVars
  <2>1. job[r].enrollment \in Request
    BY <1>0, <1>3 DEF SetIssued, JobOK, IssueLabels
  <2>2. CASE enrollment[job[r].enrollment] = None
    BY <1>3, <2>2 DEF SetIssued, EnrollmentSet, rowVars
  <2> QED
    BY <1>3, <2>1, <2>2 DEF SetIssued, EnrollmentMove, rowVars
<1>4. ASSUME NEW r \in Request, CascadeRevoke(r) PROVE CertMove \/ UNCHANGED rowVars
  <2>1. \A s \in job[r].todo : s \in Serial /\ certRow[s] # None
    BY <1>0, <1>4, JobTyped DEF CascadeRevoke, JobOK, CascadeLabels
  <2> QED
    BY <1>4, <2>1 DEF CascadeRevoke, CertMove, rowVars
<1>5. ASSUME NEW r \in Request, CascadeDevice(r) PROVE DeviceMove \/ UNCHANGED rowVars
  <2>1. job[r].serial \in Serial /\ certRow[job[r].serial] # None
    BY <1>0, <1>5 DEF CascadeDevice, JobOK, AtCertificate
  <2>2. CertDevice(job[r].serial) \in Device /\ device[CertDevice(job[r].serial)] # None
    BY <1>0, <2>1, CertReaches
  <2> QED
    BY <1>5, <2>2 DEF CascadeDevice, DeviceMove, rowVars
<1>6. ASSUME NEW r \in Request, Finish(r) PROVE AccountMove \/ UNCHANGED rowVars
  <2>1. job[r].account \in Account
    BY <1>0, <1>6 DEF Finish, JobOK, CascadeLabels
  <2> QED
    BY <1>6, <2>1 DEF Finish, AccountMove, AccountStatus, rowVars
<1>7. ASSUME NEW r \in Request, NEW d \in Device, SubmitCSR(r, d)
      PROVE  EnrollmentMove \/ UNCHANGED rowVars
  <2>1. enrollment[r] = None
    BY <1>0, <1>7 DEF SubmitCSR, Arrive, JobOK
  <2>2. pc'[r] # "new"
    BY <1>7 DEF SubmitCSR, Arrive, Goto, AccountInv, AccountTypeOK
  <2> QED
    BY <1>7, <2>1, <2>2 DEF SubmitCSR, EnrollmentMove, rowVars
<1>8. ASSUME NEW r \in Request, NEW e \in Request, LabIssue(r, e) PROVE UNCHANGED rowVars
  BY <1>8 DEF LabIssue
<1>9. ASSUME NEW r \in Request, NEW e \in Request, NEW s \in Serial, UploadCertificate(r, e, s)
      PROVE  UNCHANGED rowVars
  BY <1>9 DEF UploadCertificate
<1>10. ASSUME NEW r \in Request, NEW a \in Account, NEW delete \in BOOLEAN, Disable(r, a, delete)
       PROVE  AccountMove \/ UNCHANGED rowVars
  BY <1>10 DEF Disable, AccountMove, AccountStatus, rowVars
<1>11. ASSUME NEW a \in Account, Register(a) \/ Approve(a) \/ Enable(a) PROVE AccountMove
  BY <1>11 DEF Register, Approve, Enable, SetStatus, AccountMove, AccountStatus
<1>12. ASSUME NEW a \in Account, Login(a) \/ Expire(a) PROVE TokenMove
  BY <1>12 DEF Login, Expire, MayLogin, TokenMove
<1>13. ASSUME NEW a \in Account, NEW d \in Device, CreateDevice(a, d) PROVE DeviceMove
  BY <1>13 DEF CreateDevice, DeviceMove
<1>14. ASSUME NEW d \in Device, ReportLost(d) PROVE DeviceMove
  BY <1>14 DEF ReportLost, DeviceMove
<1>15. ASSUME NEW e \in Request, ApproveEnrollment(e) PROVE EnrollmentMove
  BY <1>15 DEF ApproveEnrollment, EnrollmentMove
<1>16. ASSUME NEW s \in Serial, RevokeCertificate(s) PROVE CertMove
  BY <1>16 DEF RevokeCertificate, CertMove
<1>17. (ImportCRL => UNCHANGED rowVars) /\ (Crash => UNCHANGED rowVars)
  BY DEF ImportCRL, Crash
<1> QED
  BY <1>1, <1>2, <1>3, <1>4, <1>5, <1>6, <1>7, <1>8, <1>9, <1>10, <1>11, <1>12, <1>13, <1>14,
     <1>15, <1>16, <1>17
  DEF Next, HandlerStep, RowMove

LEMMA NextIsHistoryMove ==
  ASSUME AccountInv, Next
  PROVE  HistoryMove
<1>0. caOnly \in SUBSET Serial /\ faults \in Nat /\ certs \in SUBSET Serial
  BY DEF AccountInv, AccountTypeOK, CaTypeOK
<1>1. UNCHANGED faults \/ Fault => faults' \in Nat
  BY <1>0 DEF Fault
<1>2. ASSUME NEW r \in Request, CascadeRevoke(r) PROVE HistoryMove
  <2>1. job[r].todo \subseteq Serial
    BY JobTyped
  <2> QED
    BY <1>0, <1>1, <1>2, <2>1 DEF CascadeRevoke, HistoryMove
<1>3. ASSUME NEW r \in Request, OperatorCommand(r) PROVE HistoryMove
  BY <1>0, <1>3 DEF OperatorCommand, HistoryMove
<1>4. ASSUME NEW r \in Request, HandlerStep(r), ~CascadeRevoke(r) PROVE HistoryMove
  BY <1>0, <1>1, <1>4
  DEF HandlerStep, CheckAccount, IssueViaCA, IssueReturns, BindCertificate, SetIssued, CascadeList,
      RevokeViaCA, RevokeReturns, CascadeDevice, PublishViaCA, PublishReturns, Finish, OperatorDone,
      HistoryMove
<1>5. ASSUME NEW r \in Request, CommandStep(r) PROVE HistoryMove
  BY <1>0, <1>1, <1>5 DEF CommandStep, acVars, HistoryMove
<1>6. ASSUME NEW a \in Account, Register(a) \/ Approve(a) \/ Enable(a) \/ Login(a) \/ Expire(a)
      PROVE  HistoryMove
  BY <1>0, <1>6 DEF Register, Approve, Enable, Login, Expire, SetStatus, HistoryMove
<1>7. /\ \A a \in Account, d \in Device : CreateDevice(a, d) => HistoryMove
      /\ \A d \in Device : ReportLost(d) => HistoryMove
      /\ \A e \in Request : ApproveEnrollment(e) => HistoryMove
      /\ \A s \in Serial : RevokeCertificate(s) => HistoryMove
      /\ \A r, e \in Request : LabIssue(r, e) => HistoryMove
      /\ \A r, e \in Request, s \in Serial : UploadCertificate(r, e, s) => HistoryMove
  BY <1>0 DEF CreateDevice, ReportLost, ApproveEnrollment, RevokeCertificate, LabIssue,
              UploadCertificate, HistoryMove
<1>8. /\ \A r \in Request, d \in Device : SubmitCSR(r, d) => HistoryMove
      /\ \A r \in Request, a \in Account, delete \in BOOLEAN : Disable(r, a, delete) => HistoryMove
      /\ ImportCRL => HistoryMove
      /\ Crash => HistoryMove
  BY <1>0, <1>1 DEF SubmitCSR, Disable, ImportCRL, Crash, HistoryMove
<1> QED
  BY <1>2, <1>3, <1>4, <1>5, <1>6, <1>7, <1>8 DEF Next

LEMMA NoJobType == NoJob \in Job
BY DEF NoJob, Job

\* The handler answers without having started a cascade.
LEMMA AnswerInv ==
  ASSUME AccountInv, CaMove, RowMove, HistoryMove, NEW r \in Request, Answer(r), UNCHANGED <<crl, signedFor>>
  PROVE  AccountInv'
<1>1. Goto(r, "done") /\ job' = [job EXCEPT ![r] = NoJob]
  BY DEF Answer
<1>2. JobOK(r)'
  <2>1. pc'[r] = "done" /\ job'[r] = NoJob
    BY <1>1, HandlerMoves
  <2> QED
    BY <2>1 DEF JobOK, NoJob, IssueLabels, CascadeLabels, AtCertificate
<1>3. crl' \in SUBSET Serial /\ signedFor' \in [Serial -> Request \cup {None}]
  BY DEF AccountInv, AccountTypeOK
<1> QED
  BY <1>1, <1>2, <1>3, NoJobType, HandlerInv DEF AtRest

\* A handler that starts, or goes on, to issue a certificate.
LEMMA IssuingInv ==
  ASSUME AccountInv, CaMove, RowMove, HistoryMove, NEW r \in Request, NEW label \in IssueLabels,
         NEW j \in Job, Goto(r, label), job' = [job EXCEPT ![r] = j],
         j.enrollment \in Request,
         label \in {"issuing", "create_certificate", "set_issued"} => j.serial \in Serial,
         j.held = {}, j.found = {},
         UNCHANGED crl, signedFor' \in [Serial -> Request \cup {None}]
  PROVE  AccountInv'
<1>1. pc'[r] = label /\ job'[r] = j
  BY HandlerMoves
<1>2. JobOK(r)'
  BY <1>1 DEF JobOK, IssueLabels, CascadeLabels, AtCertificate
<1> QED
  BY <1>2, HandlerInv DEF AccountInv, AccountTypeOK


LEMMA SameJob ==
  ASSUME AccountInv, NEW r \in Request, UNCHANGED job
  PROVE  job' = [job EXCEPT ![r] = job[r]]
BY DEF AccountInv, AccountTypeOK

\* POST /devices/{id}/csr and the admin's two ways to issue.
LEMMA IssueInv ==
  ASSUME AccountInv, CaMove, RowMove, HistoryMove, NEW r \in Request,
         \/ \E d \in Device : SubmitCSR(r, d)
         \/ \E e \in Request : LabIssue(r, e)
         \/ \E e \in Request, s \in Serial : UploadCertificate(r, e, s)
         \/ CheckAccount(r) \/ IssueViaCA(r) \/ IssueReturns(r) \/ BindCertificate(r) \/ SetIssued(r)
  PROVE  AccountInv'
<1>0. /\ RowsType /\ RowsInv /\ JobOK(r) /\ job[r] \in Job /\ signedFor \in [Serial -> Request \cup {None}]
      /\ job \in [Request -> Job]
  BY DEF AccountInv, AccountTypeOK, RowsType
<1>2. ASSUME NEW d \in Device, SubmitCSR(r, d) PROVE AccountInv'
  <2> DEFINE j == [NoJob EXCEPT !.enrollment = r, !.account = device[d].account]
  <2>2. device[d].account \in Account
    BY <1>0, <1>2 DEF SubmitCSR, RowsType, DeviceRow
  <2>1. j \in Job /\ j.enrollment = r /\ j.held = {} /\ j.found = {}
    BY <2>2 DEF NoJob, Job
  <2>3. Goto(r, "csr_account") /\ job' = [job EXCEPT ![r] = j] /\ UNCHANGED <<crl, signedFor>>
    BY <1>2 DEF SubmitCSR, Arrive
  <2> HIDE DEF j
  <2> QED
    BY <1>0, <2>1, <2>3, IssuingInv DEF IssueLabels
<1>3. ASSUME NEW e \in Request, LabIssue(r, e) PROVE AccountInv'
  <2> DEFINE j == [NoJob EXCEPT !.enrollment = e]
  <2>1. j \in Job /\ j.enrollment = e /\ j.held = {} /\ j.found = {}
    BY DEF NoJob, Job
  <2>3. Goto(r, "issue") /\ job' = [job EXCEPT ![r] = j] /\ UNCHANGED <<crl, signedFor>>
    BY <1>3 DEF LabIssue, Arrive
  <2> HIDE DEF j
  <2> QED
    BY <1>0, <2>1, <2>3, IssuingInv DEF IssueLabels
<1>4. ASSUME NEW e \in Request, NEW s \in Serial, UploadCertificate(r, e, s) PROVE AccountInv'
  <2> DEFINE j == [NoJob EXCEPT !.enrollment = e, !.serial = s]
  <2>1. /\ j \in Job /\ j.enrollment = e /\ j.serial = s
        /\ j.held = {} /\ j.found = {}
    BY DEF NoJob, Job
  <2>3. Goto(r, "create_certificate") /\ job' = [job EXCEPT ![r] = j] /\ UNCHANGED <<crl, signedFor>>
    BY <1>4 DEF UploadCertificate, Arrive
  <2> HIDE DEF j
  <2> QED
    BY <1>0, <2>1, <2>3, IssuingInv DEF IssueLabels
<1>5. ASSUME pc[r] \in IssueLabels
      PROVE  job[r].enrollment \in Request /\ job[r].held = {} /\ job[r].found = {}
  BY <1>0, <1>5 DEF JobOK
<1>6. CASE CheckAccount(r)
  <2>1. CASE Goto(r, "issue") /\ UNCHANGED job
    BY <1>0, <1>5, <1>6, <2>1, SameJob, IssuingInv DEF CheckAccount, IssueLabels
  <2> QED
    BY <1>6, <2>1, AnswerInv DEF CheckAccount
<1>7. CASE IssueViaCA(r)
  <2>1. ASSUME NEW t \in Serial, signedFor' = [signedFor EXCEPT ![t] = job[r].enrollment],
               job' = [job EXCEPT ![r].serial = t], Goto(r, "issuing")
        PROVE  AccountInv'
    <3> DEFINE j == [job[r] EXCEPT !.serial = t]
    <3>1. job[r].enrollment \in Request /\ job[r].held = {} /\ job[r].found = {}
      BY <1>5, <1>7 DEF IssueViaCA, IssueLabels
    <3>2. /\ j \in Job /\ j.serial = t /\ j.enrollment = job[r].enrollment
          /\ j.held = {} /\ j.found = {}
      BY <1>0, <3>1 DEF Job
    <3>3. job' = [job EXCEPT ![r] = j]
      BY <1>0, <2>1
    <3>4. signedFor' \in [Serial -> Request \cup {None}]
      BY <1>0, <2>1, <3>1
    <3> HIDE DEF j
    <3> QED
      BY <1>7, <2>1, <3>1, <3>2, <3>3, <3>4, IssuingInv DEF IssueViaCA, IssueLabels
  <2> QED
    BY <1>7, <2>1, AnswerInv DEF IssueViaCA
<1>8. CASE IssueReturns(r)
  <2>1. CASE Goto(r, "create_certificate") /\ UNCHANGED job
    <3>1. job[r].serial \in Serial
      BY <1>0, <1>8 DEF IssueReturns, JobOK
    <3> QED
      BY <1>0, <1>5, <1>8, <2>1, <3>1, SameJob, IssuingInv DEF IssueReturns, IssueLabels
  <2> QED
    BY <1>8, <2>1, AnswerInv DEF IssueReturns
<1>9. CASE BindCertificate(r)
  <2>1. job[r].serial \in Serial
    BY <1>0, <1>9 DEF BindCertificate, JobOK
  <2> QED
    BY <1>0, <1>5, <1>9, <2>1, SameJob, IssuingInv DEF BindCertificate, IssueLabels
<1>10. CASE SetIssued(r)
  BY <1>10, AnswerInv DEF SetIssued
<1> QED
  BY <1>2, <1>3, <1>4, <1>6, <1>7, <1>8, <1>9, <1>10

\* hDisableAccount and hDeleteAccount.
LEMMA DisableInv ==
  ASSUME AccountInv, CaMove, RowMove, HistoryMove, NEW r \in Request, NEW a \in Account,
         NEW delete \in BOOLEAN, Disable(r, a, delete)
  PROVE  AccountInv'
<1>0. RowsType /\ RowsInv
  BY DEF AccountInv, AccountTypeOK, RowsType
<1> DEFINE j == [NoJob EXCEPT !.account = a, !.delete = delete, !.held = ActiveCerts(a)]
<1>1. ActiveCerts(a) \subseteq Serial
  BY DEF ActiveCerts
<1>2. j \in Job /\ j.account = a /\ j.held = ActiveCerts(a) /\ j.found = {}
  BY <1>1 DEF NoJob, Job
<1>3. /\ Goto(r, "list") /\ job' = [job EXCEPT ![r] = j]
      /\ UNCHANGED <<device, enrollment, certRow, crl, signedFor>>
  BY DEF Disable, Arrive
<1> HIDE DEF j
<1>4. pc'[r] = "list" /\ job'[r] = j
  BY <1>2, <1>3, HandlerMoves
<1>5. \A s \in ActiveCerts(a) : certRow'[s] # None /\ CertAccount(s)' = a
  BY <1>3 DEF ActiveCerts, CertAccount, CertDevice
<1>6. JobOK(r)'
  BY <1>2, <1>4, <1>5 DEF JobOK, IssueLabels, CascadeLabels, AtCertificate
<1>7. crl' \in SUBSET Serial /\ signedFor' \in [Serial -> Request \cup {None}]
  BY <1>3 DEF AccountInv, AccountTypeOK
<1> QED
  BY <1>2, <1>3, <1>6, <1>7, HandlerInv DEF CascadeLabels


\* What the steps of a cascade have to show, in terms of the new rows.
LEMMA CascadeGoesOn ==
  ASSUME AccountInv, CaMove, RowMove, HistoryMove, NEW r \in Request, NEW j \in Job,
         NEW label \in CascadeLabels \ {"list"}, Goto(r, label), job' = [job EXCEPT ![r] = j],
         j.account \in Account,
         \A s \in j.todo : certRow'[s] # None,
         label \in AtCertificate =>
           j.serial \in Serial /\ certRow'[j.serial] # None /\ j.serial \in (RevokedCerts \cup caOnly)',
         j.held \subseteq RevokedCerts' \cup j.todo,
         \A s \in j.found : s \in LostCerts' \/ s \in j.todo \/ (label \in AtCertificate /\ s = j.serial),
         label \in {"publish", "publishing", "finish"} => j.todo = {},
         crl' \in SUBSET Serial, UNCHANGED signedFor
  PROVE  AccountInv'
<1>1. pc'[r] = label /\ job'[r] = j
  BY HandlerMoves
<1>2. JobOK(r)'
  BY <1>1 DEF JobOK, IssueLabels, CascadeLabels, AtCertificate
<1>3. signedFor' \in [Serial -> Request \cup {None}]
  BY DEF AccountInv, AccountTypeOK
<1> QED
  BY <1>2, <1>3, HandlerInv

\* disableCascade, step by step.
LEMMA CascadeInv ==
  ASSUME AccountInv, CaMove, RowMove, HistoryMove, NEW r \in Request,
         \/ CascadeList(r) \/ CascadeRevoke(r) \/ RevokeViaCA(r) \/ RevokeReturns(r)
         \/ CascadeDevice(r) \/ PublishViaCA(r) \/ PublishReturns(r)
  PROVE  AccountInv'
<1>0. /\ RowsType /\ RowsInv /\ JobOK(r) /\ job[r] \in Job /\ job \in [Request -> Job]
      /\ crl \in SUBSET Serial /\ CaTypeOK
      /\ job[r].held \subseteq Serial /\ job[r].found \subseteq Serial /\ job[r].todo \subseteq Serial
  BY DEF AccountInv, AccountTypeOK, RowsType, Job
<1>1. RowsType' /\ RowsGrow
  BY <1>0, RowMoveKeeps
<1>2. /\ RevokedCerts \subseteq RevokedCerts' /\ LostCerts \subseteq LostCerts'
      /\ \A s \in Serial : certRow[s] # None => certRow'[s] # None
  BY <1>0, <1>1, CertFactsKept DEF RevokedCerts, LostCerts
<1>3. CASE CascadeList(r)
  <2> DEFINE active == ActiveCerts(job[r].account)
  <2>1. PICK certsOf \in SUBSET active :
          /\ job' = [job EXCEPT ![r].todo = certsOf, ![r].found = certsOf,
                                ![r].held = @ \ (active \ certsOf)]
          /\ Goto(r, IF certsOf = {} THEN "finish" ELSE "revoke")
    BY <1>3 DEF CascadeList
  <2> DEFINE label == IF certsOf = {} THEN "finish" ELSE "revoke"
             j == [job[r] EXCEPT !.todo = certsOf, !.found = certsOf, !.held = @ \ (active \ certsOf)]
  <2>2. active \subseteq Serial /\ \A s \in active : certRow[s] # None
    BY DEF ActiveCerts
  <2>3. Goto(r, label) /\ job' = [job EXCEPT ![r] = j] /\ UNCHANGED <<crl, signedFor>>
    BY <1>0, <1>3, <2>1 DEF CascadeList
  <2>4. job[r].held \subseteq RevokedCerts \cup active
    <3>1. \A s \in job[r].held : certRow[s] # None /\ (s \in RevokedCerts \/ CertAccount(s) = job[r].account)
      BY <1>0, <1>3 DEF CascadeList, JobOK
    <3> QED
      BY <1>0, <3>1 DEF RevokedCerts, ActiveCerts, RowsType, CertRow
  <2> HIDE DEF active
  <2>5. /\ j \in Job /\ j.todo = certsOf /\ j.found = certsOf
        /\ j.held = job[r].held \ (active \ certsOf)
        /\ j.account = job[r].account
    BY <1>0, <2>1, <2>2 DEF Job
  <2>6. label \in {"finish", "revoke"} /\ (label = "finish" => certsOf = {})
    OBVIOUS
  <2>7. job[r].account \in Account
    BY <1>0, <1>3 DEF CascadeList, JobOK, CascadeLabels
  <2> HIDE DEF j, label
  <2>8. /\ \A s \in j.todo : certRow'[s] # None
        /\ j.held \subseteq RevokedCerts' \cup j.todo
        /\ \A s \in j.found : s \in j.todo
    BY <1>0, <1>2, <2>1, <2>2, <2>4, <2>5
  <2>9. label \in CascadeLabels \ {"list"} /\ label \notin AtCertificate
        /\ (label \in {"publish", "publishing", "finish"} => j.todo = {})
    BY <2>5, <2>6 DEF CascadeLabels, AtCertificate
  <2> QED
    BY <1>0, <2>3, <2>5, <2>7, <2>8, <2>9, CascadeGoesOn
<1>4. ASSUME pc[r] \in CascadeLabels \ {"list"}
      PROVE  /\ job[r].account \in Account
             /\ \A s \in job[r].todo : certRow'[s] # None
             /\ job[r].held \subseteq RevokedCerts' \cup job[r].todo
             /\ \A s \in job[r].found :
                  s \in LostCerts' \/ s \in job[r].todo \/ (pc[r] \in AtCertificate /\ s = job[r].serial)
  BY <1>0, <1>2, <1>4 DEF JobOK
<1>5. CASE CascadeRevoke(r)
  <2>1. PICK s \in job[r].todo, kept \in SUBSET Serial :
          /\ job' = [job EXCEPT ![r].todo = @ \ {s}, ![r].serial = s, ![r].held = kept]
          /\ \/ kept = job[r].held /\ certRow' = RowRevoked(s)
             \/ kept = job[r].held \ {s} /\ s \in caOnly'
    <3>1. ASSUME NEW s \in job[r].todo, certRow' = RowRevoked(s),
                 job' = [job EXCEPT ![r].todo = @ \ {s}, ![r].serial = s]
          PROVE  job' = [job EXCEPT ![r].todo = @ \ {s}, ![r].serial = s, ![r].held = job[r].held]
      BY <1>0, <3>1 DEF Job
    <3>2. ASSUME NEW s \in job[r].todo, caOnly' = caOnly \cup {s},
                 job' = [job EXCEPT ![r].todo = @ \ {s}, ![r].serial = s, ![r].held = @ \ {s}]
          PROVE  /\ job' = [job EXCEPT ![r].todo = @ \ {s}, ![r].serial = s, ![r].held = job[r].held \ {s}]
                 /\ s \in caOnly'
      BY <1>0, <3>2
    <3> QED
      BY <1>0, <1>5, <3>1, <3>2 DEF CascadeRevoke
  <2> DEFINE j == [job[r] EXCEPT !.todo = @ \ {s}, !.serial = s, !.held = kept]
  <2>2. s \in Serial /\ certRow[s] # None
    BY <1>0, <1>5 DEF CascadeRevoke, JobOK, CascadeLabels
  <2>3. certRow' = RowRevoked(s) => s \in RevokedCerts'
    BY <1>0, <2>2 DEF RevokedCerts, RowRevoked, RowsType, CertRow
  <2>4. /\ j \in Job /\ j.todo = job[r].todo \ {s} /\ j.serial = s /\ j.found = job[r].found
        /\ j.held = kept /\ j.account = job[r].account
    BY <1>0, <2>2 DEF Job
  <2>5. Goto(r, "revoke_ca") /\ job' = [job EXCEPT ![r] = j] /\ UNCHANGED <<crl, signedFor>>
    BY <1>0, <1>5, <2>1 DEF CascadeRevoke
  <2> HIDE DEF j
  <2>6. /\ j.account \in Account
        /\ \A t \in j.todo : certRow'[t] # None
        /\ j.held \subseteq RevokedCerts' \cup j.todo
        /\ \A t \in j.found : t \in LostCerts' \/ t \in j.todo \/ t = j.serial
    BY <1>4, <1>5, <2>1, <2>3, <2>4 DEF CascadeRevoke, CascadeLabels, AtCertificate
  <2>7. j.serial \in Serial /\ certRow'[j.serial] # None /\ j.serial \in (RevokedCerts \cup caOnly)'
    BY <1>2, <2>1, <2>2, <2>3, <2>4
  <2> QED
    BY <1>0, <2>4, <2>5, <2>6, <2>7, CascadeGoesOn DEF CascadeLabels, AtCertificate
<1>6. CASE RevokeViaCA(r) \/ RevokeReturns(r)
  <2>1. /\ job[r].serial \in Serial /\ certRow[job[r].serial] # None
        /\ job[r].serial \in RevokedCerts \cup caOnly
    BY <1>0, <1>6 DEF RevokeViaCA, RevokeReturns, JobOK, AtCertificate
  <2>4. pc[r] \in AtCertificate /\ UNCHANGED <<job, crl, signedFor>>
    BY <1>6 DEF RevokeViaCA, RevokeReturns, AtCertificate
  <2>5. PICK label \in AtCertificate : Goto(r, label)
    BY <1>6 DEF RevokeViaCA, RevokeReturns, AtCertificate
  <2>6. PICK j \in Job : j = job[r]
    BY <1>0
  <2>7. job' = [job EXCEPT ![r] = j]
    BY <2>4, <2>6, SameJob
  <2>8. j.serial \in Serial /\ certRow'[j.serial] # None /\ j.serial \in (RevokedCerts \cup caOnly)'
    BY <1>2, <2>1, <2>6 DEF HistoryMove
  <2>9. /\ j.account \in Account
        /\ \A s \in j.todo : certRow'[s] # None
        /\ j.held \subseteq RevokedCerts' \cup j.todo
        /\ \A s \in j.found : s \in LostCerts' \/ s \in j.todo \/ s = j.serial
    BY <1>4, <2>4, <2>6 DEF CascadeLabels, AtCertificate
  <2>10. label \in CascadeLabels \ {"list"} /\ label \notin {"publish", "publishing", "finish"}
    BY <2>5 DEF CascadeLabels, AtCertificate
  <2> QED
    BY <1>0, <2>4, <2>5, <2>7, <2>8, <2>9, <2>10, CascadeGoesOn
<1>7. CASE CascadeDevice(r)
  <2>0. PICK s : s = job[r].serial
    OBVIOUS
  <2>1. PICK found \in SUBSET Serial :
          /\ job' = [job EXCEPT ![r].found = found]
          /\ \/ found = job[r].found /\ device' = DeviceLost(CertDevice(s))
             \/ found = job[r].found \ {s}
    <3>1. CASE device' = DeviceLost(CertDevice(s)) /\ UNCHANGED job
      <4>1. job' = [job EXCEPT ![r].found = job[r].found]
        BY <1>0, <3>1 DEF Job
      <4> QED
        BY <1>0, <3>1, <4>1
    <3>2. CASE job' = [job EXCEPT ![r].found = @ \ {s}]
      <4>1. PICK f \in SUBSET Serial : f = job[r].found \ {s}
        BY <1>0
      <4>2. job' = [job EXCEPT ![r].found = f]
        BY <1>0, <3>2, <4>1
      <4> QED
        BY <4>1, <4>2
    <3> QED
      BY <1>7, <2>0, <3>1, <3>2 DEF CascadeDevice
  <2>2. s \in Serial /\ certRow[s] # None
    BY <1>0, <1>7, <2>0 DEF CascadeDevice, JobOK, AtCertificate
  <2>3. CertDevice(s) \in Device /\ device[CertDevice(s)] # None
    BY <1>0, <2>2, CertReaches
  <2>4. UNCHANGED <<enrollment, certRow, crl, signedFor>>
    BY <1>7 DEF CascadeDevice
  <2>5. device' = DeviceLost(CertDevice(s)) => s \in LostCerts'
    BY <1>0, <2>2, <2>3, <2>4 DEF LostCerts, CertDevice, DeviceLost, RowsType, DeviceRow
  <2>6. PICK label \in {"publish", "revoke"} :
          Goto(r, label) /\ (label = "publish" => job[r].todo = {})
    BY <1>7 DEF CascadeDevice
  <2> DEFINE j == [job[r] EXCEPT !.found = found]
  <2>7. /\ j \in Job /\ j.todo = job[r].todo /\ j.held = job[r].held /\ j.found = found
        /\ j.account = job[r].account
        /\ job' = [job EXCEPT ![r] = j]
    BY <1>0, <2>1 DEF Job
  <2> HIDE DEF j
  <2>8. /\ j.account \in Account
        /\ \A t \in j.todo : certRow'[t] # None
        /\ j.held \subseteq RevokedCerts' \cup j.todo
        /\ \A t \in j.found : t \in LostCerts' \/ t \in j.todo
    BY <1>4, <1>7, <2>0, <2>1, <2>5, <2>7 DEF CascadeDevice, CascadeLabels, AtCertificate
  <2>9. label \in CascadeLabels \ {"list"} /\ label \notin AtCertificate
        /\ (label \in {"publish", "publishing", "finish"} => j.todo = {})
    BY <2>6, <2>7 DEF CascadeLabels, AtCertificate
  <2> QED
    BY <1>0, <2>4, <2>6, <2>7, <2>8, <2>9, CascadeGoesOn
<1>8. CASE PublishViaCA(r) \/ PublishReturns(r)
  <2>1. PICK j \in Job : j = job[r]
    BY <1>0
  <2>2. UNCHANGED job
    BY <1>8 DEF PublishViaCA, PublishReturns
  <2>3. pc[r] \in {"publish", "publishing"} /\ UNCHANGED signedFor
    BY <1>8 DEF PublishViaCA, PublishReturns
  <2>4. crl' \in SUBSET Serial
    <3>1. cmd[r].ledger.revoked \in SUBSET Serial
      BY <1>0 DEF CaTypeOK, CmdType, LedgerType, Request
    <3> QED
      BY <1>0, <1>8, <3>1 DEF PublishViaCA, PublishReturns
  <2>5. PICK label \in {"publishing", "finish"} : Goto(r, label)
    BY <1>8 DEF PublishViaCA, PublishReturns
  <2>6. /\ j.account \in Account
        /\ \A t \in j.todo : certRow'[t] # None
        /\ j.held \subseteq RevokedCerts' \cup j.todo
        /\ \A t \in j.found : t \in LostCerts' \/ t \in j.todo
        /\ j.todo = {}
    BY <1>0, <1>4, <2>1, <2>3 DEF CascadeLabels, AtCertificate, JobOK
  <2>7. label \in CascadeLabels \ {"list"} /\ label \notin AtCertificate
    BY <2>5 DEF CascadeLabels, AtCertificate
  <2>8. job' = [job EXCEPT ![r] = j]
    BY <2>1, <2>2, SameJob
  <2> QED
    BY <2>3, <2>4, <2>5, <2>6, <2>7, <2>8, CascadeGoesOn
<1> QED
  BY <1>3, <1>5, <1>6, <1>7, <1>8


LEMMA FinishInv ==
  ASSUME AccountInv, CaMove, RowMove, HistoryMove, NEW r \in Request, Finish(r)
  PROVE  AccountInv'
<1> DEFINE j == [NoJob EXCEPT !.found = job[r].found, !.held = job[r].held]
<1>1. /\ Goto(r, "done") /\ job' = [job EXCEPT ![r] = j]
      /\ UNCHANGED <<device, enrollment, certRow, crl, signedFor>>
  BY DEF Finish
<1>2. j \in Job /\ j.held = job[r].held /\ j.found = job[r].found
  BY JobTyped DEF NoJob, Job
<1> HIDE DEF j
<1>3. pc'[r] = "done" /\ job'[r] = j
  BY <1>1, HandlerMoves
<1>4. job[r].held \subseteq RevokedCerts /\ job[r].found \subseteq LostCerts
  BY JobTyped DEF Finish, JobOK, CascadeLabels, AtCertificate
<1>5. RevokedCerts' = RevokedCerts /\ LostCerts' = LostCerts
  BY <1>1 DEF RevokedCerts, LostCerts, CertDevice
<1>6. JobOK(r)'
  BY <1>2, <1>3, <1>4, <1>5 DEF JobOK, IssueLabels, CascadeLabels, AtCertificate
<1>7. crl' \in SUBSET Serial /\ signedFor' \in [Serial -> Request \cup {None}]
  BY <1>1 DEF AccountInv, AccountTypeOK
<1> QED
  BY <1>1, <1>2, <1>6, <1>7, HandlerInv DEF AtRest

\* An operator's command begins and ends.
LEMMA OperatorInv ==
  ASSUME AccountInv, CaMove, RowMove, HistoryMove, NEW r \in Request,
         OperatorCommand(r) \/ OperatorDone(r)
  PROVE  AccountInv'
<1>1. UNCHANGED <<crl, signedFor>> /\ pc[r] \in {"new", "operator"}
  BY DEF OperatorCommand, OperatorDone, Arrive
<1>2. PICK label \in {"operator", "done"} : Goto(r, label)
  BY DEF OperatorCommand, OperatorDone, Arrive
<1>3. PICK j \in {NoJob, job[r]} : job' = [job EXCEPT ![r] = j]
  BY SameJob DEF OperatorCommand, OperatorDone, Arrive
<1>4. j \in Job /\ j.held = {} /\ j.found = {}
  <2>1. NoJob \in Job /\ NoJob.held = {} /\ NoJob.found = {}
    BY NoJobType DEF NoJob
  <2>2. job[r] \in Job /\ job[r].held = {} /\ job[r].found = {}
    BY <1>1, JobTyped DEF JobOK
  <2> QED
    BY <1>3, <2>1, <2>2
<1>5. pc'[r] = label /\ job'[r] = j
  BY <1>2, <1>3, HandlerMoves
<1>6. JobOK(r)'
  BY <1>2, <1>4, <1>5 DEF JobOK, IssueLabels, CascadeLabels, AtCertificate
<1>7. crl' \in SUBSET Serial /\ signedFor' \in [Serial -> Request \cup {None}]
  BY <1>1 DEF AccountInv, AccountTypeOK
<1> QED
  BY <1>2, <1>3, <1>4, <1>6, <1>7, HandlerInv DEF AtRest

\* The receiver dies: handlers are gone, what they rely on is not needed.
LEMMA CrashInv ==
  ASSUME AccountInv, HistoryMove, Crash
  PROVE  AccountInv'
<1>1. /\ pc \in [Request -> AtRest \cup {"operator"} \cup IssueLabels \cup CascadeLabels]
      /\ job \in [Request -> Job] /\ published \in SUBSET LedgerType
  BY DEF AccountInv, AccountTypeOK, CaTypeOK
<1>2. /\ pc' \in [Request -> AtRest \cup {"operator"} \cup IssueLabels \cup CascadeLabels]
      /\ job' \in [Request -> Job]
  BY <1>1, NoJobType DEF Crash, AtRest
<1>3. crl' \in SUBSET Serial
  BY <1>1 DEF Crash, LedgerType
<1>4. UNCHANGED <<caVars, rowVars, signedFor, caOnly>>
  BY DEF Crash
<1>5. ASSUME NEW q \in Request PROVE JobOK(q)'
  <2>1. CASE pc'[q] = pc[q] /\ job'[q] = job[q]
    BY <1>4, <2>1, JobKept DEF RowsGrow, rowVars
  <2>2. CASE pc'[q] = "dead" /\ job'[q] = NoJob
    BY <2>2 DEF JobOK, NoJob, IssueLabels, CascadeLabels, AtCertificate
  <2> QED
    BY <1>1, <2>1, <2>2 DEF Crash
<1>6. AccountTypeOK'
  BY <1>2, <1>3, <1>4 DEF AccountInv, AccountTypeOK, CaTypeOK, caVars, rowVars, HistoryMove
<1> QED
  BY <1>4, <1>5, <1>6 DEF AccountInv, SerialsCarried, RowsInv, caVars, rowVars

-----------------------------------------------------------------------------
(* Theorems for any overlap of handlers and commands *)

LEMMA AccountInitInv == Init => AccountInv
<1> SUFFICES ASSUME Init PROVE AccountInv
  OBVIOUS
<1>1. CaTypeOK /\ SerialsCarried
  BY CaInitInv DEF Init, CaInv, CaInit, SerialsCarried
<1>2. AccountTypeOK
  BY <1>1, NoJobType DEF Init, AccountTypeOK, AccountStatus, AtRest
<1>3. RowsInv
  BY DEF Init, RowsInv
<1>4. ASSUME NEW r \in Request PROVE JobOK(r)
  <2>1. pc[r] = "new" /\ job[r] = NoJob /\ enrollment[r] = None
    BY DEF Init
  <2> QED
    BY <2>1 DEF JobOK, NoJob, IssueLabels, CascadeLabels, AtCertificate
<1> QED
  BY <1>1, <1>2, <1>3, <1>4 DEF AccountInv

LEMMA AccountNextInv == AccountInv /\ [Next]_allVars => AccountInv'
<1> SUFFICES ASSUME AccountInv, [Next]_allVars PROVE AccountInv'
  OBVIOUS
<1>1. CASE UNCHANGED allVars
  <2>1. UNCHANGED <<caVars, rowVars, pc, job, crl, signedFor, caOnly, faults>>
    BY <1>1 DEF allVars, acVars
  <2> QED
    BY <2>1, RowsOnlyInv DEF CaMove, RowMove, HistoryMove, AccountInv, AccountTypeOK
<1>2. CASE Next
  <2>0. CaMove /\ RowMove /\ HistoryMove /\ crl \in SUBSET Serial
    BY <1>2, NextIsCaMove, NextIsRowMove, NextIsHistoryMove DEF AccountInv, AccountTypeOK
  <2>1. ASSUME UNCHANGED <<pc, job, crl, signedFor>> PROVE AccountInv'
    BY <2>0, <2>1, RowsOnlyInv
  <2>2. ASSUME NEW r \in Request, OperatorCommand(r) \/ HandlerStep(r) PROVE AccountInv'
    BY <2>0, <2>2, IssueInv, CascadeInv, FinishInv, OperatorInv DEF HandlerStep
  <2>3. ASSUME NEW r \in Request,
               \/ \E d \in Device : SubmitCSR(r, d)
               \/ \E e \in Request : LabIssue(r, e)
               \/ \E e \in Request, s \in Serial : UploadCertificate(r, e, s)
        PROVE  AccountInv'
    BY <2>0, <2>3, IssueInv
  <2>4. ASSUME NEW r \in Request, NEW a \in Account, NEW delete \in BOOLEAN, Disable(r, a, delete)
        PROVE  AccountInv'
    BY <2>0, <2>4, DisableInv
  <2>5. ASSUME NEW r \in Request, CommandStep(r) PROVE AccountInv'
    BY <2>1, <2>5 DEF CommandStep, acVars
  <2>6. ASSUME NEW a \in Account, Register(a) \/ Approve(a) \/ Enable(a) \/ Login(a) \/ Expire(a)
        PROVE  AccountInv'
    BY <2>1, <2>6 DEF Register, Approve, Enable, Login, Expire, SetStatus
  <2>7. /\ \A a \in Account, d \in Device : CreateDevice(a, d) => AccountInv'
        /\ \A d \in Device : ReportLost(d) => AccountInv'
        /\ \A e \in Request : ApproveEnrollment(e) => AccountInv'
        /\ \A s \in Serial : RevokeCertificate(s) => AccountInv'
    BY <2>1 DEF CreateDevice, ReportLost, ApproveEnrollment, RevokeCertificate
  <2>8. CASE ImportCRL
    <3>1. crl' \in SUBSET Serial
      BY <2>8 DEF ImportCRL, AccountInv, AccountTypeOK, CaTypeOK, LedgerType
    <3> QED
      BY <2>0, <2>8, <3>1, RowsOnlyInv DEF ImportCRL
  <2>9. CASE Crash
    BY <2>0, <2>9, CrashInv
  <2> QED
    BY <1>2, <2>2, <2>3, <2>4, <2>5, <2>6, <2>7, <2>8, <2>9 DEF Next
<1> QED
  BY <1>1, <1>2


(* The inductive invariant of accounts and certificates.                      *)
THEOREM AccountInvariance == Spec => []AccountInv
BY AccountInitInv, AccountNextInv, PTL DEF Spec

(* Rows, local variables of handlers and the CA's files keep their types.     *)
THEOREM AccountTypeCorrect == Spec => []AccountTypeOK
<1>1. AccountInv => AccountTypeOK
  BY DEF AccountInv
<1> QED
  BY AccountInvariance, <1>1, PTL

(* However handlers and commands interleave, a certificate belongs to an      *)
(* account that was approved and whose row is still there (handlers.go:84-99, *)
(* :174, accounts.go:302).                                                    *)
THEOREM CertificatesHaveAccounts == Spec => []CertificatesAccountable
<1>1. AccountInv => CertificatesAccountable
  <2> SUFFICES ASSUME AccountInv, NEW s \in Serial, certRow[s] # None
               PROVE  account[CertAccount(s)] \in {"active", "disabled"}
    BY DEF CertificatesAccountable
  <2> QED
    BY CertReaches DEF AccountInv, AccountTypeOK, RowsType
<1> QED
  BY AccountInvariance, <1>1, PTL

(* When hDisableAccount or hDeleteAccount answers, every certificate that was *)
(* active when it was called reads revoked and its device lost, except where  *)
(* the store call for it failed, whatever ran meanwhile and whatever else     *)
(* failed (accounts.go:253-266).                                              *)
THEOREM CascadesComplete == Spec => []CascadeComplete
<1>1. AccountInv => CascadeComplete
  BY DEF AccountInv, JobOK, CascadeComplete, RevokedCerts, LostCerts
<1> QED
  BY AccountInvariance, <1>1, PTL

(* No step makes a revoked certificate active again or removes its row: not   *)
(* enabling the account, not a second upload of the certificate               *)
(* (accounts.go:222, handlers.go:276-285).                                    *)
THEOREM RevocationIsFinal == Spec => RevokedStaysRevoked
<1>1. AccountInv /\ [Next]_allVars =>
        [\A s \in Serial :
           certRow[s] # None /\ certRow[s].status = "revoked"
             => certRow'[s] # None /\ certRow'[s].status = "revoked"]_allVars
  <2> SUFFICES ASSUME AccountInv, Next
               PROVE  \A s \in Serial :
                        certRow[s] # None /\ certRow[s].status = "revoked"
                          => certRow'[s] # None /\ certRow'[s].status = "revoked"
    OBVIOUS
  <2>1. RowsType /\ RowsInv /\ RowMove
    BY NextIsRowMove DEF AccountInv, AccountTypeOK, RowsType
  <2>2. RowsGrow
    BY <2>1, RowMoveKeeps
  <2> QED
    BY <2>2 DEF RowsGrow
<1> QED
  BY AccountInvariance, <1>1, PTL DEF Spec, RevokedStaysRevoked


-----------------------------------------------------------------------------
(* What the CRL in memory lists *)

\* Whatever the CA may put on a CRL is in R.
SourcesIn(R) ==
  /\ ledger # Torn => ledger.revoked \subseteq R
  /\ \A p \in Proc : cmd[p].ledger.revoked \subseteq R
  /\ \A x \in published : x.revoked \subseteq R

LEMMA BeginSources ==
  ASSUME CaTypeOK, NEW R, SourcesIn(R), UNCHANGED <<ledger, published>>,
         NEW p \in Proc, NEW label, NEW s, NEW l, CaBegin(p, label, s, l), l.revoked \subseteq R
  PROVE  SourcesIn(R)'
<1>1. cmd'[p].ledger = l /\ \A q \in Proc \ {p} : cmd'[q] = cmd[q]
  BY DEF CaBegin, CaTypeOK
<1> QED
  BY <1>1 DEF SourcesIn

\* Only revoke adds to it.
LEMMA CaMoveSources ==
  ASSUME CaTypeOK, NEW R, RevokedCerts \cup caOnly' \subseteq R, SourcesIn(R), CaMove
  PROVE  SourcesIn(R)'
<1>0. EmptyLedger.revoked = {}
  BY DEF EmptyLedger
<1>1. CASE UNCHANGED caVars
  BY <1>1 DEF caVars, SourcesIn
<1>2. ASSUME NEW p \in Proc, NEW s \in Serial, IssueSign(p, s) PROVE SourcesIn(R)'
  BY <1>0, <1>2, BeginSources DEF IssueSign
<1>3. ASSUME NEW p \in Proc, NEW s \in Serial, s \in R, RevokeLoad(p, s) PROVE SourcesIn(R)'
  <2>1. ledger # Torn => ledger.revoked \subseteq R
    BY DEF SourcesIn
  <2>2. ledger # Torn => WithRevocation(s).revoked \subseteq R
    BY <1>3, <2>1 DEF CaTypeOK, LedgerType, WithRevocation
  <2> QED
    BY <1>0, <1>3, <2>1, <2>2, BeginSources DEF RevokeLoad, LedgerLoads
<1>4. ASSUME NEW p \in Proc, CRLSign(p) PROVE SourcesIn(R)'
  <2>1. ledger # Torn => NextNumber(ledger).revoked \subseteq R
    BY DEF SourcesIn, CaTypeOK, LedgerType, NextNumber
  <2> QED
    BY <1>0, <1>4, <2>1, BeginSources DEF CRLSign, LedgerLoads
<1>5. ASSUME NEW p \in Proc, CaCommandStep(p) \/ Kill(p) PROVE SourcesIn(R)'
  <2>1. \A q \in Proc : cmd'[q].ledger = cmd[q].ledger
    BY <1>5 DEF CaCommandStep, AppendIssued, PublishTruncate, PublishWrite, SaveTruncate, SaveWrite,
                CRLOut, Kill, CaGoto, CaTypeOK, CmdType
  <2>2. ledger' \in {ledger, Torn, cmd[p].ledger}
    BY <1>5 DEF CaCommandStep, AppendIssued, PublishTruncate, PublishWrite, SaveTruncate, SaveWrite,
                CRLOut, Kill, Written
  <2>3. published' \subseteq published \cup {cmd[p].ledger}
    BY <1>5, PublishedIsCopy DEF CaTypeOK, CmdType, CaCommandStep, AppendIssued, PublishTruncate, PublishWrite, SaveTruncate, SaveWrite,
                CRLOut, Kill, Written
  <2> QED
    BY <2>1, <2>2, <2>3 DEF SourcesIn
<1>6. ASSUME NEW p \in Proc, Reaped(p) PROVE SourcesIn(R)'
  BY <1>0, <1>6, ReapedMoves DEF SourcesIn, Request
<1> QED
  BY <1>1, <1>2, <1>3, <1>4, <1>5, <1>6 DEF CaMove

\* Serials with a revoked row, and those the CA was told of without one.
Explained == RevokedCerts \cup caOnly

(* What the CA may put on a CRL, has published, and what is on the one in     *)
(* memory: disableCascade writes the row before it calls the CA.              *)
CrlInv == crl \subseteq Explained /\ SourcesIn(Explained)

LEMMA CrlChanges ==
  ASSUME Next
  PROVE  \/ UNCHANGED crl
         \/ \E r \in Request : crl' = cmd[r].ledger.revoked
         \/ \E x \in published : crl' = x.revoked
<1>1. ASSUME NEW r \in Request, OperatorCommand(r) \/ HandlerStep(r) \/ CommandStep(r)
      PROVE  UNCHANGED crl \/ crl' = cmd[r].ledger.revoked
  BY <1>1 DEF CheckAccount, IssueViaCA, IssueReturns, CascadeList, RevokeViaCA, RevokeReturns,
              PublishViaCA, PublishReturns, OperatorDone, OperatorCommand, CommandStep, acVars,
              BindCertificate, SetIssued, CascadeRevoke, CascadeDevice, Finish, HandlerStep
<1>2. ASSUME NEW a \in Account, Register(a) \/ Approve(a) \/ Enable(a) \/ Login(a) \/ Expire(a)
      PROVE  UNCHANGED crl
  BY <1>2 DEF Register, Approve, Enable, Login, Expire, SetStatus
<1>3. /\ \A a \in Account, d \in Device : CreateDevice(a, d) => UNCHANGED crl
      /\ \A d \in Device : ReportLost(d) => UNCHANGED crl
      /\ \A e \in Request : ApproveEnrollment(e) => UNCHANGED crl
      /\ \A s \in Serial : RevokeCertificate(s) => UNCHANGED crl
      /\ \A r \in Request, d \in Device : SubmitCSR(r, d) => UNCHANGED crl
      /\ \A r, e \in Request : LabIssue(r, e) => UNCHANGED crl
      /\ \A r, e \in Request, s \in Serial : UploadCertificate(r, e, s) => UNCHANGED crl
      /\ \A r \in Request, a \in Account, delete \in BOOLEAN : Disable(r, a, delete) => UNCHANGED crl
  BY DEF CreateDevice, ReportLost, ApproveEnrollment, RevokeCertificate, SubmitCSR, LabIssue,
         UploadCertificate, Disable
<1>4. ImportCRL \/ Crash => \E x \in published : crl' = x.revoked
  BY DEF ImportCRL, Crash
<1> QED
  BY <1>1, <1>2, <1>3, <1>4 DEF Next

LEMMA CrlNextInv == AccountInv /\ CrlInv /\ [Next]_allVars => CrlInv'
<1> SUFFICES ASSUME AccountInv, CrlInv, [Next]_allVars PROVE CrlInv'
  OBVIOUS
<1>1. CASE UNCHANGED allVars
  BY <1>1 DEF allVars, caVars, acVars, rowVars, CrlInv, SourcesIn, Explained, RevokedCerts
<1>2. CASE Next
  <2>1. RowsType /\ RowsInv /\ RowMove /\ CaMove /\ CaTypeOK /\ HistoryMove
    BY <1>2, NextIsRowMove, NextIsCaMove, NextIsHistoryMove DEF AccountInv, AccountTypeOK, RowsType
  <2>2. RevokedCerts \subseteq RevokedCerts'
    BY <2>1, RowMoveKeeps, CertFactsKept DEF RevokedCerts
  <2>3. PICK R : R = Explained'
    OBVIOUS
  <2>4. Explained \subseteq R /\ RevokedCerts \cup caOnly' \subseteq R
    BY <2>1, <2>2, <2>3 DEF Explained, HistoryMove
  <2>5. SourcesIn(R) /\ crl \subseteq R
    BY <2>4 DEF CrlInv, SourcesIn
  <2>6. SourcesIn(R)'
    BY <2>1, <2>4, <2>5, CaMoveSources
  <2>7. crl' \subseteq R
    BY <1>2, <2>5, CrlChanges DEF SourcesIn, Request
  <2> QED
    BY <2>3, <2>6, <2>7 DEF CrlInv, SourcesIn
<1> QED
  BY <1>1, <1>2

(* A certificate on the CRL in memory has a revoked row, unless an operator   *)
(* revoked it with ca-admin or the update of its row failed just before the   *)
(* CA was told (accounts.go:257-258): for any overlap of cascades and         *)
(* commands, through restarts and imports of old CRLs.                        *)
THEOREM CrlIsExplained == Spec => []CrlExplained
<1>1. Init => CrlInv
  BY DEF Init, CaInit, CrlInv, SourcesIn, EmptyLedger
<1>2. CrlInv => CrlExplained
  BY DEF CrlInv, Explained, CrlExplained, RevokedCerts
<1> QED
  BY AccountInvariance, CrlNextInv, <1>1, <1>2, PTL DEF Spec


-----------------------------------------------------------------------------
(* The CA's invariants hold in the composition *)

\* A process that goes away takes nothing with it.
LEMMA ReapedPublish ==
  ASSUME PublishInv, NEW r \in Request, Reaped(r)
  PROVE  PublishInv'
<1>1. CaTypeOK
  BY DEF PublishInv, CaInv
<1>2. /\ cmd' \in [Proc -> CmdType]
      /\ cmd'[r].pc = "idle" /\ cmd'[r].ledger = EmptyLedger
      /\ \A q \in Proc \ {r} : cmd'[q] = cmd[q]
      /\ UNCHANGED <<ledger, crlFile, issued, certs, confirmed, published>>
  BY <1>1, ReapedMoves
<1>3. CaTypeOK'
  BY <1>1, <1>2 DEF CaTypeOK
<1>4. OneAtATime' /\ CopyIsComplete' /\ LedgerKeepsRevocations'
  BY <1>2 DEF PublishInv, CaInv, OneAtATime, CopyIsComplete, LedgerKeepsRevocations, Running
<1>5. CaInv'
  BY <1>3, <1>4 DEF CaInv
<1>6. \A q \in Proc : CopyCovers(q)'
  BY <1>2 DEF PublishInv, CopyCovers, Covers, RevokeRunning, CrlRunning, CrlLoaded, Request
<1>7. (ledger' # Torn => Covers(ledger, ledger.number + 1)') /\ PublishedOnlyGrows'
  BY <1>2 DEF PublishInv, Covers, PublishedOnlyGrows
<1> QED
  BY <1>5, <1>6, <1>7 DEF PublishInv

LEMMA CaMovePublish ==
  ASSUME ~Concurrent, PublishInv, CaMove
  PROVE  PublishInv'
BY CaMoveKinds, ReapedPublish, PublishNextInv

LEMMA ComposedNextInv ==
  ASSUME ~Concurrent, AccountInv, PublishInv, [Next]_allVars
  PROVE  PublishInv'
<1>1. CASE UNCHANGED allVars
  BY <1>1, CaMovePublish DEF allVars, CaMove
<1> QED
  BY <1>1, NextIsCaMove, CaMovePublish

(* The receiver's commands leave the CA's directory as sound as an            *)
(* operator's do, as long as they do not overlap: CaLedgerProofs' invariants  *)
(* hold in the composition.                                                   *)
THEOREM ComposedCaInvariance == ~Concurrent => (Spec => []PublishInv)
<1>1. CASE Concurrent
  BY <1>1
<1>2. CASE ~Concurrent
  <2>1. Init => PublishInv
    BY PublishInitInv DEF Init
  <2>2. AccountInv /\ PublishInv /\ [Next]_allVars => PublishInv'
    BY <1>2, ComposedNextInv
  <2> QED
    BY AccountInvariance, <2>1, <2>2, PTL DEF Spec
<1> QED
  BY <1>1, <1>2

(* In the composition, too, no recorded revocation is lost from a readable    *)
(* ledger and the published CRL only grows.                                   *)
THEOREM ComposedKeepsRevocations ==
  ~Concurrent => (Spec => [](LedgerKeepsRevocations /\ PublishedOnlyGrows))
<1>1. PublishInv => LedgerKeepsRevocations /\ PublishedOnlyGrows
  BY DEF PublishInv, CaInv
<1> QED
  BY ComposedCaInvariance, <1>1, PTL
=============================================================================
