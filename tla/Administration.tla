--------------------------- MODULE Administration ---------------------------
(***************************************************************************)
(* Start-up of the receiver's processes on one database (cmd/api/main.go,  *)
(* store/postgres.go applyMigrations, api.go New and ensureSuperAdmin),    *)
(* sessions (auth.go, hLogin), and the super administrator's handlers for  *)
(* administrator accounts (accounts.go).                                   *)
(*                                                                         *)
(* Processes start together, are killed, and are started again by the      *)
(* container runtime.  Every store call is a step; any of them may fail,   *)
(* at most MaxFaults times together with the kills.  Accounts of users     *)
(* appear as far as they share the table; AccountLifecycle.tla has them.   *)
(***************************************************************************)
EXTENDS Integers, Sequences, FiniteSets

CONSTANTS
  Process,        \* server processes
  Call,           \* slots for calls of several store calls
  Email,          \* user names
  Chosen,         \* passwords people choose; a generated one is named by its process
  Username,       \* [Process -> Email]: PQC_SUPERADMIN_USERNAME
  GivenPassword,  \* [Process -> Chosen or None]: PQC_SUPERADMIN_PASSWORD, None below 8 characters
  Versions,       \* migrations; the last one adds accounts_one_superadmin
  MaxAccounts, MaxFaults,   \* bounds
  None

Password == Chosen \cup Process
Id       == 1..MaxAccounts
Version  == 1..Versions
Role     == {"user", "admin", "superadmin"}
Status   == {"pending", "active", "disabled"}
Account  == [email : Email, role : Role, status : Status, password : Password]

ASSUME AdministrationAssumption ==
  /\ Username \in [Process -> Email]
  /\ GivenPassword \in [Process -> Chosen \cup {None}]
  /\ Versions \in Nat \ {0} /\ MaxAccounts \in Nat /\ MaxFaults \in Nat
  /\ None \notin Password \cup Process \cup Id \cup Account

VARIABLES
  schema,     \* bodies of migrations in the order they took effect
  applied,    \* rows of schema_migrations
  server,     \* [Process -> [pc, version]]
  row,        \* [Id -> None or the account's row]
  removed,    \* ids whose row was deleted
  referenced, \* ids that rows of other tables refer to
  announced,  \* super administrator passwords shown in the log, with the name
  token,      \* unexpired access tokens
  call,       \* [Call -> what it is doing]
  faults      \* kills and failing store calls so far

bootVars  == <<schema, applied, server, announced>>
tableVars == <<row, removed, referenced>>
adminVars == <<bootVars, tableVars, token, call, faults>>

Claims == [sub : Id, role : Role]

Migrating == {"select", "exec", "insert", "commit"}
Booting   == {"list", "create", "log"}
ServerState == [pc : {"down", "serving"} \cup Migrating \cup Booting, version : 1..(Versions + 1)]
Down == [pc |-> "down", version |-> 1]

CallState == [pc : {"idle", "issue", "password", "status", "delete", "tombstone"},
              at : Process \cup {None}, id : Id \cup {None}, role : Role \cup {None},
              password : Chosen \cup {None}, status : Status \cup {None}]
Idle == [pc |-> "idle", at |-> None, id |-> None, role |-> None, password |-> None, status |-> None]

AdminTypeOK ==
  /\ schema \in Seq(Version)
  /\ applied \in SUBSET Version
  /\ server \in [Process -> ServerState]
  /\ row \in [Id -> Account \cup {None}]
  /\ removed \in SUBSET Id /\ referenced \in SUBSET Id
  /\ announced \in SUBSET (Email \X Password)
  /\ token \in SUBSET Claims
  /\ call \in [Call -> CallState]
  /\ faults \in 0..MaxFaults

AdminInit ==
  /\ schema = <<>> /\ applied = {}
  /\ server = [p \in Process |-> Down]
  /\ row = [i \in Id |-> None]
  /\ removed = {} /\ referenced = {}
  /\ announced = {}
  /\ token = {}
  /\ call = [c \in Call |-> Idle]
  /\ faults = 0

-----------------------------------------------------------------------------
(* Helpers *)

At(p, label) == server[p].pc = label
ServerGoto(p, label) == server' = [server EXCEPT ![p].pc = label]

\* A store call fails.
Fails == faults < MaxFaults /\ faults' = faults + 1
Works == UNCHANGED faults

OnlyBoot == UNCHANGED <<tableVars, token, call>>

SuperAdmins == {i \in Id : row[i] # None /\ row[i].role = "superadmin"}
Named(e)    == {i \in Id : row[i] # None /\ row[i].email = e}

\* Mutant: nothing but the name is unique.
NameFree(e, role) == Named(e) = {}

\* The table's constraints: unique names and, by the last migration, at most
\* one super administrator.
Insertable(e, role) ==
  /\ Named(e) = {}
  /\ role = "superadmin" => SuperAdmins = {}

\* Ids are never used twice.
Fresh == {i \in Id : row[i] = None /\ i \notin removed}

\* CreateAccount
Insert(account) ==
  \E i \in Fresh :
    /\ \A k \in Fresh : i <= k
    /\ row' = [row EXCEPT ![i] = account]

\* The bound on rows; the last one is for the super administrator.
Room == Cardinality(Fresh) > (IF SuperAdmins = {} THEN 1 ELSE 0)

-----------------------------------------------------------------------------
(* OpenPostgres: applyMigrations *)

\* OpenPostgres waits for the database and goes on to the migrations; a process
\* that waits in vain exits and is started again.
OpenPostgres == [pc |-> "select", version |-> 1]

\* main, up to the first statement of applyMigrations.
Start(p) ==
  /\ At(p, "down")
  /\ server' = [server EXCEPT ![p] = OpenPostgres]
  /\ UNCHANGED <<schema, applied, announced, faults>> /\ OnlyBoot

NextVersion(p) ==
  LET v == server[p].version IN
  server' = [server EXCEPT ![p] = [pc |-> IF v = Versions THEN "list" ELSE "select",
                                   version |-> v + 1]]

\* Mutant: the answer of the query is not looked at.
NeverRecorded(v) == FALSE

Recorded(v) == v \in applied

\* A query that fails counts as "not applied yet".
MigrateSelect(p) ==
  /\ At(p, "select")
  /\ \/ Recorded(server[p].version) /\ NextVersion(p) /\ Works
     \/ ~Recorded(server[p].version) /\ ServerGoto(p, "exec") /\ Works
     \/ Recorded(server[p].version) /\ ServerGoto(p, "exec") /\ Fails
  /\ UNCHANGED <<schema, applied, announced>> /\ OnlyBoot

\* Mutant: the body runs outside the transaction.
BodyAutocommitted(v) == Append(schema, v)

\* Until the transaction commits nobody sees what the body did.
BodyExecuted(v) == schema

\* The body locks what it creates, drops or alters until the transaction ends.
MigrateExec(p) ==
  /\ At(p, "exec")
  /\ \A q \in Process \ {p} :
       server[q].version = server[p].version => server[q].pc \notin {"insert", "commit"}
  /\ schema' = BodyExecuted(server[p].version)
  /\ ServerGoto(p, "insert")
  /\ UNCHANGED <<applied, announced, faults>> /\ OnlyBoot

\* The version is the primary key; whoever comes second rolls back and exits.
MigrateInsert(p) ==
  /\ At(p, "insert")
  /\ \/ server[p].version \notin applied /\ ServerGoto(p, "commit")
     \/ server[p].version \in applied /\ server' = [server EXCEPT ![p] = Down]
  /\ UNCHANGED <<schema, applied, announced, faults>> /\ OnlyBoot

MigrateCommit(p) ==
  /\ At(p, "commit")
  /\ schema' = Append(schema, server[p].version)
  /\ applied' = applied \cup {server[p].version}
  /\ NextVersion(p)
  /\ UNCHANGED <<announced, faults>> /\ OnlyBoot

-----------------------------------------------------------------------------
(* New: ensureSuperAdmin, then ListenAndServe *)

\* A list that fails is an empty list.
BootList(p) ==
  /\ At(p, "list")
  /\ \/ SuperAdmins # {} /\ ServerGoto(p, "serving") /\ Works
     \/ SuperAdmins = {} /\ ServerGoto(p, "create") /\ Works
     \/ SuperAdmins # {} /\ ServerGoto(p, "create") /\ Fails
  /\ UNCHANGED <<schema, applied, announced>> /\ OnlyBoot

\* Mutant: a missing password is not replaced by a generated one.
PasswordAsGiven(p) == GivenPassword[p]

RandToken(p) == p

BootPassword(p) == IF GivenPassword[p] = None THEN RandToken(p) ELSE GivenPassword[p]

SuperAdmin(p) ==
  [email |-> Username[p], role |-> "superadmin", status |-> "active", password |-> BootPassword(p)]

\* Mutant: the password is shown whether the account was created or not.
BootRefused(p) == ServerGoto(p, "log")

BootFailed(p) == ServerGoto(p, "serving")

\* An error is logged and the server starts without having bootstrapped.
BootCreate(p) ==
  /\ At(p, "create")
  /\ \/ /\ Insertable(Username[p], "superadmin")
        /\ Insert(SuperAdmin(p))
        /\ ServerGoto(p, "log") /\ Works
     \/ ~Insertable(Username[p], "superadmin") /\ BootFailed(p) /\ UNCHANGED row /\ Works
     \/ Insertable(Username[p], "superadmin") /\ BootFailed(p) /\ UNCHANGED row /\ Fails
  /\ UNCHANGED <<schema, applied, announced, removed, referenced, token, call>>

\* A password from the environment is not shown.
BootLog(p) ==
  /\ At(p, "log")
  /\ announced' = IF GivenPassword[p] = None
                  THEN announced \cup {<<Username[p], BootPassword(p)>>} ELSE announced
  /\ ServerGoto(p, "serving")
  /\ UNCHANGED <<schema, applied, faults>> /\ OnlyBoot

\* The process is killed, or a statement of a migration fails: an open
\* transaction is rolled back and the calls it was serving are lost.
Crash(p) ==
  /\ ~At(p, "down")
  /\ Fails
  /\ server' = [server EXCEPT ![p] = Down]
  /\ call' = [c \in Call |-> IF call[c].at = p THEN Idle ELSE call[c]]
  /\ UNCHANGED <<schema, applied, announced, tableVars, token>>

-----------------------------------------------------------------------------
(* Size limits: mbEnv and New *)

\* The MiB at which the bytes reach the sign of an int64 (2^43).
SignMiB == 8388608 * 1048576

\* n << 20 in an int64, in MiB.
Shifted(n) == ((n + SignMiB) % (2 * SignMiB)) - SignMiB

MbEnv(value, default) == IF value > 0 THEN Shifted(value) ELSE default

AtMost(a, b) == IF a <= b THEN a ELSE b

\* In MiB.
NewLimits(upload, stamp, verify) ==
  LET u == IF upload = 0 THEN 25 ELSE upload
      s == IF stamp <= 0 \/ stamp > u THEN AtMost(u, 150) ELSE stamp
      v == IF verify <= 0 \/ verify > u THEN AtMost(u, 350) ELSE verify
  IN  [upload |-> u, stamp |-> s, verify |-> IF v < s THEN s ELSE v]

\* What main configures from PQC_MAX_UPLOAD_MB, _STAMP_MB and _VERIFY_MB.
ConfiguredLimits(upload, stamp, verify) ==
  NewLimits(MbEnv(upload, 25), MbEnv(stamp, 150), MbEnv(verify, 350))

\* Every document small enough for a stamp is in the verified tier, and that tier
\* is within the upload limit.  (The verifier has a ceiling of its own.)
LimitsOrdered(l) == 0 < l.stamp /\ l.stamp <= l.verify /\ l.verify <= l.upload

-----------------------------------------------------------------------------
(* Sessions *)

OnlyCall == UNCHANGED <<bootVars, faults>>

Begin(c, p, state) ==
  /\ At(p, "serving")
  /\ call[c].pc = "idle"
  /\ call' = [call EXCEPT ![c] = [state EXCEPT !.at = p]]

CallGoto(c, label) == call' = [call EXCEPT ![c].pc = label]
CallReturns(c) == call' = [call EXCEPT ![c] = Idle]

\* Mutant: only accounts waiting for approval are kept out.
NotPending(account) == account.status # "pending"

MayLogin(account) == account.status = "active"

\* A hash is named by the password it was made from.
VerifyPassword(password, hash) == password = hash

\* hLogin reads the row and checks password and status ...
LoginRead(c, p, i, w) ==
  /\ row[i] # None
  /\ VerifyPassword(w, row[i].password)
  /\ MayLogin(row[i])
  /\ Begin(c, p, [Idle EXCEPT !.pc = "issue", !.id = i, !.role = row[i].role])
  /\ UNCHANGED <<tableVars, token>> /\ OnlyCall

\* ... and issues a token, which carries the role, from what it has read.
LoginIssue(c) ==
  /\ call[c].pc = "issue"
  /\ token' = token \cup {[sub |-> call[c].id, role |-> call[c].role]}
  /\ CallReturns(c)
  /\ UNCHANGED tableVars /\ OnlyCall

\* Parse refuses a token from its expiry on.
Expire(t) ==
  /\ t \in token
  /\ token' = token \ {t}
  /\ UNCHANGED <<tableVars, call>> /\ OnlyCall

\* authed: the token's role decides, the row is not read again.
Authed(minRole) ==
  \E t \in token : CASE minRole = "admin" -> t.role \in {"admin", "superadmin"}
                     [] minRole = "superadmin" -> t.role = "superadmin"
Served == \E p \in Process : At(p, "serving")

-----------------------------------------------------------------------------
(* Handlers of one store call *)

\* hRegister: a user, pending, whatever the request asks for.
Register(e, w) ==
  /\ Served
  /\ Room
  /\ Insertable(e, "user")
  /\ Insert([email |-> e, role |-> "user", status |-> "pending", password |-> w])
  /\ UNCHANGED <<removed, referenced, token, call>> /\ OnlyCall

\* hCreateAdmin
CreateAdmin(e, w) ==
  /\ Served
  /\ Authed("superadmin")
  /\ Room
  /\ Insertable(e, "admin")
  /\ Insert([email |-> e, role |-> "admin", status |-> "active", password |-> w])
  /\ UNCHANGED <<removed, referenced, token, call>> /\ OnlyCall

\* clientTarget
ClientTarget(i) == row[i] # None /\ row[i].role = "user"

\* hApproveAccount, hEnableAccount, hDisableAccount
SetClientStatus(i, status) ==
  /\ Served
  /\ Authed("admin")
  /\ ClientTarget(i)
  /\ row' = [row EXCEPT ![i].status = status]
  /\ UNCHANGED <<removed, referenced, token, call>> /\ OnlyCall

\* hCreateDevice, open to every role: a row that refers to the account.
CreateDevice(i) ==
  /\ Served
  /\ \E t \in token : t.sub = i
  /\ row[i] # None
  /\ referenced' = referenced \cup {i}
  /\ UNCHANGED <<row, removed, token, call>> /\ OnlyCall

-----------------------------------------------------------------------------
(* PATCH and DELETE /api/v1/admin/admins/{id} *)

\* Mutant: the super administrator is an administrator, too.
AnyAdminTarget(i) == row[i] # None /\ row[i].role \in {"admin", "superadmin"}

AdminTarget(i) == row[i] # None /\ row[i].role = "admin"

\* hUpdateAdmin, asked for a new password, a status or both.
UpdateAdmin(c, p, i, w, status) ==
  /\ Authed("superadmin")
  /\ AdminTarget(i)
  /\ w # None \/ status # None
  /\ Begin(c, p, [Idle EXCEPT !.pc = IF w # None THEN "password" ELSE "status",
                              !.id = i, !.password = w, !.status = status])
  /\ UNCHANGED <<tableVars, token>> /\ OnlyCall

\* An update that fails, or of a row that is gone, ends the call with an error.
UpdatePassword(c) ==
  LET i == call[c].id IN
  /\ call[c].pc = "password"
  /\ \/ /\ row[i] # None
        /\ row' = [row EXCEPT ![i].password = call[c].password]
        /\ IF call[c].status # None THEN CallGoto(c, "status") ELSE CallReturns(c)
        /\ Works
     \/ row[i] = None /\ CallReturns(c) /\ UNCHANGED row /\ Works
     \/ CallReturns(c) /\ UNCHANGED row /\ Fails
  /\ UNCHANGED <<bootVars, removed, referenced, token>>

\* SetAccountStatus, after which the call is over whether it worked or not.
LastStatus(c, status) ==
  LET i == call[c].id IN
  /\ \/ row' = (IF row[i] # None THEN [row EXCEPT ![i].status = status] ELSE row) /\ Works
     \/ UNCHANGED row /\ Fails
  /\ CallReturns(c)
  /\ UNCHANGED <<bootVars, removed, referenced, token>>

UpdateStatus(c) == call[c].pc = "status" /\ LastStatus(c, call[c].status)

\* hDeleteAdmin
DeleteAdmin(c, p, i) ==
  /\ Authed("superadmin")
  /\ AdminTarget(i)
  /\ Begin(c, p, [Idle EXCEPT !.pc = "delete", !.id = i])
  /\ UNCHANGED <<tableVars, token>> /\ OnlyCall

DeleteRow(c) ==
  LET i == call[c].id IN
  /\ call[c].pc = "delete"
  /\ \/ /\ row[i] # None /\ i \notin referenced
        /\ row' = [row EXCEPT ![i] = None]
        /\ removed' = removed \cup {i}
        /\ CallReturns(c) /\ Works
     \/ /\ row[i] = None \/ i \in referenced
        /\ CallGoto(c, "tombstone") /\ Works
        /\ UNCHANGED <<row, removed>>
     \/ CallGoto(c, "tombstone") /\ Fails /\ UNCHANGED <<row, removed>>
  /\ UNCHANGED <<bootVars, referenced, token>>

\* A row that cannot be deleted is disabled instead, an error of which is dropped.
Tombstone(c) == call[c].pc = "tombstone" /\ LastStatus(c, "disabled")

-----------------------------------------------------------------------------
ServerStep(p) ==
  \/ Start(p)
  \/ MigrateSelect(p) \/ MigrateExec(p) \/ MigrateInsert(p) \/ MigrateCommit(p)
  \/ BootList(p) \/ BootCreate(p) \/ BootLog(p)

CallStep(c) ==
  \/ LoginIssue(c) \/ UpdatePassword(c) \/ UpdateStatus(c) \/ DeleteRow(c) \/ Tombstone(c)

AdminNext ==
  \/ \E p \in Process : ServerStep(p) \/ Crash(p)
  \/ \E c \in Call, p \in Process, i \in Id :
       \/ \E w \in Password : LoginRead(c, p, i, w)
       \/ DeleteAdmin(c, p, i)
       \/ \E w \in Chosen \cup {None}, status \in {"active", "disabled", None} :
            UpdateAdmin(c, p, i, w, status)
  \/ \E c \in Call : CallStep(c)
  \/ \E t \in Claims : Expire(t)
  \/ \E e \in Email, w \in Chosen : Register(e, w) \/ CreateAdmin(e, w)
  \/ \E i \in Id : CreateDevice(i) \/ \E status \in {"active", "disabled"} : SetClientStatus(i, status)

AdminSpec == AdminInit /\ [][AdminNext]_adminVars

(* A started process runs on and one that has exited is started again         *)
(* (deploy/local/docker-compose.yml:62, "restart: unless-stopped"); tokens    *)
(* live for 15 minutes.  Nothing is assumed of clients and calls.             *)
FairAdminSpec ==
  /\ AdminSpec
  /\ \A p \in Process : WF_adminVars(ServerStep(p))
  /\ \A t \in Claims : WF_adminVars(Expire(t))

-----------------------------------------------------------------------------
(* Properties *)

(* "runs each migrations/NNNN_*.up.sql exactly once, in name order"           *)
(* (postgres.go:20), with processes that start together, read the table       *)
(* before another commits and are killed in between; no process gets past it  *)
(* before the schema is complete.                                             *)
MigrationsOnceInOrder ==
  /\ schema = [n \in 1..Len(schema) |-> n]
  /\ applied = 1..Len(schema)
  /\ \A p \in Process :
       server[p].pc \in Booting \cup {"serving"} => Len(schema) = Versions

(* "the single super-admin" (api.go:195): processes that found none create at *)
(* most one between them, also under different configured names.              *)
OneSuperAdmin == Cardinality(SuperAdmins) <= 1

(* A password the log shows ("shown once", api.go:225) opens the super        *)
(* administrator's account: the process that lost the race shows none.        *)
AnnouncedPasswordWorks ==
  \A a \in announced : \E i \in SuperAdmins : row[i].email = a[1] /\ VerifyPassword(a[2], row[i].password)

(* "The super-admin row itself cannot be changed here" (accounts.go:98): no   *)
(* handler, alone or raced by others, disables, renames or removes it.        *)
SuperAdminUntouched ==
  [][\A i \in SuperAdmins : row'[i] = row[i]]_adminVars

(* Every process ends up serving, although losing a race for a migration      *)
(* makes it exit.                                                             *)
ServersComeUp == \A p \in Process : <>[]At(p, "serving")

(* Nobody keeps an account's session alive without the account: one that      *)
(* stays disabled or deleted is without a token from some time on, although   *)
(* a token is never checked against the row (api.go:328-353) and a login may  *)
(* still be under way when the account is disabled.                           *)
SessionsEnd ==
  \A i \in Id : []<>(row[i] # None /\ row[i].status = "active") \/ <>[](\A t \in token : t.sub # i)
=============================================================================
