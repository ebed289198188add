------------------------- MODULE AdministrationProofs -------------------------
(***************************************************************************)
(* Proofs about Administration.tla, for any number of processes, accounts, *)
(* migrations and faults.                                                  *)
(***************************************************************************)
EXTENDS Administration, FiniteSetTheorems, TLAPS

(* New (api.go:147-158) orders the size limits for every upload limit that is *)
(* not negative, whatever the other two are: a document small enough for a QR *)
(* stamp is in the verified tier, and that tier is within the upload limit.   *)
THEOREM NewOrdersLimits ==
  ASSUME NEW u \in Nat, NEW s \in Int, NEW v \in Int
  PROVE  LimitsOrdered(NewLimits(u, s, v))
BY DEF LimitsOrdered, NewLimits, AtMost

\* A shift leaves an integer, and a small number alone.
LEMMA ShiftInt ==
  ASSUME NEW h \in Nat, h > 0, NEW n \in Nat
  PROVE  ((n + h) % (2 * h)) - h \in Int
<1>1. PICK m \in Nat : m = n + h
  OBVIOUS
<1>2. PICK w \in Nat : w = 2 * h /\ w > 0
  OBVIOUS
<1>3. m % w \in Int
  BY <1>2
<1> QED
  BY <1>1, <1>2, <1>3

LEMMA ShiftSmall ==
  ASSUME NEW h \in Nat, h > 0, NEW n \in Nat, n < h
  PROVE  ((n + h) % (2 * h)) - h = n
OBVIOUS

(* The same for what main.go reads from the environment, unless the shift of  *)
(* PQC_MAX_UPLOAD_MB reaches the sign of the int64 (from 2^43 MiB on); what   *)
(* the shift makes of the other two variables does not matter.                *)
THEOREM MainOrdersLimits ==
  ASSUME NEW u \in Nat, NEW s \in Nat, NEW v \in Nat, u < SignMiB
  PROVE  LimitsOrdered(ConfiguredLimits(u, s, v))
<1>1. SignMiB \in Nat /\ SignMiB > 0
  BY SMT DEF SignMiB
<1>2. \A n \in Nat : Shifted(n) \in Int
  BY <1>1, ShiftInt DEF Shifted
<1>3. Shifted(u) = u
  BY <1>1, ShiftSmall DEF Shifted
<1>4. MbEnv(u, 25) \in Nat /\ MbEnv(s, 150) \in Int /\ MbEnv(v, 350) \in Int
  BY <1>2, <1>3 DEF MbEnv
<1> QED
  BY <1>4, NewOrdersLimits DEF ConfiguredLimits

-----------------------------------------------------------------------------
(* The inductive invariant *)

\* How far the migrations have come, as process p knows it.
MigrationOK(p) ==
  /\ server[p].pc \in Migrating =>
       server[p].version <= Versions /\ server[p].version - 1 <= Len(schema)
  /\ server[p].pc = "commit" => server[p].version - 1 = Len(schema)
  /\ server[p].pc \in Booting \cup {"serving"} => Len(schema) = Versions

\* Bodies took effect in order, and two processes that hold the locks of a body
\* are at different migrations.
MigrationInv ==
  /\ Len(schema) <= Versions
  /\ \A n \in 1..Len(schema) : schema[n] = n
  /\ applied = 1..Len(schema)
  /\ \A p \in Process : MigrationOK(p)
  /\ \A p, q \in Process :
       /\ p # q
       /\ server[p].pc \in {"insert", "commit"} /\ server[q].pc \in {"insert", "commit"}
       => server[p].version # server[q].version

TableInv ==
  /\ \A i, j \in SuperAdmins : i = j
  /\ \A i \in removed : row[i] = None

Opens(e, w) == \E i \in SuperAdmins : row[i].email = e /\ row[i].password = w

\* The password of a process that is about to show it opens the account.
BootInv ==
  /\ \A p \in Process : server[p].pc = "log" => Opens(Username[p], BootPassword(p))
  /\ \A a \in announced : Opens(a[1], a[2])

\* A handler's target was an administrator and is one still, or its row is gone
\* for good.
TargetOK(i) == i \in Id /\ (i \in removed \/ AdminTarget(i))

CallOK(c) ==
  /\ call[c].pc = "issue" => call[c].id \in Id /\ call[c].role \in Role
  /\ call[c].pc \in {"password", "status", "delete", "tombstone"} => TargetOK(call[c].id)
  /\ call[c].pc = "password" => call[c].password # None
  /\ call[c].pc = "status" => call[c].status # None

(* The inductive invariant of start-up and administration.                    *)
AdminInv ==
  /\ AdminTypeOK
  /\ MigrationInv
  /\ TableInv
  /\ BootInv
  /\ \A c \in Call : CallOK(c)

-----------------------------------------------------------------------------
(* Steps on the table of accounts *)

USE AdministrationAssumption

\* A row is inserted under a fresh id, changed without touching its role unless
\* it is the super administrator's, or deleted for good.
RowMove(k) ==
  \/ /\ row[k] = None /\ k \notin removed /\ row'[k] \in Account
     /\ row'[k].role = "superadmin" => SuperAdmins = {}
  \/ /\ row[k] # None /\ row'[k] \in Account
     /\ row'[k].role = row[k].role /\ row[k].role # "superadmin"
  \/ AdminTarget(k) /\ row'[k] = None /\ k \in removed'

\* No action changes more than one row.
TableStep ==
  /\ row' \in [Id -> Account \cup {None}] /\ removed' \in SUBSET Id
  /\ removed \subseteq removed'
  /\ \/ row' = row /\ removed' = removed
     \/ \E k \in Id :
          /\ \A i \in Id \ {k} : row'[i] = row[i] /\ (i \in removed' => i \in removed)
          /\ RowMove(k)
          /\ row'[k] # None => k \notin removed'

\* The super administrator's row survives such a step, and what handlers rely on.
LEMMA TableStepKeeps ==
  ASSUME AdminTypeOK, TableInv, TableStep
  PROVE  /\ TableInv'
         /\ \A i \in SuperAdmins : i \in SuperAdmins' /\ row'[i] = row[i]
         /\ \A i \in Id : TargetOK(i) => TargetOK(i)'
<1>1. CASE row' = row /\ removed' = removed
  BY <1>1 DEF TableInv, SuperAdmins, TargetOK, AdminTarget
<1>2. ASSUME NEW k \in Id,
             \A i \in Id \ {k} : row'[i] = row[i] /\ (i \in removed' => i \in removed),
             RowMove(k),
             row'[k] # None => k \notin removed'
      PROVE  /\ TableInv'
             /\ \A i \in SuperAdmins : i \in SuperAdmins' /\ row'[i] = row[i]
             /\ \A i \in Id : TargetOK(i) => TargetOK(i)'
  <2>1. \A i \in SuperAdmins : i # k
    BY <1>2 DEF SuperAdmins, RowMove, AdminTarget
  <2>2. \A i \in SuperAdmins : i \in SuperAdmins' /\ row'[i] = row[i]
    BY <1>2, <2>1 DEF SuperAdmins
  <2>3. \A i \in SuperAdmins' : i # k => i \in SuperAdmins
    BY <1>2 DEF SuperAdmins
  <2>4. k \in SuperAdmins' => SuperAdmins = {}
    BY <1>2 DEF SuperAdmins, RowMove, AdminTypeOK, Account, AdminTarget
  <2>5. \A i, j \in SuperAdmins' : i = j
    BY <2>3, <2>4 DEF TableInv
  <2>6. \A i \in removed' : row'[i] = None
    BY <1>2 DEF TableInv, TableStep
  <2>7. ASSUME NEW i \in Id, TargetOK(i) PROVE TargetOK(i)'
    <3>1. CASE i # k
      BY <1>2, <2>7, <3>1 DEF TargetOK, AdminTarget, TableStep
    <3>2. CASE i = k
      BY <1>2, <2>7, <3>2 DEF TargetOK, AdminTarget, TableStep, RowMove
    <3> QED
      BY <3>1, <3>2
  <2> QED
    BY <2>2, <2>5, <2>6, <2>7 DEF TableInv
<1> QED
  BY <1>1, <1>2 DEF TableStep

\* CreateAccount is such a step.
LEMMA InsertIsTableStep ==
  ASSUME AdminTypeOK, TableInv, NEW a \in Account, Insert(a), Insertable(a.email, a.role),
         UNCHANGED removed
  PROVE  /\ TableStep
         /\ \E i \in Id : row'[i] = a
<1>1. PICK k \in Id : row[k] = None /\ k \notin removed /\ row' = [row EXCEPT ![k] = a]
  BY DEF Insert, Fresh
<1>2. row' \in [Id -> Account \cup {None}] /\ row'[k] = a /\ \A i \in Id \ {k} : row'[i] = row[i]
  BY <1>1 DEF AdminTypeOK
<1>3. RowMove(k)
  BY <1>1, <1>2 DEF RowMove, Insertable
<1> QED
  BY <1>1, <1>2, <1>3 DEF TableStep, AdminTypeOK

\* So is an update of an account that is not the super administrator's.
LEMMA UpdateIsTableStep ==
  ASSUME AdminTypeOK, TableInv, NEW k \in Id, row[k] # None, row[k].role # "superadmin",
         NEW a \in Account, a.role = row[k].role,
         row' = [row EXCEPT ![k] = a], UNCHANGED removed
  PROVE  TableStep
<1>1. row' \in [Id -> Account \cup {None}] /\ row'[k] = a /\ \A i \in Id \ {k} : row'[i] = row[i]
  BY DEF AdminTypeOK
<1>2. RowMove(k)
  BY <1>1 DEF RowMove
<1>3. k \notin removed
  BY DEF TableInv
<1> QED
  BY <1>1, <1>2, <1>3 DEF TableStep, AdminTypeOK

-----------------------------------------------------------------------------
(* Start-up *)

\* The state a process may move to with the migrations as they are.
Consistent(p, s) ==
  /\ s \in ServerState
  /\ s.pc \in Migrating => s.version <= Versions /\ s.version - 1 <= Len(schema)
  /\ s.pc = "commit" => s.version - 1 = Len(schema)
  /\ s.pc \in Booting \cup {"serving"} => Len(schema) = Versions
  /\ s.pc \in {"insert", "commit"} =>
       \A q \in Process \ {p} : server[q].pc \in {"insert", "commit"} => server[q].version # s.version

\* A process that moves on keeps the types and the order of the migrations.
LEMMA ServerMoves ==
  ASSUME AdminTypeOK, MigrationInv, NEW p \in Process, NEW s, Consistent(p, s),
         server' = [server EXCEPT ![p] = s], UNCHANGED <<schema, applied>>
  PROVE  server' \in [Process -> ServerState] /\ MigrationInv'
<1>1. /\ server' \in [Process -> ServerState] /\ server'[p] = s
      /\ \A q \in Process \ {p} : server'[q] = server[q]
  BY DEF AdminTypeOK, Consistent
<1>2. ASSUME NEW q \in Process PROVE MigrationOK(q)'
  BY <1>1 DEF MigrationInv, MigrationOK, Consistent
<1>3. ASSUME NEW q1 \in Process, NEW q2 \in Process, q1 # q2,
             server'[q1].pc \in {"insert", "commit"}, server'[q2].pc \in {"insert", "commit"}
      PROVE  server'[q1].version # server'[q2].version
  BY <1>1, <1>3 DEF MigrationInv, Consistent
<1> QED
  BY <1>1, <1>2, <1>3 DEF MigrationInv

\* Such a step keeps the invariant when nothing else changes.
LEMMA BootFrame ==
  ASSUME AdminInv, NEW p \in Process, NEW s, Consistent(p, s), s.pc # "log",
         server' = [server EXCEPT ![p] = s],
         UNCHANGED <<schema, applied, announced>>, OnlyBoot, faults' \in 0..MaxFaults
  PROVE  AdminInv'
<1>1. server' \in [Process -> ServerState] /\ MigrationInv'
  BY ServerMoves DEF AdminInv
<1>2. AdminTypeOK'
  BY <1>1 DEF AdminInv, AdminTypeOK, OnlyBoot, tableVars
<1>3. TableInv'
  BY DEF AdminInv, TableInv, OnlyBoot, tableVars, SuperAdmins
<1>4. \A e, w : Opens(e, w) => Opens(e, w)'
  BY DEF OnlyBoot, tableVars, Opens, SuperAdmins
<1>5. \A q \in Process : server'[q].pc = "log" => server[q].pc = "log"
  BY DEF AdminInv, AdminTypeOK
<1>6. BootInv'
  BY <1>4, <1>5 DEF AdminInv, BootInv, BootPassword, RandToken
<1>7. \A c \in Call : CallOK(c)'
  BY DEF AdminInv, CallOK, TargetOK, AdminTarget, OnlyBoot, tableVars
<1> QED
  BY <1>1, <1>2, <1>3, <1>6, <1>7 DEF AdminInv

\* Going to a label is a step to a state with the same version.
LEMMA Labelled ==
  ASSUME AdminTypeOK, NEW p \in Process, NEW label, ServerGoto(p, label)
  PROVE  server' = [server EXCEPT ![p] = [pc |-> label, version |-> server[p].version]]
<1>1. server[p] = [pc |-> server[p].pc, version |-> server[p].version]
  BY DEF AdminTypeOK, ServerState
<1>2. [server[p] EXCEPT !.pc = label] = [pc |-> label, version |-> server[p].version]
  BY <1>1
<1> QED
  BY <1>2 DEF ServerGoto, AdminTypeOK

\* A migration that is done lets the process on to the next one.
LEMMA NextVersionConsistent ==
  ASSUME AdminTypeOK, MigrationInv, NEW p \in Process, server[p].pc \in Migrating,
         NextVersion(p)
  PROVE  \E s \in ServerState :
           /\ server' = [server EXCEPT ![p] = s]
           /\ s.pc \in {"list", "select"}
           /\ s.version = server[p].version + 1
           /\ s.pc = "list" => server[p].version = Versions
           /\ s.pc = "select" => s.version <= Versions
<1> DEFINE v == server[p].version
           s == [pc |-> IF v = Versions THEN "list" ELSE "select", version |-> v + 1]
<1>1. v \in 1..Versions
  BY DEF AdminTypeOK, ServerState, MigrationInv, MigrationOK
<1>2. v + 1 \in 1..(Versions + 1) /\ (v # Versions => v + 1 <= Versions)
  BY <1>1
<1>3. s \in ServerState
  BY <1>2 DEF ServerState, Migrating, Booting
<1> QED
  BY <1>2, <1>3 DEF NextVersion

\* main, and the steps of applyMigrations that commit nothing.
LEMMA MigrateInv ==
  ASSUME AdminInv, NEW p \in Process,
         Start(p) \/ MigrateSelect(p) \/ MigrateExec(p) \/ MigrateInsert(p)
  PROVE  AdminInv'
<1> DEFINE v == server[p].version
           At_(label) == [pc |-> label, version |-> v]
<1>0. /\ v \in 1..(Versions + 1) /\ faults \in 0..MaxFaults
      /\ MigrationOK(p) /\ applied = 1..Len(schema) /\ Len(schema) \in Nat /\ Len(schema) <= Versions
      /\ AdminTypeOK /\ MigrationInv
  BY DEF AdminInv, AdminTypeOK, ServerState, MigrationInv
<1>1. CASE Start(p)
  <2>1. Consistent(p, OpenPostgres) /\ OpenPostgres.pc # "log"
    BY <1>0 DEF Consistent, OpenPostgres, ServerState, Migrating, Booting
  <2> QED
    BY <1>0, <1>1, <2>1, BootFrame DEF Start
<1>2. CASE MigrateSelect(p)
  <2>0. /\ server[p].pc = "select" /\ v <= Versions /\ v - 1 <= Len(schema)
        /\ UNCHANGED <<schema, applied, announced>> /\ OnlyBoot
    BY <1>0, <1>2 DEF MigrateSelect, MigrationOK, At, Migrating
  <2>1. CASE Recorded(v) /\ NextVersion(p) /\ Works
    <3>1. v <= Len(schema)
      BY <1>0, <2>1 DEF Recorded
    <3>2. PICK s \in ServerState : /\ server' = [server EXCEPT ![p] = s]
                                   /\ s.pc \in {"list", "select"}
                                   /\ s.version = v + 1
                                   /\ s.pc = "list" => v = Versions
                                   /\ s.pc = "select" => s.version <= Versions
      BY <1>0, <2>0, <2>1, NextVersionConsistent DEF Migrating
    <3>3. Consistent(p, s)
      BY <1>0, <3>1, <3>2 DEF Consistent, Migrating, Booting
    <3> QED
      BY <1>0, <2>0, <2>1, <3>2, <3>3, BootFrame DEF Works
  <2>2. CASE ServerGoto(p, "exec")
    <3>1. Consistent(p, At_("exec"))
      BY <1>0, <2>0 DEF Consistent, ServerState, Migrating, Booting
    <3>2. server' = [server EXCEPT ![p] = At_("exec")] /\ At_("exec").pc # "log"
      BY <1>0, <2>2, Labelled
    <3>3. faults' \in 0..MaxFaults
      BY <1>0, <1>2 DEF MigrateSelect, Works, Fails
    <3> HIDE DEF At_
    <3> QED
      BY <2>0, <3>1, <3>2, <3>3, BootFrame
  <2> QED
    BY <1>2, <2>1, <2>2 DEF MigrateSelect
<1>3. CASE MigrateExec(p)
  <2>1. /\ server[p].pc = "exec" /\ v <= Versions /\ v - 1 <= Len(schema)
        /\ \A q \in Process \ {p} : server[q].version = v => server[q].pc \notin {"insert", "commit"}
        /\ UNCHANGED <<schema, applied, announced, faults>> /\ OnlyBoot /\ ServerGoto(p, "insert")
    BY <1>0, <1>3 DEF MigrateExec, MigrationOK, At, Migrating, BodyExecuted
  <2>2. Consistent(p, At_("insert"))
    BY <1>0, <2>1 DEF Consistent, ServerState, Migrating, Booting
  <2>3. server' = [server EXCEPT ![p] = At_("insert")] /\ At_("insert").pc # "log"
    BY <1>0, <2>1, Labelled
  <2> HIDE DEF At_
  <2> QED
    BY <1>0, <2>1, <2>2, <2>3, BootFrame
<1>4. CASE MigrateInsert(p)
  <2>0. /\ server[p].pc = "insert" /\ v <= Versions /\ v - 1 <= Len(schema)
        /\ UNCHANGED <<schema, applied, announced, faults>> /\ OnlyBoot
    BY <1>0, <1>4 DEF MigrateInsert, MigrationOK, At, Migrating
  <2>1. CASE v \notin applied /\ ServerGoto(p, "commit")
    <3>1. v - 1 = Len(schema)
      BY <1>0, <2>0, <2>1
    <3>2. Consistent(p, At_("commit"))
      BY <1>0, <2>0, <3>1 DEF Consistent, ServerState, Migrating, Booting, MigrationInv
    <3>3. server' = [server EXCEPT ![p] = At_("commit")] /\ At_("commit").pc # "log"
      BY <1>0, <2>1, Labelled
    <3> HIDE DEF At_
    <3> QED
      BY <1>0, <2>0, <3>2, <3>3, BootFrame
  <2>2. CASE server' = [server EXCEPT ![p] = Down]
    <3>1. Consistent(p, Down) /\ Down.pc # "log"
      BY <1>0 DEF Consistent, Down, ServerState, Migrating, Booting
    <3> QED
      BY <1>0, <2>0, <2>2, <3>1, BootFrame
  <2> QED
    BY <1>4, <2>1, <2>2 DEF MigrateInsert
<1> QED
  BY <1>1, <1>2, <1>3, <1>4

\* Committing makes the next version visible, once.
LEMMA MigrateCommitInv ==
  ASSUME AdminInv, NEW p \in Process, MigrateCommit(p)
  PROVE  AdminInv'
<1> DEFINE v == server[p].version
           n == Len(schema)
<1>0. /\ server[p].pc = "commit" /\ v \in 1..Versions /\ v - 1 = n /\ n \in Nat /\ schema \in Seq(Version)
      /\ applied = 1..n /\ \A i \in 1..n : schema[i] = i
      /\ AdminTypeOK /\ MigrationInv
  BY DEF AdminInv, AdminTypeOK, ServerState, MigrationInv, MigrationOK, MigrateCommit, At, Migrating
<1>1. /\ schema' = Append(schema, v) /\ applied' = applied \cup {v} /\ NextVersion(p)
      /\ UNCHANGED <<announced, faults>> /\ OnlyBoot
  BY DEF MigrateCommit
<1>2. /\ schema' \in Seq(Version) /\ Len(schema') = n + 1
      /\ \A i \in 1..n : schema'[i] = schema[i]
      /\ schema'[n + 1] = v
  <2>1. v \in Version
    BY <1>0 DEF Version
  <2> HIDE DEF v
  <2> QED
    BY <1>0, <1>1, <2>1
<1>3. n + 1 = v /\ n + 1 <= Versions /\ applied' = 1..(n + 1) /\ \A i \in 1..(n + 1) : schema'[i] = i
  <2>1. n + 1 = v /\ n + 1 <= Versions
    BY <1>0
  <2> HIDE DEF v, n
  <2> QED
    BY <1>0, <1>1, <1>2, <2>1
<1>4. PICK s \in ServerState : /\ server' = [server EXCEPT ![p] = s]
                               /\ s.pc \in {"list", "select"}
                               /\ s.version = v + 1
                               /\ s.pc = "list" => v = Versions
                               /\ s.pc = "select" => s.version <= Versions
  BY <1>0, <1>1, NextVersionConsistent DEF Migrating
<1>5. /\ server' \in [Process -> ServerState] /\ server'[p] = s
      /\ \A q \in Process \ {p} : server'[q] = server[q]
  BY <1>0, <1>4 DEF AdminTypeOK
<1>6. ASSUME NEW q \in Process \ {p}
      PROVE  /\ server[q].pc # "commit" /\ server[q].pc \notin Booting \cup {"serving"}
             /\ server[q].version \in Nat
  <2>1. MigrationOK(q) /\ server[q].version \in Nat
    BY <1>0 DEF MigrationInv, AdminTypeOK, ServerState
  <2>2. n < Versions
    BY <1>0
  <2>3. CASE server[q].pc = "commit"
    <3>1. server[q].version - 1 = n
      BY <2>1, <2>3 DEF MigrationOK
    <3>2. server[q].version = v
      BY <1>0, <2>1, <3>1
    <3> QED
      BY <1>0, <2>3, <3>2 DEF MigrationInv
  <2> QED
    BY <2>1, <2>2, <2>3 DEF MigrationOK
<1> HIDE DEF n
<1>7. ASSUME NEW q \in Process PROVE MigrationOK(q)'
  <2>1. CASE q = p
    BY <1>0, <1>2, <1>3, <1>4, <1>5, <2>1 DEF MigrationOK, Migrating, Booting
  <2>2. CASE q # p
    <3>1. server'[q] = server[q] /\ MigrationOK(q)
      BY <1>0, <1>5, <2>2 DEF MigrationInv
    <3> QED
      BY <1>0, <1>2, <1>6, <2>2, <3>1 DEF MigrationOK, n
  <2> QED
    BY <2>1, <2>2
<1>8. MigrationInv'
  BY <1>0, <1>2, <1>3, <1>4, <1>5, <1>7 DEF MigrationInv
<1>9. AdminTypeOK'
  BY <1>0, <1>1, <1>2, <1>5 DEF AdminTypeOK, OnlyBoot, tableVars, Version
<1>10. TableInv' /\ \A c \in Call : CallOK(c)'
  BY <1>1 DEF AdminInv, TableInv, OnlyBoot, tableVars, SuperAdmins, CallOK, TargetOK, AdminTarget
<1>11. BootInv'
  <2>1. \A e, w : Opens(e, w) => Opens(e, w)'
    BY <1>1 DEF OnlyBoot, tableVars, Opens, SuperAdmins
  <2> QED
    BY <1>1, <1>4, <1>5, <2>1 DEF AdminInv, BootInv, BootPassword, RandToken
<1> QED
  BY <1>8, <1>9, <1>10, <1>11 DEF AdminInv

\* Passwords a process boots with are passwords.
LEMMA SuperAdminType ==
  ASSUME NEW p \in Process
  PROVE  /\ SuperAdmin(p) \in Account
         /\ SuperAdmin(p).email = Username[p] /\ SuperAdmin(p).role = "superadmin"
         /\ SuperAdmin(p).password = BootPassword(p) /\ BootPassword(p) \in Password
<1>1. BootPassword(p) \in Password
  BY DEF BootPassword, RandToken, Password
<1> QED
  BY <1>1 DEF SuperAdmin, Account, Role, Status

\* A step on the table keeps what processes and handlers know of it.
LEMMA TableStepInv ==
  ASSUME AdminInv, TableStep
  PROVE  /\ TableInv'
         /\ \A e, w : Opens(e, w) => Opens(e, w)'
         /\ \A c \in Call : call'[c] = call[c] => CallOK(c)'
<1>1. /\ TableInv'
      /\ \A i \in SuperAdmins : i \in SuperAdmins' /\ row'[i] = row[i]
      /\ \A i \in Id : TargetOK(i) => TargetOK(i)'
  BY TableStepKeeps DEF AdminInv
<1>2. \A e, w : Opens(e, w) => Opens(e, w)'
  BY <1>1 DEF Opens
<1>3. ASSUME NEW c \in Call, call'[c] = call[c] PROVE CallOK(c)'
  <2>1. CallOK(c)
    BY DEF AdminInv
  <2>2. TargetOK(call[c].id) => TargetOK(call[c].id)'
    BY <1>1, <1>3 DEF TargetOK
  <2> QED
    BY <1>3, <2>1, <2>2 DEF CallOK
<1> QED
  BY <1>1, <1>2, <1>3

\* ensureSuperAdmin and the line in the log.
LEMMA BootStepInv ==
  ASSUME AdminInv, NEW p \in Process, BootList(p) \/ BootCreate(p) \/ BootLog(p)
  PROVE  AdminInv'
<1> DEFINE At_(label) == [pc |-> label, version |-> server[p].version]
<1>0. /\ AdminTypeOK /\ MigrationInv /\ server[p].pc \in Booting /\ faults \in 0..MaxFaults
      /\ UNCHANGED <<schema, applied>>
  BY DEF AdminInv, AdminTypeOK, BootList, BootCreate, BootLog, At, Booting
<1>1. ASSUME NEW label \in {"serving", "create", "log"} PROVE Consistent(p, At_(label))
  <2>1. Len(schema) = Versions /\ server[p].version \in 1..(Versions + 1)
    BY <1>0 DEF MigrationInv, MigrationOK, AdminTypeOK, ServerState
  <2>2. label \notin Migrating /\ label \notin {"insert", "commit"}
    BY DEF Migrating
  <2>3. At_(label) \in ServerState /\ At_(label).pc = label
    BY <2>1 DEF ServerState, Booting
  <2> QED
    BY <2>1, <2>2, <2>3 DEF Consistent
<1>2. ASSUME NEW label \in {"serving", "create", "log"}, ServerGoto(p, label)
      PROVE  /\ server' \in [Process -> ServerState] /\ MigrationInv'
             /\ \A q \in Process : server'[q].pc = "log" => server[q].pc = "log" \/ (q = p /\ label = "log")
  <2>1. server' = [server EXCEPT ![p] = At_(label)]
    BY <1>0, <1>2, Labelled
  <2>2. server' \in [Process -> ServerState] /\ MigrationInv'
    BY <1>0, <1>1, <2>1, ServerMoves
  <2> QED
    BY <1>0, <2>1, <2>2 DEF AdminTypeOK
<1> HIDE DEF At_
<1>3. CASE BootList(p)
  <2>1. PICK label \in {"serving", "create"} : ServerGoto(p, label)
    BY <1>3 DEF BootList
  <2>2. server' = [server EXCEPT ![p] = At_(label)] /\ At_(label).pc # "log"
    BY <1>0, <2>1, Labelled DEF At_
  <2>3. faults' \in 0..MaxFaults
    BY <1>0, <1>3 DEF BootList, Works, Fails
  <2> QED
    BY <1>1, <1>3, <2>2, <2>3, BootFrame DEF BootList
<1>4. CASE BootCreate(p)
  <2>0. /\ UNCHANGED <<announced, removed, referenced, token, call>> /\ faults' \in 0..MaxFaults
    BY <1>0, <1>4 DEF BootCreate, Works, Fails
  <2>1. CASE Insertable(Username[p], "superadmin") /\ Insert(SuperAdmin(p)) /\ ServerGoto(p, "log")
    <3>1. TableStep /\ \E i \in Id : row'[i] = SuperAdmin(p)
      BY <1>0, <2>0, <2>1, SuperAdminType, InsertIsTableStep DEF AdminInv
    <3>2. Opens(Username[p], BootPassword(p))'
      BY <3>1, SuperAdminType DEF Opens, SuperAdmins, BootPassword, RandToken
    <3>3. /\ TableInv' /\ (\A e, w : Opens(e, w) => Opens(e, w)') /\ \A c \in Call : CallOK(c)'
      BY <2>0, <3>1, TableStepInv
    <3>4. AdminTypeOK'
      BY <1>0, <1>2, <2>0, <2>1, <3>1 DEF AdminTypeOK, TableStep
    <3>5. BootInv'
      BY <1>2, <2>0, <2>1, <3>2, <3>3 DEF AdminInv, BootInv, BootPassword, RandToken
    <3> QED
      BY <1>2, <2>1, <3>3, <3>4, <3>5 DEF AdminInv
  <2>2. CASE ServerGoto(p, "serving") /\ UNCHANGED row
    <3>1. server' = [server EXCEPT ![p] = At_("serving")] /\ At_("serving").pc # "log"
      BY <1>0, <2>2, Labelled DEF At_
    <3> QED
      BY <1>0, <1>1, <2>0, <2>2, <3>1, BootFrame DEF OnlyBoot, tableVars
  <2> QED
    BY <1>4, <2>1, <2>2 DEF BootCreate, BootFailed
<1>5. CASE BootLog(p)
  <2>0. /\ server[p].pc = "log" /\ ServerGoto(p, "serving") /\ UNCHANGED faults /\ OnlyBoot
        /\ announced' \subseteq announced \cup {<<Username[p], BootPassword(p)>>}
    BY <1>5 DEF BootLog, At
  <2>1. Opens(Username[p], BootPassword(p))
    BY <2>0 DEF AdminInv, BootInv
  <2>2. \A e, w : Opens(e, w) => Opens(e, w)'
    BY <2>0 DEF OnlyBoot, tableVars, Opens, SuperAdmins
  <2>3. announced' \in SUBSET (Email \X Password)
    BY <1>0, <2>0, SuperAdminType DEF AdminTypeOK
  <2>4. AdminTypeOK'
    BY <1>0, <1>2, <2>0, <2>3 DEF AdminTypeOK, OnlyBoot, tableVars
  <2>5. \A a \in announced' : Opens(a[1], a[2])
    BY <2>0, <2>1 DEF AdminInv, BootInv
  <2>6. BootInv'
    BY <1>2, <2>0, <2>2, <2>5 DEF AdminInv, BootInv, BootPassword, RandToken
  <2>7. TableInv' /\ \A c \in Call : CallOK(c)'
    BY <2>0 DEF AdminInv, TableInv, OnlyBoot, tableVars, SuperAdmins, CallOK, TargetOK, AdminTarget
  <2> QED
    BY <1>2, <2>0, <2>4, <2>6, <2>7 DEF AdminInv
<1> QED
  BY <1>3, <1>4, <1>5

\* A process dies; its calls are gone, the table stays.
LEMMA CrashInv ==
  ASSUME AdminInv, NEW p \in Process, Crash(p)
  PROVE  AdminInv'
<1>0. /\ AdminTypeOK /\ MigrationInv /\ faults' \in 0..MaxFaults
      /\ server' = [server EXCEPT ![p] = Down]
      /\ call' = [c \in Call |-> IF call[c].at = p THEN Idle ELSE call[c]]
      /\ UNCHANGED <<schema, applied, announced, tableVars, token>>
  BY DEF AdminInv, AdminTypeOK, Crash, Fails
<1>1. Consistent(p, Down)
  BY <1>0 DEF Consistent, Down, ServerState, Migrating, Booting
<1>2. server' \in [Process -> ServerState] /\ MigrationInv'
  BY <1>0, <1>1, ServerMoves
<1>3. call' \in [Call -> CallState] /\ \A c \in Call : call'[c] = call[c] \/ call'[c] = Idle
  BY <1>0 DEF AdminTypeOK, CallState, Idle
<1>4. AdminTypeOK'
  BY <1>0, <1>2, <1>3 DEF AdminTypeOK, tableVars
<1>5. TableInv' /\ (\A e, w : Opens(e, w) => Opens(e, w)')
  BY <1>0 DEF AdminInv, TableInv, tableVars, SuperAdmins, Opens
<1>6. \A q \in Process : server'[q].pc = "log" => server[q].pc = "log"
  BY <1>0 DEF AdminTypeOK, Down
<1>7. BootInv'
  BY <1>0, <1>5, <1>6 DEF AdminInv, BootInv, BootPassword, RandToken
<1>8. ASSUME NEW c \in Call PROVE CallOK(c)'
  BY <1>0, <1>3 DEF AdminInv, CallOK, TargetOK, AdminTarget, tableVars, Idle
<1> QED
  BY <1>2, <1>4, <1>5, <1>7, <1>8 DEF AdminInv

-----------------------------------------------------------------------------
(* Sessions and handlers *)

\* A step of handlers: of the table, of tokens and of calls.
LEMMA HandlerFrame ==
  ASSUME AdminInv, TableStep, UNCHANGED bootVars, faults' \in 0..MaxFaults,
         referenced' \in SUBSET Id, token' \in SUBSET Claims, call' \in [Call -> CallState],
         \A c \in Call : call'[c] = call[c] \/ CallOK(c)'
  PROVE  AdminInv'
<1>1. TableInv' /\ (\A e, w : Opens(e, w) => Opens(e, w)') /\ \A c \in Call : CallOK(c)'
  BY TableStepInv
<1>2. AdminTypeOK'
  BY DEF AdminInv, AdminTypeOK, TableStep, bootVars
<1>3. MigrationInv'
  BY DEF AdminInv, MigrationInv, MigrationOK, bootVars
<1>4. BootInv'
  BY <1>1 DEF AdminInv, BootInv, bootVars, BootPassword, RandToken
<1> QED
  BY <1>1, <1>2, <1>3, <1>4 DEF AdminInv

\* A step that leaves the table alone.
LEMMA SameTable ==
  ASSUME AdminTypeOK, UNCHANGED <<row, removed>>
  PROVE  TableStep
BY DEF AdminTypeOK, TableStep

\* A call that returns knows nothing any more.
LEMMA ReturnsOK ==
  ASSUME AdminTypeOK, NEW c \in Call, CallReturns(c)
  PROVE  call' \in [Call -> CallState] /\ CallOK(c)' /\ \A d \in Call \ {c} : call'[d] = call[d]
<1>1. Idle \in CallState
  BY DEF Idle, CallState
<1>2. call' \in [Call -> CallState] /\ call'[c] = Idle /\ \A d \in Call \ {c} : call'[d] = call[d]
  BY <1>1 DEF AdminTypeOK, CallReturns
<1> QED
  BY <1>2 DEF CallOK, Idle

\* A call that begins, with what it has read.
LEMMA BeginOK ==
  ASSUME AdminTypeOK, NEW c \in Call, NEW p \in Process, NEW s \in CallState, Begin(c, p, s),
         UNCHANGED <<row, removed>>,
         s.pc = "issue" => s.id \in Id /\ s.role \in Role,
         s.pc \in {"password", "status", "delete", "tombstone"} => TargetOK(s.id),
         s.pc = "password" => s.password # None,
         s.pc = "status" => s.status # None
  PROVE  call' \in [Call -> CallState] /\ CallOK(c)' /\ \A d \in Call \ {c} : call'[d] = call[d]
<1> DEFINE t == [s EXCEPT !.at = p]
<1>1. /\ t \in CallState /\ t.pc = s.pc /\ t.id = s.id /\ t.role = s.role
      /\ t.password = s.password /\ t.status = s.status
  BY DEF CallState
<1>2. call' = [call EXCEPT ![c] = t]
  BY DEF Begin
<1> HIDE DEF t
<1>3. call' \in [Call -> CallState] /\ call'[c] = t /\ \A d \in Call \ {c} : call'[d] = call[d]
  BY <1>1, <1>2 DEF AdminTypeOK
<1> QED
  BY <1>1, <1>3 DEF CallOK, TargetOK, AdminTarget

\* hLogin, and the end of tokens.
LEMMA SessionInv ==
  ASSUME AdminInv,
         \/ \E c \in Call, p \in Process, i \in Id, w \in Password : LoginRead(c, p, i, w)
         \/ \E c \in Call : LoginIssue(c)
         \/ \E t \in Claims : Expire(t)
  PROVE  AdminInv'
<1>0. AdminTypeOK /\ faults \in 0..MaxFaults /\ token \in SUBSET Claims /\ referenced \in SUBSET Id
      /\ call \in [Call -> CallState]
  BY DEF AdminInv, AdminTypeOK
<1>1. ASSUME NEW c \in Call, NEW p \in Process, NEW i \in Id, NEW w \in Password, LoginRead(c, p, i, w)
      PROVE  AdminInv'
  <2> DEFINE s == [Idle EXCEPT !.pc = "issue", !.id = i, !.role = row[i].role]
  <2>1. row[i].role \in Role
    BY <1>0, <1>1 DEF AdminTypeOK, Account, LoginRead
  <2>2. s \in CallState /\ s.pc = "issue" /\ s.id = i /\ s.role = row[i].role
    BY <2>1 DEF Idle, CallState
  <2>3. Begin(c, p, s) /\ UNCHANGED <<tableVars, token, bootVars, faults>>
    BY <1>1 DEF LoginRead, OnlyCall
  <2> HIDE DEF s
  <2>4. call' \in [Call -> CallState] /\ CallOK(c)' /\ \A d \in Call \ {c} : call'[d] = call[d]
    BY <1>0, <2>1, <2>2, <2>3, BeginOK DEF tableVars
  <2> QED
    BY <1>0, <2>3, <2>4, SameTable, HandlerFrame DEF tableVars
<1>2. ASSUME NEW c \in Call, LoginIssue(c) PROVE AdminInv'
  <2>1. call[c].id \in Id /\ call[c].role \in Role
    BY <1>2 DEF AdminInv, CallOK, LoginIssue
  <2>2. token' \in SUBSET Claims
    BY <1>0, <1>2, <2>1 DEF LoginIssue, Claims
  <2>3. UNCHANGED <<row, removed, referenced, bootVars, faults>> /\ CallReturns(c)
    BY <1>2 DEF LoginIssue, OnlyCall, tableVars
  <2> QED
    BY <1>0, <2>2, <2>3, ReturnsOK, SameTable, HandlerFrame
<1>3. ASSUME NEW t \in Claims, Expire(t) PROVE AdminInv'
  <2>1. UNCHANGED <<row, removed, referenced, bootVars, faults, call>> /\ token' \in SUBSET Claims
    BY <1>0, <1>3 DEF Expire, OnlyCall, tableVars
  <2> QED
    BY <1>0, <2>1, SameTable, HandlerFrame
<1> QED
  BY <1>1, <1>2, <1>3

\* Handlers of one store call.
LEMMA HandlerInv ==
  ASSUME AdminInv,
         \/ \E e \in Email, w \in Chosen : Register(e, w) \/ CreateAdmin(e, w)
         \/ \E i \in Id : CreateDevice(i)
         \/ \E i \in Id, status \in {"active", "disabled"} : SetClientStatus(i, status)
  PROVE  AdminInv'
<1>0. AdminTypeOK /\ faults \in 0..MaxFaults /\ token \in SUBSET Claims /\ referenced \in SUBSET Id
      /\ call \in [Call -> CallState] /\ TableInv
  BY DEF AdminInv, AdminTypeOK
<1>1. ASSUME NEW e \in Email, NEW w \in Chosen, Register(e, w) \/ CreateAdmin(e, w) PROVE AdminInv'
  <2>1. PICK a \in Account : Insert(a) /\ Insertable(a.email, a.role)
    <3>1. w \in Password
      BY DEF Password
    <3> QED
      BY <1>1, <3>1 DEF Register, CreateAdmin, Account, Role, Status
  <2>2. UNCHANGED <<removed, referenced, token, call, bootVars, faults>>
    BY <1>1 DEF Register, CreateAdmin, OnlyCall
  <2>3. TableStep
    BY <1>0, <2>1, <2>2, InsertIsTableStep
  <2> QED
    BY <1>0, <2>2, <2>3, HandlerFrame
<1>2. ASSUME NEW i \in Id, CreateDevice(i) PROVE AdminInv'
  <2>1. UNCHANGED <<row, removed, token, call, bootVars, faults>> /\ referenced' \in SUBSET Id
    BY <1>0, <1>2 DEF CreateDevice, OnlyCall
  <2> QED
    BY <1>0, <2>1, SameTable, HandlerFrame
<1>3. ASSUME NEW i \in Id, NEW status \in {"active", "disabled"}, SetClientStatus(i, status)
      PROVE  AdminInv'
  <2> DEFINE a == [row[i] EXCEPT !.status = status]
  <2>1. row[i] # None /\ row[i].role = "user" /\ row[i] \in Account
    BY <1>0, <1>3 DEF SetClientStatus, ClientTarget, AdminTypeOK
  <2>2. a \in Account /\ a.role = row[i].role
    BY <2>1 DEF Account, Status
  <2>3. UNCHANGED <<removed, referenced, token, call, bootVars, faults>> /\ row' = [row EXCEPT ![i] = a]
    BY <1>0, <1>3 DEF SetClientStatus, OnlyCall, AdminTypeOK
  <2> HIDE DEF a
  <2>4. TableStep
    BY <1>0, <2>1, <2>2, <2>3, UpdateIsTableStep
  <2> QED
    BY <1>0, <2>3, <2>4, HandlerFrame
<1> QED
  BY <1>1, <1>2, <1>3

\* hUpdateAdmin and hDeleteAdmin check their target ...
LEMMA AdminBeginInv ==
  ASSUME AdminInv, NEW c \in Call, NEW p \in Process, NEW i \in Id,
         \/ DeleteAdmin(c, p, i)
         \/ \E w \in Chosen \cup {None}, status \in {"active", "disabled", None} :
              UpdateAdmin(c, p, i, w, status)
  PROVE  AdminInv'
<1>0. AdminTypeOK /\ faults \in 0..MaxFaults /\ token \in SUBSET Claims /\ referenced \in SUBSET Id
  BY DEF AdminInv, AdminTypeOK
<1>1. TargetOK(i) /\ UNCHANGED <<row, removed, referenced, token, bootVars, faults>>
  BY DEF DeleteAdmin, UpdateAdmin, TargetOK, OnlyCall, tableVars
<1>2. PICK s \in CallState :
        /\ Begin(c, p, s) /\ s.id = i
        /\ s.pc \in {"password", "status", "delete"}
        /\ s.pc = "password" => s.password # None
        /\ s.pc = "status" => s.status # None
  <2>1. CASE DeleteAdmin(c, p, i)
    <3> DEFINE s == [Idle EXCEPT !.pc = "delete", !.id = i]
    <3>1. s \in CallState /\ s.id = i /\ s.pc = "delete"
      BY DEF Idle, CallState
    <3> QED
      BY <2>1, <3>1 DEF DeleteAdmin
  <2>2. ASSUME NEW w \in Chosen \cup {None}, NEW status \in {"active", "disabled", None},
               UpdateAdmin(c, p, i, w, status)
        PROVE  \E s \in CallState :
                 /\ Begin(c, p, s) /\ s.id = i
                 /\ s.pc \in {"password", "status", "delete"}
                 /\ s.pc = "password" => s.password # None
                 /\ s.pc = "status" => s.status # None
    <3> DEFINE s == [Idle EXCEPT !.pc = IF w # None THEN "password" ELSE "status",
                                 !.id = i, !.password = w, !.status = status]
    <3>1. /\ s \in CallState /\ s.id = i /\ s.pc = IF w # None THEN "password" ELSE "status"
          /\ s.password = w /\ s.status = status
      BY DEF Idle, CallState, Status
    <3>2. Begin(c, p, s) /\ (w # None \/ status # None)
      BY <2>2 DEF UpdateAdmin
    <3> HIDE DEF s
    <3> QED
      BY <3>1, <3>2
  <2> QED
    BY <2>1, <2>2
<1>3. call' \in [Call -> CallState] /\ CallOK(c)' /\ \A d \in Call \ {c} : call'[d] = call[d]
  BY <1>0, <1>1, <1>2, BeginOK
<1> QED
  BY <1>0, <1>1, <1>3, SameTable, HandlerFrame

\* ... and still have an administrator, or none, when they write.
LEMMA AdminStepInv ==
  ASSUME AdminInv, NEW c \in Call,
         UpdatePassword(c) \/ UpdateStatus(c) \/ DeleteRow(c) \/ Tombstone(c)
  PROVE  AdminInv'
<1> DEFINE i == call[c].id
<1>0. /\ AdminTypeOK /\ TableInv /\ faults \in 0..MaxFaults /\ token \in SUBSET Claims
      /\ referenced \in SUBSET Id /\ call \in [Call -> CallState]
      /\ TargetOK(i) /\ i \in Id
      /\ UNCHANGED <<bootVars, referenced, token>>
  BY DEF AdminInv, AdminTypeOK, CallOK, TargetOK, UpdatePassword, UpdateStatus, DeleteRow, Tombstone,
         LastStatus
<1>1. row[i] # None => row[i] \in Account /\ row[i].role = "admin"
  BY <1>0 DEF TableInv, TargetOK, AdminTarget, AdminTypeOK
<1>2. ASSUME NEW a, row[i] # None, a \in Account, a.role = row[i].role,
             row' = [row EXCEPT ![i] = a], UNCHANGED removed
      PROVE  TableStep
  BY <1>0, <1>1, <1>2, UpdateIsTableStep
<1>3. ASSUME NEW label \in {"status", "tombstone"}, CallGoto(c, label), TableStep,
             label = "status" => call[c].status # None
      PROVE  call' \in [Call -> CallState] /\ CallOK(c)' /\ \A d \in Call \ {c} : call'[d] = call[d]
  <2>1. /\ call' \in [Call -> CallState] /\ \A d \in Call \ {c} : call'[d] = call[d]
        /\ call'[c].pc = label /\ call'[c].id = i /\ call'[c].status = call[c].status
    BY <1>0, <1>3 DEF CallGoto, CallState
  <2>2. TargetOK(i)'
    BY <1>0, <1>3, <2>1, TableStepKeeps DEF TargetOK
  <2> QED
    BY <1>3, <2>1, <2>2 DEF CallOK
<1> HIDE DEF i
<1>4. CASE UpdatePassword(c)
  <2>0. UNCHANGED removed /\ faults' \in 0..MaxFaults /\ call[c].password \in Chosen
    BY <1>0, <1>4 DEF UpdatePassword, Works, Fails, AdminInv, CallOK, CallState
  <2>1. CASE row[i] # None /\ ~(UNCHANGED row /\ CallReturns(c))
    <3> DEFINE a == [row[i] EXCEPT !.password = call[c].password]
    <3>1. a \in Account /\ a.role = row[i].role
      BY <1>1, <2>0, <2>1 DEF Account, Password
    <3>2. row' = [row EXCEPT ![i] = a]
      BY <1>0, <1>4, <2>1 DEF UpdatePassword, AdminTypeOK, i
    <3> HIDE DEF a
    <3>3. TableStep
      BY <1>2, <2>0, <2>1, <3>1, <3>2
    <3>4. CallReturns(c) \/ (CallGoto(c, "status") /\ call[c].status # None)
      BY <1>4, <2>1 DEF UpdatePassword, i
    <3>5. call' \in [Call -> CallState] /\ CallOK(c)' /\ \A d \in Call \ {c} : call'[d] = call[d]
      BY <1>0, <1>3, <3>3, <3>4, ReturnsOK
    <3> QED
      BY <1>0, <2>0, <3>3, <3>5, HandlerFrame
  <2>2. CASE UNCHANGED row /\ CallReturns(c)
    BY <1>0, <2>0, <2>2, ReturnsOK, SameTable, HandlerFrame
  <2> QED
    BY <1>4, <2>1, <2>2 DEF UpdatePassword, i
<1>5. ASSUME NEW status \in Status, LastStatus(c, status)
      PROVE  AdminInv'
  <2>0. /\ UNCHANGED removed /\ faults' \in 0..MaxFaults /\ CallReturns(c)
        /\ \/ UNCHANGED row
           \/ row[i] # None /\ row' = [row EXCEPT ![i].status = status]
    BY <1>0, <1>5 DEF LastStatus, Works, Fails, i
  <2>1. CASE row[i] # None /\ row' = [row EXCEPT ![i].status = status]
    <3> DEFINE a == [row[i] EXCEPT !.status = status]
    <3>1. a \in Account /\ a.role = row[i].role
      BY <1>1, <2>1 DEF Account
    <3>2. row' = [row EXCEPT ![i] = a]
      BY <1>0, <2>1 DEF AdminTypeOK
    <3> HIDE DEF a
    <3>3. TableStep
      BY <1>2, <2>0, <2>1, <3>1, <3>2
    <3> QED
      BY <1>0, <2>0, <3>3, ReturnsOK, HandlerFrame
  <2>2. CASE UNCHANGED row
    BY <1>0, <2>0, <2>2, ReturnsOK, SameTable, HandlerFrame
  <2> QED
    BY <2>0, <2>1, <2>2
<1>6. CASE UpdateStatus(c)
  <2>1. call[c].status \in Status
    BY <1>0, <1>6 DEF UpdateStatus, AdminInv, CallOK, CallState
  <2> QED
    BY <1>5, <1>6, <2>1 DEF UpdateStatus
<1>7. CASE Tombstone(c)
  BY <1>5, <1>7 DEF Tombstone, Status
<1>8. CASE DeleteRow(c)
  <2>0. faults' \in 0..MaxFaults
    BY <1>0, <1>8 DEF DeleteRow, Works, Fails
  <2>1. CASE CallGoto(c, "tombstone") /\ UNCHANGED <<row, removed>>
    BY <1>0, <1>3, <2>0, <2>1, SameTable, HandlerFrame
  <2>2. CASE /\ row[i] # None /\ row' = [row EXCEPT ![i] = None]
             /\ removed' = removed \cup {i} /\ CallReturns(c)
    <3>1. /\ row' \in [Id -> Account \cup {None}] /\ row'[i] = None
          /\ \A j \in Id \ {i} : row'[j] = row[j]
      BY <1>0, <2>2 DEF AdminTypeOK
    <3>2. RowMove(i)
      BY <1>0, <1>1, <2>2, <3>1 DEF RowMove, AdminTarget
    <3>3. TableStep
      BY <1>0, <2>2, <3>1, <3>2 DEF TableStep, AdminTypeOK
    <3> QED
      BY <1>0, <2>0, <2>2, <3>3, ReturnsOK, HandlerFrame
  <2> QED
    BY <1>8, <2>1, <2>2 DEF DeleteRow, i
<1> QED
  BY <1>4, <1>6, <1>7, <1>8

-----------------------------------------------------------------------------
(* The theorems *)

\* An empty database satisfies the invariant ...
LEMMA AdminInitInv == AdminInit => AdminInv
<1> SUFFICES ASSUME AdminInit PROVE AdminInv
  OBVIOUS
<1>1. AdminTypeOK
  BY DEF AdminInit, AdminTypeOK, Down, ServerState, Idle, CallState
<1>2. MigrationInv
  BY DEF AdminInit, MigrationInv, MigrationOK, Down, Migrating, Booting
<1>3. TableInv /\ BootInv
  BY DEF AdminInit, TableInv, BootInv, SuperAdmins, Down
<1>4. \A c \in Call : CallOK(c)
  BY DEF AdminInit, CallOK, Idle
<1> QED
  BY <1>1, <1>2, <1>3, <1>4 DEF AdminInv

\* ... every step keeps it ...
LEMMA AdminNextInv == AdminInv /\ [AdminNext]_adminVars => AdminInv'
<1> SUFFICES ASSUME AdminInv, [AdminNext]_adminVars PROVE AdminInv'
  OBVIOUS
<1>1. ASSUME NEW p \in Process, ServerStep(p) \/ Crash(p) PROVE AdminInv'
  BY <1>1, MigrateInv, MigrateCommitInv, BootStepInv, CrashInv DEF ServerStep
<1>2. ASSUME NEW c \in Call, CallStep(c) PROVE AdminInv'
  BY <1>2, SessionInv, AdminStepInv DEF CallStep
<1>3. CASE UNCHANGED adminVars
  <2>1. UNCHANGED <<row, removed, bootVars, faults, referenced, token, call>>
    BY <1>3 DEF adminVars, tableVars
  <2> QED
    BY <2>1, SameTable, HandlerFrame DEF AdminInv, AdminTypeOK
<1> QED
  BY <1>1, <1>2, <1>3, SessionInv, HandlerInv, AdminBeginInv DEF AdminNext

(* The inductive invariant of start-up and administration.                    *)
THEOREM AdminInvariance == AdminSpec => []AdminInv
BY AdminInitInv, AdminNextInv, PTL DEF AdminSpec

(* Rows, processes, calls and tokens keep their types.                        *)
THEOREM AdminTypeCorrect == AdminSpec => []AdminTypeOK
<1>1. AdminInv => AdminTypeOK
  BY DEF AdminInv
<1> QED
  BY AdminInvariance, <1>1, PTL

(* Processes that start together, read schema_migrations before another has   *)
(* committed and are killed at any point run every migration exactly once, in *)
(* order, and serve no request before the last (postgres.go:20-85).           *)
THEOREM MigrationsRunOnce == AdminSpec => []MigrationsOnceInOrder
<1>1. AdminInv => MigrationsOnceInOrder
  <2> SUFFICES ASSUME AdminInv PROVE MigrationsOnceInOrder
    OBVIOUS
  <2>1. schema \in Seq(Version) /\ \A n \in 1..Len(schema) : schema[n] = n
    BY DEF AdminInv, AdminTypeOK, MigrationInv
  <2>2. schema = [n \in 1..Len(schema) |-> n]
    BY <2>1
  <2> QED
    BY <2>2 DEF AdminInv, MigrationInv, MigrationOK, MigrationsOnceInOrder
<1> QED
  BY AdminInvariance, <1>1, PTL

(* At most one super administrator exists, whatever processes race to create  *)
(* one and under whatever names (api.go:198-225, the index of migration 3).   *)
THEOREM SingleSuperAdmin == AdminSpec => []OneSuperAdmin
<1>1. AdminInv => OneSuperAdmin
  <2> SUFFICES ASSUME AdminInv PROVE Cardinality(SuperAdmins) <= 1
    BY DEF OneSuperAdmin
  <2>1. CASE SuperAdmins = {}
    BY <2>1, FS_EmptySet
  <2>2. ASSUME NEW i \in SuperAdmins PROVE Cardinality(SuperAdmins) = 1
    <3>1. SuperAdmins = {i}
      BY <2>2 DEF AdminInv, TableInv
    <3> QED
      BY <3>1, FS_Singleton
  <2> QED
    BY <2>1, <2>2
<1> QED
  BY AdminInvariance, <1>1, PTL

(* A password that the log shows opens the super administrator's account, for *)
(* good: the process that lost the race shows none (api.go:217-225).          *)
THEOREM AnnouncementsTrue == AdminSpec => []AnnouncedPasswordWorks
<1>1. AdminInv => AnnouncedPasswordWorks
  BY DEF AdminInv, BootInv, Opens, AnnouncedPasswordWorks, VerifyPassword
<1> QED
  BY AdminInvariance, <1>1, PTL

\* A step writes the row of a fresh id, of an account that is no super
\* administrator, or none at all.
LEMMA SuperAdminKept ==
  ASSUME AdminInv, AdminNext
  PROVE  \A i \in SuperAdmins : row'[i] = row[i]
<1>0. AdminTypeOK /\ TableInv
  BY DEF AdminInv
<1> DEFINE Untouched == \A i \in SuperAdmins : row'[i] = row[i]
<1>1. ASSUME UNCHANGED row PROVE Untouched
  BY <1>1
<1>2. ASSUME NEW k \in Id, NEW x, k \notin SuperAdmins, row' = [row EXCEPT ![k] = x]
      PROVE  Untouched
  BY <1>0, <1>2 DEF AdminTypeOK, SuperAdmins
<1>3. ASSUME NEW a, Insert(a) PROVE Untouched
  <2>1. PICK k \in Id : row[k] = None /\ row' = [row EXCEPT ![k] = a]
    BY <1>3 DEF Insert, Fresh
  <2> QED
    BY <1>2, <2>1 DEF SuperAdmins
<1>4. ASSUME NEW p \in Process, ServerStep(p) \/ Crash(p) PROVE Untouched
  <2>1. UNCHANGED row \/ Insert(SuperAdmin(p))
    BY <1>4 DEF ServerStep, Start, MigrateSelect, MigrateExec, MigrateInsert, MigrateCommit,
                BootList, BootCreate, BootLog, Crash, OnlyBoot, tableVars
  <2> QED
    BY <1>1, <1>3, <2>1
<1>5. ASSUME NEW i \in Id, NEW status, SetClientStatus(i, status) PROVE Untouched
  <2>1. i \notin SuperAdmins /\ row' = [row EXCEPT ![i] = [row[i] EXCEPT !.status = status]]
    BY <1>0, <1>5 DEF SetClientStatus, ClientTarget, SuperAdmins, AdminTypeOK
  <2> HIDE DEF Untouched
  <2> QED
    BY <1>2, <2>1
<1>6. ASSUME NEW c \in Call, CallStep(c) PROVE Untouched
  <2> DEFINE i == call[c].id
  <2>1. CASE LoginIssue(c)
    BY <1>1, <2>1 DEF LoginIssue, tableVars
  <2>2. CASE UpdatePassword(c) \/ UpdateStatus(c) \/ DeleteRow(c) \/ Tombstone(c)
    <3>1. TargetOK(i)
      BY <2>2 DEF AdminInv, CallOK, UpdatePassword, UpdateStatus, DeleteRow, Tombstone
    <3>2. i \in Id /\ i \notin SuperAdmins
      BY <1>0, <3>1 DEF TargetOK, TableInv, AdminTarget, SuperAdmins
    <3>3. UNCHANGED row \/ \E x : row' = [row EXCEPT ![i] = x]
      BY <1>0, <2>2, <3>2 DEF UpdatePassword, UpdateStatus, DeleteRow, Tombstone, LastStatus,
                                   AdminTypeOK
    <3> QED
      BY <1>1, <1>2, <3>2, <3>3
  <2> QED
    BY <1>6, <2>1, <2>2 DEF CallStep
<1>7. ASSUME NEW c \in Call, NEW p \in Process, NEW i \in Id,
             \/ \E w \in Password : LoginRead(c, p, i, w)
             \/ DeleteAdmin(c, p, i)
             \/ \E w \in Chosen \cup {None}, status \in {"active", "disabled", None} :
                  UpdateAdmin(c, p, i, w, status)
      PROVE  UNCHANGED row
  BY <1>7 DEF LoginRead, DeleteAdmin, UpdateAdmin, tableVars
<1>8. ASSUME NEW t, Expire(t) PROVE UNCHANGED row
  BY <1>8 DEF Expire, tableVars
<1>9. ASSUME NEW e, NEW w, Register(e, w) \/ CreateAdmin(e, w) PROVE Untouched
  BY <1>3, <1>9 DEF Register, CreateAdmin
<1>10. ASSUME NEW i, CreateDevice(i) PROVE UNCHANGED row
  BY <1>10 DEF CreateDevice
<1> HIDE DEF Untouched
<1>11. Untouched
  BY <1>1, <1>4, <1>5, <1>6, <1>7, <1>8, <1>9, <1>10 DEF AdminNext
<1> QED
  BY <1>11 DEF Untouched

(* No step of any handler or process changes or removes the super             *)
(* administrator's row, also not one whose target was checked before others   *)
(* ran (accounts.go:98-118).                                                  *)
THEOREM SuperAdminIsUntouchable == AdminSpec => SuperAdminUntouched
<1>1. AdminInv /\ [AdminNext]_adminVars
        => [\A i \in SuperAdmins : row'[i] = row[i]]_adminVars
  BY SuperAdminKept
<1> QED
  BY AdminInvariance, <1>1, PTL DEF AdminSpec, SuperAdminUntouched
=============================================================================
