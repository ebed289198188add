--------------------------- MODULE CaLedgerProofs ---------------------------
(***************************************************************************)
(* The CA directory loses no revocation, and no published CRL an entry, as *)
(* long as ca-admin commands do not overlap, for any number of serials and *)
(* command slots and with commands killed at any point.                    *)
(***************************************************************************)
EXTENDS CaLedger, TLAPS

\* The CRL that is published says what the command's copy of the ledger says.
LEMMA PublishedIsCopy ==
  ASSUME NEW p, cmd[p].ledger \in LedgerType
  PROVE  PublishedCRL(p) = cmd[p].ledger
  BY DEF PublishedCRL, NewCRLDetailed, LedgerType

\* The directory Store.Init creates satisfies the invariant.
LEMMA CaInitInv == CaInit => CaInv
BY CaAssumption
DEF CaInit, CaInv, CaTypeOK, OneAtATime, CopyIsComplete, LedgerKeepsRevocations,
    EmptyLedger, LedgerType, CmdType, Running, Finished

\* A step of one command moves that command only, and none other is running.
LEMMA CaNextInv == ~Concurrent /\ CaInv /\ [CaNext]_caVars => CaInv'
<1> SUFFICES ASSUME ~Concurrent, CaInv, [CaNext]_caVars PROVE CaInv'
  OBVIOUS
<1> USE CaAssumption DEF CaTypeOK, LedgerType, CmdType, Running, Finished, EmptyLedger, CaInv,
        OneAtATime, CopyIsComplete, LedgerKeepsRevocations
<1>1. ASSUME NEW p \in Proc, NEW s \in Serial, IssueSign(p, s) PROVE CaInv'
  <2>1. /\ cmd' = [cmd EXCEPT ![p] = [pc |-> "append_issued", serial |-> s, ledger |-> EmptyLedger]]
        /\ certs' = certs \cup {s}
        /\ UNCHANGED <<ledger, crlFile, issued, confirmed, published>>
        /\ \A q \in Proc : cmd[q].pc \notin Running
    BY <1>1 DEF IssueSign, CaReady, CaBegin
  <2> QED
    BY <2>1
<1>2. ASSUME NEW p \in Proc, NEW s \in Serial, RevokeLoad(p, s) PROVE CaInv'
  <2>0. \A q \in Proc : cmd[q].pc \notin Running
    BY <1>2 DEF RevokeLoad, LedgerLoads, CaReady
  <2>1. CASE ledger = Torn
    <3>1. /\ cmd' = [cmd EXCEPT ![p] = [pc |-> "failed", serial |-> s, ledger |-> EmptyLedger]]
          /\ UNCHANGED <<ledger, crlFile, issued, certs, confirmed, published>>
      BY <1>2, <2>1 DEF RevokeLoad, LedgerLoads, CaBegin
    <3> QED
      BY <2>0, <3>1
  <2>2. CASE ledger # Torn /\ s \in ledger.revoked
    <3>1. /\ cmd' = [cmd EXCEPT ![p] = [pc |-> "already_revoked", serial |-> s, ledger |-> ledger]]
          /\ confirmed' = confirmed \cup {s}
          /\ UNCHANGED <<ledger, crlFile, issued, certs, published>>
      BY <1>2, <2>2 DEF RevokeLoad, LedgerLoads, CaBegin
    <3>2. /\ cmd' \in [Proc -> CmdType] /\ cmd'[p].pc = "already_revoked"
          /\ \A q \in Proc \ {p} : cmd'[q] = cmd[q]
      BY <2>2, <3>1
    <3>3. \A q \in Proc : cmd'[q].pc \notin Running
      BY <2>0, <3>2
    <3>4. confirmed' \subseteq Serial /\ confirmed' \subseteq ledger'.revoked
      BY <2>2, <3>1
    <3> QED
      BY <3>1, <3>2, <3>3, <3>4
  <2>3. CASE ledger # Torn /\ s \notin ledger.revoked
    <3>1. /\ WithRevocation(s) \in LedgerType
          /\ WithRevocation(s).revoked = ledger.revoked \cup {s}
      BY <2>3 DEF WithRevocation
    <3>2. /\ cmd' = [cmd EXCEPT ![p] =
                      [pc |-> "revoke_truncate", serial |-> s, ledger |-> WithRevocation(s)]]
          /\ UNCHANGED <<ledger, crlFile, issued, certs, confirmed, published>>
      BY <1>2, <2>3 DEF RevokeLoad, LedgerLoads, CaBegin
    <3> QED
      BY <2>0, <2>3, <3>1, <3>2
  <2> QED
    BY <2>1, <2>2, <2>3
<1>3. ASSUME NEW p \in Proc, CRLSign(p) PROVE CaInv'
  <2>0. \A q \in Proc : cmd[q].pc \notin Running
    BY <1>3 DEF CRLSign, LedgerLoads, CaReady
  <2>1. CASE ledger = Torn
    <3>1. /\ cmd' = [cmd EXCEPT ![p] = [pc |-> "failed", serial |-> None, ledger |-> EmptyLedger]]
          /\ UNCHANGED <<ledger, crlFile, issued, certs, confirmed, published>>
      BY <1>3, <2>1 DEF CRLSign, LedgerLoads, CaBegin
    <3> QED
      BY <2>0, <3>1
  <2>2. CASE ledger # Torn
    <3>1. /\ NextNumber(ledger) \in LedgerType
          /\ NextNumber(ledger).revoked = ledger.revoked
      BY <2>2 DEF NextNumber
    <3>2. /\ cmd' = [cmd EXCEPT ![p] =
                      [pc |-> "publish_truncate", serial |-> None, ledger |-> NextNumber(ledger)]]
          /\ UNCHANGED <<ledger, crlFile, issued, certs, confirmed, published>>
      BY <1>3, <2>2 DEF CRLSign, LedgerLoads, CaBegin
    <3> QED
      BY <2>0, <2>2, <3>1, <3>2
  <2> QED
    BY <2>1, <2>2
<1>4. ASSUME NEW p \in Proc, AppendIssued(p) PROVE CaInv'
  <2>1. cmd' = [cmd EXCEPT ![p].pc = "ok"] /\ UNCHANGED <<ledger, crlFile, certs, confirmed, published>>
    BY <1>4 DEF AppendIssued, CaGoto
  <2>2. issued' \in SUBSET Serial
    <3>1. cmd[p].serial \in Serial
      BY <1>4 DEF AppendIssued
    <3> QED
      BY <1>4, <3>1 DEF AppendIssued, WithLine
  <2>3. \A q \in Proc \ {p} : cmd'[q] = cmd[q]
    BY <2>1
  <2>4. cmd'[p].pc = "ok" /\ cmd' \in [Proc -> CmdType]
    BY <2>1
  <2> QED
    BY <2>1, <2>2, <2>3, <2>4
<1>5. ASSUME NEW p \in Proc, PublishTruncate(p) PROVE CaInv'
  BY <1>5 DEF PublishTruncate, CaGoto
<1>6. ASSUME NEW p \in Proc, PublishWrite(p) PROVE CaInv'
  BY <1>6, PublishedIsCopy DEF PublishWrite, CaGoto, Written
<1>7. ASSUME NEW p \in Proc, SaveTruncate(p) PROVE CaInv'
  <2>1. CASE cmd[p].pc = "revoke_truncate"
    BY <1>7, <2>1 DEF SaveTruncate, CaGoto
  <2>2. CASE cmd[p].pc = "crl_truncate"
    <3>1. /\ cmd' = [cmd EXCEPT ![p].pc = "crl_write"] /\ ledger' = Torn
          /\ UNCHANGED <<crlFile, issued, certs, confirmed, published>>
      BY <1>7, <2>2 DEF SaveTruncate, CaGoto
    <3>2. /\ cmd' \in [Proc -> CmdType] /\ cmd'[p].pc = "crl_write"
          /\ cmd'[p].ledger = cmd[p].ledger /\ \A q \in Proc \ {p} : cmd'[q] = cmd[q]
      BY <3>1
    <3>3. confirmed \subseteq cmd[p].ledger.revoked /\ \A q \in Proc \ {p} : cmd[q].pc \notin Running
      BY <2>2
    <3> QED
      BY <3>1, <3>2, <3>3
  <2> QED
    BY <1>7, <2>1, <2>2 DEF SaveTruncate
<1>8. ASSUME NEW p \in Proc, SaveWrite(p) PROVE CaInv'
  <2>1. ledger' \in {cmd[p].ledger, Torn}
    BY <1>8 DEF SaveWrite, Written
  <2>2. CASE cmd[p].pc = "revoke_write"
    <3>1. /\ cmd' = [cmd EXCEPT ![p].pc = "ok"]
          /\ confirmed' = confirmed \cup {cmd[p].serial}
          /\ UNCHANGED <<crlFile, issued, certs, published>>
      BY <1>8, <2>2 DEF SaveWrite, CaGoto
    <3>2. \A q \in Proc \ {p} : cmd'[q] = cmd[q] /\ cmd[q].pc \notin Running
      BY <2>2, <3>1
    <3>3. cmd[p].serial \in cmd[p].ledger.revoked /\ confirmed \subseteq cmd[p].ledger.revoked
      BY <2>2
    <3>4. cmd'[p].pc = "ok" /\ cmd' \in [Proc -> CmdType] /\ confirmed' \subseteq Serial
      BY <3>1, <3>3
    <3> QED
      BY <2>1, <3>1, <3>2, <3>3, <3>4
  <2>3. CASE cmd[p].pc = "crl_write"
    <3>1. /\ cmd' = [cmd EXCEPT ![p].pc = "crl_out"]
          /\ UNCHANGED <<crlFile, issued, certs, confirmed, published>>
      BY <1>8, <2>3 DEF SaveWrite, CaGoto
    <3>2. /\ cmd' \in [Proc -> CmdType] /\ cmd'[p].pc = "crl_out"
          /\ cmd'[p].ledger = cmd[p].ledger /\ \A q \in Proc \ {p} : cmd'[q] = cmd[q]
      BY <3>1
    <3>3. confirmed \subseteq cmd[p].ledger.revoked /\ \A q \in Proc \ {p} : cmd[q].pc \notin Running
      BY <2>3
    <3> QED
      BY <2>1, <3>1, <3>2, <3>3
  <2> QED
    BY <1>8, <2>2, <2>3 DEF SaveWrite
<1>9. ASSUME NEW p \in Proc, CRLOut(p) PROVE CaInv'
  BY <1>9 DEF CRLOut, CaGoto
<1>10. ASSUME NEW p \in Proc, Kill(p) PROVE CaInv'
  BY <1>10 DEF Kill, CaGoto
<1>11. CASE UNCHANGED caVars
  BY <1>11 DEF caVars
<1> QED
  BY <1>1, <1>2, <1>3, <1>4, <1>5, <1>6, <1>7, <1>8, <1>9, <1>10, <1>11
  DEF CaNext, CaCommandStep

(* The inductive invariant of serial commands.                              *)
THEOREM CaInvariance == ~Concurrent => (CaSpec => []CaInv)
<1>1. CASE Concurrent
  BY <1>1
<1>2. CASE ~Concurrent
  <2>1. CaInv /\ [CaNext]_caVars => CaInv'
    BY <1>2, CaNextInv
  <2> QED
    BY CaInitInv, <2>1, PTL DEF CaSpec
<1> QED
  BY <1>1, <1>2

(* When ca-admin commands do not overlap, a revocation that was reported as  *)
(* recorded is in every readable ledger, whatever commands are killed        *)
(* (main.go:318-330, :349-370, castore.go:182).                              *)
THEOREM SerialKeepsRevocations == ~Concurrent => (CaSpec => []LedgerKeepsRevocations)
<1>1. CaInv => LedgerKeepsRevocations
  BY DEF CaInv
<1> QED
  BY CaInvariance, <1>1, PTL

-----------------------------------------------------------------------------
(* What is published only grows *)

\* The ledger l has everything on the CRLs published so far, none of which has
\* a number above n.
Covers(l, n) == \A x \in published : x.revoked \subseteq l.revoked /\ x.number <= n

RevokeRunning == {"revoke_truncate", "revoke_write"}
CrlLoaded  == {"publish_truncate", "publish_write", "crl_truncate"}
CrlRunning == CrlLoaded \cup {"crl_write"}

\* What the ledger that command p holds in memory is worth.  A crl command that
\* has not saved it yet found all its entries on the disk.
CopyCovers(p) ==
  /\ cmd[p].pc \in RevokeRunning => Covers(cmd[p].ledger, cmd[p].ledger.number + 1)
  /\ cmd[p].pc \in CrlRunning => Covers(cmd[p].ledger, cmd[p].ledger.number)
  /\ cmd[p].pc \in CrlLoaded /\ ledger # Torn =>
       cmd[p].ledger.revoked \subseteq ledger.revoked /\ cmd[p].ledger.number <= ledger.number + 1

(* The inductive invariant of what has been published, with CaInv.  A crl      *)
(* command that is killed before it saves the ledger leaves a CRL whose number *)
(* the next one uses again: published numbers are at most one ahead.           *)
PublishInv ==
  /\ CaInv
  /\ ledger # Torn => Covers(ledger, ledger.number + 1)
  /\ PublishedOnlyGrows
  /\ \A p \in Proc : CopyCovers(p)

\* A step of p that publishes nothing and leaves files no worse than it found them.
LEMMA PublishFrame ==
  ASSUME PublishInv, CaInv', NEW p \in Proc, UNCHANGED published,
         \A q \in Proc \ {p} : cmd'[q] = cmd[q] /\ cmd[q].pc \in Finished,
         cmd'[p].pc \in RevokeRunning \cup CrlRunning => CopyCovers(p)',
         ledger' \in {ledger, Torn} \/ Covers(ledger', ledger'.number + 1),
         crlFile' \in {crlFile, Torn}
  PROVE  PublishInv'
<1>1. ledger' # Torn => Covers(ledger, ledger.number + 1)'
  BY DEF PublishInv, Covers
<1>2. PublishedOnlyGrows'
  BY DEF PublishInv, PublishedOnlyGrows
<1>3. ASSUME NEW q \in Proc \ {p} PROVE CopyCovers(q)'
  BY <1>3 DEF CopyCovers, RevokeRunning, CrlRunning, CrlLoaded, Finished
<1>4. CopyCovers(p)'
  BY DEF CopyCovers, CrlRunning
<1> QED
  BY <1>1, <1>2, <1>3, <1>4 DEF PublishInv

\* What a command that moves on to label keeps.
LEMMA CaGotoMoves ==
  ASSUME CaInv, NEW p \in Proc, NEW label, CaGoto(p, label)
  PROVE  /\ cmd'[p].pc = label /\ cmd'[p].ledger = cmd[p].ledger
         /\ cmd'[p].serial = cmd[p].serial
         /\ \A q \in Proc \ {p} : cmd'[q] = cmd[q]
BY DEF CaGoto, CaInv, CaTypeOK, CmdType

LEMMA CaBeginMoves ==
  ASSUME CaInv, NEW p \in Proc, NEW label, NEW s, NEW l, CaBegin(p, label, s, l)
  PROVE  /\ cmd'[p].pc = label /\ cmd'[p].ledger = l /\ cmd'[p].serial = s
         /\ \A q \in Proc \ {p} : cmd'[q] = cmd[q]
BY DEF CaBegin, CaInv, CaTypeOK

\* PublishWrite: the CRL that becomes public has all entries of the earlier ones
\* and no lower number.
LEMMA PublishWriteInv ==
  ASSUME ~Concurrent, PublishInv, CaInv', NEW p \in Proc, PublishWrite(p)
  PROVE  PublishInv'
<1>0. CaTypeOK /\ Torn \notin LedgerType
  BY CaAssumption DEF PublishInv, CaInv
<1>1. PICK y : y = cmd[p].ledger
  OBVIOUS
<1>2. /\ cmd'[p].pc = "crl_truncate" /\ cmd'[p].ledger = y /\ UNCHANGED ledger
      /\ \A q \in Proc \ {p} : cmd'[q] = cmd[q]
      /\ cmd[p].pc = "publish_write"
  BY <1>1, CaGotoMoves DEF PublishWrite, PublishInv
<1>3. \A q \in Proc \ {p} : cmd[q].pc \in Finished
  BY <1>0, <1>2 DEF PublishInv, CaInv, OneAtATime, CaTypeOK, CmdType, Running
<1>4. y \in LedgerType /\ y.number \in Nat
  BY <1>0, <1>1 DEF CaTypeOK, CmdType, LedgerType
<1>5. crlFile' \in {y, Torn} /\ published' = published \cup ({crlFile'} \ {Torn})
  BY <1>0, <1>1, PublishedIsCopy DEF PublishWrite, Written, CaTypeOK, CmdType
<1>6. \A x \in published : x.revoked \subseteq y.revoked /\ x.number <= y.number
  BY <1>1, <1>2 DEF PublishInv, CopyCovers, CrlRunning, CrlLoaded, Covers
<1>7. \A x \in published' : x.revoked \subseteq y.revoked /\ x.number <= y.number
  BY <1>4, <1>5, <1>6
<1>8. ledger # Torn => y.revoked \subseteq ledger.revoked /\ y.number <= ledger.number + 1
  BY <1>1, <1>2 DEF PublishInv, CopyCovers, CrlLoaded
<1>9. ledger # Torn => \A x \in published : x.revoked \subseteq ledger.revoked /\ x.number <= ledger.number + 1
  BY DEF PublishInv, Covers
<1>10. ledger' # Torn => Covers(ledger, ledger.number + 1)'
  BY <1>2, <1>5, <1>8, <1>9 DEF Covers
<1>11. PublishedOnlyGrows'
  BY <1>5, <1>7 DEF PublishedOnlyGrows
<1>12. CopyCovers(p)'
  BY <1>2, <1>7, <1>8 DEF CopyCovers, Covers, RevokeRunning, CrlRunning, CrlLoaded
<1>13. \A q \in Proc \ {p} : CopyCovers(q)'
  BY <1>2, <1>3 DEF CopyCovers, RevokeRunning, CrlRunning, CrlLoaded, Finished
<1> QED
  BY <1>10, <1>11, <1>12, <1>13 DEF PublishInv

\* No step of a serial command breaks the invariant.
LEMMA PublishNextInv == ~Concurrent /\ PublishInv /\ [CaNext]_caVars => PublishInv'
<1> SUFFICES ASSUME ~Concurrent, PublishInv, [CaNext]_caVars PROVE PublishInv'
  OBVIOUS
<1>0. CaInv /\ CaInv' /\ CaTypeOK /\ Torn \notin LedgerType
  BY CaNextInv, CaAssumption DEF PublishInv, CaInv
<1>1. ASSUME NEW p \in Proc, NEW s \in Serial, IssueSign(p, s) PROVE PublishInv'
  BY <1>0, <1>1, CaBeginMoves, PublishFrame
  DEF IssueSign, CaReady, RevokeRunning, CrlRunning, CrlLoaded
<1>2. ASSUME NEW p \in Proc, NEW s \in Serial, RevokeLoad(p, s) PROVE PublishInv'
  <2>0. /\ \A q \in Proc : cmd[q].pc \in Finished
        /\ UNCHANGED <<ledger, crlFile, published>>
    BY <1>2 DEF RevokeLoad, LedgerLoads, CaReady
  <2>1. CASE cmd'[p].pc \in {"failed", "already_revoked"}
    BY <1>0, <1>2, <2>0, <2>1, CaBeginMoves, PublishFrame
    DEF RevokeLoad, LedgerLoads, RevokeRunning, CrlRunning, CrlLoaded
  <2>2. CASE ledger # Torn /\ CaBegin(p, "revoke_truncate", s, WithRevocation(s))
    <3>1. WithRevocation(s).revoked = ledger.revoked \cup {s} /\ WithRevocation(s).number = ledger.number
      BY <1>0, <2>2 DEF WithRevocation, CaTypeOK, LedgerType
    <3>2. cmd'[p].ledger.revoked = ledger.revoked \cup {s} /\ cmd'[p].ledger.number = ledger.number
      BY <1>0, <2>2, <3>1, CaBeginMoves
    <3>3. Covers(cmd[p].ledger, cmd[p].ledger.number + 1)'
      BY <2>0, <2>2, <3>2 DEF PublishInv, Covers
    <3>4. CopyCovers(p)'
      BY <1>0, <2>2, <3>3, CaBeginMoves DEF CopyCovers, RevokeRunning, CrlRunning, CrlLoaded
    <3> QED
      BY <1>0, <2>0, <2>2, <3>4, CaBeginMoves, PublishFrame
  <2> QED
    BY <1>0, <1>2, <2>1, <2>2, CaBeginMoves DEF RevokeLoad, LedgerLoads
<1>3. ASSUME NEW p \in Proc, CRLSign(p) PROVE PublishInv'
  <2>0. /\ \A q \in Proc : cmd[q].pc \in Finished
        /\ UNCHANGED <<ledger, crlFile, published>>
    BY <1>3 DEF CRLSign, LedgerLoads, CaReady
  <2>1. CASE ledger = Torn
    BY <1>0, <1>3, <2>0, <2>1, CaBeginMoves, PublishFrame
    DEF CRLSign, LedgerLoads, RevokeRunning, CrlRunning, CrlLoaded
  <2>2. CASE ledger # Torn
    <3>1. PICK y : y = NextNumber(ledger)
      OBVIOUS
    <3>2. y.revoked = ledger.revoked /\ y.number = ledger.number + 1 /\ y.number \in Nat
      BY <1>0, <2>2, <3>1 DEF NextNumber, CaTypeOK, LedgerType
    <3>3. cmd'[p].pc = "publish_truncate" /\ cmd'[p].ledger = y /\ \A q \in Proc \ {p} : cmd'[q] = cmd[q]
      BY <1>0, <1>3, <2>2, <3>1, CaBeginMoves DEF CRLSign, LedgerLoads
    <3>4. \A x \in published : x.revoked \subseteq y.revoked /\ x.number <= y.number
      BY <2>2, <3>2 DEF PublishInv, Covers
    <3>5. CopyCovers(p)'
      BY <2>0, <3>2, <3>3, <3>4 DEF CopyCovers, Covers, RevokeRunning, CrlRunning, CrlLoaded
    <3> QED
      BY <1>0, <2>0, <3>3, <3>5, PublishFrame
  <2> QED
    BY <2>1, <2>2
<1>4. ASSUME NEW p \in Proc, CaCommandStep(p) \/ Kill(p), ~PublishWrite(p) PROVE PublishInv'
  <2>1. PICK label : CaGoto(p, label)
    BY <1>4 DEF CaCommandStep, AppendIssued, PublishTruncate, SaveTruncate,
                SaveWrite, CRLOut, Kill
  <2>2. /\ cmd'[p].pc = label /\ cmd'[p].ledger = cmd[p].ledger
        /\ \A q \in Proc \ {p} : cmd'[q] = cmd[q]
    BY <1>0, <2>1, CaGotoMoves
  <2>3. UNCHANGED published /\ cmd[p].pc \in Running /\ crlFile' \in {crlFile, Torn}
    BY <1>4 DEF CaCommandStep, AppendIssued, PublishTruncate, SaveTruncate,
                SaveWrite, CRLOut, Kill, Running
  <2>4. CopyCovers(p)
    BY DEF PublishInv
  <2>5. ASSUME cmd'[p].pc \in RevokeRunning \cup CrlRunning
        PROVE  CopyCovers(p)'
    <3>1. \/ cmd[p].pc \in CrlRunning /\ cmd'[p].pc = "crl_write"
          \/ cmd[p].pc = "publish_truncate" /\ cmd'[p].pc = "publish_write" /\ UNCHANGED ledger
          \/ cmd[p].pc = "revoke_truncate" /\ cmd'[p].pc = "revoke_write"
      BY <1>0, <1>4, <2>5, CaGotoMoves
      DEF RevokeRunning, CrlRunning, CrlLoaded, CaCommandStep, AppendIssued, PublishTruncate,
          SaveTruncate, SaveWrite, CRLOut, Kill
    <3> QED
      BY <2>2, <2>3, <2>4, <3>1 DEF CopyCovers, Covers, RevokeRunning, CrlRunning, CrlLoaded
  <2>6. \A q \in Proc \ {p} : cmd[q].pc \in Finished
    BY <1>0, <2>3 DEF CaInv, OneAtATime, CaTypeOK, CmdType
  <2>7. ledger' \in {ledger, Torn} \/ Covers(ledger', ledger'.number + 1)
    <3>1. CASE SaveWrite(p)
      <4>1. ledger' \in {cmd[p].ledger, Torn}
        BY <3>1 DEF SaveWrite, Written
      <4>2. \A x \in published : x.number \in Nat
        BY <1>0 DEF CaTypeOK, LedgerType
      <4>3. cmd[p].ledger.number \in Nat
        BY <1>0 DEF CaTypeOK, CmdType, LedgerType
      <4>4. PICK n \in Nat : n = cmd[p].ledger.number
        BY <4>3
      <4>5. Covers(cmd[p].ledger, n) => Covers(cmd[p].ledger, n + 1)
        BY <4>2, <4>4 DEF Covers
      <4> QED
        BY <2>4, <3>1, <4>1, <4>4, <4>5 DEF SaveWrite, CopyCovers, RevokeRunning, CrlRunning, CrlLoaded
    <3> QED
      BY <1>4, <3>1
      DEF CaCommandStep, AppendIssued, PublishTruncate, SaveTruncate, CRLOut, Kill
  <2> QED
    BY <1>0, <2>2, <2>3, <2>5, <2>6, <2>7, PublishFrame
<1>5. CASE UNCHANGED caVars
  BY <1>0, <1>5 DEF caVars, PublishInv, PublishedOnlyGrows, CopyCovers, Covers
<1> QED
  BY <1>0, <1>1, <1>2, <1>3, <1>4, <1>5, PublishWriteInv DEF CaNext, CaCommandStep

LEMMA PublishInitInv == CaInit => PublishInv
<1> SUFFICES ASSUME CaInit PROVE PublishInv
  OBVIOUS
<1>1. CaInv
  BY CaInitInv
<1>2. published = {EmptyLedger} /\ crlFile = EmptyLedger /\ ledger = EmptyLedger
      /\ \A p \in Proc : cmd[p].pc = "idle"
  BY DEF CaInit
<1>3. Covers(ledger, ledger.number + 1) /\ PublishedOnlyGrows
  BY <1>2 DEF EmptyLedger, Covers, PublishedOnlyGrows
<1>4. \A p \in Proc : CopyCovers(p)
  BY <1>2 DEF CopyCovers, RevokeRunning, CrlRunning, CrlLoaded
<1> QED
  BY <1>1, <1>3, <1>4 DEF PublishInv

(* The inductive invariant of what serial commands publish.                   *)
THEOREM PublishInvariance == ~Concurrent => (CaSpec => []PublishInv)
<1>1. CASE Concurrent
  BY <1>1
<1>2. CASE ~Concurrent
  <2>1. PublishInv /\ [CaNext]_caVars => PublishInv'
    BY <1>2, PublishNextInv
  <2> QED
    BY PublishInitInv, <2>1, PTL DEF CaSpec
<1> QED
  BY <1>1, <1>2

(* When ca-admin commands do not overlap, no CRL is ever published that       *)
(* misses an entry of an earlier one or has a lower number, although a killed *)
(* crl command makes the next one use its number again (main.go:349-370).     *)
THEOREM SerialPublishedGrows == ~Concurrent => (CaSpec => []PublishedOnlyGrows)
<1>1. PublishInv => PublishedOnlyGrows
  BY DEF PublishInv
<1> QED
  BY PublishInvariance, <1>1, PTL

=============================================================================
