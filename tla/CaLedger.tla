------------------------------ MODULE CaLedger ------------------------------
(***************************************************************************)
(* The certification authority's directory and the ca-admin commands that  *)
(* work on it (tools/ca-admin): issue, revoke and crl.  Every command is a *)
(* process of its own, started by an operator or by the receiver           *)
(* (server/internal/api/devissue.go).  ca-admin takes no lock.             *)
(*                                                                         *)
(* os.WriteFile truncates the file and then writes it, which are two       *)
(* steps: a command that reads in between, or finds what a killed command  *)
(* left, gets a file that does not parse (Torn).                           *)
(***************************************************************************)
EXTENDS Integers

CONSTANTS
  Serial,      \* certificate serial numbers
  Proc,        \* slots in which a ca-admin command can run
  MaxCRL,      \* bound: CRL number
  Concurrent,  \* whether commands may overlap
  MayKill,     \* whether a command may be killed (timeout, power loss)
  Torn, None

\* ledger.json; a CRL carries the same two things, the entries and the number.
LedgerType == [revoked : SUBSET Serial, number : Nat]

ASSUME CaAssumption ==
  /\ MaxCRL \in Nat
  /\ Concurrent \in BOOLEAN /\ MayKill \in BOOLEAN
  /\ None \notin Serial
  /\ Torn \notin LedgerType

VARIABLES
  ledger,     \* ledger.json: revocations and the last CRL number, or Torn
  crlFile,    \* public/crl.pem, Torn while and after an unfinished write
  issued,     \* serials with a line in issued.jsonl
  cmd,        \* [Proc -> progress and local variables of its command]
  \* history
  certs,      \* serials of all certificates that were signed
  confirmed,  \* serials whose revocation a command reported as recorded
  published   \* all CRLs that were public at some time

caVars == <<ledger, crlFile, issued, cmd, certs, confirmed, published>>

EmptyLedger == [revoked |-> {}, number |-> 0]
Running == {"append_issued", "revoke_truncate", "revoke_write", "publish_truncate",
            "publish_write", "crl_truncate", "crl_write", "crl_out"}
Finished == {"idle", "ok", "already_revoked", "failed", "killed"}
CmdType == [pc : Running \cup Finished, serial : Serial \cup {None}, ledger : LedgerType]

CaTypeOK ==
  /\ ledger \in LedgerType \cup {Torn}
  /\ crlFile \in LedgerType \cup {Torn}
  /\ issued \in SUBSET Serial
  /\ cmd \in [Proc -> CmdType]
  /\ certs \in SUBSET Serial
  /\ confirmed \in SUBSET Serial
  /\ published \in SUBSET LedgerType

\* Store.Init, and the empty first CRL of the ceremony.
CaInit ==
  /\ ledger = EmptyLedger
  /\ crlFile = EmptyLedger
  /\ issued = {}
  /\ cmd = [p \in Proc |-> [pc |-> "idle", serial |-> None, ledger |-> EmptyLedger]]
  /\ certs = {}
  /\ confirmed = {}
  /\ published = {EmptyLedger}

-----------------------------------------------------------------------------
CaReady(p) ==
  /\ cmd[p].pc \in Finished
  /\ Concurrent \/ \A q \in Proc : cmd[q].pc \in Finished

CaGoto(p, label) == cmd' = [cmd EXCEPT ![p].pc = label]

CaBegin(p, label, s, l) ==
  cmd' = [cmd EXCEPT ![p] = [pc |-> label, serial |-> s, ledger |-> l]]

\* ca-admin issue, issueOne: the certificate is written out ...
IssueSign(p, s) ==
  /\ CaReady(p)
  /\ s \notin certs
  /\ certs' = certs \cup {s}
  /\ CaBegin(p, "append_issued", s, EmptyLedger)
  /\ UNCHANGED <<ledger, crlFile, issued, confirmed, published>>

WithLine(s) == issued \cup {s}

\* ... and then appended to issued.jsonl.
AppendIssued(p) ==
  /\ cmd[p].pc = "append_issued"
  /\ issued' = WithLine(cmd[p].serial)
  /\ CaGoto(p, "ok")
  /\ UNCHANGED <<ledger, crlFile, certs, confirmed, published>>

\* loadLedger finds JSON.
LedgerLoads == ledger # Torn

\* Append to the revocations in memory.
WithRevocation(s) == [ledger EXCEPT !.revoked = @ \cup {s}]

\* ca-admin revoke, up to the ledger in memory.
RevokeLoad(p, s) ==
  /\ CaReady(p)
  /\ \/ /\ ~LedgerLoads
        /\ CaBegin(p, "failed", s, EmptyLedger)
        /\ UNCHANGED confirmed
     \/ /\ LedgerLoads
        /\ s \in ledger.revoked
        /\ CaBegin(p, "already_revoked", s, ledger)
        /\ confirmed' = confirmed \cup {s}
     \/ /\ LedgerLoads
        /\ s \notin ledger.revoked
        /\ CaBegin(p, "revoke_truncate", s, WithRevocation(s))
        /\ UNCHANGED confirmed
  /\ UNCHANGED <<ledger, crlFile, issued, certs, published>>

\* Mutant: the number goes down.
LowerNumber(l) == [l EXCEPT !.number = @ - 1]

\* Mutant: the ledger starts afresh after every CRL.
NumberAlone(l) == [EmptyLedger EXCEPT !.number = l.number + 1]

NextNumber(l) == [l EXCEPT !.number = @ + 1]

\* ca-admin crl, up to the signed CRL in memory.
CRLSign(p) ==
  /\ CaReady(p)
  /\ \/ /\ ~LedgerLoads
        /\ CaBegin(p, "failed", None, EmptyLedger)
     \/ /\ LedgerLoads
        /\ ledger.number < MaxCRL
        /\ CaBegin(p, "publish_truncate", None, NextNumber(ledger))
  /\ UNCHANGED <<ledger, crlFile, issued, certs, confirmed, published>>

\* publish: the public files are rewritten before the ledger is saved.
PublishTruncate(p) ==
  /\ cmd[p].pc = "publish_truncate"
  /\ crlFile' = Torn
  /\ CaGoto(p, "publish_write")
  /\ UNCHANGED <<ledger, issued, certs, confirmed, published>>

\* What a write leaves in a file: the content, unless another command wrote
\* after this one truncated; a longer file then keeps a tail that is no JSON.
Written(file, content) == IF file = Torn THEN {content} ELSE {content, Torn}

NewCRLDetailed(entries, number) == [revoked |-> entries, number |-> number]

\* Mutant: a CRL lists only what was revoked since the last one.
PublishedDelta(p) ==
  [cmd[p].ledger EXCEPT !.revoked = @ \ UNION {x.revoked : x \in published}]

PublishedCRL(p) == NewCRLDetailed(cmd[p].ledger.revoked, cmd[p].ledger.number)

PublishWrite(p) ==
  /\ cmd[p].pc = "publish_write"
  /\ crlFile' \in Written(crlFile, PublishedCRL(p))
  /\ published' = published \cup ({crlFile'} \ {Torn})
  /\ CaGoto(p, "crl_truncate")
  /\ UNCHANGED <<ledger, issued, certs, confirmed>>

\* saveLedger.
SaveTruncate(p) ==
  /\ \/ cmd[p].pc = "revoke_truncate" /\ CaGoto(p, "revoke_write")
     \/ cmd[p].pc = "crl_truncate" /\ CaGoto(p, "crl_write")
  /\ ledger' = Torn
  /\ UNCHANGED <<crlFile, issued, certs, confirmed, published>>

SaveWrite(p) ==
  /\ \/ /\ cmd[p].pc = "revoke_write"
        /\ CaGoto(p, "ok")
        /\ confirmed' = confirmed \cup {cmd[p].serial}
     \/ /\ cmd[p].pc = "crl_write"
        /\ CaGoto(p, "crl_out")
        /\ UNCHANGED confirmed
  /\ ledger' \in Written(ledger, cmd[p].ledger)
  /\ UNCHANGED <<crlFile, issued, certs, published>>

\* The copy of the CRL for whoever asked for it.
CRLOut(p) ==
  /\ cmd[p].pc = "crl_out"
  /\ CaGoto(p, "ok")
  /\ UNCHANGED <<ledger, crlFile, issued, certs, confirmed, published>>

\* exec.CommandContext kills the command when its time is up or the HTTP
\* client goes away; an operator's machine may lose power.
Kill(p) ==
  /\ MayKill
  /\ cmd[p].pc \in Running
  /\ CaGoto(p, "killed")
  /\ UNCHANGED <<ledger, crlFile, issued, certs, confirmed, published>>

CaCommandStep(p) ==
  \/ AppendIssued(p)
  \/ PublishTruncate(p) \/ PublishWrite(p)
  \/ SaveTruncate(p) \/ SaveWrite(p)
  \/ CRLOut(p)

CaNext ==
  \/ \E p \in Proc, s \in Serial : IssueSign(p, s) \/ RevokeLoad(p, s)
  \/ \E p \in Proc : CRLSign(p) \/ CaCommandStep(p) \/ Kill(p)

CaSpec == CaInit /\ [][CaNext]_caVars

-----------------------------------------------------------------------------
(* Properties *)

(* A revocation that a command reported as recorded stays in the ledger as    *)
(* long as the ledger can be read: neither a later revoke or crl command nor  *)
(* a command that was killed drops it (main.go:318-330, :349-370).            *)
LedgerKeepsRevocations == ledger # Torn => confirmed \subseteq ledger.revoked

(* A published CRL is never succeeded by one that misses an entry of it or    *)
(* has a lower number, also not by a second CRL under the same number after a *)
(* crl command was killed between publish and saveLedger, nor across a file   *)
(* that could not be read in between (main.go:362-370).                       *)
PublishedOnlyGrows ==
  crlFile # Torn =>
    \A x \in published : x.revoked \subseteq crlFile.revoked /\ x.number <= crlFile.number

-----------------------------------------------------------------------------
(* Why LedgerKeepsRevocations holds when commands do not overlap *)

OneAtATime ==
  \A p, q \in Proc : cmd[p].pc \in Running /\ cmd[q].pc \in Running => p = q

\* The copy a command is about to save misses nothing that was confirmed.
CopyIsComplete ==
  \A p \in Proc :
    /\ cmd[p].pc = "append_issued" => cmd[p].serial \in Serial
    /\ cmd[p].pc \in Running \ {"append_issued"} => confirmed \subseteq cmd[p].ledger.revoked
    /\ cmd[p].pc \in {"revoke_truncate", "revoke_write"} => cmd[p].serial \in cmd[p].ledger.revoked

(* The inductive invariant of the CA directory when commands do not overlap.  *)
CaInv == CaTypeOK /\ OneAtATime /\ CopyIsComplete /\ LedgerKeepsRevocations
=============================================================================
