------------------------------- MODULE Client -------------------------------
(***************************************************************************)
(* The Windows desktop client: appcore, its vault (keystore), its API      *)
(* client, and the receiver as it answers this client.                     *)
(*                                                                         *)
(* The window starts three kinds of calls, each in a goroutine of its own: *)
(* logging in (Connect, Login, Prepare), signing, and what the account     *)
(* menu and the registration tab offer meanwhile (Reset and Connect).      *)
(* The buttons keep two calls of one kind apart, nothing else does.        *)
(* The files of the vault are written one by one, each atomically (tmp +   *)
(* rename); the process may be killed between any two of them.             *)
(*                                                                         *)
(* A request is one step: it may be lost, answered, or carried out with    *)
(* the answer lost.  A write fails when the directories are gone.  No PIN   *)
(* is set: the window always passes "".                                    *)
(***************************************************************************)
EXTENDS Verification

CONSTANTS
  Account,
  MaxKeys, MaxDevices, MaxCA,   \* bounds
  LocalVerifyMaxBytes,
  StampBytes, \* what the QR stamps add to a document
  UploadChunkBytes,  \* largest document sent in one request
  Doc,       \* documents the user may pick
  Faults,    \* whether requests and answers may be lost
  None

Key    == 1..MaxKeys        \* device keys, in the order they are generated
Device == 1..MaxDevices     \* device ids, in the order the server assigns them
CA     == 1..MaxCA          \* authorities, one per server installation
CaKey(ca) == 0 - ca
Cert == CertificateType(Key, CA)
Intermediate(ca) == IntermediateCertificate(CaKey(ca), ca)

\* What may stand in a chain.
Chainable == Cert \cup {Intermediate(c) : c \in CA}

ASSUME ClientAssumption ==
  /\ MaxKeys \in Nat /\ MaxDevices \in Nat /\ MaxCA \in Nat \ {0}
  /\ LocalVerifyMaxBytes \in Nat /\ StampBytes \in Nat /\ UploadChunkBytes \in Nat \ {0}
  /\ Faults \in BOOLEAN
  /\ Doc \subseteq DocumentType(Chainable)
  /\ None \notin Account /\ None \notin Nat /\ None \notin Cert /\ None \notin Seq(Cert)

VARIABLES
  \* the vault
  dirs,       \* whether its directories exist
  keyFile,    \* device-key.pqk: None or the key
  certFile,   \* device.crt.pem: None or a PEM, empty after a wipe
  rootFile,   \* root-ca.crt.pem: None or the authority
  chainFile,  \* ca-chain.pem: None or the authority
  stateFile,  \* state.json: None or the device id
  \* the process
  session,    \* None or the account of the token in a.api
  prep,       \* the login call: Connect, Login and EnsureEnrolled
  sign,       \* the SignPDF call
  conn,       \* the Connect of the registration tab
  resetting,  \* whether os.RemoveAll is at work
  \* the receiver
  row,        \* [Device -> None or the device's row with its enrolment and certificate]
  ca,         \* the authority of the installation
  keys, devices,  \* keys generated and device ids assigned so far
  \* history
  clobbered   \* Connect wrote back a device id that had been replaced

vaultVars  == <<keyFile, certFile, rootFile, chainFile, stateFile>>
serverVars == <<row, ca, devices>>
clientVars == <<dirs, vaultVars, session, prep, sign, conn, resetting, serverVars, keys, clobbered>>

Row == [account : Account, key : Key \cup {None}, cert : Cert \cup {None}]
ASSUME RowAssumption == None \notin Row

NewRow(a) == [account |-> a, key |-> None, cert |-> None]

PrepLabels == {"idle", "login", "save_email", "check", "wipe_key", "wipe_cert", "wipe_state",
               "save_key", "create_device", "csr", "root", "chain", "save_state", "status",
               "match", "save_cert", "save_serial"}
Prep == [pc : PrepLabels, account : Account \cup {None}, device : Device \cup {None},
         cert : Cert \cup {None}, ready : BOOLEAN]
NoPrep == [pc |-> "idle", account |-> None, device |-> None, cert |-> None, ready |-> FALSE]

SignLabels == {"idle", "cert", "root", "device", "reserve", "stamp", "sign", "upload", "submit"}

\* hStamp returns the document with the QR stamps drawn on it.
Stamped(doc) == [doc EXCEPT !.size = @ + StampBytes]

Sign == [pc : SignLabels, doc : Doc \cup {Stamped(d) : d \in Doc} \cup {None},
         chain : Seq(Chainable), root : CA \cup {None},
         device : Device \cup {None}, sent : Nat]
NoSign == [pc |-> "idle", doc |-> None, chain |-> <<>>, root |-> None,
           device |-> None, sent |-> 0]

ClientTypeOK ==
  /\ dirs \in BOOLEAN
  /\ keyFile \in Key \cup {None}
  /\ certFile \in Seq(Cert) \cup {None}
  /\ rootFile \in CA \cup {None} /\ chainFile \in CA \cup {None}
  /\ stateFile \in Device \cup {None}
  /\ session \in Account \cup {None}
  /\ prep \in Prep
  /\ sign \in Sign
  /\ conn \in [active : BOOLEAN, device : Device \cup {None}]
  /\ resetting \in BOOLEAN
  /\ row \in [Device -> Row \cup {None}]
  /\ ca \in CA
  /\ keys \in 0..MaxKeys /\ devices \in 0..MaxDevices
  /\ clobbered \in BOOLEAN

\* New on a fresh machine; the accounts are registered and approved.
ClientInit ==
  /\ dirs = TRUE
  /\ keyFile = None /\ certFile = None /\ rootFile = None /\ chainFile = None
  /\ stateFile = None
  /\ session = None
  /\ prep = NoPrep /\ sign = NoSign
  /\ conn = [active |-> FALSE, device |-> None]
  /\ resetting = FALSE
  /\ row = [d \in Device |-> None]
  /\ ca = 1
  /\ keys = 0 /\ devices = 0
  /\ clobbered = FALSE

-----------------------------------------------------------------------------
(* Helpers *)

PrepGoto(label) == prep' = [prep EXCEPT !.pc = label]

\* The call returns to the window, which offers the sign screen for "active" only.
PrepReturns(result) == prep' = [NoPrep EXCEPT !.ready = (result = "active")]

SignGoto(label) == sign' = [sign EXCEPT !.pc = label]
SignReturns == sign' = NoSign

\* writeFile needs the directories.
Writable == dirs

HasKey == keyFile # None
SaveKey(k) == keyFile' = k
DeleteKey == keyFile' = None

\* SaveState, where its error is dropped.
SaveState(d) == stateFile' = IF Writable THEN d ELSE stateFile

\* do: the token goes with the request; a request without one is refused.
Authorised == session # None
RequestFails == ~Authorised \/ Faults

\* deviceOwnedBy
Owns(a, d) == d # None /\ row[d] # None /\ row[d].account = a

\* GET /devices/{id}/certificate: 404 for an unknown device as well as for one
\* without a certificate.
CertificateFound(d) == Owns(session, d) /\ row[d].cert # None

\* The client turns every 404 into ErrNotYetIssued.
NotYetIssued(d) == Authorised /\ ~CertificateFound(d)

OnlyPrep == UNCHANGED <<dirs, session, sign, conn, resetting, keys, clobbered>>

-----------------------------------------------------------------------------
(* Logging in *)

\* SetServerURL: a new API client without a token, then the state is saved
\* with the same device id.
LoginConnect ==
  /\ prep.pc = "idle"
  /\ ~resetting
  /\ session' = None
  /\ \/ Writable /\ prep' = [NoPrep EXCEPT !.pc = "login"]
     \/ ~Writable /\ PrepReturns("error")
  /\ UNCHANGED <<dirs, vaultVars, sign, conn, resetting, serverVars, keys, clobbered>>

LoginRequest(a) ==
  /\ prep.pc = "login"
  /\ \/ /\ session' = a
        /\ prep' = [prep EXCEPT !.pc = "save_email", !.account = a]
     \/ PrepReturns("error") /\ UNCHANGED session
  /\ UNCHANGED <<dirs, vaultVars, sign, conn, resetting, serverVars, keys, clobbered>>

LoginSave ==
  /\ prep.pc = "save_email"
  /\ \/ Writable /\ PrepGoto("check")
     \/ ~Writable /\ PrepReturns("error")
  /\ UNCHANGED <<vaultVars, serverVars>> /\ OnlyPrep

-----------------------------------------------------------------------------
(* EnsureEnrolled *)

\* Mutant: any answer but a certificate counts as unknown.
UnknownUnlessFound(d) == d = None \/ RequestFails \/ ~CertificateFound(d)

\* deviceUnknownToServer: the device has no id, or the server answered 404.
DeviceUnknown(d) == d = None \/ NotYetIssued(d)

EnsureEnrolled ==
  /\ prep.pc = "check"
  /\ \/ ~HasKey /\ PrepGoto("wipe_key")
     \/ HasKey /\ DeviceUnknown(stateFile) /\ PrepGoto("wipe_key")
     \/ /\ HasKey /\ stateFile # None
        /\ RequestFails \/ CertificateFound(stateFile)
        /\ PrepGoto("status")
  /\ UNCHANGED <<vaultVars, serverVars>> /\ OnlyPrep

\* wipeDeviceState: three files, whose errors are dropped.
WipeKey ==
  /\ prep.pc = "wipe_key"
  /\ DeleteKey
  /\ PrepGoto("wipe_cert")
  /\ UNCHANGED <<certFile, rootFile, chainFile, stateFile, serverVars>> /\ OnlyPrep

\* Mutant: the cached certificate stays.
CertKept == certFile

\* Mutant: the CA's certificate is written in its place.
CertOverwritten == <<Intermediate(ca)>>

CertWiped == <<>>

WipeCert ==
  /\ prep.pc = "wipe_cert"
  /\ certFile' = IF Writable THEN CertWiped ELSE certFile
  /\ PrepGoto("wipe_state")
  /\ UNCHANGED <<keyFile, rootFile, chainFile, stateFile, serverVars>> /\ OnlyPrep

WipeState ==
  /\ prep.pc = "wipe_state"
  /\ SaveState(None)
  /\ PrepGoto("save_key")
  /\ UNCHANGED <<keyFile, certFile, rootFile, chainFile, serverVars>> /\ OnlyPrep

\* enrollDevice: a new key, saved before the server hears of it.
EnrollKey ==
  /\ prep.pc = "save_key"
  /\ keys < MaxKeys
  /\ keys' = keys + 1
  /\ \/ Writable /\ SaveKey(keys + 1) /\ PrepGoto("create_device")
     \/ ~Writable /\ PrepReturns("error") /\ UNCHANGED keyFile
  /\ UNCHANGED <<dirs, certFile, rootFile, chainFile, stateFile, session, sign, conn,
                 resetting, serverVars, clobbered>>

\* POST /devices, carried out by the receiver.
CreateDevice ==
  /\ Authorised
  /\ devices < MaxDevices
  /\ devices' = devices + 1
  /\ row' = [row EXCEPT ![devices + 1] = NewRow(session)]

\* On an error, also when only the answer was lost, the key is deleted again.
EnrollCreateDevice ==
  /\ prep.pc = "create_device"
  /\ \/ /\ CreateDevice
        /\ \/ prep' = [prep EXCEPT !.pc = "csr", !.device = devices + 1] /\ UNCHANGED keyFile
           \/ Faults /\ PrepReturns("error") /\ DeleteKey
     \/ /\ RequestFails
        /\ PrepReturns("error")
        /\ DeleteKey
        /\ UNCHANGED <<row, devices>>
  /\ UNCHANGED <<certFile, rootFile, chainFile, stateFile, ca>>
  /\ OnlyPrep

\* bindIssuedCert: the receiver takes a certificate for the key of a request if
\* it is a device certificate of the configured authority.
BindIssuedCert(key, certificate) ==
  /\ ParseAndValidateCertificate(<<certificate>>)
  /\ ValidateCertificateChain(certificate, <<Intermediate(ca)>>, ca)
  /\ SameKeyPair(key, certificate)

\* POST /devices/{id}/csr, carried out by the receiver: the certificate is
\* issued at once if the CA works.
SubmitCSR(d, csr) ==
  /\ Authorised /\ Owns(session, d)
  /\ ParseAndValidateCSR(csr)
  /\ \E certificate \in {DeviceCertificate(csr.publicKey, ca), None} :
       /\ certificate # None => BindIssuedCert(csr.publicKey, certificate)
       /\ row' = [row EXCEPT ![d].key = csr.publicKey, ![d].cert = certificate]

\* The request is made from the key in memory.  On an error the key in the vault
\* stays, without a device id.
EnrollSubmitCSR ==
  LET d == prep.device IN
  /\ prep.pc = "csr"
  /\ \/ /\ SubmitCSR(d, CreateDeviceCSR(keys))
        /\ \/ PrepGoto("root")
           \/ Faults /\ PrepReturns("error")
     \/ /\ RequestFails \/ ~Owns(session, d)
        /\ PrepReturns("error")
        /\ UNCHANGED row
  /\ UNCHANGED <<vaultVars, ca, devices>> /\ OnlyPrep

\* The public CA material is fetched and saved if all goes well.
EnrollRoot ==
  /\ prep.pc = "root"
  /\ \/ Writable /\ rootFile' = ca
     \/ (~Writable \/ Faults) /\ UNCHANGED rootFile
  /\ PrepGoto("chain")
  /\ UNCHANGED <<keyFile, certFile, chainFile, stateFile, serverVars>> /\ OnlyPrep

EnrollChain ==
  /\ prep.pc = "chain"
  /\ \/ Writable /\ chainFile' = ca
     \/ (~Writable \/ Faults) /\ UNCHANGED chainFile
  /\ PrepGoto("save_state")
  /\ UNCHANGED <<keyFile, certFile, rootFile, stateFile, serverVars>> /\ OnlyPrep

EnrollSaveState ==
  /\ prep.pc = "save_state"
  /\ \/ Writable /\ SaveState(prep.device) /\ PrepGoto("status")
     \/ ~Writable /\ PrepReturns("error") /\ UNCHANGED stateFile
  /\ UNCHANGED <<keyFile, certFile, rootFile, chainFile, serverVars>> /\ OnlyPrep

-----------------------------------------------------------------------------
(* CertificateStatus *)

\* A valid certificate in the vault is believed; otherwise the server is asked.
CertificateStatus ==
  LET cached == certFile # None /\ ParseAndValidateCertificate(certFile) IN
  /\ prep.pc = "status"
  /\ \/ ~HasKey /\ PrepReturns("none")
     \/ HasKey /\ cached /\ PrepReturns("active")
     \/ HasKey /\ ~cached /\ stateFile = None /\ PrepReturns("pending")
     \/ /\ HasKey /\ ~cached /\ stateFile # None
        /\ \/ NotYetIssued(stateFile) /\ PrepReturns("pending")
           \/ RequestFails /\ PrepReturns("error")
           \/ /\ Authorised /\ CertificateFound(stateFile)
              /\ prep' = [prep EXCEPT !.pc = "match", !.device = stateFile,
                                      !.cert = row[stateFile].cert]
  /\ UNCHANGED <<vaultVars, serverVars>> /\ OnlyPrep

\* The certificate must be valid and belong to the key in the vault.
MatchCertificate ==
  /\ prep.pc = "match"
  /\ \/ /\ ParseAndValidateCertificate(<<prep.cert>>)
        /\ HasKey /\ SameKeyPair(keyFile, prep.cert)
        /\ PrepGoto("save_cert")
     \/ /\ \/ ~ParseAndValidateCertificate(<<prep.cert>>)
           \/ ~HasKey
           \/ ~SameKeyPair(keyFile, prep.cert)
        /\ PrepReturns("error")
  /\ UNCHANGED <<vaultVars, serverVars>> /\ OnlyPrep

CacheCertificate ==
  /\ prep.pc = "save_cert"
  /\ \/ Writable /\ certFile' = <<prep.cert>> /\ PrepGoto("save_serial")
     \/ ~Writable /\ PrepReturns("error") /\ UNCHANGED certFile
  /\ UNCHANGED <<keyFile, rootFile, chainFile, stateFile, serverVars>> /\ OnlyPrep

\* The state as it was read before the request is written back.
CacheSerial ==
  /\ prep.pc = "save_serial"
  /\ SaveState(prep.device)
  /\ PrepReturns("active")
  /\ UNCHANGED <<keyFile, certFile, rootFile, chainFile, serverVars>> /\ OnlyPrep

-----------------------------------------------------------------------------
(* SignPDF *)

OnlySign == UNCHANGED <<dirs, vaultVars, session, prep, conn, resetting, keys, clobbered>>

\* The sign screen opens once Prepare has reported "active".  Chain, certificate
\* and root are read one after the other; an empty certificate file reads like
\* any other.
SignBegin(doc) ==
  /\ sign.pc = "idle"
  /\ prep.pc = "idle" /\ prep.ready /\ ~resetting
  /\ ListPDFSignatures(doc) = <<>>
  /\ chainFile # None
  /\ sign' = [NoSign EXCEPT !.pc = "cert", !.doc = doc, !.chain = <<Intermediate(chainFile)>>]
  /\ UNCHANGED serverVars /\ OnlySign

SignReadCert ==
  /\ sign.pc = "cert"
  /\ \/ certFile # None /\ sign' = [sign EXCEPT !.pc = "root", !.chain = certFile \o @]
     \/ certFile = None /\ SignReturns
  /\ UNCHANGED serverVars /\ OnlySign

SignReadRoot ==
  /\ sign.pc = "root"
  /\ \/ rootFile # None /\ sign' = [sign EXCEPT !.pc = "device", !.root = rootFile]
     \/ rootFile = None /\ SignReturns
  /\ UNCHANGED serverVars /\ OnlySign

SignReadState ==
  /\ sign.pc = "device"
  /\ sign' = [sign EXCEPT !.pc = "reserve", !.device = stateFile]
  /\ UNCHANGED serverVars /\ OnlySign

\* POST /signatures/reserve, for a device with a certificate.
Reservable(d) == Owns(session, d) /\ row[d].cert # None

SignReserve ==
  /\ sign.pc = "reserve"
  /\ \/ Authorised /\ Reservable(sign.device) /\ SignGoto("stamp")
     \/ SignReturns       \* refused (lost, revoked, unknown) or failed
  /\ UNCHANGED serverVars /\ OnlySign

\* POST .../stamp, after an upload if the document is large: one that is too large
\* for a stamp is signed as it is.
SignStamp ==
  /\ sign.pc = "stamp"
  /\ \/ /\ Authorised
        /\ \E toSign \in {Stamped(sign.doc), sign.doc} :
             sign' = [sign EXCEPT !.pc = "sign", !.doc = toSign]
     \/ RequestFails /\ SignReturns
  /\ UNCHANGED serverVars /\ OnlySign

\* signing.SignPDF of the document in hand.
SignedPDF == SignPDF(sign.doc, sign.chain)

\* SubmitDocument sends a small document at once.
InOneRequest(doc) == doc.size <= UploadChunkBytes

LocallyVerified(doc, root) == doc.size > LocalVerifyMaxBytes \/ VerifyPDF(doc, root)

\* The key is loaded, used and wiped; the result is verified and written out.
SignDocument ==
  /\ sign.pc = "sign"
  /\ \/ /\ HasKey /\ SignsPDF(sign.doc, keyFile, sign.chain)
        /\ LocallyVerified(SignedPDF, sign.root)
        /\ SignGoto(IF InOneRequest(SignedPDF) THEN "submit" ELSE "upload")
     \/ SignReturns
  /\ UNCHANGED serverVars /\ OnlySign

\* uploadBytes: a new upload, then one chunk after the other, each accepted as a
\* whole (Uploads.tla), until all is sent; the first request that fails ends it.
SignUpload ==
  LET sent == sign.sent + UploadChunkBytes IN
  /\ sign.pc = "upload"
  /\ \/ Authorised /\ sent < SignedPDF.size /\ sign' = [sign EXCEPT !.sent = sent]
     \/ Authorised /\ sent >= SignedPDF.size /\ SignGoto("submit")
     \/ RequestFails /\ SignReturns
  /\ UNCHANGED serverVars /\ OnlySign

\* PUT .../document, which Submission.tla models: recorded, refused or lost,
\* the signed file stays with the user and nobody tries again.
SignSubmit ==
  /\ sign.pc = "submit"
  /\ SignReturns
  /\ UNCHANGED serverVars /\ OnlySign

-----------------------------------------------------------------------------
(* The registration tab and the account menu *)

\* SetServerURL reads the state ...
ConnectRead ==
  /\ prep.pc # "idle" /\ ~conn.active
  /\ session' = None
  /\ conn' = [active |-> TRUE, device |-> stateFile]
  /\ UNCHANGED <<dirs, vaultVars, prep, sign, resetting, serverVars, keys, clobbered>>

\* ... and writes all of it back.
ConnectWrite ==
  /\ conn.active
  /\ conn' = [active |-> FALSE, device |-> None]
  /\ SaveState(conn.device)
  /\ clobbered' = (clobbered \/ stateFile' # stateFile)
  /\ UNCHANGED <<dirs, keyFile, certFile, rootFile, chainFile, session, prep, sign, resetting,
                 serverVars, keys>>

\* Reset: RemoveAll takes the two directories and the state file in no
\* particular order, then the vault's own directory.
ResetBegin ==
  /\ Authorised /\ dirs /\ ~resetting
  /\ resetting' = TRUE
  /\ UNCHANGED <<dirs, vaultVars, session, prep, sign, conn, serverVars, keys, clobbered>>

ResetRemove ==
  /\ resetting
  /\ \/ keyFile # None /\ keyFile' = None /\ UNCHANGED <<certFile, rootFile, chainFile, stateFile>>
     \/ /\ certFile # None \/ rootFile # None \/ chainFile # None
        /\ certFile' = None /\ rootFile' = None /\ chainFile' = None
        /\ UNCHANGED <<keyFile, stateFile>>
     \/ stateFile # None /\ stateFile' = None /\ UNCHANGED <<keyFile, certFile, rootFile, chainFile>>
  /\ UNCHANGED <<dirs, session, prep, sign, conn, resetting, serverVars, keys, clobbered>>

ResetEnd ==
  /\ resetting
  /\ keyFile = None /\ certFile = None /\ rootFile = None /\ chainFile = None /\ stateFile = None
  /\ dirs' = FALSE
  /\ resetting' = FALSE
  /\ prep' = IF prep.pc = "idle" THEN NoPrep ELSE prep
  /\ UNCHANGED <<vaultVars, session, sign, conn, serverVars, keys, clobbered>>

\* The program is closed or killed and started again: New opens the vault.
Open == dirs' = TRUE

Restart ==
  /\ Open
  /\ session' = None
  /\ prep' = NoPrep /\ sign' = NoSign
  /\ conn' = [active |-> FALSE, device |-> None]
  /\ resetting' = FALSE
  /\ UNCHANGED <<vaultVars, serverVars, keys, clobbered>>

-----------------------------------------------------------------------------
(* The receiver, for what this client does not cause *)

OnlyServer == UNCHANGED <<dirs, vaultVars, session, prep, sign, conn, resetting, keys, clobbered>>

\* An admin issues the certificate of an enrolment that was left pending.
IssueLater(d) ==
  /\ row[d] # None /\ row[d].key # None /\ row[d].cert = None
  /\ BindIssuedCert(row[d].key, DeviceCertificate(row[d].key, ca))
  /\ row' = [row EXCEPT ![d].cert = DeviceCertificate(row[d].key, ca)]
  /\ UNCHANGED <<ca, devices>> /\ OnlyServer

\* "a fresh server / wiped database / switched server URL"
ReplaceServer ==
  /\ row' = [d \in Device |-> None]
  /\ ca' \in {ca} \cup ({ca + 1} \cap CA)
  /\ UNCHANGED <<devices>> /\ OnlyServer

-----------------------------------------------------------------------------
PrepStep ==
  \/ LoginSave \/ EnsureEnrolled \/ WipeKey \/ WipeCert \/ WipeState \/ EnrollKey
  \/ EnrollCreateDevice \/ EnrollSubmitCSR \/ EnrollRoot \/ EnrollChain \/ EnrollSaveState
  \/ CertificateStatus \/ MatchCertificate \/ CacheCertificate \/ CacheSerial

SignStep ==
  \/ SignReadCert \/ SignReadRoot \/ SignReadState \/ SignReserve \/ SignStamp
  \/ SignDocument \/ SignUpload \/ SignSubmit

ClientNext ==
  \/ LoginConnect \/ PrepStep \/ SignStep
  \/ \E a \in Account : LoginRequest(a)
  \/ \E doc \in Doc : SignBegin(doc)
  \/ ConnectRead \/ ConnectWrite
  \/ ResetBegin \/ ResetRemove \/ ResetEnd \/ Restart
  \/ \E d \in Device : IssueLater(d)
  \/ ReplaceServer

ClientSpec == ClientInit /\ [][ClientNext]_clientVars

-----------------------------------------------------------------------------
(* Properties *)

(* The certificate in the vault belongs to the key in the vault, through      *)
(* killed enrolments, resets and new servers: CertificateStatus believes a    *)
(* cached certificate without looking at the key (appcore.go:225-230), so a   *)
(* mismatch would never be repaired.                                          *)
CachedCertMatchesKey ==
  keyFile # None /\ certFile # None /\ certFile # <<>>
    => Head(certFile).key = keyFile

\* The vault holds an enrolment of account a that the server knows as well.
Certified(a) ==
  /\ keyFile # None /\ certFile # None /\ certFile # <<>> /\ Head(certFile).key = keyFile
  /\ Owns(a, stateFile) /\ row[stateFile].cert = Head(certFile)

(* "Any other error (network, not-issued-yet) is treated as known"            *)
(* (appcore.go:131-133): as long as the server has the certificate of the     *)
(* user who logs in, no step but Reset removes or replaces the key, whatever  *)
(* requests fail.                                                             *)
CertifiedKeyKept ==
  [][Certified(prep.account) /\ keyFile' # keyFile => resetting]_clientVars

(* A document leaves the client signed by the key that the server has for the *)
(* device of the reservation, although certificate, device id and key are     *)
(* read at different moments while an enrolment or a reset goes on            *)
(* (appcore.go:326-365); only a device id written back by Connect can break   *)
(* it, and a server that was replaced since knows no device at all.           *)
UploadMatchesReservation ==
  sign.pc \in {"upload", "submit"} /\ ~clobbered =>
    row[sign.device] = None \/ row[sign.device].key = Head(sign.chain).key

(* "EnsureEnrolled makes this device ready to sign with no manual step"       *)
(* (appcore.go:109): once it has reported "active", the vault holds all that  *)
(* SignPDF needs.                                                             *)
EnrolledIsReady ==
  prep.pc = "idle" /\ prep.ready /\ ~resetting =>
    rootFile # None /\ chainFile # None
=============================================================================
