---------------------------- MODULE ClientProofs ----------------------------
(***************************************************************************)
(* Proofs about Client.tla, for any number of accounts, device keys,       *)
(* devices, authorities and documents.                                     *)
(*                                                                         *)
(* The properties relate files that are written one by one by three calls  *)
(* at once, so none of them is inductive: each holds because of what the   *)
(* calls in flight know.  The invariant says so, one part per actor, and   *)
(* there is one lemma per group of actions for all of its parts.           *)
(***************************************************************************)
EXTENDS Client, TLAPS

USE ClientAssumption, RowAssumption, VerificationAssumption

-----------------------------------------------------------------------------
(* The inductive invariant *)

\* The certificate file, with a certificate in it or without.
CertFull == certFile # None /\ certFile # <<>>
CertEmpty == certFile = None \/ certFile = <<>>

\* The vault: no file outlives its directory, the certificate belongs to the
\* key, and keys and device ids were generated and assigned before.
VaultInv ==
  /\ ~dirs => /\ keyFile = None /\ certFile = None /\ stateFile = None
              /\ rootFile = None /\ chainFile = None
  /\ certFile = None \/ certFile = <<>> \/ \E c \in Cert : certFile = <<c>>
  /\ CachedCertMatchesKey
  /\ keyFile # None => keyFile <= keys
  /\ CertFull => Head(certFile).key <= keys
  /\ stateFile # None => stateFile <= devices

\* The receiver's rows: no two devices have one key, and whoever has the key of
\* the cached certificate has that certificate.
RowInv ==
  /\ \A d \in Device : row[d] # None =>
       /\ d <= devices
       /\ row[d].key # None => row[d].key <= keys
       /\ row[d].cert # None => row[d].cert.key = row[d].key
  /\ \A d, e \in Device :
       row[d] # None /\ row[e] # None /\ row[d].key # None /\ row[d].key = row[e].key => d = e
  /\ CertFull => \A d \in Device :
       row[d] # None /\ row[d].key = Head(certFile).key => row[d].cert = Head(certFile)

\* Where the login call is past Login, enrols a key, fetches a certificate.
LoggedIn == PrepLabels \ {"idle", "login"}
Enrolling == {"create_device", "csr", "root", "chain", "save_state"}
Fetching == {"match", "save_cert", "save_serial"}

\* The login call: until the receiver hears of the new key no row has it; then
\* only the row of the new device has.  A certificate fetched is that of the
\* device asked about.  Nothing certified is ever about to be wiped.
PrepInv ==
  /\ prep.device # None => prep.device <= devices
  /\ prep.pc \in LoggedIn => prep.account \in Account /\ (session = None \/ session = prep.account)
  /\ prep.pc \in {"wipe_cert", "wipe_state", "save_key"} => keyFile = None
  /\ prep.pc \in {"wipe_state", "save_key"} \cup Enrolling => CertEmpty
  /\ prep.pc \in {"create_device", "csr"} =>
       \A d \in Device : row[d] # None => row[d].key # keys
  /\ prep.pc \in Enrolling => keys > 0 /\ (keyFile = None \/ keyFile = keys)
  /\ prep.pc \in Enrolling \ {"create_device"} => prep.device # None
  /\ prep.pc = "csr" /\ row[prep.device] # None => row[prep.device].key = None
  /\ prep.pc \in {"root", "chain", "save_state"} /\ row[prep.device] # None =>
       row[prep.device].key = keys
  /\ prep.pc \in Fetching =>
       /\ prep.device # None /\ prep.cert # None /\ prep.cert.key <= keys
       /\ row[prep.device] # None => row[prep.device].key = prep.cert.key
       /\ \A d \in Device : row[d] # None /\ row[d].key = prep.cert.key =>
            d = prep.device /\ row[d].cert = prep.cert
  /\ prep.pc \in {"save_cert", "save_serial"} => keyFile = None \/ keyFile = prep.cert.key
  /\ prep.pc = "save_serial" => certFile = None \/ certFile = <<prep.cert>>
  /\ prep.pc = "wipe_key" => resetting \/ ~Certified(prep.account)

\* The receiver has the cached certificate for device d.
Matches(d) == keyFile # None /\ CertFull /\ row[d] # None /\ row[d].cert = Head(certFile)

\* The device id that Connect is about to write back: if the vault's
\* certificate is of that device, the id is there already.
ConnInv ==
  conn.active /\ conn.device # None =>
    /\ conn.device <= devices
    /\ Matches(conn.device) /\ ~resetting => stateFile = conn.device
    /\ prep.pc \in {"match", "save_cert"} /\ conn.device = prep.device /\ ~resetting /\ dirs =>
         stateFile = prep.device

\* The device id in the vault is that of the key, and none while one enrols.
StateInv ==
  ~clobbered =>
    /\ keyFile # None /\ stateFile # None /\ row[stateFile] # None => row[stateFile].key = keyFile
    /\ prep.pc \in {"save_key"} \cup Enrolling => stateFile = None

\* Where the signing call has read the certificate, the device id, and where
\* the document is on its way.
ChainRead == SignLabels \ {"idle", "cert"}
DeviceRead == {"reserve", "stamp", "sign"}
Leaving == {"upload", "submit"}

\* The signing call: it may hold a certificate that the vault has no longer, but
\* the key it will find signs for it only if it is that of the device read.
SignInv ==
  /\ sign.device # None => sign.device <= devices
  /\ sign.pc # "idle" => sign.doc \in Doc \cup {Stamped(d) : d \in Doc}
  /\ sign.pc \notin {"sign", "idle"} \cup Leaving => sign.doc \in Doc
  /\ sign.pc = "cert" => \E c \in CA : sign.chain = <<Intermediate(c)>>
  /\ sign.pc \in ChainRead =>
       /\ sign.chain # <<>> /\ Head(sign.chain) \in Chainable /\ Head(sign.chain).key <= keys
       /\ prep.pc \in {"create_device", "csr"} => Head(sign.chain).key # keys
  /\ sign.pc \in {"stamp", "sign"} \cup Leaving => sign.device # None
  /\ /\ sign.pc \in DeviceRead /\ ~clobbered
     /\ keyFile # None /\ Head(sign.chain).key = keyFile
     /\ sign.device # None /\ row[sign.device] # None
     => row[sign.device].key = keyFile
  /\ sign.pc \in Leaving =>
       /\ Head(sign.chain) \in Cert
       /\ ~clobbered /\ row[sign.device] # None => row[sign.device].key = Head(sign.chain).key

\* All of it.
ClientInv ==
  /\ ClientTypeOK /\ VaultInv /\ RowInv /\ PrepInv /\ ConnInv /\ StateInv /\ SignInv

-----------------------------------------------------------------------------
(* Types *)

\* The call of the login window goes on to another label ...
LEMMA PrepGoes ==
  ASSUME ClientTypeOK, NEW l \in PrepLabels, PrepGoto(l)
  PROVE  /\ prep' \in Prep /\ prep'.pc = l
         /\ prep'.account = prep.account /\ prep'.device = prep.device /\ prep'.cert = prep.cert
  BY DEF ClientTypeOK, PrepGoto, Prep

\* ... or returns.
LEMMA PrepEnds ==
  ASSUME NEW result, PrepReturns(result)
  PROVE  /\ prep' \in Prep /\ prep'.pc = "idle"
         /\ prep'.account = None /\ prep'.device = None /\ prep'.cert = None
  BY DEF PrepReturns, Prep, NoPrep, PrepLabels

\* The call that signs goes on to another label.
LEMMA SignGoes ==
  ASSUME ClientTypeOK, NEW l \in SignLabels, SignGoto(l)
  PROVE  /\ sign' \in Sign /\ sign'.pc = l
         /\ sign'.doc = sign.doc /\ sign'.chain = sign.chain /\ sign'.root = sign.root
         /\ sign'.device = sign.device /\ sign'.sent = sign.sent
  BY DEF ClientTypeOK, SignGoto, Sign

\* A call that is not running is well typed.
LEMMA NothingRuns ==
  /\ NoPrep \in Prep /\ NoPrep.pc = "idle" /\ NoPrep.device = None /\ NoPrep.account = None
  /\ NoPrep.cert = None
  /\ NoSign \in Sign /\ NoSign.pc = "idle" /\ NoSign.device = None
  <1>1. <<>> \in Seq(Chainable)
    OBVIOUS
  <1> QED  BY <1>1 DEF NoPrep, NoSign, Prep, Sign, PrepLabels, SignLabels

\* A new vault and a new server are well typed.
LEMMA ClientTypeInit == ClientInit => ClientTypeOK
  <1> SUFFICES ASSUME ClientInit PROVE ClientTypeOK
    OBVIOUS
  <1>1. ca \in CA /\ keys \in 0..MaxKeys /\ devices \in 0..MaxDevices
    BY DEF ClientInit, CA
  <1>2. conn \in [active : BOOLEAN, device : Device \cup {None}]
    BY DEF ClientInit
  <1>3. row \in [Device -> Row \cup {None}]
    BY DEF ClientInit
  <1>4. prep \in Prep /\ sign \in Sign
    BY NothingRuns DEF ClientInit
  <1>5. /\ dirs \in BOOLEAN /\ resetting \in BOOLEAN /\ clobbered \in BOOLEAN
        /\ keyFile = None /\ certFile = None /\ rootFile = None /\ chainFile = None
        /\ stateFile = None /\ session = None
    BY DEF ClientInit
  <1> QED  BY <1>1, <1>2, <1>3, <1>4, <1>5 DEF ClientTypeOK

\* Logging in keeps the types.
LEMMA LoginType ==
  ASSUME ClientTypeOK, LoginConnect \/ (\E a \in Account : LoginRequest(a)) \/ LoginSave
  PROVE  ClientTypeOK'
  <1>1. CASE LoginConnect
    <2>1. prep' \in Prep
      BY <1>1, PrepEnds DEF LoginConnect, NoPrep, Prep, PrepLabels
    <2> QED  BY <1>1, <2>1 DEF LoginConnect, ClientTypeOK, vaultVars, serverVars
  <1>2. ASSUME NEW a \in Account, LoginRequest(a) PROVE ClientTypeOK'
    <2>1. prep' \in Prep
      BY <1>2, PrepEnds DEF LoginRequest, Prep, PrepLabels, ClientTypeOK
    <2> QED  BY <1>2, <2>1 DEF LoginRequest, ClientTypeOK, vaultVars, serverVars
  <1>3. CASE LoginSave
    <2>1. prep' \in Prep
      BY <1>3, PrepEnds, PrepGoes DEF LoginSave, PrepLabels
    <2> QED  BY <1>3, <2>1 DEF LoginSave, OnlyPrep, ClientTypeOK, vaultVars, serverVars
  <1> QED  BY <1>1, <1>2, <1>3

\* The files of the vault keep their types.
LEMMA VaultType ==
  ASSUME ClientTypeOK,
         \/ WipeKey \/ WipeCert \/ WipeState \/ EnrollKey \/ EnrollRoot \/ EnrollChain
         \/ EnrollSaveState \/ CacheSerial
  PROVE  ClientTypeOK'
  <1> USE DEF ClientTypeOK, OnlyPrep, serverVars
  <1>1. prep' \in Prep
    BY PrepEnds, PrepGoes DEF WipeKey, WipeCert, WipeState, EnrollKey, EnrollRoot, EnrollChain,
       EnrollSaveState, CacheSerial, PrepLabels
  <1>2. CASE WipeKey \/ EnrollKey
    BY <1>1, <1>2 DEF WipeKey, EnrollKey, DeleteKey, SaveKey, Key
  <1>3. CASE WipeCert
    <2>1. CertWiped \in Seq(Cert)
      BY DEF CertWiped
    <2> QED  BY <1>1, <1>3, <2>1 DEF WipeCert
  <1>4. CASE EnrollRoot \/ EnrollChain
    BY <1>1, <1>4 DEF EnrollRoot, EnrollChain
  <1>5. CASE WipeState \/ EnrollSaveState \/ CacheSerial
    BY <1>1, <1>5 DEF WipeState, EnrollSaveState, CacheSerial, SaveState, Prep
  <1> QED  BY <1>2, <1>3, <1>4, <1>5

\* The rows of the receiver keep their types: a new device ...
LEMMA CreateDeviceType ==
  ASSUME ClientTypeOK, EnrollCreateDevice
  PROVE  ClientTypeOK'
  <1>1. CreateDevice => /\ devices' \in 0..MaxDevices /\ devices + 1 \in Device
                        /\ row' \in [Device -> Row \cup {None}]
    <2> SUFFICES ASSUME CreateDevice PROVE /\ devices' \in 0..MaxDevices /\ devices + 1 \in Device
                                           /\ row' \in [Device -> Row \cup {None}]
      OBVIOUS
    <2>1. NewRow(session) \in Row
      BY DEF CreateDevice, Authorised, ClientTypeOK, NewRow, Row
    <2>2. devices' \in 0..MaxDevices /\ devices + 1 \in Device
      BY DEF CreateDevice, ClientTypeOK, Device
    <2> QED  BY <2>1, <2>2 DEF CreateDevice, ClientTypeOK
  <1>2. prep' \in Prep
    <2>1. CASE CreateDevice /\ prep' = [prep EXCEPT !.pc = "csr", !.device = devices + 1]
      BY <1>1, <2>1 DEF ClientTypeOK, Prep, PrepLabels
    <2> QED  BY <2>1, PrepEnds DEF EnrollCreateDevice
  <1>3. devices' \in 0..MaxDevices /\ row' \in [Device -> Row \cup {None}]
    BY <1>1 DEF EnrollCreateDevice, ClientTypeOK
  <1> QED  BY <1>2, <1>3 DEF EnrollCreateDevice, OnlyPrep, ClientTypeOK, DeleteKey

\* (certificates of device keys)
LEMMA DeviceCertificateType ==
  ASSUME NEW k \in Key, NEW a \in CA
  PROVE  DeviceCertificate(k, a) \in Cert /\ DeviceCertificate(k, a).key = k
  BY DEF DeviceCertificate, Cert, CertificateType

\* What a certificate request that is carried out does to the row.
LEMMA SubmitCSRRow ==
  ASSUME ClientTypeOK, NEW d \in Device, keys \in Key, SubmitCSR(d, CreateDeviceCSR(keys))
  PROVE  /\ row[d] # None /\ row[d].account = session /\ session # None
         /\ row'[d] \in Row /\ row'[d].account = row[d].account /\ row'[d].key = keys
         /\ row'[d].cert = None \/ row'[d].cert = DeviceCertificate(keys, ca)
         /\ \A e \in Device \ {d} : row'[e] = row[e]
         /\ row' \in [Device -> Row \cup {None}]
  <1>1. row[d] \in Row /\ row[d].account = session /\ row[d] # None /\ session # None
    BY DEF SubmitCSR, Owns, ClientTypeOK, Authorised
  <1>2. PICK c \in {None, DeviceCertificate(keys, ca)} :
          row' = [row EXCEPT ![d].key = keys, ![d].cert = c]
    BY DEF SubmitCSR, CreateDeviceCSR
  <1>3. c \in Cert \cup {None}
    BY DeviceCertificateType DEF ClientTypeOK
  <1> DEFINE w == [[row[d] EXCEPT !.key = keys] EXCEPT !.cert = c]
  <1>4. w \in Row /\ w.account = row[d].account /\ w.key = keys /\ w.cert = c
    BY <1>1, <1>3 DEF Row
  <1>5. row'[d] = w /\ \A e \in Device \ {d} : row'[e] = row[e]
    BY <1>2 DEF ClientTypeOK
  <1>6. row' = [e \in Device |-> row'[e]]
    BY <1>2 DEF ClientTypeOK
  <1> HIDE DEF w
  <1>7. row' \in [Device -> Row \cup {None}]
    BY <1>4, <1>5, <1>6 DEF ClientTypeOK
  <1> QED  BY <1>1, <1>2, <1>4, <1>5, <1>7

\* ... and its certificate.
LEMMA SubmitCSRType ==
  ASSUME ClientTypeOK, keys \in Key, EnrollSubmitCSR
  PROVE  ClientTypeOK'
  <1>1. prep' \in Prep
    BY PrepEnds, PrepGoes DEF EnrollSubmitCSR, PrepLabels
  <1>2. row' \in [Device -> Row \cup {None}]
    <2>1. CASE SubmitCSR(prep.device, CreateDeviceCSR(keys))
      <3>1. prep.device \in Device
        BY <2>1 DEF SubmitCSR, Owns, ClientTypeOK, Prep
      <3> QED  BY <2>1, <3>1, SubmitCSRRow
    <2> QED  BY <2>1 DEF EnrollSubmitCSR, ClientTypeOK
  <1> QED  BY <1>1, <1>2 DEF EnrollSubmitCSR, OnlyPrep, ClientTypeOK, vaultVars

\* (an admin's issuing sets the certificate of a row)
LEMMA IssueLaterRow ==
  ASSUME ClientTypeOK, NEW d \in Device, IssueLater(d)
  PROVE  /\ row[d] # None /\ row[d].key \in Key /\ row[d].cert = None
         /\ row'[d] \in Row /\ row'[d].account = row[d].account /\ row'[d].key = row[d].key
         /\ row'[d].cert = DeviceCertificate(row[d].key, ca)
         /\ row'[d].cert.key = row[d].key /\ row'[d].cert \in Cert
         /\ \A e \in Device \ {d} : row'[e] = row[e]
         /\ row' \in [Device -> Row \cup {None}]
  <1>1. /\ row[d] \in Row /\ row[d] # None /\ row[d].key \in Key /\ row[d].cert = None
    BY DEF IssueLater, ClientTypeOK, Row
  <1>2. PICK c : c = DeviceCertificate(row[d].key, ca)
    OBVIOUS
  <1>3. c \in Cert /\ c.key = row[d].key
    BY <1>1, <1>2, DeviceCertificateType DEF ClientTypeOK
  <1>4. row' = [row EXCEPT ![d].cert = c]
    BY <1>2 DEF IssueLater
  <1> DEFINE w == [row[d] EXCEPT !.cert = c]
  <1>5. w \in Row /\ w.account = row[d].account /\ w.key = row[d].key /\ w.cert = c
    BY <1>1, <1>3 DEF Row
  <1>6. row'[d] = w /\ \A e \in Device \ {d} : row'[e] = row[e]
    BY <1>4 DEF ClientTypeOK
  <1>7. row' = [e \in Device |-> row'[e]]
    BY <1>4 DEF ClientTypeOK
  <1> HIDE DEF w
  <1>8. row' \in [Device -> Row \cup {None}]
    BY <1>5, <1>6, <1>7 DEF ClientTypeOK
  <1> QED  BY <1>1, <1>2, <1>3, <1>5, <1>6, <1>8

\* The rest of the receiver keeps the types.
LEMMA ServerType ==
  ASSUME ClientTypeOK, (\E d \in Device : IssueLater(d)) \/ ReplaceServer
  PROVE  ClientTypeOK'
  <1>1. ASSUME NEW d \in Device, IssueLater(d) PROVE ClientTypeOK'
    <2>1. row' \in [Device -> Row \cup {None}]
      BY <1>1, IssueLaterRow
    <2> QED  BY <1>1, <2>1 DEF IssueLater, OnlyServer, ClientTypeOK, vaultVars
  <1>2. CASE ReplaceServer
    <2>1. ca' \in CA /\ row' \in [Device -> Row \cup {None}]
      BY <1>2 DEF ReplaceServer, ClientTypeOK
    <2> QED  BY <1>2, <2>1 DEF ReplaceServer, OnlyServer, ClientTypeOK, vaultVars
  <1> QED  BY <1>1, <1>2

\* CertificateStatus and the checks of EnsureEnrolled keep the types.
LEMMA StatusType ==
  ASSUME ClientTypeOK, PrepInv, EnsureEnrolled \/ CertificateStatus \/ MatchCertificate \/ CacheCertificate
  PROVE  ClientTypeOK'
  <1> USE DEF ClientTypeOK, OnlyPrep, serverVars, vaultVars
  <1>1. CASE EnsureEnrolled
    <2>1. prep' \in Prep
      BY <1>1, PrepGoes DEF EnsureEnrolled, PrepLabels
    <2> QED  BY <1>1, <2>1 DEF EnsureEnrolled
  <1>2. CASE CertificateStatus
    <2>1. prep' \in Prep
      <3>1. CASE /\ stateFile # None /\ CertificateFound(stateFile)
                 /\ prep' = [prep EXCEPT !.pc = "match", !.device = stateFile,
                                         !.cert = row[stateFile].cert]
        <4>1. row[stateFile].cert \in Cert
          BY <3>1 DEF CertificateFound, Owns, Row
        <4> QED  BY <3>1, <4>1 DEF Prep, PrepLabels
      <3> QED  BY <1>2, <3>1, PrepEnds DEF CertificateStatus
    <2> QED  BY <1>2, <2>1 DEF CertificateStatus
  <1>3. CASE MatchCertificate
    <2>1. prep' \in Prep
      BY <1>3, PrepGoes, PrepEnds DEF MatchCertificate, PrepLabels
    <2> QED  BY <1>3, <2>1 DEF MatchCertificate
  <1>4. CASE CacheCertificate
    <2>1. prep' \in Prep
      BY <1>4, PrepGoes, PrepEnds DEF CacheCertificate, PrepLabels
    <2>2. prep.cert \in Cert
      BY <1>4 DEF CacheCertificate, PrepInv, Fetching, Prep
    <2>3. <<prep.cert>> \in Seq(Cert)
      BY <2>2
    <2> QED  BY <1>4, <2>1, <2>3 DEF CacheCertificate
  <1> QED  BY <1>1, <1>2, <1>3, <1>4

\* Signing keeps the types, given which document it has in hand.
LEMMA SignType ==
  ASSUME ClientTypeOK, SignInv, (\E doc \in Doc : SignBegin(doc)) \/ SignStep
  PROVE  ClientTypeOK'
  <1> DEFINE Docs == Doc \cup {Stamped(d) : d \in Doc}
  <1>1. SUFFICES sign' \in Sign
    BY DEF SignStep, SignBegin, SignReadCert, SignReadRoot, SignReadState, SignReserve, SignStamp,
       SignDocument, SignUpload, SignSubmit, OnlySign, serverVars, vaultVars, ClientTypeOK
  <1>2. ASSUME NEW doc \in Doc, SignBegin(doc) PROVE sign' \in Sign
    <2>1. chainFile \in CA
      BY <1>2 DEF SignBegin, ClientTypeOK
    <2>2. <<Intermediate(chainFile)>> \in Seq(Chainable)
      BY <2>1 DEF Chainable
    <2> QED  BY <1>2, <2>2 DEF SignBegin, NoSign, Sign, SignLabels
  <1>3. CASE SignReadCert
    <2>1. CASE certFile # None
      <3>1. certFile \in Seq(Chainable) /\ sign.chain \in Seq(Chainable)
        BY <2>1 DEF ClientTypeOK, Chainable, Sign
      <3>2. certFile \o sign.chain \in Seq(Chainable)
        BY <3>1
      <3>3. sign' = [sign EXCEPT !.pc = "root", !.chain = certFile \o sign.chain]
        BY <1>3, <2>1 DEF SignReadCert
      <3> QED  BY <3>2, <3>3 DEF ClientTypeOK, Sign, SignLabels
    <2> QED  BY <1>3, <2>1, NothingRuns DEF SignReadCert, SignReturns
  <1>4. CASE SignReadRoot \/ SignReadState
    <2>1. CASE SignReturns
      BY <2>1, NothingRuns DEF SignReturns
    <2>2. CASE rootFile # None /\ sign' = [sign EXCEPT !.pc = "device", !.root = rootFile]
      BY <2>2 DEF ClientTypeOK, Sign, SignLabels
    <2>3. CASE sign' = [sign EXCEPT !.pc = "reserve", !.device = stateFile]
      BY <2>3 DEF ClientTypeOK, Sign, SignLabels
    <2> QED  BY <1>4, <2>1, <2>2, <2>3 DEF SignReadRoot, SignReadState
  <1>5. CASE SignReserve \/ SignDocument \/ SignSubmit
    BY <1>5, NothingRuns, SignGoes DEF SignReserve, SignDocument, SignSubmit, SignReturns, SignLabels
  <1>6. CASE SignStamp
    <2>1. sign.doc \in Doc
      BY <1>6 DEF SignStamp, SignInv, Leaving
    <2>2. ASSUME NEW toSign \in Docs, sign' = [sign EXCEPT !.pc = "sign", !.doc = toSign]
          PROVE  sign' \in Sign
      BY <2>2 DEF ClientTypeOK, Sign, SignLabels
    <2>3. sign.doc \in Docs /\ Stamped(sign.doc) \in Docs
      BY <2>1
    <2> HIDE DEF Docs
    <2> QED  BY <1>6, <2>2, <2>3, NothingRuns DEF SignStamp, SignReturns
  <1>7. CASE SignUpload
    <2>1. sign.sent + UploadChunkBytes \in Nat
      BY DEF ClientTypeOK, Sign
    <2>2. ASSUME NEW n \in Nat, sign' = [sign EXCEPT !.sent = n] PROVE sign' \in Sign
      BY <2>2 DEF ClientTypeOK, Sign
    <2> QED  BY <1>7, <2>1, <2>2, NothingRuns, SignGoes DEF SignUpload, SignReturns, SignLabels
  <1> QED  BY <1>2, <1>3, <1>4, <1>5, <1>6, <1>7 DEF SignStep

\* So do the registration tab, Reset and a restart.
LEMMA MenuType ==
  ASSUME ClientTypeOK,
         ConnectRead \/ ConnectWrite \/ ResetBegin \/ ResetRemove \/ ResetEnd \/ Restart
  PROVE  ClientTypeOK'
  <1> USE DEF ClientTypeOK, vaultVars, serverVars
  <1>1. CASE ConnectRead
    BY <1>1 DEF ConnectRead
  <1>2. CASE ConnectWrite
    BY <1>2 DEF ConnectWrite, SaveState
  <1>3. CASE ResetBegin \/ ResetRemove
    BY <1>3 DEF ResetBegin, ResetRemove
  <1>4. CASE ResetEnd \/ Restart
    <2>1. prep' \in Prep /\ sign' \in Sign
      BY <1>4, NothingRuns DEF ResetEnd, Restart
    <2>2. conn' \in [active : BOOLEAN, device : Device \cup {None}]
      <3>1. [active |-> FALSE, device |-> None] \in [active : BOOLEAN, device : Device \cup {None}]
        OBVIOUS
      <3> QED  BY <1>4, <3>1 DEF ResetEnd, Restart
    <2> QED  BY <1>4, <2>1, <2>2 DEF ResetEnd, Restart, Open
  <1> QED  BY <1>1, <1>2, <1>3, <1>4

\* Every step keeps the types.
LEMMA ClientNextType ==
  ASSUME ClientTypeOK, PrepInv, SignInv, [ClientNext]_clientVars
  PROVE  ClientTypeOK'
  <1>1. CASE PrepStep
    <2>1. EnrollSubmitCSR => keys \in Key
      BY DEF EnrollSubmitCSR, PrepInv, Enrolling, ClientTypeOK, Key
    <2> QED  BY <1>1, <2>1, LoginType, VaultType, CreateDeviceType, SubmitCSRType, StatusType
                DEF PrepStep
  <1>2. CASE UNCHANGED clientVars
    BY <1>2 DEF clientVars, vaultVars, serverVars, ClientTypeOK
  <1> QED  BY <1>1, <1>2, LoginType, SignType, MenuType, ServerType DEF ClientNext

-----------------------------------------------------------------------------
(* What steps leave alone *)

\* The parts of the invariant besides the types.
Parts == VaultInv /\ RowInv /\ PrepInv /\ ConnInv /\ StateInv /\ SignInv

\* The invariant holds of a new vault and a new server.
LEMMA ClientInitInv == ClientInit => ClientInv
  <1> SUFFICES ASSUME ClientInit PROVE ClientInv
    OBVIOUS
  <1>1. ClientTypeOK
    BY ClientTypeInit
  <1>2. VaultInv /\ RowInv
    BY DEF ClientInit, VaultInv, RowInv, CertFull, CachedCertMatchesKey
  <1>3. PrepInv
    BY NothingRuns DEF ClientInit, PrepInv, LoggedIn, Enrolling, Fetching
  <1>4. ConnInv /\ StateInv
    BY DEF ClientInit, ConnInv, StateInv
  <1>5. SignInv
    BY NothingRuns DEF ClientInit, SignInv, ChainRead, DeviceRead, Leaving
  <1> QED  BY <1>1, <1>2, <1>3, <1>4, <1>5 DEF ClientInv

\* The vault's part depends on the vault only.
LEMMA VaultFrame ==
  ASSUME VaultInv, UNCHANGED <<dirs, vaultVars, keys, devices>>
  PROVE  VaultInv'
  BY DEF VaultInv, vaultVars, CertFull, CachedCertMatchesKey

\* The receiver's part depends on the rows and the cached certificate.
LEMMA RowFrame ==
  ASSUME RowInv, UNCHANGED <<row, keys, devices, certFile>>
  PROVE  RowInv'
  BY DEF RowInv, CertFull

\* The login call's part depends on the files, rows and session it has seen.
LEMMA PrepFrame ==
  ASSUME PrepInv, UNCHANGED <<prep, session, keyFile, certFile, stateFile, row, keys, devices,
                              resetting>>
  PROVE  PrepInv'
  BY DEF PrepInv, Certified, Owns, CertEmpty

\* A login call that is not running knows nothing.
LEMMA PrepIdle ==
  ASSUME prep'.pc = "idle", prep'.device = None
  PROVE  PrepInv'
  BY DEF PrepInv, LoggedIn, Enrolling, Fetching

\* The part of Connect depends on the files, and on the login call while that
\* fetches a certificate.
LEMMA ConnFrame ==
  ASSUME ConnInv, UNCHANGED <<conn, keyFile, certFile, stateFile, row, resetting, dirs, devices>>,
         \/ prep' = prep
         \/ prep'.pc \notin {"match", "save_cert"}
         \/ prep'.device = stateFile
         \/ prep.pc \in {"match", "save_cert"} /\ prep'.device = prep.device
  PROVE  ConnInv'
  BY DEF ConnInv, Matches, CertFull

\* The device id's part depends on key, device id and rows, and on whether the
\* login call enrols.
LEMMA StateFrame ==
  ASSUME StateInv, UNCHANGED <<clobbered, keyFile, stateFile, row>>,
         \/ prep'.pc \notin {"save_key"} \cup Enrolling
         \/ prep.pc \in {"save_key"} \cup Enrolling
  PROVE  StateInv'
  BY DEF StateInv

\* The part of signing depends on its own variables, key and rows, and on
\* whether a key is being enrolled.
LEMMA SignFrame ==
  ASSUME SignInv, UNCHANGED <<sign, keyFile, row, keys, devices, clobbered>>,
         \/ prep'.pc \notin {"create_device", "csr"}
         \/ prep.pc \in {"create_device", "csr"}
  PROVE  SignInv'
  BY DEF SignInv

\* A step of the login call that touches neither files nor rows: what the call
\* knows afterwards is all there is to show.
LEMMA PrepOnly ==
  ASSUME ClientInv, PrepInv',
         UNCHANGED <<dirs, vaultVars, sign, conn, resetting, row, devices, keys, clobbered>>,
         \/ prep'.pc \notin {"match", "save_cert"}
         \/ prep'.device = stateFile
         \/ prep.pc \in {"match", "save_cert"} /\ prep'.device = prep.device,
         prep'.pc \notin {"save_key"} \cup Enrolling
  PROVE  Parts'
  BY VaultFrame, RowFrame, ConnFrame, StateFrame, SignFrame
     DEF ClientInv, Parts, vaultVars, Enrolling

\* The login call returns.
LEMMA PrepOver ==
  ASSUME ClientInv, NEW result, PrepReturns(result),
         UNCHANGED <<dirs, vaultVars, sign, conn, resetting, row, devices, keys, clobbered>>
  PROVE  Parts'
  <1>1. prep'.pc = "idle" /\ prep'.device = None
    BY PrepEnds
  <1> QED  BY <1>1, PrepIdle, PrepOnly DEF Enrolling

-----------------------------------------------------------------------------
(* Logging in *)

\* Connect and Login: the token is that of the account logging in.
LEMMA LoginParts ==
  ASSUME ClientInv, LoginConnect \/ (\E a \in Account : LoginRequest(a)) \/ LoginSave
  PROVE  Parts'
  <1>0. ClientTypeOK /\ PrepInv
    BY DEF ClientInv
  <1>1. CASE LoginConnect
    <2>1. CASE prep' = [NoPrep EXCEPT !.pc = "login"]
      <3>1. prep'.pc = "login" /\ prep'.device = None
        BY <2>1 DEF NoPrep
      <3>2. PrepInv'
        BY <3>1 DEF PrepInv, LoggedIn, Enrolling, Fetching
      <3> QED  BY <1>1, <3>1, <3>2, PrepOnly DEF LoginConnect, serverVars, Enrolling
    <2> QED  BY <1>1, <2>1, PrepOver DEF LoginConnect, serverVars
  <1>2. ASSUME NEW a \in Account, LoginRequest(a) PROVE Parts'
    <2>1. CASE session' = a /\ prep' = [prep EXCEPT !.pc = "save_email", !.account = a]
      <3>1. prep'.pc = "save_email" /\ prep'.account = a /\ prep'.device = prep.device
        BY <1>0, <2>1 DEF ClientTypeOK, Prep
      <3>2. PrepInv'
        BY <1>0, <1>2, <2>1, <3>1 DEF PrepInv, LoggedIn, Enrolling, Fetching, LoginRequest, serverVars
      <3> QED  BY <1>2, <3>1, <3>2, PrepOnly DEF LoginRequest, serverVars, Enrolling
    <2> QED  BY <1>2, <2>1, PrepOver DEF LoginRequest, serverVars
  <1>3. CASE LoginSave
    <2>1. CASE PrepGoto("check")
      <3>1. prep'.pc = "check" /\ prep'.account = prep.account /\ prep'.device = prep.device
        BY <1>0, <2>1, PrepGoes DEF PrepLabels
      <3>2. PrepInv'
        BY <1>0, <1>3, <3>1 DEF PrepInv, LoggedIn, PrepLabels, Enrolling, Fetching, LoginSave,
           serverVars, OnlyPrep
      <3> QED  BY <1>3, <3>1, <3>2, PrepOnly DEF LoginSave, serverVars, OnlyPrep, Enrolling
    <2> QED  BY <1>3, <2>1, PrepOver DEF LoginSave, serverVars, OnlyPrep
  <1> QED  BY <1>1, <1>2, <1>3

\* The server is asked about the very device id and account: if it does not
\* know a certificate for them, the vault's enrolment is not worth keeping.
LEMMA EnsureParts ==
  ASSUME ClientInv, EnsureEnrolled
  PROVE  Parts'
  <1>0. ClientTypeOK /\ PrepInv /\ VaultInv
    BY DEF ClientInv
  <1>1. CASE PrepGoto("status")
    <2>1. prep'.pc = "status" /\ prep'.account = prep.account /\ prep'.device = prep.device
      BY <1>0, <1>1, PrepGoes DEF PrepLabels
    <2>2. PrepInv'
      BY <1>0, <2>1 DEF PrepInv, LoggedIn, PrepLabels, Enrolling, Fetching, EnsureEnrolled, serverVars,
         OnlyPrep
    <2> QED  BY <2>1, <2>2, PrepOnly DEF EnsureEnrolled, serverVars, OnlyPrep, Enrolling
  <1>2. CASE PrepGoto("wipe_key") /\ (~HasKey \/ DeviceUnknown(stateFile))
    <2>1. prep'.pc = "wipe_key" /\ prep'.account = prep.account /\ prep'.device = prep.device
      BY <1>0, <1>2, PrepGoes DEF PrepLabels
    <2>2. prep.account \in Account /\ (session = None \/ session = prep.account)
      BY <1>0 DEF PrepInv, LoggedIn, PrepLabels, EnsureEnrolled
    <2>3. CertFull => Head(certFile) \in Cert
      BY <1>0 DEF VaultInv, CertFull
    <2>4. ~Certified(prep.account)
      BY <1>2, <2>2, <2>3 DEF HasKey, DeviceUnknown, NotYetIssued, CertificateFound, Authorised, Owns,
         Certified, CertFull
    <2>5. ~Certified(prep.account)'
      BY <2>1, <2>4 DEF Certified, Owns, EnsureEnrolled, vaultVars, serverVars
    <2>6. PrepInv'
      BY <1>0, <2>1, <2>2, <2>5 DEF PrepInv, LoggedIn, PrepLabels, Enrolling, Fetching, EnsureEnrolled,
         serverVars, OnlyPrep
    <2> QED  BY <2>1, <2>6, PrepOnly DEF EnsureEnrolled, serverVars, OnlyPrep, Enrolling
  <1> QED  BY <1>1, <1>2 DEF EnsureEnrolled

-----------------------------------------------------------------------------
(* Wiping and enrolling *)

\* wipeDeviceState: the key goes first, then the certificate, then the id.
LEMMA WipeParts ==
  ASSUME ClientInv, WipeKey \/ WipeCert \/ WipeState
  PROVE  Parts'
  <1>0. /\ ClientTypeOK /\ VaultInv /\ RowInv /\ PrepInv /\ ConnInv /\ StateInv /\ SignInv
    BY DEF ClientInv
  <1>1. CASE WipeKey
    <2>1. /\ prep'.pc = "wipe_cert" /\ prep'.account = prep.account /\ prep'.device = prep.device
          /\ prep.pc = "wipe_key"
      BY <1>0, <1>1, PrepGoes DEF PrepLabels, WipeKey
    <2>2. /\ keyFile' = None
          /\ UNCHANGED <<dirs, certFile, rootFile, chainFile, stateFile, session, sign, conn, resetting,
                         row, devices, keys, clobbered>>
      BY <1>1 DEF WipeKey, DeleteKey, OnlyPrep, serverVars
    <2>3. VaultInv' /\ RowInv'
      BY <1>0, <2>2, RowFrame DEF VaultInv, CertFull, CachedCertMatchesKey
    <2>4. PrepInv'
      BY <1>0, <2>1, <2>2 DEF PrepInv, LoggedIn, PrepLabels, Enrolling, Fetching
    <2>5. ConnInv' /\ StateInv'
      BY <1>0, <2>1, <2>2 DEF ConnInv, Matches, CertFull, StateInv, Enrolling
    <2>6. SignInv'
      BY <1>0, <2>1, <2>2 DEF SignInv
    <2> QED  BY <2>3, <2>4, <2>5, <2>6 DEF Parts
  <1>2. CASE WipeCert
    <2>1. /\ prep'.pc = "wipe_state" /\ prep'.account = prep.account /\ prep'.device = prep.device
          /\ prep.pc = "wipe_cert" /\ keyFile = None
      BY <1>0, <1>2, PrepGoes DEF PrepLabels, WipeCert, PrepInv
    <2>2. /\ certFile' = None \/ certFile' = <<>>
          /\ certFile' # None => dirs
          /\ UNCHANGED <<dirs, keyFile, rootFile, chainFile, stateFile, session, sign, conn, resetting,
                         row, devices, keys, clobbered>>
      BY <1>0, <1>2 DEF WipeCert, CertWiped, Writable, OnlyPrep, serverVars, VaultInv
    <2>3. VaultInv' /\ RowInv'
      BY <1>0, <2>2 DEF VaultInv, CertFull, CachedCertMatchesKey, RowInv
    <2>4. PrepInv'
      BY <1>0, <2>1, <2>2 DEF PrepInv, LoggedIn, PrepLabels, Enrolling, Fetching, CertEmpty
    <2>5. ConnInv' /\ StateInv'
      BY <1>0, <2>1, <2>2 DEF ConnInv, Matches, CertFull, StateInv, Enrolling
    <2>6. SignInv'
      BY <1>0, <2>1, <2>2, SignFrame
    <2> QED  BY <2>3, <2>4, <2>5, <2>6 DEF Parts
  <1>3. CASE WipeState
    <2>1. /\ prep'.pc = "save_key" /\ prep'.account = prep.account /\ prep'.device = prep.device
          /\ prep.pc = "wipe_state" /\ keyFile = None /\ CertEmpty
      BY <1>0, <1>3, PrepGoes DEF PrepLabels, WipeState, PrepInv
    <2>2. /\ stateFile' = None
          /\ UNCHANGED <<dirs, keyFile, certFile, rootFile, chainFile, session, sign, conn, resetting,
                         row, devices, keys, clobbered>>
      BY <1>0, <1>3 DEF WipeState, SaveState, Writable, OnlyPrep, serverVars, VaultInv
    <2>3. VaultInv' /\ RowInv'
      BY <1>0, <2>2, RowFrame DEF VaultInv, CertFull, CachedCertMatchesKey
    <2>4. PrepInv'
      BY <1>0, <2>1, <2>2 DEF PrepInv, LoggedIn, PrepLabels, Enrolling, Fetching, CertEmpty
    <2>5. ConnInv' /\ StateInv'
      BY <1>0, <2>1, <2>2 DEF ConnInv, Matches, CertFull, StateInv, Enrolling
    <2>6. SignInv'
      BY <1>0, <2>1, <2>2, SignFrame
    <2> QED  BY <2>3, <2>4, <2>5, <2>6 DEF Parts
  <1> QED  BY <1>1, <1>2, <1>3

\* The new key is younger than every key in a row, a certificate or a chain.
LEMMA EnrollKeyParts ==
  ASSUME ClientInv, EnrollKey
  PROVE  Parts'
  <1>0. /\ ClientTypeOK /\ VaultInv /\ RowInv /\ PrepInv /\ ConnInv /\ StateInv /\ SignInv
    BY DEF ClientInv
  <1>1. /\ prep.pc = "save_key" /\ keyFile = None /\ CertEmpty /\ keys \in Nat /\ keys' = keys + 1
        /\ UNCHANGED <<dirs, certFile, rootFile, chainFile, stateFile, session, sign, conn, resetting,
                       row, devices, clobbered>>
    BY <1>0 DEF EnrollKey, PrepInv, ClientTypeOK, serverVars
  <1>2. /\ \A d \in Device : row[d] # None /\ row[d].key # None =>
             row[d].key \in Nat /\ row[d].key <= keys
        /\ \A d \in Device : row[d] # None => row[d].key # keys + 1
    BY <1>0, <1>1 DEF RowInv, ClientTypeOK, Row, Key
  <1>3. sign.pc \in ChainRead => /\ Head(sign.chain).key \in Int
                                 /\ Head(sign.chain).key <= keys
    BY <1>0 DEF SignInv, Chainable, Cert, CertificateType, Intermediate, IntermediateCertificate, CaKey,
       Key, CA
  <1>4. PICK n : n = keys + 1 /\ keys' = n /\ n \in Nat /\ n > 0 /\ keys < n
                 /\ \A i \in Int : i <= keys => i <= n /\ i # n
    BY <1>1
  <1>5. /\ keyFile' = None \/ keyFile' = n
        /\ keyFile' # None => dirs
        /\ \/ prep'.pc = "create_device" /\ prep'.account = prep.account /\ prep'.device = prep.device
           \/ prep'.pc = "idle" /\ prep'.device = None
    BY <1>0, <1>1, <1>4, PrepGoes, PrepEnds DEF EnrollKey, SaveKey, Writable, PrepLabels
  <1>6. VaultInv'
    BY <1>0, <1>1, <1>4, <1>5 DEF VaultInv, CertFull, CertEmpty, CachedCertMatchesKey
  <1>7. RowInv'
    BY <1>0, <1>1, <1>2, <1>4 DEF RowInv, CertFull, CertEmpty
  <1>8. PrepInv'
    <2>1. CASE prep'.pc = "create_device"
      BY <1>0, <1>1, <1>2, <1>4, <1>5, <2>1 DEF PrepInv, LoggedIn, PrepLabels, Enrolling, Fetching,
         CertEmpty
    <2> QED  BY <1>5, <2>1, PrepIdle
  <1>9. ConnInv' /\ StateInv'
    BY <1>0, <1>1, <1>5 DEF ConnInv, Matches, CertFull, CertEmpty, StateInv
  <1>10. SignInv'
    BY <1>0, <1>1, <1>3, <1>4, <1>5 DEF SignInv, ChainRead, DeviceRead, SignLabels
  <1> QED  BY <1>6, <1>7, <1>8, <1>9, <1>10 DEF Parts

\* A new device id is nobody's yet; its row has no key.
LEMMA CreateDeviceParts ==
  ASSUME ClientInv, EnrollCreateDevice
  PROVE  Parts'
  <1>0. /\ ClientTypeOK /\ VaultInv /\ RowInv /\ PrepInv /\ ConnInv /\ StateInv /\ SignInv
    BY DEF ClientInv
  <1>1. /\ prep.pc = "create_device" /\ CertEmpty /\ keys \in Nat /\ devices \in Nat
        /\ keyFile = None \/ keyFile = keys
        /\ UNCHANGED <<dirs, certFile, rootFile, chainFile, stateFile, session, sign, conn, resetting,
                       keys, clobbered>>
    BY <1>0 DEF EnrollCreateDevice, PrepInv, Enrolling, ClientTypeOK, OnlyPrep
  <1>2. keyFile' = None \/ keyFile' = keyFile
    BY DEF EnrollCreateDevice, DeleteKey
  <1>3. PICK n : n = devices + 1
    OBVIOUS
  <1>4. n \in Nat /\ n # None /\ devices <= n /\ ~(n <= devices) /\ \A i \in Int : i <= devices => i <= n
    BY <1>1, <1>3
  <1>5. \/ row' = row /\ devices' = devices
        \/ /\ n \in Device /\ row[n] = None /\ devices' = n
           /\ row'[n] \in Row /\ row'[n] # None /\ row'[n].key = None /\ row'[n].cert = None
           /\ \A d \in Device \ {n} : row'[d] = row[d]
    <2>1. CASE CreateDevice
      <3>1. n \in Device /\ NewRow(session) \in Row
        BY <1>0, <1>3, <2>1 DEF CreateDevice, Authorised, ClientTypeOK, NewRow, Row, Device
      <3>2. row'[n] = NewRow(session) /\ \A d \in Device \ {n} : row'[d] = row[d]
        BY <1>0, <1>3, <2>1, <3>1 DEF CreateDevice, ClientTypeOK
      <3>3. row[n] = None /\ devices' = n
        BY <1>0, <1>3, <1>4, <2>1, <3>1 DEF CreateDevice, RowInv
      <3> QED  BY <3>1, <3>2, <3>3 DEF NewRow
    <2> QED  BY <2>1 DEF EnrollCreateDevice
  <1>6. \/ prep'.pc = "idle" /\ prep'.device = None
        \/ /\ prep'.pc = "csr" /\ prep'.device = n /\ prep'.account = prep.account
           /\ devices' = n /\ row'[n].key = None
    <2>1. CASE CreateDevice /\ prep' = [prep EXCEPT !.pc = "csr", !.device = devices + 1]
      <3>1. prep'.pc = "csr" /\ prep'.device = n /\ prep'.account = prep.account
        BY <1>0, <1>3, <2>1 DEF ClientTypeOK, Prep
      <3>2. devices' # devices
        BY <1>1, <2>1 DEF CreateDevice
      <3> QED  BY <1>5, <3>1, <3>2
    <2> QED  BY <2>1, PrepEnds DEF EnrollCreateDevice
  <1>7. /\ \A d \in Device : row'[d] # None => row'[d] = row[d] \/ (d = n /\ row'[d].key = None)
        /\ \A d \in Device : d <= devices => row'[d] = row[d]
        /\ \A d \in Device : d <= devices => d <= devices'
    BY <1>4, <1>5 DEF Device
  <1>8. VaultInv'
    BY <1>0, <1>1, <1>2, <1>7 DEF VaultInv, CertFull, CertEmpty, CachedCertMatchesKey, ClientTypeOK
  <1>9. RowInv'
    BY <1>0, <1>1, <1>4, <1>5 DEF RowInv, CertFull, CertEmpty, Device
  <1>10. PrepInv'
    <2>1. CASE prep'.pc = "csr"
      BY <1>0, <1>1, <1>2, <1>4, <1>6, <1>7, <2>1 DEF PrepInv, LoggedIn, PrepLabels, Enrolling, Fetching,
         CertEmpty
    <2> QED  BY <1>6, <2>1, PrepIdle
  <1>11. ConnInv'
    BY <1>0, <1>1, <1>6, <1>7 DEF ConnInv, Matches, CertFull, CertEmpty, ClientTypeOK
  <1>12. StateInv'
    BY <1>0, <1>1, <1>6 DEF StateInv, Enrolling
  <1>13. SignInv'
    <2>1. sign.device # None => sign.device \in Device /\ sign.device <= devices
      BY <1>0 DEF SignInv, ClientTypeOK, Sign
    <2>2. sign.device # None => row'[sign.device] = row[sign.device] /\ sign.device <= devices'
      BY <1>7, <2>1
    <2> QED  BY <1>0, <1>1, <1>2, <1>6, <2>2 DEF SignInv
  <1> QED  BY <1>8, <1>9, <1>10, <1>11, <1>12, <1>13 DEF Parts

\* The key of the request is that of no other row.
LEMMA SubmitCSRParts ==
  ASSUME ClientInv, EnrollSubmitCSR
  PROVE  Parts'
  <1>0. /\ ClientTypeOK /\ VaultInv /\ RowInv /\ PrepInv /\ ConnInv /\ StateInv /\ SignInv
    BY DEF ClientInv
  <1>1. /\ prep.pc = "csr" /\ CertEmpty /\ keys \in Key /\ keys \in Nat
        /\ keyFile = None \/ keyFile = keys
        /\ prep.device \in Device
        /\ UNCHANGED <<dirs, keyFile, certFile, rootFile, chainFile, stateFile, session, sign, conn,
                       resetting, keys, devices, clobbered>>
    BY <1>0 DEF EnrollSubmitCSR, PrepInv, Enrolling, ClientTypeOK, OnlyPrep, vaultVars, Prep, Key
  <1>2. PICK n \in Device : n = prep.device
    BY <1>1
  <1>3. \/ row' = row
        \/ /\ row[n] # None /\ row[n].key = None /\ row'[n].key = keys
           /\ row'[n] # None
           /\ row'[n].cert # None => row'[n].cert.key = keys
           /\ \A d \in Device \ {n} : row'[d] = row[d]
    <2>1. CASE SubmitCSR(n, CreateDeviceCSR(keys))
      <3>1. row[n] # None => row[n].key = None
        BY <1>0, <1>1, <1>2 DEF PrepInv
      <3>2. DeviceCertificate(keys, ca).key = keys
        BY <1>0, <1>1, DeviceCertificateType DEF ClientTypeOK
      <3> QED  BY <1>0, <1>1, <2>1, <3>1, <3>2, SubmitCSRRow
    <2> QED  BY <1>2, <2>1 DEF EnrollSubmitCSR
  <1>4. \/ prep'.pc = "idle" /\ prep'.device = None
        \/ /\ prep'.pc = "root" /\ prep'.device = n /\ prep'.account = prep.account
           /\ row'[n] # None => row'[n].key = keys
    <2>1. CASE SubmitCSR(n, CreateDeviceCSR(keys)) /\ PrepGoto("root")
      <3>1. row'[n].key = keys
        BY <1>0, <1>1, <2>1, SubmitCSRRow
      <3> QED  BY <1>0, <1>2, <2>1, <3>1, PrepGoes DEF PrepLabels
    <2> QED  BY <1>2, <2>1, PrepEnds DEF EnrollSubmitCSR
  <1>5. \A d \in Device : row[d] # None => row[d].key # keys
    BY <1>0, <1>1 DEF PrepInv
  <1>6. \A d \in Device : (row'[d] # None) <=> (row[d] # None)
    BY <1>3
  <1>7. VaultInv'
    BY <1>0, <1>1, VaultFrame DEF vaultVars
  <1>8. RowInv'
    <2>1. \A d \in Device : row'[d] # None =>
            /\ d <= devices /\ (row'[d].key # None => row'[d].key <= keys)
            /\ row'[d].cert # None => row'[d].cert.key = row'[d].key
      BY <1>0, <1>1, <1>3 DEF RowInv
    <2>2. \A d, e \in Device :
            row'[d] # None /\ row'[e] # None /\ row'[d].key # None /\ row'[d].key = row'[e].key => d = e
      BY <1>0, <1>3, <1>5 DEF RowInv
    <2> QED  BY <1>1, <2>1, <2>2 DEF RowInv, CertFull, CertEmpty
  <1>9. PrepInv'
    <2>1. CASE prep'.pc = "root"
      BY <1>0, <1>1, <1>2, <1>4, <2>1 DEF PrepInv, LoggedIn, PrepLabels, Enrolling, Fetching, CertEmpty
    <2> QED  BY <1>4, <2>1, PrepIdle
  <1>10. ConnInv'
    BY <1>0, <1>1, <1>4 DEF ConnInv, Matches, CertFull, CertEmpty
  <1>11. StateInv'
    BY <1>0, <1>1, <1>4 DEF StateInv, Enrolling
  <1>12. SignInv'
    <2>1. sign.device # None => sign.device \in Device
      BY <1>0 DEF SignInv, ClientTypeOK, Sign
    <2>2. sign.pc \in ChainRead => Head(sign.chain).key # keys
      BY <1>0, <1>1 DEF SignInv
    <2>3. sign.pc \in Leaving => Head(sign.chain).key # None
      BY <1>0 DEF SignInv, Cert, CertificateType, Key
    <2>4. sign.pc \in Leaving => sign.device # None
      BY <1>0 DEF SignInv
    <2>5. sign.pc \in Leaving /\ ~clobbered /\ row'[sign.device] # None =>
            row'[sign.device].key = Head(sign.chain).key
      BY <1>0, <1>3, <2>1, <2>3, <2>4 DEF SignInv
    <2> QED  BY <1>0, <1>1, <1>4, <2>2, <2>5 DEF SignInv, ChainRead, DeviceRead, SignLabels
  <1> QED  BY <1>7, <1>8, <1>9, <1>10, <1>11, <1>12 DEF Parts

\* The public CA material is saved beside, the device id at the end.
LEMMA EnrollSaveParts ==
  ASSUME ClientInv, EnrollRoot \/ EnrollChain \/ EnrollSaveState
  PROVE  Parts'
  <1>0. /\ ClientTypeOK /\ VaultInv /\ RowInv /\ PrepInv /\ ConnInv /\ StateInv /\ SignInv
    BY DEF ClientInv
  <1>1. /\ prep.pc \in {"root", "chain", "save_state"} /\ CertEmpty
        /\ keyFile = None \/ keyFile = keys
        /\ prep.device \in Device /\ prep.device <= devices
        /\ UNCHANGED <<dirs, keyFile, certFile, session, sign, conn, resetting, row, keys, devices,
                       clobbered>>
    BY <1>0 DEF EnrollRoot, EnrollChain, EnrollSaveState, PrepInv, Enrolling, ClientTypeOK, OnlyPrep,
       serverVars, Prep
  <1>2. CASE EnrollRoot \/ EnrollChain
    <2>1. prep'.pc \in {"chain", "save_state"} /\ prep'.account = prep.account
          /\ prep'.device = prep.device
      BY <1>0, <1>2, PrepGoes DEF EnrollRoot, EnrollChain, PrepLabels
    <2>2. stateFile' = stateFile
      BY <1>2 DEF EnrollRoot, EnrollChain
    <2>3. VaultInv'
      BY <1>0, <1>1, <1>2, <2>2 DEF VaultInv, CertFull, CachedCertMatchesKey, EnrollRoot, EnrollChain,
         Writable
    <2>4. PrepInv'
      BY <1>0, <1>1, <2>1, <2>2 DEF PrepInv, LoggedIn, PrepLabels, Enrolling, Fetching, CertEmpty
    <2> QED  BY <1>0, <1>1, <2>1, <2>2, <2>3, <2>4, RowFrame, ConnFrame, StateFrame, SignFrame
                DEF Parts, Enrolling
  <1>3. CASE EnrollSaveState
    <2>1. \/ /\ prep'.pc = "status" /\ prep'.account = prep.account /\ prep'.device = prep.device
             /\ stateFile' = prep.device /\ dirs
          \/ prep'.pc = "idle" /\ prep'.device = None /\ stateFile' = stateFile
      BY <1>0, <1>3, PrepGoes, PrepEnds DEF EnrollSaveState, PrepLabels, SaveState, Writable
    <2>2. UNCHANGED <<rootFile, chainFile>>
      BY <1>3 DEF EnrollSaveState
    <2>3. VaultInv'
      BY <1>0, <1>1, <2>1, <2>2 DEF VaultInv, CertFull, CachedCertMatchesKey
    <2>4. PrepInv'
      <3>1. CASE prep'.pc = "status"
        BY <1>0, <1>1, <2>1, <3>1 DEF PrepInv, LoggedIn, PrepLabels, Enrolling, Fetching
      <3> QED  BY <2>1, <3>1, PrepIdle
    <2>5. ConnInv'
      BY <1>0, <1>1, <2>1 DEF ConnInv, Matches, CertFull, CertEmpty
    <2>6. StateInv'
      BY <1>0, <1>1, <2>1 DEF StateInv, PrepInv, Enrolling
    <2> QED  BY <1>0, <1>1, <2>1, <2>3, <2>4, <2>5, <2>6, RowFrame, SignFrame
                DEF Parts
  <1> QED  BY <1>2, <1>3

-----------------------------------------------------------------------------
(* CertificateStatus *)

\* The certificate fetched is that of the row of the device id just read.
LEMMA StatusParts ==
  ASSUME ClientInv, CertificateStatus
  PROVE  Parts'
  <1>0. ClientTypeOK /\ RowInv /\ PrepInv /\ VaultInv
    BY DEF ClientInv
  <1>1. CASE \E result : PrepReturns(result)
    BY <1>1, PrepOver DEF CertificateStatus, OnlyPrep, serverVars
  <1>2. CASE /\ stateFile # None /\ CertificateFound(stateFile)
             /\ prep' = [prep EXCEPT !.pc = "match", !.device = stateFile,
                                     !.cert = row[stateFile].cert]
    <2>1. /\ prep'.pc = "match" /\ prep'.account = prep.account /\ prep'.device = stateFile
          /\ prep'.cert = row[stateFile].cert
      BY <1>0, <1>2 DEF ClientTypeOK, Prep
    <2>2. /\ stateFile \in Device /\ stateFile <= devices
          /\ row[stateFile] # None /\ row[stateFile].cert # None
          /\ row[stateFile].cert.key = row[stateFile].key
          /\ row[stateFile].key \in Key /\ row[stateFile].key # None /\ row[stateFile].key <= keys
      <3>1. stateFile \in Device /\ stateFile <= devices
        BY <1>0, <1>2 DEF ClientTypeOK, VaultInv
      <3>2. row[stateFile] \in Row /\ row[stateFile] # None /\ row[stateFile].cert \in Cert
        BY <1>0, <1>2, <3>1 DEF CertificateFound, Owns, ClientTypeOK, Row
      <3>3. row[stateFile].cert.key \in Key /\ row[stateFile].cert # None
        BY <3>2 DEF Cert, CertificateType
      <3>4. row[stateFile].cert.key = row[stateFile].key
        BY <1>0, <3>1, <3>2, <3>3 DEF RowInv
      <3>5. row[stateFile].key # None
        BY <3>3, <3>4 DEF Key
      <3> QED  BY <1>0, <3>1, <3>2, <3>3, <3>4, <3>5 DEF RowInv
    <2>3. \A d \in Device : row[d] # None /\ row[d].key = row[stateFile].key => d = stateFile
      BY <1>0, <2>2 DEF RowInv
    <2>4. UNCHANGED <<dirs, vaultVars, session, sign, conn, resetting, row, devices, keys, clobbered>>
          /\ prep.pc = "status"
      BY DEF CertificateStatus, OnlyPrep, serverVars
    <2>5. /\ prep'.cert # None /\ prep'.cert.key <= keys
          /\ row[prep'.device].key = prep'.cert.key
          /\ \A d \in Device : row[d] # None /\ row[d].key = prep'.cert.key =>
               d = prep'.device /\ row[d].cert = prep'.cert
      BY <2>1, <2>2, <2>3
    <2>6. prep'.device # None /\ prep'.device <= devices
      BY <2>1, <2>2 DEF Device
    <2>7. prep.account \in Account /\ (session = None \/ session = prep.account)
      BY <1>0, <2>4 DEF PrepInv, LoggedIn, PrepLabels
    <2>8. PrepInv'
      BY <2>1, <2>4, <2>5, <2>6, <2>7 DEF PrepInv, Enrolling, Fetching
    <2> QED  BY <2>1, <2>4, <2>8, PrepOnly DEF Enrolling
  <1> QED  BY <1>1, <1>2 DEF CertificateStatus

\* Only a certificate of the key in the vault is cached.
LEMMA MatchParts ==
  ASSUME ClientInv, MatchCertificate
  PROVE  Parts'
  <1>0. ClientTypeOK /\ PrepInv
    BY DEF ClientInv
  <1>1. CASE PrepReturns("error")
    BY <1>1, PrepOver DEF MatchCertificate, OnlyPrep, serverVars
  <1>2. CASE keyFile = prep.cert.key /\ PrepGoto("save_cert")
    <2>1. /\ prep'.pc = "save_cert" /\ prep'.account = prep.account /\ prep'.device = prep.device
          /\ prep'.cert = prep.cert
      BY <1>0, <1>2, PrepGoes DEF PrepLabels
    <2>2. UNCHANGED <<dirs, vaultVars, session, sign, conn, resetting, row, devices, keys, clobbered>>
          /\ prep.pc = "match"
      BY DEF MatchCertificate, OnlyPrep, serverVars
    <2>3. PrepInv'
      BY <1>0, <1>2, <2>1, <2>2 DEF PrepInv, LoggedIn, PrepLabels, Enrolling, Fetching, vaultVars
    <2> QED  BY <2>1, <2>2, <2>3, PrepOnly DEF Enrolling
  <1> QED  BY <1>1, <1>2 DEF MatchCertificate, SameKeyPair

\* Caching the certificate, and the serial beside the device id.
LEMMA CacheParts ==
  ASSUME ClientInv, CacheCertificate \/ CacheSerial
  PROVE  Parts'
  <1>0. /\ ClientTypeOK /\ VaultInv /\ RowInv /\ PrepInv /\ ConnInv /\ StateInv /\ SignInv
    BY DEF ClientInv
  <1>1. /\ prep.pc \in {"save_cert", "save_serial"}
        /\ prep.device \in Device /\ prep.device <= devices
        /\ prep.cert \in Cert /\ prep.cert.key <= keys
        /\ keyFile = None \/ keyFile = prep.cert.key
        /\ row[prep.device] # None => row[prep.device].key = prep.cert.key
        /\ \A d \in Device : row[d] # None /\ row[d].key = prep.cert.key =>
             d = prep.device /\ row[d].cert = prep.cert
    BY <1>0 DEF CacheCertificate, CacheSerial, PrepInv, Fetching, ClientTypeOK, Prep
  <1>2. UNCHANGED <<dirs, keyFile, rootFile, chainFile, session, sign, conn, resetting, row, keys,
                    devices, clobbered>>
    BY DEF CacheCertificate, CacheSerial, OnlyPrep, serverVars
  <1>3. /\ \A d \in Device : row[d] # None /\ row[d].cert # None => row[d].cert.key = row[d].key
        /\ \A d \in Device : row[d] # None /\ row[d].cert = prep.cert => d = prep.device
    BY <1>0, <1>1 DEF RowInv
  <1>4. CASE CacheCertificate
    <2>1. CASE PrepReturns("error") /\ UNCHANGED certFile
      BY <1>2, <1>4, <2>1, PrepOver DEF CacheCertificate, vaultVars
    <2>2. CASE dirs /\ certFile' = <<prep.cert>> /\ PrepGoto("save_serial")
      <3>1. /\ prep'.pc = "save_serial" /\ prep'.account = prep.account
            /\ prep'.device = prep.device /\ prep'.cert = prep.cert /\ stateFile' = stateFile
            /\ prep.pc = "save_cert"
        BY <1>0, <1>4, <2>2, PrepGoes DEF PrepLabels, CacheCertificate
      <3>2. certFile' # <<>> /\ certFile' # None /\ Head(certFile') = prep.cert
        <4>1. certFile' \in Seq(Cert)
          BY <1>1, <2>2
        <4>2. certFile' # None
          BY <4>1
        <4>3. <<prep.cert>> # <<>> /\ Head(<<prep.cert>>) = prep.cert
          OBVIOUS
        <4> QED  BY <2>2, <4>2, <4>3
      <3>3. VaultInv'
        BY <1>0, <1>1, <1>2, <2>2, <3>1, <3>2 DEF VaultInv, CertFull, CachedCertMatchesKey
      <3>4. RowInv'
        BY <1>0, <1>1, <1>2, <3>2 DEF RowInv, CertFull
      <3>5. PrepInv'
        BY <1>0, <1>1, <1>2, <2>2, <3>1 DEF PrepInv, LoggedIn, PrepLabels, Enrolling, Fetching
      <3>6. ConnInv'
        BY <1>0, <1>1, <1>2, <1>3, <2>2, <3>1, <3>2 DEF ConnInv, Matches, ClientTypeOK
      <3>7. StateInv'
        BY <1>0, <1>2, <3>1, StateFrame DEF Enrolling
      <3>8. SignInv'
        BY <1>0, <1>2, <3>1, SignFrame
      <3> QED  BY <3>3, <3>4, <3>5, <3>6, <3>7, <3>8 DEF Parts
    <2> QED  BY <1>4, <2>1, <2>2 DEF CacheCertificate, Writable
  <1>5. CASE CacheSerial
    <2>1. /\ prep'.pc = "idle" /\ prep'.device = None /\ certFile' = certFile
          /\ prep.pc = "save_serial"
          /\ certFile = None \/ certFile = <<prep.cert>>
          /\ stateFile' = IF dirs THEN prep.device ELSE stateFile
      BY <1>0, <1>5, PrepEnds DEF CacheSerial, SaveState, Writable, PrepInv
    <2>2. CertFull => Head(certFile) = prep.cert
      BY <2>1 DEF CertFull
    <2>3. VaultInv'
      BY <1>0, <1>1, <1>2, <2>1 DEF VaultInv, CertFull, CachedCertMatchesKey
    <2>4. PrepInv'
      BY <2>1, PrepIdle
    <2>5. ConnInv'
      <3>1. ~dirs => keyFile = None
        BY <1>0 DEF VaultInv
      <3> QED  BY <1>0, <1>2, <1>3, <2>1, <2>2, <3>1 DEF ConnInv, Matches, CertFull, ClientTypeOK
    <2>6. StateInv'
      BY <1>0, <1>1, <1>2, <2>1 DEF StateInv, Enrolling
    <2> QED  BY <1>0, <1>2, <2>1, <2>3, <2>4, <2>5, <2>6, RowFrame, SignFrame
                DEF Parts
  <1> QED  BY <1>4, <1>5

-----------------------------------------------------------------------------
(* SignPDF *)

\* Signing reads the vault and leaves it alone.
LEMMA SignOnly ==
  ASSUME ClientInv, SignInv', UNCHANGED serverVars, OnlySign
  PROVE  Parts'
  BY VaultFrame, RowFrame, PrepFrame, ConnFrame, StateFrame
     DEF ClientInv, Parts, OnlySign, serverVars, vaultVars, Enrolling

\* A signing call that returns.
LEMMA SignOver ==
  ASSUME ClientInv, SignReturns, UNCHANGED serverVars, OnlySign
  PROVE  Parts'
  <1>1. sign'.pc = "idle" /\ sign'.device = None
    BY NothingRuns DEF SignReturns
  <1>2. SignInv'
    BY <1>1 DEF SignInv, ChainRead, DeviceRead, Leaving
  <1> QED  BY <1>2, SignOnly

\* (what stands first when a certificate file is put before a chain)
LEMMA FirstOfChain ==
  ASSUME NEW c, NEW i
  PROVE  /\ <<c>> \o <<i>> # <<>> /\ Head(<<c>> \o <<i>>) = c
         /\ <<>> \o <<i>> = <<i>> /\ <<i>> # <<>> /\ Head(<<i>>) = i
  OBVIOUS

\* The intermediate of an authority has a key that is no device's.
LEMMA IntermediateKey ==
  ASSUME NEW a \in CA
  PROVE  /\ Intermediate(a) \in Chainable /\ Intermediate(a).key \in Int /\ Intermediate(a).key < 0
         /\ Intermediate(a).ca
  <1>1. Intermediate(a) \in Chainable
    BY DEF Chainable
  <1>2. Intermediate(a).key = 0 - a /\ Intermediate(a).ca = TRUE
    BY DEF Intermediate, IntermediateCertificate, CaKey
  <1>3. 0 - a \in Int /\ 0 - a < 0
    BY DEF CA
  <1> QED  BY <1>1, <1>2, <1>3

\* Chain, certificate, root and device id are read one after the other.
LEMMA SignReadParts ==
  ASSUME ClientInv,
         (\E doc \in Doc : SignBegin(doc)) \/ SignReadCert \/ SignReadRoot \/ SignReadState
  PROVE  Parts'
  <1>0. ClientTypeOK /\ VaultInv /\ PrepInv /\ StateInv /\ SignInv
    BY DEF ClientInv
  <1>a. UNCHANGED serverVars /\ OnlySign
    BY DEF SignBegin, SignReadCert, SignReadRoot, SignReadState
  <1>b. UNCHANGED <<prep, keyFile, row, keys, devices, clobbered>>
    BY <1>a DEF serverVars, OnlySign, vaultVars
  <1>1. ASSUME NEW doc \in Doc, SignBegin(doc) PROVE Parts'
    <2>1. sign'.pc = "cert" /\ sign'.doc = doc /\ sign'.chain = <<Intermediate(chainFile)>>
          /\ sign'.device = None
      BY <1>1 DEF SignBegin, NoSign
    <2>2. chainFile \in CA
      BY <1>0, <1>1 DEF SignBegin, ClientTypeOK
    <2>3. SignInv'
      BY <2>1, <2>2 DEF SignInv, ChainRead, DeviceRead, Leaving
    <2> QED  BY <1>a, <2>3, SignOnly
  <1>2. CASE SignReadCert
    <2>1. CASE SignReturns
      BY <1>a, <2>1, SignOver
    <2>2. CASE certFile # None /\ sign' = [sign EXCEPT !.pc = "root", !.chain = certFile \o sign.chain]
      <3>1. /\ sign'.pc = "root" /\ sign'.doc = sign.doc /\ sign'.chain = certFile \o sign.chain
            /\ sign'.device = sign.device /\ sign.pc = "cert"
        BY <1>0, <1>2, <2>2 DEF ClientTypeOK, Sign, SignReadCert
      <3>2. PICK a \in CA : sign.chain = <<Intermediate(a)>>
        BY <1>0, <3>1 DEF SignInv
      <3>3. PICK i : i = Intermediate(a)
        OBVIOUS
      <3>4. i \in Chainable /\ i.key \in Int /\ i.key < 0
        BY <3>3, IntermediateKey
      <3>5. keys \in Nat /\ (prep.pc \in {"create_device", "csr"} => CertEmpty)
        BY <1>0 DEF ClientTypeOK, PrepInv, Enrolling
      <3>6. /\ sign'.chain # <<>> /\ Head(sign'.chain) \in Chainable
            /\ Head(sign'.chain).key <= keys
            /\ prep.pc \in {"create_device", "csr"} => Head(sign'.chain).key # keys
        <4>1. CASE certFile = <<>>
          <5>1. sign'.chain = <<i>> /\ sign'.chain # <<>> /\ Head(sign'.chain) = i
            BY <3>1, <3>2, <3>3, <4>1, FirstOfChain
          <5>2. i.key <= keys /\ i.key # keys
            BY <3>4, <3>5
          <5> QED  BY <3>4, <5>1, <5>2
        <4>2. CASE certFile # <<>>
          <5>1. PICK c \in Cert : certFile = <<c>>
            BY <1>0, <2>2, <4>2 DEF VaultInv
          <5>2. sign'.chain # <<>> /\ Head(sign'.chain) = c
            BY <3>1, <3>2, <5>1, FirstOfChain
          <5>3. Head(certFile) = c /\ c.key <= keys
            <6>1. Head(certFile) = c
              BY <5>1
            <6> QED  BY <1>0, <2>2, <4>2, <6>1 DEF VaultInv, CertFull
          <5> QED  BY <2>2, <3>5, <4>2, <5>1, <5>2, <5>3 DEF Chainable, CertEmpty
        <4> QED  BY <4>1, <4>2
      <3>7. SignInv'
        BY <1>0, <1>b, <3>1, <3>6 DEF SignInv, ChainRead, DeviceRead, Leaving
      <3> QED  BY <1>a, <3>1, <3>7, SignOnly DEF Leaving
    <2> QED  BY <1>2, <2>1, <2>2 DEF SignReadCert
  <1>3. CASE SignReadRoot
    <2>1. CASE SignReturns
      BY <1>a, <2>1, SignOver
    <2>2. CASE sign' = [sign EXCEPT !.pc = "device", !.root = rootFile]
      <3>1. /\ sign'.pc = "device" /\ sign'.doc = sign.doc /\ sign'.chain = sign.chain
            /\ sign'.device = sign.device /\ sign.pc = "root"
        BY <1>0, <1>3, <2>2 DEF ClientTypeOK, Sign, SignReadRoot
      <3>2. SignInv'
        BY <1>0, <1>b, <3>1 DEF SignInv, ChainRead, DeviceRead, Leaving, SignLabels
      <3> QED  BY <1>a, <3>1, <3>2, SignOnly DEF Leaving
    <2> QED  BY <1>3, <2>1, <2>2 DEF SignReadRoot
  <1>4. CASE SignReadState
    <2>1. /\ sign'.pc = "reserve" /\ sign'.doc = sign.doc /\ sign'.chain = sign.chain
          /\ sign'.device = stateFile /\ sign.pc = "device"
      BY <1>0, <1>4 DEF ClientTypeOK, Sign, SignReadState
    <2>2. SignInv'
      BY <1>0, <1>b, <2>1 DEF SignInv, ChainRead, DeviceRead, Leaving, SignLabels, VaultInv, StateInv
    <2> QED  BY <1>a, <2>1, <2>2, SignOnly DEF Leaving
  <1> QED  BY <1>1, <1>2, <1>3, <1>4

\* The key that signs is that of the leaf, hence of the reservation's device.
LEMMA SignDocumentParts ==
  ASSUME ClientInv, SignDocument
  PROVE  Parts'
  <1>0. ClientTypeOK /\ SignInv
    BY DEF ClientInv
  <1>a. UNCHANGED serverVars /\ OnlySign /\ sign.pc = "sign"
    BY DEF SignDocument
  <1>b. UNCHANGED <<prep, keyFile, row, keys, devices, clobbered>>
    BY <1>a DEF serverVars, OnlySign, vaultVars
  <1>1. CASE SignReturns
    BY <1>a, <1>1, SignOver
  <1>2. ASSUME NEW l \in Leaving, SignGoto(l), HasKey, SignsPDF(sign.doc, keyFile, sign.chain),
               LocallyVerified(SignedPDF, sign.root)
        PROVE  Parts'
    <2>1. /\ sign'.pc = l /\ sign'.doc = sign.doc /\ sign'.chain = sign.chain
          /\ sign'.root = sign.root /\ sign'.device = sign.device
      BY <1>0, <1>2, SignGoes DEF Leaving, SignLabels
    <2>2. /\ sign.doc.size <= MaxPDFBytes /\ Head(sign.chain).key = keyFile /\ keyFile # None
          /\ ~Head(sign.chain).ca
      BY <1>2 DEF SignsPDF, SameKeyPair, HasDocumentSigningEKU, HasKey
    <2>3. Head(sign.chain) \in Cert
      <3>1. Head(sign.chain) \in Chainable
        BY <1>0, <1>a DEF SignInv, ChainRead, SignLabels
      <3> QED  BY <2>2, <3>1, IntermediateKey DEF Chainable
    <2>4. sign.doc \in Doc \cup {Stamped(x) : x \in Doc}
      BY <1>0, <1>a DEF SignInv
    <2>6. SignInv'
      BY <1>0, <1>a, <1>b, <2>1, <2>2, <2>3 DEF SignInv, ChainRead, DeviceRead, Leaving, SignLabels
    <2> QED  BY <1>a, <2>6, SignOnly
  <1> QED  BY <1>1, <1>2 DEF SignDocument, Leaving

\* Reserving, stamping, uploading and submitting change no file.
LEMMA SignRequestParts ==
  ASSUME ClientInv, SignReserve \/ SignStamp \/ SignUpload \/ SignSubmit
  PROVE  Parts'
  <1>0. ClientTypeOK /\ SignInv
    BY DEF ClientInv
  <1>a. UNCHANGED serverVars /\ OnlySign
    BY DEF SignReserve, SignStamp, SignUpload, SignSubmit
  <1>b. UNCHANGED <<prep, keyFile, row, keys, devices, clobbered>>
    BY <1>a DEF serverVars, OnlySign, vaultVars
  <1>1. CASE SignReturns
    BY <1>a, <1>1, SignOver
  <1>2. CASE sign.pc = "reserve" /\ Reservable(sign.device) /\ SignGoto("stamp")
    <2>1. /\ sign'.pc = "stamp" /\ sign'.doc = sign.doc /\ sign'.chain = sign.chain
          /\ sign'.root = sign.root /\ sign'.device = sign.device
      BY <1>0, <1>2, SignGoes DEF SignLabels
    <2>2. sign.device # None
      BY <1>2 DEF Reservable, Owns
    <2>3. SignInv'
      BY <1>0, <1>2, <1>b, <2>1, <2>2 DEF SignInv, ChainRead, DeviceRead, Leaving, SignLabels
    <2> QED  BY <1>a, <2>1, <2>3, SignOnly DEF Leaving
  <1>3. ASSUME NEW toSign \in {Stamped(sign.doc), sign.doc}, sign.pc = "stamp",
               sign' = [sign EXCEPT !.pc = "sign", !.doc = toSign]
        PROVE  Parts'
    <2>1. /\ sign'.pc = "sign" /\ sign'.doc = toSign /\ sign'.chain = sign.chain
          /\ sign'.device = sign.device
      BY <1>0, <1>3 DEF ClientTypeOK, Sign
    <2>2. sign.doc \in Doc
      BY <1>0, <1>3 DEF SignInv, Leaving
    <2>3. toSign \in Doc \cup {Stamped(x) : x \in Doc}
      BY <2>2
    <2>4. SignInv'
      BY <1>0, <1>3, <1>b, <2>1, <2>3 DEF SignInv, ChainRead, DeviceRead, Leaving, SignLabels
    <2> QED  BY <1>a, <2>1, <2>4, SignOnly DEF Leaving
  <1>4. CASE /\ sign.pc = "upload"
             /\ SignGoto("submit") \/ \E n : sign' = [sign EXCEPT !.sent = n]
    <2>1. /\ sign'.pc \in Leaving /\ sign'.doc = sign.doc /\ sign'.chain = sign.chain
          /\ sign'.root = sign.root /\ sign'.device = sign.device
      BY <1>0, <1>4 DEF SignGoto, ClientTypeOK, Sign, Leaving
    <2>2. SignInv'
      BY <1>0, <1>4, <1>b, <2>1 DEF SignInv, ChainRead, DeviceRead, Leaving, SignLabels
    <2> QED  BY <1>a, <2>2, SignOnly
  <1> QED  BY <1>1, <1>2, <1>3, <1>4 DEF SignReserve, SignStamp, SignUpload, SignSubmit

-----------------------------------------------------------------------------
(* The registration tab and the account menu *)

\* Connect: what it read is written back later, over an id saved meanwhile.
LEMMA ConnectParts ==
  ASSUME ClientInv, ConnectRead \/ ConnectWrite
  PROVE  Parts'
  <1>0. /\ ClientTypeOK /\ VaultInv /\ RowInv /\ PrepInv /\ ConnInv /\ StateInv /\ SignInv
    BY DEF ClientInv
  <1>1. CASE ConnectRead
    <2>1. /\ session' = None /\ conn'.active /\ conn'.device = stateFile
          /\ UNCHANGED <<dirs, vaultVars, prep, sign, resetting, row, devices, keys, clobbered>>
      BY <1>1 DEF ConnectRead, serverVars
    <2>2. PrepInv'
      BY <1>0, <2>1 DEF PrepInv, Certified, Owns, CertEmpty, vaultVars
    <2>3. ConnInv'
      BY <1>0, <2>1 DEF ConnInv, VaultInv, vaultVars
    <2> QED  BY <1>0, <2>1, <2>2, <2>3, VaultFrame, RowFrame, StateFrame, SignFrame
                DEF Parts, vaultVars
  <1>2. CASE ConnectWrite
    <2>1. /\ conn.active /\ ~conn'.active
          /\ stateFile' = IF dirs THEN conn.device ELSE stateFile
          /\ clobbered' = (clobbered \/ stateFile' # stateFile)
          /\ UNCHANGED <<dirs, keyFile, certFile, rootFile, chainFile, session, prep, sign,
                         resetting, row, devices, keys>>
      BY <1>2 DEF ConnectWrite, SaveState, Writable, serverVars
    <2>2. VaultInv'
      BY <1>0, <2>1 DEF VaultInv, ConnInv, CertFull, CachedCertMatchesKey
    <2>3. RowInv' /\ ConnInv'
      BY <1>0, <2>1, RowFrame DEF ConnInv
    <2>4. ASSUME prep.pc = "wipe_key", ~resetting PROVE ~Certified(prep.account)'
      <3>1. ~Certified(prep.account)
        BY <1>0, <2>4 DEF PrepInv
      <3> QED  BY <1>0, <2>1, <2>4, <3>1 DEF ConnInv, Matches, CertFull, Certified, Owns
    <2>5. PrepInv'
      BY <1>0, <2>1, <2>4 DEF PrepInv, CertEmpty
    <2>6. StateInv' /\ SignInv'
      <3>1. CASE clobbered'
        BY <1>0, <2>1, <3>1 DEF StateInv, SignInv
      <3>2. CASE ~clobbered'
        <4>1. UNCHANGED <<stateFile, clobbered>>
          BY <1>0, <2>1, <3>2 DEF ClientTypeOK
        <4> QED  BY <1>0, <2>1, <4>1, StateFrame, SignFrame
      <3> QED  BY <3>1, <3>2
    <2> QED  BY <2>2, <2>3, <2>5, <2>6 DEF Parts
  <1> QED  BY <1>1, <1>2

\* Reset removes files in any order, and a vault without files promises nothing.
LEMMA ResetParts ==
  ASSUME ClientInv, ResetBegin \/ ResetRemove \/ ResetEnd
  PROVE  Parts'
  <1>0. /\ ClientTypeOK /\ VaultInv /\ RowInv /\ PrepInv /\ ConnInv /\ StateInv /\ SignInv
    BY DEF ClientInv
  <1>1. CASE ResetBegin \/ ResetRemove
    <2>1. /\ resetting'
          /\ keyFile' = keyFile \/ keyFile' = None
          /\ certFile' = certFile \/ certFile' = None
          /\ stateFile' = stateFile \/ stateFile' = None
          /\ rootFile' = rootFile \/ rootFile' = None
          /\ chainFile' = chainFile \/ chainFile' = None
          /\ UNCHANGED <<dirs, session, prep, sign, conn, row, devices, keys, clobbered>>
      BY <1>1 DEF ResetBegin, ResetRemove, vaultVars, serverVars
    <2>2. VaultInv' /\ RowInv'
      BY <1>0, <2>1 DEF VaultInv, RowInv, CertFull, CachedCertMatchesKey
    <2>3. PrepInv'
      BY <1>0, <2>1 DEF PrepInv, CertEmpty
    <2>4. ConnInv' /\ StateInv'
      BY <1>0, <2>1 DEF ConnInv, StateInv
    <2>5. SignInv'
      BY <1>0, <2>1 DEF SignInv
    <2> QED  BY <2>2, <2>3, <2>4, <2>5 DEF Parts
  <1>2. CASE ResetEnd
    <2>1. /\ keyFile = None /\ certFile = None /\ stateFile = None /\ ~dirs' /\ ~resetting'
          /\ UNCHANGED <<vaultVars, session, sign, conn, row, devices, keys, clobbered>>
          /\ rootFile = None /\ chainFile = None
          /\ prep' = prep \/ (prep'.pc = "idle" /\ prep'.device = None)
      BY <1>2, NothingRuns DEF ResetEnd, serverVars
    <2>2. VaultInv' /\ RowInv'
      BY <1>0, <2>1, RowFrame DEF VaultInv, CertFull, CachedCertMatchesKey, vaultVars
    <2>3. PrepInv'
      <3>1. CASE prep' = prep
        BY <1>0, <2>1, <3>1 DEF PrepInv, CertEmpty, Certified, vaultVars
      <3> QED  BY <2>1, <3>1, PrepIdle
    <2>4. ConnInv' /\ StateInv'
      BY <1>0, <2>1 DEF ConnInv, Matches, StateInv, vaultVars, Enrolling
    <2>5. SignInv'
      BY <1>0, <2>1, SignFrame DEF vaultVars
    <2> QED  BY <2>2, <2>3, <2>4, <2>5 DEF Parts
  <1> QED  BY <1>1, <1>2

\* After a restart no call is running.
LEMMA RestartParts ==
  ASSUME ClientInv, Restart
  PROVE  Parts'
  <1>0. VaultInv /\ RowInv /\ StateInv
    BY DEF ClientInv
  <1>1. /\ dirs' /\ ~conn'.active
        /\ prep'.pc = "idle" /\ prep'.device = None /\ sign'.pc = "idle" /\ sign'.device = None
        /\ UNCHANGED <<vaultVars, row, devices, keys, clobbered>>
    BY NothingRuns DEF Restart, Open, serverVars
  <1>2. VaultInv' /\ RowInv'
    BY <1>0, <1>1, RowFrame DEF VaultInv, CertFull, CachedCertMatchesKey, vaultVars
  <1>3. PrepInv' /\ ConnInv'
    BY <1>1, PrepIdle DEF ConnInv
  <1>4. StateInv'
    BY <1>0, <1>1 DEF StateInv, Enrolling, vaultVars
  <1>5. SignInv'
    BY <1>1 DEF SignInv, ChainRead, DeviceRead, Leaving
  <1> QED  BY <1>2, <1>3, <1>4, <1>5 DEF Parts

-----------------------------------------------------------------------------
(* The receiver *)

\* A certificate issued later is for a row whose key no cached or fetched
\* certificate has.
LEMMA IssueLaterParts ==
  ASSUME ClientInv, NEW d \in Device, IssueLater(d)
  PROVE  Parts'
  <1>0. /\ ClientTypeOK /\ VaultInv /\ RowInv /\ PrepInv /\ ConnInv /\ StateInv /\ SignInv
    BY DEF ClientInv
  <1>1. /\ row[d] # None /\ row[d].key \in Key /\ row[d].key # None /\ row[d].cert = None
        /\ row'[d] # None /\ row'[d].account = row[d].account /\ row'[d].key = row[d].key
        /\ row'[d].cert # None /\ row'[d].cert.key = row[d].key
        /\ \A e \in Device \ {d} : row'[e] = row[e]
    BY <1>0, IssueLaterRow DEF Key
  <1>2. \A e \in Device : /\ row'[e] = None <=> row[e] = None
                          /\ row'[e].key = row[e].key /\ row'[e].account = row[e].account
    BY <1>1
  <1>3. UNCHANGED <<dirs, vaultVars, session, prep, sign, conn, resetting, devices, keys, clobbered>>
    BY DEF IssueLater, OnlyServer
  <1>4. CertFull => Head(certFile) \in Cert /\ row[d].key # Head(certFile).key
    <2>1. CertFull => Head(certFile) \in Cert
      BY <1>0 DEF VaultInv, CertFull
    <2> QED  BY <1>0, <1>1, <2>1 DEF RowInv
  <1>5. CertFull => row'[d].cert # Head(certFile)
    BY <1>1, <1>4
  <1>6. RowInv'
    <2>1. CertFull' = CertFull /\ certFile' = certFile
      BY <1>3 DEF CertFull, vaultVars
    <2>2. \A e \in Device : row'[e] # None =>
            /\ e <= devices' /\ (row'[e].key # None => row'[e].key <= keys')
            /\ row'[e].cert # None => row'[e].cert.key = row'[e].key
      BY <1>0, <1>1, <1>3 DEF RowInv
    <2>3. \A e, f \in Device : row'[e] # None /\ row'[f] # None /\ row'[e].key # None
                                 /\ row'[e].key = row'[f].key => e = f
      BY <1>0, <1>2 DEF RowInv
    <2>4. CertFull => \A e \in Device :
            row'[e] # None /\ row'[e].key = Head(certFile).key => row'[e].cert = Head(certFile)
      BY <1>0, <1>1, <1>4 DEF RowInv
    <2> QED  BY <2>1, <2>2, <2>3, <2>4 DEF RowInv
  <1>7. ~Certified(prep.account) => ~Certified(prep.account)'
    BY <1>0, <1>1, <1>2, <1>3, <1>5 DEF Certified, Owns, CertFull, vaultVars, ClientTypeOK
  <1>8. PrepInv'
    <2>1. prep.pc \in Fetching => row[d].key # prep.cert.key
      BY <1>0, <1>1 DEF PrepInv
    <2>2. prep.pc \in Fetching => \A e \in Device : row'[e] # None /\ row'[e].key = prep.cert.key =>
            e = prep.device /\ row'[e].cert = prep.cert
      BY <1>0, <1>1, <2>1 DEF PrepInv
    <2>3. prep.device \in Device \cup {None}
      BY <1>0 DEF ClientTypeOK, Prep
    <2> QED  BY <1>0, <1>2, <1>3, <1>7, <2>2, <2>3
                DEF PrepInv, CertEmpty, vaultVars, Enrolling, Fetching
  <1>9. ConnInv'
    BY <1>0, <1>1, <1>3, <1>5 DEF ConnInv, Matches, CertFull, vaultVars, ClientTypeOK
  <1>10. StateInv'
    BY <1>0, <1>2, <1>3 DEF StateInv, vaultVars, ClientTypeOK
  <1>11. SignInv'
    <2>1. sign.device \in Device \cup {None}
      BY <1>0 DEF ClientTypeOK, Sign
    <2> QED  BY <1>0, <1>2, <1>3, <2>1 DEF SignInv, vaultVars, Leaving
  <1> QED  BY <1>0, <1>3, <1>6, <1>8, <1>9, <1>10, <1>11, VaultFrame DEF Parts

\* A new server knows no device.
LEMMA ReplaceServerParts ==
  ASSUME ClientInv, ReplaceServer
  PROVE  Parts'
  <1>0. /\ ClientTypeOK /\ VaultInv /\ PrepInv /\ ConnInv /\ StateInv /\ SignInv
    BY DEF ClientInv
  <1>1. /\ \A d \in Device : row'[d] = None
        /\ UNCHANGED <<dirs, vaultVars, session, prep, sign, conn, resetting, devices, keys, clobbered>>
    BY DEF ReplaceServer, OnlyServer
  <1>2. RowInv'
    BY <1>1 DEF RowInv
  <1>3. PrepInv'
    <2>1. prep.device \in Device \cup {None} /\ stateFile \in Device \cup {None}
      BY <1>0 DEF ClientTypeOK, Prep
    <2>2. ~Certified(prep.account)'
      BY <1>1, <2>1 DEF Certified, Owns, vaultVars
    <2> QED  BY <1>0, <1>1, <2>1, <2>2 DEF PrepInv, CertEmpty, vaultVars, Enrolling, Fetching
  <1>4. ConnInv' /\ StateInv'
    BY <1>0, <1>1 DEF ConnInv, Matches, StateInv, vaultVars, ClientTypeOK
  <1>5. SignInv'
    <2>1. sign.device \in Device \cup {None}
      BY <1>0 DEF ClientTypeOK, Sign
    <2> QED  BY <1>0, <1>1, <2>1 DEF SignInv, vaultVars, Leaving
  <1> QED  BY <1>0, <1>1, <1>2, <1>3, <1>4, <1>5, VaultFrame DEF Parts

-----------------------------------------------------------------------------
(* The theorems *)

\* Every step keeps the invariant.
LEMMA ClientNextInv == ClientInv /\ [ClientNext]_clientVars => ClientInv'
  <1> SUFFICES ASSUME ClientInv, [ClientNext]_clientVars PROVE ClientInv'
    OBVIOUS
  <1>1. ClientTypeOK'
    BY ClientNextType DEF ClientInv
  <1>2. Parts'
    <2>1. CASE PrepStep
      BY <2>1, LoginParts, EnsureParts, WipeParts, EnrollKeyParts, CreateDeviceParts,
         SubmitCSRParts, EnrollSaveParts, StatusParts, MatchParts, CacheParts DEF PrepStep
    <2>2. CASE SignStep
      BY <2>2, SignReadParts, SignDocumentParts, SignRequestParts DEF SignStep
    <2>3. CASE UNCHANGED clientVars
      BY <2>3, VaultFrame, RowFrame, PrepFrame, ConnFrame, StateFrame, SignFrame
         DEF clientVars, vaultVars, serverVars, ClientInv, Parts
    <2> QED  BY <2>1, <2>2, <2>3, LoginParts, SignReadParts, ConnectParts, ResetParts, RestartParts,
                IssueLaterParts, ReplaceServerParts DEF ClientNext
  <1> QED  BY <1>1, <1>2 DEF ClientInv, Parts

(* The invariant holds throughout: what the vault, the rows of the receiver   *)
(* and the calls in flight (appcore.go) know of each other, for any number of *)
(* accounts, keys, devices, authorities and documents.                        *)
THEOREM ClientInvariance == ClientSpec => []ClientInv
  <1> QED  BY ClientInitInv, ClientNextInv, PTL DEF ClientSpec

(* Vault, calls and rows keep their types.                                    *)
THEOREM ClientTypeCorrect == ClientSpec => []ClientTypeOK
  <1>1. ClientInv => ClientTypeOK
    BY DEF ClientInv
  <1> QED  BY <1>1, ClientInvariance, PTL

(* The cached certificate belongs to the key in the vault (appcore.go:225-230 *)
(* believes it unseen), through killed enrolments, resets and new servers.    *)
THEOREM CachedCertBelongs == ClientSpec => []CachedCertMatchesKey
  <1>1. ClientInv => CachedCertMatchesKey
    BY DEF ClientInv, VaultInv
  <1> QED  BY <1>1, ClientInvariance, PTL

(* What SignPDF uploads is signed by the key that the server has for the      *)
(* device of the reservation (appcore.go:326-365), unless Connect wrote an    *)
(* old device id back.                                                        *)
THEOREM UploadsMatchReservation == ClientSpec => []UploadMatchesReservation
  <1>1. ClientInv => UploadMatchesReservation
    BY DEF ClientInv, SignInv, Leaving, UploadMatchesReservation
  <1> QED  BY <1>1, ClientInvariance, PTL

(* EnsureEnrolled never discards a key that the server certified for the user *)
(* logging in, whatever requests fail (appcore.go:131-133): only Reset does.  *)
THEOREM CertifiedKeyIsKept == ClientSpec => CertifiedKeyKept
  <1>1. ASSUME ClientInv, [ClientNext]_clientVars, Certified(prep.account), keyFile' # keyFile
        PROVE  resetting
    <2>0. PrepInv
      BY <1>1 DEF ClientInv
    <2>1. CASE PrepStep
      <3>1. WipeKey => resetting
        BY <1>1, <2>0 DEF WipeKey, PrepInv
      <3>2. ~EnrollKey
        BY <1>1, <2>0 DEF EnrollKey, PrepInv, Certified
      <3>3. ~EnrollCreateDevice
        BY <1>1, <2>0 DEF EnrollCreateDevice, PrepInv, Enrolling, CertEmpty, Certified
      <3> QED  BY <1>1, <2>1, <3>1, <3>2, <3>3
                  DEF PrepStep, LoginSave, EnsureEnrolled, WipeCert, WipeState, EnrollSubmitCSR,
                      EnrollRoot, EnrollChain, EnrollSaveState, CertificateStatus, MatchCertificate,
                      CacheCertificate, CacheSerial, vaultVars
    <2>2. CASE SignStep
      BY <1>1, <2>2 DEF SignStep, SignReadCert, SignReadRoot, SignReadState, SignReserve, SignStamp,
         SignDocument, SignUpload, SignSubmit, OnlySign, vaultVars
    <2>3. CASE ResetRemove
      BY <2>3 DEF ResetRemove
    <2>4. CASE UNCHANGED clientVars
      BY <1>1, <2>4 DEF clientVars, vaultVars
    <2> QED  BY <1>1, <2>1, <2>2, <2>3, <2>4
                DEF ClientNext, LoginConnect, LoginRequest, SignBegin, OnlySign, ConnectRead,
                    ConnectWrite, ResetBegin, ResetEnd, Restart, IssueLater, ReplaceServer,
                    OnlyServer, vaultVars
  <1>2. ClientInv /\ [ClientNext]_clientVars =>
          [Certified(prep.account) /\ keyFile' # keyFile => resetting]_clientVars
    BY <1>1
  <1> QED  BY <1>2, ClientInvariance, PTL DEF ClientSpec, CertifiedKeyKept
=============================================================================
