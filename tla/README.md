# TTD_ELEKTRONIK in TLA+

A specification of the core of the post-quantum document signing system in
`src/`: the receiver API that reserves signature ids and records signed
documents, the life of accounts, devices and certificates, the resumable
uploads, the offline certification authority `ca-admin`, the start-up and
administration of the receiver, and the Windows client. The modules are
model-checked with TLC on small instances; every safety property the passing
runs check is also proved with TLAPS, for all values of the constants.

## 1. The system

| Part | State it keeps | Operations | Talks to |
|---|---|---|---|
| Receiver: reservation and submission (`server/internal/api/handlers.go`, `verify.go`) | rows of reservations and signatures, objects (signed PDFs), CRL in memory | `hReserve`, `hSubmitDocument`, `strictVerify`, `publicRecord`, `hDownload`, `hImportCRL` | store, object store, `core/verification` |
| Receiver: accounts, devices, enrolment (`handlers.go`, `accounts.go`, `devissue.go`) | rows of accounts, devices, enrolments, certificates; access tokens held by clients | `hRegister`, `hLogin`, `hApproveAccount`, `hEnableAccount`, `hDisableAccount`, `hDeleteAccount`, `hCreateDevice`, `hReportLost`, `hSubmitCSR`, `hApproveEnrollment`, `hIssueCertificate`, `hLabIssue`, `hRevoke` | store, `ca-admin` as a child process |
| Receiver: resumable uploads (`uploads.go`, consumers in `handlers.go`, `stamp.go`) | map of sessions under one mutex, scratch files | create, chunk, status, submit by `upload_id`, stamp by `upload_id`, reaper | file system, submission |
| `ca-admin` (`tools/ca-admin`) | `ledger.json`, `public/crl.pem`, `issued.jsonl` | `issue`, `batch-issue`, `revoke`, `crl`, ceremony, backup, restore | receiver (starts it), operators |
| Receiver: start-up (`cmd/api/main.go`, `api.go`, `store/postgres.go`) | tables `schema_migrations`, `accounts` | `applyMigrations`, `ensureSuperAdmin`, size limits | store, other processes on the same database |
| Receiver: administration (`accounts.go`) | rows of administrators | `hCreateAdmin`, `hUpdateAdmin`, `hDeleteAdmin` | store |
| Receiver: authentication, routing, rate limiting (`api.go`, `auth/`, `ratelimit.go`) | signing key, tokens held by clients, buckets per client | `hLogin`, `authed`, token issue and parse, limiter middleware | every handler |
| Stores (`server/internal/store`) | Postgres tables, in-memory maps, objects in a file system, the database or S3 | row operations | receiver |
| Windows client (`apps/windows`) | vault: key, certificate, root, chain, `state.json`; token in memory | connect, log in, enrol, certificate status, sign, reset | receiver, core |
| Android client (`apps/android`) | the same in the platform's key vault | the same | receiver, core |
| Core (`core/`) | none | PDF signing and verification, CSR and certificate checks, PQC keys | receiver, clients, `ca-admin` |

How they interact. A client registers, is approved by an admin, logs in,
creates a device and sends a CSR. For an active account the receiver runs
`ca-admin issue` and binds the certificate to the enrolment. To sign, the
client reserves a public id, signs the PDF locally with that id inside, and
submits it, directly or by way of a resumable upload. The receiver verifies
and stores it and shows it on a public page. Disabling or deleting an account
revokes its certificates, through `ca-admin revoke` and `ca-admin crl`, and
marks their devices lost.

What is hard. Every HTTP request is a goroutine; the handlers hold neither a
lock nor a transaction, so two requests interleave at every store call. The
receiver waits up to 30 seconds for a child process between a check and the
write that depends on it. `ca-admin` rewrites its files in place without a
lock and may be killed by the receiver's time limit. Errors of several store
calls are dropped. The process may die between two writes that belong
together. One mutex is held while bytes arrive from a client. Several processes
may start on one database. The client's window runs its calls in goroutines of
their own over five files that are written one by one, and every request may be
lost before or after the receiver has acted on it. `PROJECT.json` lists these
hazards, each at its line.

What makes each part correct:

- *Submission*: a public id gets at most one record, which never changes and
  was backed by a sound document of the reserving device; acknowledgements are
  repeatable; withdrawal of a certificate or device takes effect for every
  verified submission that starts later; the stored bytes are those recorded.
- *Accounts*: a certificate always has an approved account; disabling one revokes
  all its certificates, and a failing call costs only the certificate it is about;
  a revoked certificate stays revoked; the CRL lists nothing without a reason.
- *CA*: a revocation that was reported as recorded stays in the ledger; the
  published CRL never loses entries.
- *Uploads*: a scratch file is a prefix of the document; a session's size is
  true; limits hold over many chunks; no file is forgotten; sessions
  expire.
- *Start-up and administration*: a migration takes effect once; there is one
  super administrator, which no handler changes; every process comes up; a
  session does not outlive its account for good.
- *Client*: the certificate in the vault belongs to the key; a certified key is
  not thrown away because a request failed; what is uploaded was signed by the
  device of the reservation.

## 2. The modules

| Module | Models | Uses |
|---|---|---|
| `SignatureRegistry` | what the receiver promises about records: write-once, owned by the reservation, truthful acknowledgements | |
| `Submission` | `hReserve`, `hSubmitDocument`, `strictVerify`, `publicRecord`, `hDownload` at the grain of store calls | implements `SignatureRegistry` |
| `SubmissionProofs` | theorems about `Submission` | `Submission` |
| `CaLedger` | `ca-admin issue`, `revoke`, `crl` at the grain of file operations | |
| `CaLedgerProofs` | theorems about `CaLedger` | `CaLedger` |
| `AccountLifecycle` | accounts, tokens, devices, enrolments, certificates and the cascade | extends (composes with) `CaLedger` |
| `AccountLifecycleProofs` | theorems about `AccountLifecycle` and the CA composed with it | `AccountLifecycle`, `CaLedgerProofs` |
| `Uploads` | upload sessions, scratch files, mutex, reaper and consumers | |
| `UploadsProofs` | theorems about `Uploads` | `Uploads` |
| `Verification` | what `core/certutil`, `core/enrollment`, `core/signing` and `core/verification` decide, as operators | |
| `Client` | `appcore`, its vault and its API client, with the receiver as it answers them | extends `Verification` |
| `ClientProofs` | theorems about `Client` | `Client` |
| `Administration` | migrations, super administrator, sessions, administrator accounts, size limits | |
| `AdministrationProofs` | theorems about start-up, administration and the size limits | `Administration` |
| `MC...` | constants and symmetry for TLC | the module they are named after |

### Submission

`reservation`, `signature`, `object`, `device` and `cert` are the rows and
objects; `crl` is `Server.crl`; `pc` and `job` are the progress and the local
variables of a handler. One action is one store call together with the code up
to the next one, so `ReserveDevice`, `ReserveCertificate` and `ReserveCreate`
are `hReserve`; `SubmitReservation`, `SubmitReplay`, `SubmitInput`,
`SubmitPutObject`, `SubmitCreateSignature` and `SubmitSetAccepted` are
`hSubmitDocument`; the `Verify...` actions are `strictVerify`. What other
handlers do to the rows a submission reads (`BindCertificate`,
`RevokeCertificate`, `ReportLost`, `ImportCRL`) are one action each. `Crash`
kills and restarts the process. With `DbMayFail` any store call may return an
error, and the model then does what the code does with it, which is often to
drop it: `PublicStatus` takes the set of its lookups that fail, and a failing one
hides the withdrawal it would have found. `PutObject` and `OpenObject` are the
objects table of the database.

`answer` is what the client is told. `seen` is a history variable: what was
already revoked, lost or acknowledged when the request arrived.

Abstractions: a document is a record of the facts the checks depend on
(public id inside, signing certificate, soundness, size class); a hash is the
document it belongs to, SHA-512 being taken as injective; sizes are classes
around the three limits; the month stands for the date part of the object key.

### CaLedger

`cmd[p]` is a running command with its copy of the ledger. `os.WriteFile`
truncates and then writes, two steps, with `Torn` as the content in between;
when two writers overlap, `Written` allows the torn result as well. `Kill`
stops a command anywhere. `certs`, `confirmed` and `published` are history.
`batch-issue` is `issueOne` several times and is left out.

### AccountLifecycle

Handlers that make one store call are one action; `hSubmitCSR`, `hLabIssue`,
`hIssueCertificate`, `hDisableAccount` and `hDeleteAccount` are several. The
`ca-admin` command a handler starts runs in the slot of the request: the
handler's action is conjoined with the command's first action, and the
`...Returns` actions wait for it to finish, whichever way. `token` holds the
accounts with an unexpired access token: the code never checks a token against
the account again, so disabling does not remove it. Foreign keys of the schema
are `Referenced`, unique serials are in `InsertCertificate`. With `OperatorRuns`
an operator at the CA's machine runs `revoke` and `crl` as well
(`OperatorCommand`). `ImportCRL` is an admin who imports any CRL that was ever
published, as `hImportCRL` compares nothing.

A fault is a store call whose error the handler drops, a killed command, or a
`Crash` of the receiver, which forgets the handlers in flight and reads the
configured CRL file, a copy of any age; `MaxFaults` bounds their number. In the
cascade the list may come back short (`postgres.go:324-327`), the row of a
certificate or of a device may stay as it was (`accounts.go:257`, `:261`), and the
serial goes to the CA all the same; `caOnly` remembers serials that were sent to
the CA, by an operator or by the cascade, while their row was not revoked. `held`
and `found` in a job are the certificates the cascade still answers for: a failed
call takes its own certificate out.

### Uploads

`listed` is the map `um.m`, `file` and `linked` the scratch files and their
directory entries, `mutex` the holder of `um.mu`. The mutex is explicit for
the chunk copy, which several steps of others can overlap; sections that hold
it for a single step are guarded by `Free`. `CopyByte` appends a byte,
`CopyEnd` is the end of the copy, complete or cut off. The parts of
`hSubmitDocument` that `Submission` models are one step here, with refusal and
failure left open. A restart forgets the sessions and leaves their files;
`orphaned` remembers which.

### Verification and Client

A document is its size and its signatures, a PEM file the sequence of its
certificates, a certificate its key, its issuing authority and whether it is a
CA. `SignsPDF` and `SignPDF` are `signing.SignPDF`, `VerifyPDF` is
`verification.VerifyPDF` for a caller without CRL.

`Client` has three kinds of calls that overlap: `prep` is `Connect`, `Login` and
`Prepare` (that is `EnsureEnrolled` with `wipeDeviceState` and `enrollDevice`,
then `CertificateStatus`); `sign` is `SignPDF`; `conn` is the `Connect` of the
registration tab; `resetting` is `Reset`, which is `os.RemoveAll`. The window
keeps two calls of one kind apart, as its buttons do. Every file access and
every request is a step. A request fails, is carried out, or is carried out and
its answer lost. `row` is what the receiver knows of devices, with `IssueLater`
for an admin who issues by hand and `ReplaceServer` for the "fresh server /
wiped database / switched server URL" of the code's comment. `Restart` ends the
process anywhere and opens the vault again.

Abstractions: `state.json` is its device id; the vault's files hold a key, a
certificate or an authority; the key file is not encrypted (the window uses no
PIN); `ReportLost` leaves the vault alone, its effect is that `SignReserve` may
be refused.

### Administration

`server[p]` is a process between `OpenPostgres` and `ListenAndServe`: the
`Migrate...` actions are the statements of `applyMigrations`, the `Boot...`
actions those of `ensureSuperAdmin`. A migration's transaction takes effect in
`MigrateCommit`; a body waits for another transaction with the same body
because it locks what it creates. A failing query counts as "not applied", a
failing list as an empty one, as in the code. `call[c]` is a request of several
store calls: `LoginRead` and `LoginIssue` are `hLogin`, `UpdateAdmin`,
`UpdatePassword` and `UpdateStatus` are `hUpdateAdmin`, `DeleteAdmin`,
`DeleteRow` and `Tombstone` are `hDeleteAdmin`. `Authed` reads the role from
the token and never the row. `NewLimits` and `ConfiguredLimits` are the size
limits of `New` and `main`.

## 3. What is checked

Twelve runs; "pass" unless said otherwise.

| Run | Question | Bounds |
|---|---|---|
| `Submission_race` | Is what the public page calls active really backed, are revocation and loss barriers, is an acknowledged submission replayed? | 3 requests, 2 at a time, 2 accounts, 2 devices, 3 certificates (2 of one device with the same NotBefore), 3 documents, crashes |
| `Submission_faults` | Does the receiver implement the registry, does the inductive invariant hold, and what can the public page still claim, when any store call may fail? | 3 requests, 2 at a time, all size classes, 2 months, CRL import, crashes, failing store |
| `Submission_object_overwritten` (violation) | Do the bytes of a record stay those recorded? | 2 of 3 requests overlapping |
| `Submission_crash_retry` (violation) | Does every recorded document's reservation become accepted? | one request at a time, fair handlers, a crash |
| `CaLedger_lost_update` (violation) | Does the ledger keep revocations when two commands overlap? | 2 commands |
| `Account` | Do certificates keep an approved account, what does a cascade miss, is whatever the CRL lists explained, does anything revive a revoked certificate, do ledger and published CRL lose nothing? | 3 overlapping handlers or operator's commands, 1 serial, CRL number up to 2, issuing by hand, CRL imports, 1 fault (store call, command or receiver); `ca-admin` commands take turns |
| `Account_issue_race` (violation) | Does a disabled account hold no active certificate when a CSR overlaps the cascade? | 2 handlers, no fault |
| `Uploads` | Is a file always a prefix within the limit, the size true and every scratch file accounted for? | 1 upload, 4 requests, a document of 3 bytes against a limit of 1, restarts |
| `Uploads_stalled` (violation) | Do sessions expire after two hours? | 2 uploads, 3 requests, no restart, fair |
| `Client` | Does the certificate belong to the key, is an upload signed by the reserving device, does a failing request never cost a certified key? | 1 account, 2 keys, 2 devices, 2 authorities, every request may be lost, process killed anywhere |
| `Client_not_ready` (violation) | Is a client that reports "active" able to sign? | the same |
| `Administration` | Do migrations run once, is there one untouched super administrator, do all processes come up, do sessions end? | 2 processes with different settings, 2 migrations, 2 accounts, 2 overlapping calls, 1 kill or failing store call, fair |

Why the bounds are enough to be interesting. A race needs two requests in
flight and a third to observe or to have prepared the state (reserve, submit,
resubmit); that is what three requests are for. Two certificates of one device
tie on `NotBefore`, the case in which `CertificateByDevice` is arbitrary. Two
months make two object keys of one public id. In `Account` three slots are enough
for an enrolment, a cascade and a command or second handler that gets between
them; the fault may hit any store call, command or moment. That it costs no other
certificate is proved for any number of certificates and faults. The document in `Uploads` is
longer than the limit and the byte above it, so a file can pass the limit in one
chunk or in several. In `Client` the second key and the second device are those
of an enrolment after the first was wiped, the second authority that of a
replaced server; the document is within the verifier's ceiling when it is signed
and above it when it is stamped and signed, and it takes two chunks to send. In
`Administration` the second process has another user name and a password of its
own, so that both could create a super administrator; the second migration is
the one that forbids it. `MaxCRL`, `MaxMonth`, `MaxInFlight`, `MaxRequests`,
`MaxKeys`, `MaxDevices`, `MaxCA`, `MaxAccounts` and `MaxFaults` are the
artificial bounds; each is a guard or the range of a variable in its module.

Deadlock checking is on in all runs but `Administration`, where servers without
calls rest.

Symmetry is used for requests and serials, in runs without liveness only.

### Fairness

`FairSpec` gives weak fairness to each request's own steps: a goroutine that
has begun is scheduled, store calls return, and verification has a time limit.
Nothing makes a client send a request, an admin act, or a process crash.
`FairUploadSpec` gives strong fairness to the steps of a request and to the
reaper, as `sync.Mutex` hands over to waiters and the ticker goes on. A chunk with
bytes left to read is excepted: the server sets no time limit on a request body
(`main.go:91-95`), so a client may stop sending and keep its connection. That is
all `Uploads_stalled` needs.
`FairAdminSpec` gives weak fairness to each process's start-up, restart
included (`deploy/local/docker-compose.yml:62`, "restart: unless-stopped"; the
compose file of `deploy/lab` has no such policy, and there a process that loses a
migration race stays down), and
to the expiry of each token (15 minutes). Calls need not finish. `ServersComeUp`
needs that faults are finitely many (`MaxFaults`).

### Assumptions of the models

- A store call that fails has no effect.
- An object is written and read in one step. This is what the database backend
  and a completed rename do; the shared temporary name of the file system
  backend is left for a module of its own.
- Scratch files are append-only, so reading to the end is one step.
- Public ids are random and never handed out twice.
- The password a process generates is one value per process, the same after a
  restart; passwords of different processes differ.
- The configured CRL file of a restarted receiver is some CRL the CA published.

## 4. What is proved

Every invariant and action property of the passing runs is stated by a theorem,
for every value of the constants: any number of accounts, devices, certificates,
requests and processes, any bounds, any length of behaviour. The proofs assume
the named `ASSUME`s of the modules only: types of the constants, and that `None`
is not a value of anything. TLC evaluates these on every run.

No property here is inductive by itself: each relates a row or a file to what
somebody read several steps ago. The proofs therefore all have one shape. An
inductive invariant says what each handler in flight still knows; lemmas say what a
step of one actor leaves alone of the knowledge of the others; then there is one
lemma per action or group of actions; the theorem follows. The new invariants were
first checked by TLC as invariants of the runs' instances; those of the client also
with two accounts.

| Module | Theorem | Says | Needs |
|---|---|---|---|
| `SubmissionProofs` | `TypeCorrect`, `Invariance` | `Spec => []TypeOK`, `Spec => []IndInv` | |
| | `AcceptedImpliesRecord` | an accepted reservation has its record | |
| | `RecordImpliesObject` | a record has its object | |
| | `ActiveIsBacked` | what the public page calls active is backed, and a failing lookup hides only its own withdrawal | |
| | `RevocationIsBarrier`, `ReservationIsBarrier` | withdrawal stops every later verified submission and every later reservation | |
| | `Refinement` | `Spec => ImplementsRegistry` | |
| | `ResubmissionReplays` | a resubmission of an acknowledged document is answered from its record | `~DbMayFail` |
| `CaLedgerProofs` | `CaInvariance`, `PublishInvariance` | the inductive invariants `CaInv`, `PublishInv` | `~Concurrent` |
| | `SerialKeepsRevocations` | no recorded revocation leaves a readable ledger | `~Concurrent` |
| | `SerialPublishedGrows` | no public CRL is succeeded by one that misses an entry of it or has a lower number | `~Concurrent` |
| `AccountLifecycleProofs` | `AccountTypeCorrect`, `AccountInvariance` | types, and `AccountInv` | |
| | `CertificatesHaveAccounts` | a certificate has an approved account | |
| | `CascadesComplete` | a cascade that answers has revoked what was active and reported the devices lost, except where the very call failed | |
| | `RevocationIsFinal` | `RevokedStaysRevoked`, an action property | |
| | `CrlIsExplained` | a certificate on the CRL in memory has a revoked row, or is in `caOnly` | |
| | `ComposedCaInvariance`, `ComposedKeepsRevocations` | the CA's theorems with the receiver as the caller | `~Concurrent` |
| `UploadsProofs` | `UploadTypeCorrect`, `UploadInvariance` | types, and `UploadInv` | |
| | `UploadsArePrefixes` | files and recorded documents are prefixes of the document | |
| | `SizeIsTruthful` | outside a copy a session's size is its file's length | |
| | `DiskIsBounded` | no file is more than one byte above the limit | |
| | `NoScratchLeaks` | a file not orphaned by a restart is accounted for | |
| `ClientProofs` | `ClientTypeCorrect`, `ClientInvariance` | types, and `ClientInv` | |
| | `CachedCertBelongs` | the cached certificate belongs to the key in the vault | |
| | `UploadsMatchReservation` | an upload is signed by the key of the reserving device | |
| | `CertifiedKeyIsKept` | `CertifiedKeyKept`, an action property | |
| `AdministrationProofs` | `AdminTypeCorrect`, `AdminInvariance` | types, and `AdminInv` | |
| | `MigrationsRunOnce` | every migration takes effect once and in order | |
| | `SingleSuperAdmin` | there is at most one super administrator | |
| | `AnnouncementsTrue` | a logged password opens the account | |
| | `SuperAdminIsUntouchable` | `SuperAdminUntouched`, an action property | |
| | `NewOrdersLimits`, `MainOrdersLimits` | stamp limit, verification limit and upload limit are in this order | the second: `PQC_MAX_UPLOAD_MB` below 2^43 |

The hypotheses in the last column are about how the system is run; they are constants
of the models, and the runs that check these properties have the same values.
`~Concurrent`: no two `ca-admin` commands at once; `CaLedger_lost_update` is the
counterexample. `~DbMayFail`: a dropped error of `SetReservationStatus` leaves the
reservation unaccepted, so that resubmissions are refused. The theorems about accounts
have no hypothesis but this first one: they hold for any overlap of handlers, with
dropped errors, killed commands and restarts.

### Why the invariants are what they are

*Submission.* `IndInv` says that what a request has read is still worth something,
which is true because the facts concerned are final. Reservations are never removed
or given to another device (`SubmitInv`), revocation and loss are never undone
(`SeenIsFinal`), records are never removed (`StoredInOrder`, `AnswersRecorded`); so
a certificate that was active when the request looked was not revoked when the
request arrived (`VerifiedInv`). Facts that are not final, like "the certificate is
active", appear only about the past. The refinement maps rows to registry entries
and answers to acknowledgements: `ReserveCreate` is `Reserve`,
`SubmitCreateSignature` is `Record`, the two answers 200 are `Acknowledge`, all else
stutters. Replay needs more: `AllReplay` says where in the handler a request stands
that arrived after the acknowledgement. Such a request finds the record and an
accepted reservation at its first look, so it can take no branch but the replay.

*CA ledger.* `CaInv` adds to the property that at most one command runs and that the
copy it will save contains everything confirmed. `PublishInv` adds how all the CRLs
that were public, the number in the ledger and a CRL in the making are ordered; a `crl` command
killed between publishing and saving leaves a published number the ledger does not
know, which the next command uses again for a list that contains the same entries.

*Accounts.* `AccountInv` ties tokens, devices, enrolments and certificates together
(no row outlives what it refers to) and says of every cascade that the certificates
it answers for are revoked or still to be done. `CrlInv` says that whatever `ca-admin`
may put on a list, in its ledger, in the copy of a running command or on any CRL it
ever published, is revoked in the database or in `caOnly`: the cascade writes the row
first. `ComposedCaInvariance` reuses the ledger's lemmas:
a step of the receiver is a step of one `ca-admin` command or leaves the CA alone.

*Uploads.* That a file stays a prefix depends on where the chunk being copied comes
from, that on the size compared with its offset, and that on the mutex. `UploadInv`
says what a request knows before, during and after the copy (`RequestOK`) and what
holds of a session nobody writes to (`SessionOK`).

*Client.* `ClientInv` has one part per actor. The vault's certificate matches its
key because `wipeDeviceState` removes the key first and the certificate next, and a
fetched certificate is compared with the key before it is cached; `PrepInv` follows
this through every label, `VaultInv` and `RowInv` say that no two device rows have
one key. A wipe is decided on an answer of the server and carried out later:
`PrepInv` says that at "wipe_key" the enrolment is still not certified for this
account, which needs that no admin's issuing (`IssueLater`) and no `Connect` that
writes an old device id back (`ConnInv`) can make it so. `SignInv` says that the
leaf in the hands of the signing call may be of an enrolment that was wiped since,
but that the key it will load signs with that leaf only if the device id it read is
the key's.

*Start-up and administration.* `AdminInv` says what a process between its query and
its insert knows of the migrations applied and of the row of the super
administrator, and that a handler which checked its target has not checked the super
administrator.

### Only model-checked

- Liveness: `ServersComeUp`, `SessionsEnd`. `ENABLED` and
  fairness are outside the prover's reach.
- The properties of the six violation runs, which the code does not have
  (`RecordedBecomesAccepted` among them).
- That the decisions of `Verification` agree with `core/`; they are definitions, used
  by the proofs about `Client` as they stand.

## 5. Where code and documents disagree

Shown by runs:

1. `Submission_object_overwritten`: `hSubmitDocument` writes the object before
   it inserts the row (`handlers.go:431`, `:435`). Of two overlapping
   submissions of one reservation the loser has replaced the winner's bytes;
   `docs/acceptance-v1.md:86` says "object bytes are immutable".
2. `Submission_crash_retry`: the process dies between inserting the record and
   marking the reservation (`handlers.go:435`, `:466`); resubmission is refused
   for ever. `docs/acceptance-v1.md:56` says "Resubmission is idempotent".
3. `CaLedger_lost_update`: overlapping `revoke` and `crl` lose a revocation.
   The comment of `revokeViaCA` (`devissue.go:74`) says it records it.
4. `Account_issue_race`: a CSR that passed the account check is bound after the
   cascade; `docs/api.md:69` says disabling revokes every certificate.
5. `Uploads_stalled`: `appendChunk` holds `um.mu` while it reads a chunk from the
   network (`uploads.go:95-105`) and no time limit ends that; a stalled client
   stops the reaper and every other use of an upload. `docs/large-files.md:48-49`
   says sessions "expire after 2 h".
6. `Client_not_ready`: `enrollDevice` ignores failed requests for root and chain
   (`appcore.go:197-202`) and a cached certificate is believed from then on, so
   the client says "active" and every signature ends in "no Root CA cached" or
   "no CA chain cached"; the comment at `appcore.go:109` says the device is made
   "ready to sign with no manual step".

Observed while modelling, present in the models, without a run:

- The store-only tier checks neither device nor certificate
  (`handlers.go:449`): a lost device can still have a document recorded, as not
  verified. `docs/acceptance-v1.md:75` speaks of all submissions.
- The verifier takes at most 64 MiB (`core/verification/verify.go:49`), the
  verified tier goes to 350 MB (`docs/large-files.md:16`); what lies between
  is always refused (`over_verifier_limit`).
- Every error of `CreateSignature` is answered 409 "submission already
  recorded" (`handlers.go:461`), which is untrue when the store failed.
- `disableCascade` answers 200 whatever fails in it (`accounts.go:251-275`): a
  certificate whose row update failed stays active, and is on the CRL if the CA
  was reached. A crash in the middle leaves the rest active until the account is
  disabled again.
- The public page shows a revoked certificate as active when the lookup of its
  row fails (`handlers.go:600-606`).
- `ca-admin crl` publishes before it saves the ledger: after a kill in between
  a CRL number is used twice (`tools/ca-admin/README.md:52`).
- A kill before `appendIssued` (`main.go:196`) leaves a certificate that
  `issued.jsonl` does not list.
- The tombstone of a deleted account can be enabled again (`accounts.go:212`).
- `signedInput` reads the size without the mutex (`handlers.go:488`): a chunk
  that arrives meanwhile makes the recorded size of a store-only document wrong,
  and an upload just above the limit can be submitted before it is discarded.
- `hStamp` discards the upload also when stamping fails.
- Scratch files of sessions lost in a restart are never removed;
  `ScratchAccounted` names them as the only exception (`orphaned`).
- After an operator's `ca-admin revoke` the CRL lists certificates whose row is
  still active (`caOnly`). `hImportCRL` accepts any CRL that parses, older ones
  included, and a restart loads the configured file of whatever age: the CRL in
  memory may lose entries, and nothing in the code promises that it does not.
- `ValidateCRL` reports a CRL of another CA as an error, which the verifier turns
  into a warning (`core/verification/verify.go`): such a CRL revokes nothing.
- The receiver answers 404 for a device without certificate as well as for an
  unknown one, and the client treats every 404 as "unknown" although the comment
  at `appcore.go:131` says "not-issued-yet" counts as known: logging in while
  an enrolment is pending drops the key and creates another device.
- `Connect` in the registration tab writes back the `state.json` it read and may
  undo a device id saved meanwhile (`clobbered`).
- `Reset` removes the vault's directories; every later login fails until the
  program is started again.
- `uploadBytes` never resumes an upload, although the receiver offers it.
- A kill between creating the super administrator and logging its generated
  password leaves one nobody can use; no handler resets it, and none lets the
  super administrator "change it after first login" (`api.go:225`).
- When creating the super administrator fails, the server starts without one; a
  user may then register its name, and later starts fail to create it.
- A `PATCH` of an administrator that races its deletion may reactivate the
  disabled row.

Outside the models: reservations carry an `ExpiresAt` that nothing enforces;
the MFA gate of `docs/api.md:73` is not in `authed`; the in-memory store has no
unique serials and its `DeleteAccount` never fails.

## 6. Not modelled

- Cryptography, PDF and certificate encodings, QR and stamp rendering, HTML
  pages, password hashing and key file encryption have no state and no
  interleaving; models use their verdicts. Validity periods are left out.
- The in-memory store is for development: one mutex around maps.
- The rate limiter is a token bucket per key of a library, in real time.
- The object store backends below the map of `Submission`: the file system
  backend shares one temporary name per key (`objectstore.go:95`), so that two
  submissions may mix their bytes; S3 is a service.
- `ca-admin init`, `backup`, `restore`, key files and the ceremony log. A restored
  backup knows the revocations of its day only.
- Profile edits, lists and exports, which change nothing the properties are about.
- Of the Windows client, `SetPIN` and `RegisterDevice` (tools and tests only),
  `History` and `VerifyPDF`; failing writes other than those of a missing
  directory. The command line tool works on files it is given. The Android client
  repeats the protocol on another vault.
- 32-bit `signed_size` (`0001_init.up.sql:76`). The 64-bit shift in `mbEnv` is
  modelled (`Shifted`); from `PQC_MAX_UPLOAD_MB` = 2^43 on it can turn negative, and
  then the limits need not be in order.
- Clients other than the one in `apps/windows` may send documents above its ceilings,
  which the receiver only stores (`docs/large-files.md`); `Submission` has them.

## 7. Plan

Done, in this order: the submission path with its registry and proofs; the CA
ledger with its proofs; accounts composed with the CA and its operator; uploads;
the Windows client over the core library's decisions; start-up and
administration; the proofs of all their safety properties.

Next, most important first:

1. `backup` and `restore` on `CaLedger`: the order in which files are archived
   against a `crl` command, and an interrupted restore against what `openStore`
   accepts.
2. The file system object store under `Submission`'s map of objects as its
   abstract specification.
3. The Android client as a second instance of `Client`.
4. Proofs: the client's exchange with the receiver against `AccountLifecycle` (the rows
   of `Client` as a view of its devices and certificates); the file system object
   store against the map it implements.
