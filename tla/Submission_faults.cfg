\* All size classes, a new month, crashes and failing store calls.
CONSTANTS
  a1 = a1 a2 = a2 d1 = d1 d2 = d2 c1 = c1 c2 = c2 c3 = c3 p1 = p1
  None = None
  Account = {a1}
  Device = {d1}
  Cert = {c1}
  PublicId = {p1}
  Request = {r1, r2, r3}
  Doc <- SizeDocs
  DeviceOwner <- Owner1
  CertDevice <- OneCert
  CertNotBefore <- NotBefore1
  CRLFile = {}
  CRLs = {{c1}}
  MaxPDFBytes = 1 MaxVerifyBytes = 2 MaxUploadBytes = 3
  MaxMonth = 2
  MaxInFlight = 2
  MayCrash = TRUE
  DbMayFail = TRUE
SPECIFICATION Spec
SYMMETRY RequestSymmetry
INVARIANTS TypeOK IndInv AcceptedHasRecord RecordHasObject ActiveRecordIsBacked
PROPERTY ImplementsRegistry
