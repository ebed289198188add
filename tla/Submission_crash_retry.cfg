\* One request at a time; the server may crash between two store calls.
CONSTANTS
  a1 = a1 a2 = a2 d1 = d1 d2 = d2 c1 = c1 c2 = c2 c3 = c3 p1 = p1
  None = None
  Account = {a1}
  Device = {d1}
  Cert = {c1}
  PublicId = {p1}
  Request = {r1, r2, r3}
  Doc <- TwinDocs
  DeviceOwner <- Owner1
  CertDevice <- OneCert
  CertNotBefore <- NotBefore1
  CRLFile = {}
  CRLs = {}
  MaxPDFBytes = 1 MaxVerifyBytes = 2 MaxUploadBytes = 3
  MaxMonth = 1
  MaxInFlight = 1
  MayCrash = TRUE
  DbMayFail = FALSE
SPECIFICATION FairSpec
PROPERTY RecordedBecomesAccepted
