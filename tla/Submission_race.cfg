\* Overlapping requests of two devices and two accounts, with crashes.
CONSTANTS
  a1 = a1 a2 = a2 d1 = d1 d2 = d2 c1 = c1 c2 = c2 c3 = c3 p1 = p1
  None = None
  Account = {a1, a2}
  Device = {d1, d2}
  Cert = {c1, c2, c3}
  PublicId = {p1}
  Request = {r1, r2, r3}
  Doc <- CrossDocs
  DeviceOwner <- Owner
  CertDevice <- ThreeCerts
  CertNotBefore <- NotBefore
  CRLFile = {}
  CRLs = {}
  MaxPDFBytes = 1 MaxVerifyBytes = 2 MaxUploadBytes = 3
  MaxMonth = 1
  MaxInFlight = 2
  MayCrash = TRUE
  DbMayFail = FALSE
SPECIFICATION Spec
SYMMETRY RequestSymmetry
INVARIANTS ActiveRecordIsBacked RevocationBarrier ReservationBarrier AckedStaysReplayable
