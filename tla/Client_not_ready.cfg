\* An enrolment whose request for the root certificate is lost.
CONSTANTS
  Account = {a1}
  MaxKeys = 2 MaxDevices = 2 MaxCA = 2
  MaxPDFBytes = 3 SignatureBytes = 1 StampBytes = 1 UploadChunkBytes = 2
  LocalVerifyMaxBytes = 6
  Doc <- Documents
  Faults = TRUE
  None = None
SPECIFICATION ClientSpec
INVARIANT EnrolledIsReady
