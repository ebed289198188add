\* Overlapping chunks, submissions, stamps and restarts; the document is longer
\* than the limit.
CONSTANTS
  Account = {a1}
  Upload = {u1}
  MaxRequests = 4
  DocLen = 3
  MaxUploadBytes = 1 MaxVerifyBytes = 0 MaxStampBytes = 0
  Overlap = TRUE
  MayRestart = TRUE
  None = None
SPECIFICATION UploadSpec
INVARIANTS UploadTypeOK UploadIsPrefix SizeMatchesFile UploadsBounded ScratchAccounted
