\* One client stops in the middle of a chunk; nothing else goes wrong.
CONSTANTS
  Account = {a1}
  Upload = {u1, u2}
  MaxRequests = 3
  DocLen = 1
  MaxUploadBytes = 1 MaxVerifyBytes = 1 MaxStampBytes = 1
  Overlap = FALSE
  MayRestart = FALSE
  None = None
SPECIFICATION FairUploadSpec
PROPERTY SessionsExpire
