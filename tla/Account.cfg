\* Handlers overlap and are cut off by restarts, store calls fail, admins issue by
\* hand, an operator runs ca-admin; its commands take turns and may be killed.
CONSTANTS
  Account = {a1}
  Device = {d1}
  Serial = {s1}
  Proc = {r1, r2, r3}
  MaxCRL = 2
  Concurrent = FALSE
  MayKill = TRUE
  AdminIssues = TRUE
  OperatorRuns = TRUE
  MaxFaults = 1
  Torn = Torn
  None = None
SPECIFICATION Spec
SYMMETRY Symmetry
INVARIANTS AccountTypeOK CertificatesAccountable CascadeComplete CrlExplained
INVARIANTS CaInv LedgerKeepsRevocations PublishedOnlyGrows
PROPERTY RevokedStaysRevoked
