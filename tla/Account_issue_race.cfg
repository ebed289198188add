\* A CSR is answered while the account is disabled.
CONSTANTS
  Account = {a1}
  Device = {d1}
  Serial = {s1}
  Proc = {r1, r2}
  MaxCRL = 3
  Concurrent = TRUE
  MayKill = FALSE
  AdminIssues = FALSE
  OperatorRuns = FALSE
  MaxFaults = 0
  Torn = Torn
  None = None
SPECIFICATION Spec
SYMMETRY Symmetry
INVARIANT DisabledHoldsNoActive
