\* Two commands overlap.
CONSTANTS
  Serial = {s1, s2}
  Proc = {o1, o2}
  MaxCRL = 3
  Concurrent = TRUE
  MayKill = FALSE
  Torn = Torn
  None = None
SPECIFICATION CaSpec
SYMMETRY ProcSymmetry
INVARIANTS LedgerKeepsRevocations
