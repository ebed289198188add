\* Two processes start on an empty database; one fault.
CONSTANTS
  p1 = p1 p2 = p2 su = su op = op w1 = w1
  Process = {p1, p2}
  Call = {c1, c2}
  Email = {su, op}
  Chosen = {w1}
  Username <- Usernames
  GivenPassword <- Passwords
  Versions = 2
  MaxAccounts = 2 MaxFaults = 1
  None = None
SPECIFICATION FairAdminSpec
INVARIANTS AdminTypeOK MigrationsOnceInOrder OneSuperAdmin AnnouncedPasswordWorks
PROPERTIES SuperAdminUntouched ServersComeUp SessionsEnd
\* Without calls a server rests.
CHECK_DEADLOCK FALSE
