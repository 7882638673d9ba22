SPECIFICATION FairSpec
CONSTANTS
  Runs = {r1, r2}
  MaxAttempt = 2
  Cidr = {c1}
  Janitor = janitor
  None = none
  GhMayFail = TRUE
  MaxPreempt = 1
PROPERTIES OrphansAreRevoked
