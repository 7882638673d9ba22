SPECIFICATION Spec
CONSTANTS
  Runs = {r1}
  MaxAttempt = 2
  Cidr = {c1, c2}
  Janitor = janitor
  None = none
  GhMayFail = FALSE
  MaxPreempt = 0
INVARIANTS AtMostOneIngress
