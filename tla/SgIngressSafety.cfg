SPECIFICATION Spec
CONSTANTS
  Runs = {r1, r2}
  MaxAttempt = 2
  Cidr = {c1, c2}
  Janitor = janitor
  None = none
  GhMayFail = FALSE
  MaxPreempt = 1
SYMMETRY Symmetry
INVARIANTS TypeOK LoadKeepsItsIngress OneIngressButForReruns RunsInOrder SweepCovers VerdictsLast
PROPERTIES ImplementsLease
