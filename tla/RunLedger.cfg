SPECIFICATION Spec
CONSTANTS
  Jobs <- AllJobs
  NoRecord = none
  SkipLeavesResults = FALSE
INVARIANTS TypeOK FinishTellsTheOutcome GreenMeansLanded UnpairedStartMeansVanished
PROPERTIES RecordsAreNeverRewritten
CHECK_DEADLOCK FALSE
CONSTRAINT OneWorkflow
