SPECIFICATION Spec
CONSTANTS
  Jobs <- LedgerJobs
  NoRecord = none
  SkipLeavesResults = FALSE
INVARIANTS OpenRuleIsNotRecordedAsSuccess
CHECK_DEADLOCK FALSE
