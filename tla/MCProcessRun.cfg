SPECIFICATION ProcSpec
CONSTANT Suites <- MCSuites
INVARIANTS
  LeftOnlyAfterFinal
  SafeReportIsTrue
  PassedLeavesNothing
PROPERTY IsSupervised
CHECK_DEADLOCK FALSE
