SPECIFICATION ProcSpec
CONSTANT Suites <- MCSuites
INVARIANT SafeMeansReset
CHECK_DEADLOCK FALSE
