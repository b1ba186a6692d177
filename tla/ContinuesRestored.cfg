SPECIFICATION CompSpec
CONSTANT Suites <- MCSuites
CONSTANT Members <- MCMembers
INVARIANT ContinuesRestored
CHECK_DEADLOCK FALSE
