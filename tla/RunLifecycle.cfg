SPECIFICATION Spec
CONSTANT InspectTries = 2
INVARIANT EgressOutlivesAgent
INVARIANT NoOrphanAgent
INVARIANT TeardownIsComplete
PROPERTY NothingStartsAfterTeardown
PROPERTY EndsTheRun
PROPERTY KeepsCustody
CHECK_DEADLOCK FALSE
