SPECIFICATION FairSpec
CONSTANT Scenarios <- MCScenarios
INVARIANTS AcceptedIsStable NoStuckScaleIn ConfigFitsMemory
PROPERTIES DataNeverGoesBack SettledStays SpecIsReached
CHECK_DEADLOCK FALSE
