SPECIFICATION FairSpec
CONSTANTS
    Scenarios <- AllScenarios
    Deadline = 1
    MaxTime = 3
INVARIANTS
    NothingIsForgotten
PROPERTIES
    ImplementsScheduledRuns
    RetentionKeepsGood
    DueSlotFires
