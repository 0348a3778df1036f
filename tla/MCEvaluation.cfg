CONSTANTS
    Nodes = {1, 2, 3, 4}
    Stored <- MCStored
    Loads <- MCLoads
    Strategies <- MCStrategies
    Tapped <- MCTapped
    Fingerprints <- MCFingerprints
    Changes <- MCChanges
SPECIFICATION TapSpec
INVARIANTS SearchIsRight PlanIsCanonical CleanNeverMisses TapAnswersForTheRun
PROPERTIES EverythingEnds
CHECK_DEADLOCK FALSE
