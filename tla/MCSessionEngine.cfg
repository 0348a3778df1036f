CONSTANTS
    NumAssets = 2
    LastDay = 3
    CostScale = 4
    WeightScale = 2
    DustScale = 8
    DustBase = 4
    OversellTolerance = 0
    EvaluationFails = EvaluationFails
    Feeds <- MCFeeds
    Configs <- MCConfigs
    TwinConfigs <- MCTwinConfigs
    ReplayConfigs <- MCReplayConfigs
SPECIFICATION ReplaySpec
INVARIANTS NothingDangles EveryFiringAccounted FillsWerePlanned FactsExplainBook
    ValuedWithoutGaps TraceTellsFacts NoLookAheadInRun ReplayIsBacktest SavedIsWhole
CHECK_DEADLOCK FALSE
