CONSTANTS
    NumAssets = 2
    CostScale = 4
    WeightScale = 2
    DustScale = 4
    DustBase = 4
    OversellTolerance = 1
    StartCash = {2, 10, 40}
    MaxLots = 2
    MaxOrders = 3
    OpenPrices = {1, 3}
    Costs = {0, 1, 4}
    Rounds = 2
SPECIFICATION RebalanceSpec
INVARIANTS NeverOverdrawn AllOrNothing LaterBuysBearShortfall LoopsAreTheFold
    PlansAreFillable ExitsAreComplete PlanSettles CostsAreTheOnlyLoss
CHECK_DEADLOCK FALSE
