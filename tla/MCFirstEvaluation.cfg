CONSTANTS
    NumAssets = 1
    LastDay = 3
    CloseLags = {0}
    OpenLags = {0}
    CloseOf <- MCCloseOf
    Window <- Chained
    Lookback = 1
    TopN = 1
    Cap <- MCCap
    Conviction <- MCConviction
SPECIFICATION MemoSpec
INVARIANTS FirstEvaluationIsDefined
