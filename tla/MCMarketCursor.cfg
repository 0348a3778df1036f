CONSTANTS
    NumAssets = 2
    LastDay = 2
    CloseLags = {0, 3}
    OpenLags = {1}
    CloseOf <- MCCloseOf
    Window <- MCWindow
    Lookback = 1
    TopN = 1
    Cap <- MCCap
    Conviction <- MCConviction
SPECIFICATION MemoSpec
INVARIANTS Exact MemoIsTransparent CapIsRespected TargetsArePriceable
