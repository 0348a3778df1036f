CONSTANTS
    Runs = {1, 2, 3}
    Axis <- MCAxis
    Default <- MCDefault
    Limits <- MCLimits
SPECIFICATION SessionSpec
INVARIANTS BadgesAreCurrent
CHECK_DEADLOCK FALSE
