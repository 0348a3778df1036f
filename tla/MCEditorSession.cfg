CONSTANTS
    Runs = {1, 2, 3}
    Axis <- MCAxis
    Default <- MCDefault
    Limits <- MCLimits
SPECIFICATION SessionSpec
INVARIANTS EditorIsItsOwn LoopShowsTheRun
CHECK_DEADLOCK FALSE
