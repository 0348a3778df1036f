CONSTANTS
    Handles = {h1, h2}
    Readers = {r1}
    Strategies = {s1}
    Components = {k1}
    Datasets = {d1}
    Runs = {run1}
    Contents = {c1, c2}
    Events = 2
    MaxCalls = 3
    Nobody = Nobody
    Absent = Absent
SPECIFICATION Spec
INVARIANTS RunsAreWhole NoTornTrace
PROPERTIES SavesReturn SavesAreAtomic
CHECK_DEADLOCK FALSE
