CONSTANTS
    Openers = {o1, o2}
    FirstVersions = {0}
    MaxOpens = 2
    Nobody = Nobody
SPECIFICATION Spec
INVARIANT FailuresAreStructured
CHECK_DEADLOCK FALSE
