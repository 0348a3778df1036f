CONSTANTS
    Openers = {o1, o2, o3}
    FirstVersions = {0, 1, 2, 3}
    MaxOpens = 4
    Nobody = Nobody
SPECIFICATION Spec
INVARIANTS FileIsAtAVersion OpenedIsCurrent
PROPERTY OpensEnd
CHECK_DEADLOCK FALSE
