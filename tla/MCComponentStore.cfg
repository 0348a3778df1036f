CONSTANTS
    Clients = {c1, c2}
    Keys <- MCKeys
    Interfaces <- MCInterfaces
    Definitions <- MCDefinitions
    Documents <- MCDocuments
    MaxRequests = 4
SPECIFICATION Spec
INVARIANTS StoredStaySound CatalogIsTheClosure ResolvedIsReproducible AcknowledgedIsStored
PROPERTIES RequestsReturn
CHECK_DEADLOCK FALSE
