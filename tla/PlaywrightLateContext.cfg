CONSTANTS
    e1 = e1
    e2 = e2
    e3 = e3
    None = None
    Extraction <- MCTwoExtractions
SPECIFICATION Spec
CHECK_DEADLOCK FALSE
INVARIANT CloseClosesContexts
