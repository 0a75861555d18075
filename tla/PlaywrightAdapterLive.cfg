CONSTANTS
    e1 = e1
    e2 = e2
    e3 = e3
    None = None
    Extraction <- MCTwoExtractions
SPECIFICATION FairSpec
CHECK_DEADLOCK FALSE
PROPERTY EveryExtractionEnds
