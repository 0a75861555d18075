\* Two extractions of two operations each, with and without a lease.
CONSTANTS
    e1 = e1
    e2 = e2
    None = None
    Extraction <- MCExtraction
    Operations = 2
SPECIFICATION FairSpec
INVARIANTS
    OwnPage
PROPERTY Completes
CHECK_DEADLOCK FALSE
