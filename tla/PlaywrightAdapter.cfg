\* Three extractions: a holder, a waiter behind another waiter.
CONSTANTS
    e1 = e1
    e2 = e2
    e3 = e3
    None = None
    Extraction <- MCExtraction
SYMMETRY MCSymmetry
SPECIFICATION Spec
INVARIANTS
    QueueExact
    Isolation
    NoOrphan
    CutStaysClosed
PROPERTIES
    NoOvertaking
    LeaseSpec
CHECK_DEADLOCK FALSE
