\* Three extractions, two of them with session headers, two closers, owned page.
CONSTANTS
    e1 = e1
    e2 = e2
    e3 = e3
    c1 = c1
    c2 = c2
    None = None
    Extraction <- MCExtraction
    Closer <- MCCloser
    WithHeaders <- MCWithHeaders
    Owned = TRUE
SPECIFICATION FairSpec
INVARIANTS
    LeaseExclusive
    PageStays
    OwnHeaders
    CloseClearsHeaders
PROPERTIES
    LeaseSpec
    CloseReturns
