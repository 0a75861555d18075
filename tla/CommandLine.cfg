\* Three documents with any imports, every command, two signals.
CONSTANTS
    main = main
    a = a
    b = b
    None = None
    Document <- MCDocument
    Entry = main
    Texts <- MCTexts
SPECIFICATION FairSpec
INVARIANTS
    CyclesReported
    AcceptedWhole
    OutcomeReported
PROPERTIES
    ReadsOnce
    Exits
CHECK_DEADLOCK FALSE
