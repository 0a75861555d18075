\* Every variation of every family of small programs, and every host.
CONSTANTS
    None = None
    Identifiers <- MCNames
    RootNames <- MCRootNames
    Dates <- MCDates
    Selectors <- MCSelectors
    Unsupported = {"p >> q"}
    Captures <- MCCaptures
    BaseURLs = {"http://b"}
    HalfRange <- MCHalfRange
    MaxNesting = 3
    MaxFloat32 = 100
    Main = "main"
    Remote = {"https"}
    LanguageVersion = "2026"
    IRVersion = "1"
    MaxMilliseconds = 6
    Corpus <- MCCorpus
    Written <- MCWritten
    Requests <- MCRequests
    Answers <- MCAnswers
SPECIFICATION Spec
INVARIANTS
    AcceptedRuns
    FailsEarly
    WellTyped
    DeliversDeclaredType
    PlanComplete
    JavaScriptAnnounced
    InputsExact
CHECK_DEADLOCK FALSE
