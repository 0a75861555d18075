\* Both runtimes: acyclic pipelines, those that reach themselves at once, and
\* for Go those that reach themselves later.  The bound is never met.
CONSTANTS
    None = None
    Extractors <- MCExtractors
    MaxDepth = 6
SPECIFICATION Spec
INVARIANTS
    AgreesWithDefinition
    RecursionDetected
PROPERTY Terminates
CHECK_DEADLOCK FALSE
