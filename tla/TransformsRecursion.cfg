\* TypeScript, pipelines that reach themselves after another call.
CONSTANTS
    None = None
    Extractors <- MCRecursive
    MaxDepth = 6
SPECIFICATION Spec
INVARIANT RecursionDetected
CHECK_DEADLOCK FALSE
