\* A field read that the cancellation interrupts, last in the output.
CONSTANTS
    Schemas <- MCLastField
    MaxRows = 2
    Live = TRUE
SPECIFICATION Spec
INVARIANT CancellationNotRecovered
CHECK_DEADLOCK FALSE
