\* Six output shapes, up to two rows per collection, reads that see the context.
CONSTANTS
    Schemas <- MCSchemas
    MaxRows = 2
    Live = TRUE
SPECIFICATION Spec
INVARIANTS
    AgreesWithDefinition
    DroppedForAnswer
    StopsReading
PROPERTY Terminates
CHECK_DEADLOCK FALSE
