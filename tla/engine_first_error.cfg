SPECIFICATION Spec
CONSTANTS
    FirstName = {1}
    MaxEvents = 1
INVARIANTS
    ErrorsAreWritten
CHECK_DEADLOCK FALSE
