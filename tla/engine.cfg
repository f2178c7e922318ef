SPECIFICATION Spec
CONSTANTS
    FirstName = {1, 3}
    MaxEvents = 3
INVARIANTS
    TypeOK
    FramesUseLiveObjects
    DestructorsFindTheirServices
    OnlyKnownLeaks
    ExitIsOrderly
PROPERTIES
    QuitEndsTheGame
    ExceptionsEndTheGame
CHECK_DEADLOCK FALSE
