\* Three entities are one and a half groups of two, and four runs let an entity
\* stay, go and come back.
CONSTANTS
    GroupSize = 2
    NullObject = NullObject
    Entity = {1, 2, 3}
    Systems <- BothSystems
    MaxRuns = 4
SPECIFICATION Spec
INVARIANTS TypeOK NewAddedGoneDropped ReportsBalance FrameShowsTheRun
CHECK_DEADLOCK FALSE
