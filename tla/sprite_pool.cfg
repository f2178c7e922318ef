SPECIFICATION Spec
CONSTANTS
    Position <- Places
    View <- Views
    MaxSprites = 3
    NoCentre = NoCentre
    Garbage = Garbage
INVARIANTS
    TypeOK
    WithinStorage
    NoGarbageDrawn
PROPERTIES
    ImplementsSpritePool
