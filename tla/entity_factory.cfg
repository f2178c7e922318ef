SPECIFICATION MCSpec
CONSTANTS
    Component = {c1}
    Value = {v1}
    NoValue = NoValue
    Forests <- MCForests
    MaxEntities = 5
INVARIANTS
    TypeOK
    HierarchyConsistent
    HierarchyIsForest
PROPERTY
    HierarchyNeverRewritten
CHECK_DEADLOCK FALSE
