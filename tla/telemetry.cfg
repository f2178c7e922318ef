SPECIFICATION Spec
CONSTANTS
    Thread = {t1, t2, t3}
    Name = {m1, m2}
    NoThread = NoThread
    Modulus = 4
    Garbage = {3}
    By = {1}
    To = {2}
    MaxOps = 1
INVARIANTS TypeOK NamesOwnTheirCells UndefinedOnlyAfterFailure NoLostUpdate StaleOnlyAfterLaterName
PROPERTY EveryThreadFinishes
CHECK_DEADLOCK FALSE
