SPECIFICATION Spec
CONSTANTS
    Thread = {t1, t2, t3, t4}
    Modulus = 6
INVARIANTS
    MutualExclusion
    CounterAccounts
PROPERTIES
    ImplementsTryLock
    EveryCallReturns
