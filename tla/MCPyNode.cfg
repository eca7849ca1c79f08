CONSTANTS
    f1 = f1  f2 = f2  q = q
    Calls = {f1, f2, q}
    MethodOf <- Methods
    NumChildren = 2
    PoolSizes = {1, 2}
SPECIFICATION FairSpec
INVARIANTS TypeOK StatsNotOverstated
PROPERTIES InterruptEnds
CHECK_DEADLOCK FALSE
