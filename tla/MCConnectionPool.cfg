\* Four threads compete for two connections.
SPECIFICATION FairSpec
CONSTANTS
    Threads = {t1, t2, t3, t4}
    Capacity = 2
    Null = Null
INVARIANTS
    TypeOK
    CounterCountsUsers
    NoConnectionLost
    NoLostWakeup
    SleepersBounded
PROPERTIES
    PoolNeverStalls
    ImplementsLease
