SPECIFICATION Spec
CONSTANTS
    s1 = s1
    s2 = s2
    s3 = s3
    t1 = t1
    t2 = t2
    t3 = t3
    r = r
    Absent = Absent
    Nobody = Nobody
    Transactions = {t1, t2, t3, r}
    Reads = {r}
    Stores = {s1, s2, s3}
    StoreOf <- MCStoreOf
    ProcessOf <- MCProcessOf
    PoolSize = 1
    MaxCrashes = 1
INVARIANTS
    NeverBlocksItself
    LockEnds
    LoadedIsFinal
PROPERTIES
    CallsEnd
    ImplementsLedgerStore
CHECK_DEADLOCK FALSE
