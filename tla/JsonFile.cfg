SPECIFICATION Spec
CONSTANTS
    p = p
    q = q
    t1 = t1
    t2 = t2
    t3 = t3
    r = r
    Nobody = Nobody
    Transactions = {t1, t2, t3, r}
    Reads = {r}
    Processes = {p, q}
    ProcessOf <- MCProcessOf
    MaxCrashes = 1
INVARIANTS
    TypeOK
    LockProtects
PROPERTIES
    CallsEnd
    OrphanFailsClosed
    ImplementsLedgerStore
CHECK_DEADLOCK FALSE
