--------------------------- MODULE DatabaseStores ---------------------------
(***************************************************************************)
(* The stores that keep the ledger in a database: NodeSqliteStore and      *)
(* PostgresStore.  A deployment uses one of them, by one or more           *)
(* processes, and what SpendFirewall relies on is the same: LedgerStore,   *)
(* and that every call ends.  The two have the payload, the calls and      *)
(* their answers in common; writer is SQLite's write lock or the lock of   *)
(* the row, and the rest is of one of them only.                           *)
(***************************************************************************)
EXTENDS Naturals, Sequences

CONSTANTS
    Transactions,  \* the calls made on the stores
    Reads,         \* those of them that call read
    Stores,
    StoreOf,       \* StoreOf[t] is the store t is called on
    ProcessOf,     \* ProcessOf[s] is the process that has the store s
    PoolSize,      \* maxConnections of PostgresStore
    Absent,        \* SQLite has no table yet
    Nobody,        \* nobody has the lock
    MaxCrashes     \* bound on the number of crashes in front of SQLite

VARIABLES
    backend,  \* the store in use: "sqlite" or "postgres"
    payload, writer, pc, state, outcome,
    ahead, store, crashes,  \* of SqliteStore
    session                 \* of PostgresStore

ofSqlite == <<ahead, store, crashes>>
vars == <<backend, payload, writer, pc, state, outcome, ofSqlite, session>>

Sqlite == INSTANCE SqliteStore
Postgres == INSTANCE PostgresStore
    WITH lock <- writer, ProcessOf <- [t \in Transactions |-> ProcessOf[StoreOf[t]]]

ASSUME DatabaseAssumption == Sqlite!SqliteAssumption /\ Postgres!PostgresAssumption

Init ==
    /\ \/ backend = "sqlite" /\ payload = Absent
       \/ backend = "postgres" /\ payload = <<>>
    /\ writer = Nobody
    /\ pc = [t \in Transactions |-> "start"]
    /\ state = [t \in Transactions |-> <<>>]
    /\ outcome = [t \in Transactions |-> "none"]
    /\ ahead = [t \in Transactions |-> {}]
    /\ store = [s \in Stores |-> "unopened"]
    /\ crashes = 0
    /\ session = [t \in Transactions |-> "none"]

WithSqlite == backend = "sqlite" /\ UNCHANGED <<backend, session>>
WithPostgres == backend = "postgres" /\ UNCHANGED <<backend, ofSqlite>>

Next ==
    \/ Sqlite!Next /\ WithSqlite
    \/ Postgres!Next /\ WithPostgres

Progress(t) ==
    \/ Sqlite!Step(t) /\ WithSqlite
    \/ Postgres!Progress(t) /\ WithPostgres

Spec == Init /\ [][Next]_vars /\ \A t \in Transactions : WF_vars(Progress(t))

-----------------------------------------------------------------------------
Ledger == IF payload = Absent THEN <<>> ELSE payload

\* A call at BEGIN IMMEDIATE never waits for a transaction of its own process, which could not
\* end while exec blocks the event loop (sqlite-store.ts:10, mutexFor).
NeverBlocksItself == backend = "sqlite" => Sqlite!NeverBlocksItself

\* The write lock is never left behind by a call that failed, was closed under it or crashed
\* (sqlite-store.ts:92-106).
LockEnds == backend = "sqlite" => Sqlite!LockEnds

\* The ledger a PostgreSQL transaction works on is final: nobody else can still commit, a call
\* that was told of a failure included (postgres-store.ts:119-126).
LoadedIsFinal == backend = "postgres" => Postgres!LoadedIsFinal

\* Every call ends: behind failed, closed and crashed ones on its mutex (finally of
\* runExclusive), at a pool of one connection, and behind sessions whose client is gone.
CallsEnd == \A t \in Transactions : pc[t] # "start" ~> pc[t] = "ended"

Abstract ==
    INSTANCE LedgerStore WITH
        ledger <- Ledger,
        status <- [t \in Transactions |->
                      IF backend = "sqlite" THEN Sqlite!StatusOf(t) ELSE Postgres!StatusOf(t)],
        view <- [t \in Transactions |->
                    IF backend = "sqlite" THEN Sqlite!ViewOf(t) ELSE Postgres!ViewOf(t)]

\* Every transact and read of either store is one atomic transaction of LedgerStore: no update
\* is lost between stores and processes, a second open keeps the ledger, a closed or failed
\* transaction leaves nothing, and a commit that comes after its error is one that failed.
ImplementsLedgerStore == Abstract!Spec
=============================================================================
