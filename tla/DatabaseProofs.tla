-------------------------- MODULE DatabaseProofs --------------------------
(***************************************************************************)
(* Theorems about the database stores: what SQLite's write lock and        *)
(* PostgreSQL's row lock guarantee through failures, closed stores,        *)
(* dropped connections and crashes, and that both stores implement         *)
(* LedgerStore.                                                            *)
(***************************************************************************)
EXTENDS DatabaseStores, TLAPS

Answers == {"none", "ok", "threw", "error"}

-----------------------------------------------------------------------------
(***************************************************************************)
(* SQLite.                                                                 *)
(***************************************************************************)
SqliteType ==
    /\ payload \in Seq(Transactions) \cup {Absent} /\ writer \in Transactions \cup {Nobody}
    /\ pc \in [Transactions -> {"start", "queued", "computing", "leaving", "ended"}]
    /\ state \in [Transactions -> Seq(Transactions)] /\ outcome \in [Transactions -> Answers]
    /\ ahead \in [Transactions -> SUBSET Transactions]
    /\ store \in [Stores -> {"unopened", "open", "closed", "gone"}]

\* A store that was opened has created the table, and calls are made on opened stores.
SqliteOpened ==
    /\ \A s \in Stores : store[s] # "unopened" => payload # Absent
    /\ \A t \in Transactions : pc[t] # "start" => store[StoreOf[t]] # "unopened"

\* A call has an answer once its part is over, and only a call of transact runs a function.
SqliteAnswers ==
    \A t \in Transactions :
        /\ pc[t] \in {"start", "queued", "computing"} => outcome[t] = "none"
        /\ pc[t] \in {"leaving", "ended"} => outcome[t] # "none"
        /\ pc[t] = "computing" \/ outcome[t] = "threw" => t \notin Reads

\* The write lock and the transaction that runs under it belong together, and its ledger is the
\* one in the database.
SqliteLock ==
    /\ Sqlite!LockEnds
    /\ \A t \in Transactions : pc[t] = "computing" /\ Sqlite!Open(t) => writer = t
    /\ writer # Nobody => state[writer] = payload

\* Of two running calls of one process, one waits for the other; whoever runs waits for nobody.
SqliteMutex ==
    /\ \A t, u \in Transactions :
          t # u /\ Sqlite!Active(t) /\ Sqlite!Active(u) /\ Sqlite!SharesMutex(t, u)
              => t \in ahead[u] \/ u \in ahead[t]
    /\ \A t \in Transactions : pc[t] \in {"computing", "leaving"} => ahead[t] = {}

SqliteInv == SqliteType /\ SqliteOpened /\ SqliteAnswers /\ SqliteLock /\ SqliteMutex

LEMMA SqliteTypeStep ==
    ASSUME SqliteInv, Sqlite!Next
    PROVE  SqliteType' /\ SqliteOpened' /\ SqliteAnswers'
<1> USE DatabaseAssumption DEF SqliteInv, SqliteType, SqliteOpened, SqliteAnswers, Answers,
        Sqlite!SqliteAssumption
<1>1. ASSUME NEW s \in Stores, Sqlite!OpenStore(s) \/ Sqlite!Close(s)
      PROVE  SqliteType' /\ SqliteOpened' /\ SqliteAnswers'
  <2>1. <<>> # Absent
    <3>1. <<>> \in Seq(Transactions)
      OBVIOUS
    <3> QED
      BY <3>1
  <2>2. CASE Sqlite!OpenStore(s)
    <3>1. payload' \in Seq(Transactions) /\ payload' # Absent
      BY <2>1, <2>2 DEF Sqlite!OpenStore
    <3> QED
      BY <2>2, <3>1 DEF Sqlite!OpenStore
  <2>3. CASE Sqlite!Close(s)
    BY <2>3 DEF Sqlite!Close
  <2> QED
    BY <1>1, <2>2, <2>3
<1>2. ASSUME NEW t \in Transactions, Sqlite!Call(t)
      PROVE  SqliteType' /\ SqliteOpened' /\ SqliteAnswers'
  BY <1>2 DEF Sqlite!Call, Sqlite!Open
<1>3. ASSUME NEW t \in Transactions, Sqlite!Begin(t)
      PROVE  SqliteType' /\ SqliteOpened' /\ SqliteAnswers'
  BY <1>3 DEF Sqlite!Begin, Sqlite!First, Sqlite!Open
<1>4. ASSUME NEW t \in Transactions, Sqlite!BeginFails(t) \/ Sqlite!Load(t)
      PROVE  SqliteType' /\ SqliteOpened' /\ SqliteAnswers'
  <2>1. CASE Sqlite!BeginFails(t)
    BY <2>1 DEF Sqlite!BeginFails, Sqlite!Finish, Sqlite!First
  <2>2. CASE Sqlite!Load(t)
    <3>1. payload \in Seq(Transactions)
      BY <2>2 DEF Sqlite!Load, Sqlite!Open
    <3> QED
      BY <2>2, <3>1 DEF Sqlite!Load, Sqlite!Finish, Sqlite!First
  <2> QED
    BY <1>4, <2>1, <2>2
<1>5. ASSUME NEW t \in Transactions, Sqlite!Commit(t)
      PROVE  SqliteType' /\ SqliteOpened' /\ SqliteAnswers'
  <2>1. payload' \in Seq(Transactions)
    BY <1>5 DEF Sqlite!Commit
  <2> QED
    BY <1>5, <2>1 DEF Sqlite!Commit, Sqlite!Finish
<1>6. ASSUME NEW t \in Transactions, Sqlite!Abort(t)
      PROVE  SqliteType' /\ SqliteOpened' /\ SqliteAnswers'
  <2>1. PICK answer \in {"threw", "error"} : Sqlite!Rollback(t, answer)
    BY <1>6 DEF Sqlite!Abort
  <2> QED
    BY <2>1 DEF Sqlite!Rollback, Sqlite!Finish
<1>7. ASSUME NEW t \in Transactions, Sqlite!Leave(t)
      PROVE  SqliteType' /\ SqliteOpened' /\ SqliteAnswers'
  BY <1>7 DEF Sqlite!Leave
<1>8. ASSUME NEW p, Sqlite!Crash(p)
      PROVE  SqliteType' /\ SqliteOpened' /\ SqliteAnswers'
  BY <1>8 DEF Sqlite!Crash, Sqlite!Active
<1> QED
  BY <1>1, <1>2, <1>3, <1>4, <1>5, <1>6, <1>7, <1>8 DEF Sqlite!Next, Sqlite!Step

LEMMA SqliteLockStep ==
    ASSUME SqliteInv, Sqlite!Next
    PROVE  SqliteLock'
<1> USE DatabaseAssumption DEF SqliteInv, SqliteType, SqliteLock, Sqlite!SqliteAssumption,
        Sqlite!LockEnds, Sqlite!Open
<1>1. ASSUME NEW s \in Stores, Sqlite!OpenStore(s) PROVE SqliteLock'
  BY <1>1 DEF Sqlite!OpenStore, SqliteOpened
<1>2. ASSUME NEW s \in Stores, Sqlite!Close(s) PROVE SqliteLock'
  BY <1>2 DEF Sqlite!Close
<1>3. ASSUME NEW t \in Transactions,
             Sqlite!Call(t) \/ Sqlite!BeginFails(t) \/ Sqlite!Load(t) \/ Sqlite!Leave(t)
      PROVE  SqliteLock'
  BY <1>3 DEF Sqlite!Call, Sqlite!BeginFails, Sqlite!Load, Sqlite!Leave, Sqlite!Finish, Sqlite!First
<1>4. ASSUME NEW t \in Transactions, Sqlite!Begin(t) PROVE SqliteLock'
  BY <1>4 DEF Sqlite!Begin, Sqlite!First
<1>5. ASSUME NEW t \in Transactions, Sqlite!Commit(t) PROVE SqliteLock'
  BY <1>5 DEF Sqlite!Commit, Sqlite!Finish
<1>6. ASSUME NEW t \in Transactions, Sqlite!Abort(t) PROVE SqliteLock'
  <2>1. PICK answer \in {"threw", "error"} : Sqlite!Rollback(t, answer)
    BY <1>6 DEF Sqlite!Abort
  <2> QED
    BY <2>1 DEF Sqlite!Rollback, Sqlite!Finish
<1>7. ASSUME NEW p, Sqlite!Crash(p) PROVE SqliteLock'
  BY <1>7 DEF Sqlite!Crash, Sqlite!Active, Sqlite!Process
<1> QED
  BY <1>1, <1>2, <1>3, <1>4, <1>5, <1>6, <1>7 DEF Sqlite!Next, Sqlite!Step

LEMMA SqliteMutexStep ==
    ASSUME SqliteInv, Sqlite!Next
    PROVE  SqliteMutex'
<1> USE DEF SqliteInv, SqliteType, SqliteMutex, Sqlite!Active, Sqlite!SharesMutex, Sqlite!Process
<1>1. ASSUME NEW s \in Stores, Sqlite!OpenStore(s) \/ Sqlite!Close(s) PROVE SqliteMutex'
  BY <1>1 DEF Sqlite!OpenStore, Sqlite!Close
<1>2. ASSUME NEW t \in Transactions, Sqlite!Call(t) PROVE SqliteMutex'
  BY <1>2 DEF Sqlite!Call
<1>3. ASSUME NEW t \in Transactions,
             \/ Sqlite!Begin(t) \/ Sqlite!BeginFails(t) \/ Sqlite!Load(t)
             \/ Sqlite!Commit(t) \/ Sqlite!Abort(t)
      PROVE  SqliteMutex'
  <2>1. /\ ahead' = ahead /\ ahead[t] = {} /\ Sqlite!Active(t)
        /\ \E position \in {"computing", "leaving"} : pc' = [pc EXCEPT ![t] = position]
    <3>1. CASE Sqlite!Begin(t)
      BY <3>1 DEF Sqlite!Begin, Sqlite!First
    <3>2. CASE Sqlite!BeginFails(t)
      BY <3>2 DEF Sqlite!BeginFails, Sqlite!First, Sqlite!Finish
    <3>3. CASE Sqlite!Load(t)
      BY <3>3 DEF Sqlite!Load, Sqlite!First, Sqlite!Finish
    <3>4. CASE Sqlite!Commit(t)
      BY <3>4 DEF Sqlite!Commit, Sqlite!Finish
    <3>5. CASE Sqlite!Abort(t)
      BY <3>5 DEF Sqlite!Abort, Sqlite!Rollback, Sqlite!Finish
    <3> QED
      BY <1>3, <3>1, <3>2, <3>3, <3>4, <3>5
  <2> QED
    BY <2>1
<1>4. ASSUME NEW t \in Transactions, Sqlite!Leave(t) PROVE SqliteMutex'
  BY <1>4 DEF Sqlite!Leave
<1>5. ASSUME NEW p, Sqlite!Crash(p) PROVE SqliteMutex'
  BY <1>5 DEF Sqlite!Crash
<1> QED
  BY <1>1, <1>2, <1>3, <1>4, <1>5 DEF Sqlite!Next, Sqlite!Step

-----------------------------------------------------------------------------
(***************************************************************************)
(* The refinement mapping, and the steps of LedgerStore in terms of it.    *)
(***************************************************************************)
Status(t) == IF backend = "sqlite" THEN Sqlite!StatusOf(t) ELSE Postgres!StatusOf(t)
View(t) == IF backend = "sqlite" THEN Sqlite!ViewOf(t) ELSE Postgres!ViewOf(t)

\* A step of one call: it begins, throws, returns, fails, takes effect, or shows nothing.
LEMMA AbstractStep ==
    ASSUME NEW t \in Transactions,
           \A u \in Transactions \ {t} : Status(u)' = Status(u) /\ View(u)' = View(u),
           \/ /\ Ledger' = Ledger /\ View(t)' = View(t)
              /\ \/ Status(t) = "new" /\ Status(t)' = "pending"
                 \/ Status(t) = "pending" /\ Status(t)' = "threw" /\ t \notin Reads
                 \/ Status(t) = "effective" /\ Status(t)' = "ok"
                 \/ Status(t)' = Status(t)
           \/ /\ Ledger' = Ledger /\ View(t)' = <<>>
              /\ Status(t) \in {"pending", "effective"} /\ Status(t)' = "failed"
           \/ /\ Status(t) = "pending" /\ Status(t)' = "effective" /\ View(t)' = Ledger
              /\ Ledger' = IF t \in Reads THEN Ledger ELSE Append(Ledger, t)
    PROVE  [Abstract!Next]_(Abstract!storeVars)
<1> USE DEF Status, View
<1>1. CASE Ledger' = Ledger /\ View(t)' = View(t) /\ Status(t) = "new" /\ Status(t)' = "pending"
  <2>1. Abstract!Begin(t)
    BY <1>1 DEF Abstract!Begin
  <2> QED
    BY <2>1 DEF Abstract!Next
<1>2. CASE /\ Ledger' = Ledger /\ View(t)' = View(t)
           /\ Status(t) = "pending" /\ Status(t)' = "threw" /\ t \notin Reads
  <2>1. Abstract!Throw(t)
    BY <1>2 DEF Abstract!Throw
  <2> QED
    BY <2>1 DEF Abstract!Next
<1>3. CASE /\ Ledger' = Ledger /\ View(t)' = View(t)
           /\ Status(t) = "effective" /\ Status(t)' = "ok"
  <2>1. Abstract!Return(t)
    BY <1>3 DEF Abstract!Return
  <2> QED
    BY <2>1 DEF Abstract!Next
<1>4. CASE Ledger' = Ledger /\ View(t)' = View(t) /\ Status(t)' = Status(t)
  BY <1>4 DEF Abstract!storeVars
<1>5. CASE /\ Ledger' = Ledger /\ View(t)' = <<>>
           /\ Status(t) \in {"pending", "effective"} /\ Status(t)' = "failed"
  <2>1. {t} \in (SUBSET Transactions) \ {{}}
    OBVIOUS
  <2>2. Abstract!Fail
    BY <1>5, <2>1 DEF Abstract!Fail
  <2> QED
    BY <2>2 DEF Abstract!Next
<1>6. CASE /\ Status(t) = "pending" /\ Status(t)' = "effective" /\ View(t)' = Ledger
           /\ Ledger' = IF t \in Reads THEN Ledger ELSE Append(Ledger, t)
  <2>1. Abstract!TakeEffect(t)
    BY <1>6 DEF Abstract!TakeEffect
  <2> QED
    BY <2>1 DEF Abstract!Next
<1> QED
  BY <1>1, <1>2, <1>3, <1>4, <1>5, <1>6

\* A step that shows nothing.
LEMMA AbstractStutter ==
    ASSUME Ledger' = Ledger,
           \A t \in Transactions : Status(t)' = Status(t) /\ View(t)' = View(t)
    PROVE  [Abstract!Next]_(Abstract!storeVars)
BY DEF Abstract!storeVars, Status, View

\* A process that ends fails its running calls at once.
LEMMA AbstractFail ==
    ASSUME NEW failing \in SUBSET Transactions, Ledger' = Ledger,
           \A t \in failing : /\ Status(t) \in {"pending", "effective"}
                              /\ Status(t)' = "failed" /\ View(t)' = <<>>,
           \A t \in Transactions \ failing : Status(t)' = Status(t) /\ View(t)' = View(t)
    PROVE  [Abstract!Next]_(Abstract!storeVars)
<1> USE DEF Status, View
<1>1. CASE failing = {}
  BY <1>1, AbstractStutter
<1>2. CASE failing # {}
  <2>1. Abstract!Fail
    BY <1>2 DEF Abstract!Fail
  <2> QED
    BY <2>1 DEF Abstract!Next
<1> QED
  BY <1>1, <1>2

-----------------------------------------------------------------------------
\* SQLite: a transaction takes effect with its COMMIT, a read when it loads.
LEMMA SqliteImplements ==
    ASSUME SqliteInv, Sqlite!Next, backend = "sqlite", backend' = "sqlite"
    PROVE  [Abstract!Next]_(Abstract!storeVars)
<1> USE DatabaseAssumption DEF SqliteInv, SqliteType, SqliteAnswers, Sqlite!SqliteAssumption,
        Status, View, Sqlite!StatusOf, Sqlite!ViewOf
<1>1. ASSUME NEW s \in Stores, Sqlite!OpenStore(s) \/ Sqlite!Close(s)
      PROVE  [Abstract!Next]_(Abstract!storeVars)
  <2>1. Ledger' = Ledger
    BY <1>1 DEF Sqlite!OpenStore, Sqlite!Close, Ledger
  <2>2. \A t \in Transactions : Status(t)' = Status(t) /\ View(t)' = View(t)
    BY <1>1 DEF Sqlite!OpenStore, Sqlite!Close
  <2> QED
    BY <2>1, <2>2, AbstractStutter
<1>2. ASSUME NEW t \in Transactions, Sqlite!Call(t) PROVE [Abstract!Next]_(Abstract!storeVars)
  <2>1. Ledger' = Ledger
    BY <1>2 DEF Sqlite!Call, Ledger
  <2>2. \A u \in Transactions \ {t} : Status(u)' = Status(u) /\ View(u)' = View(u)
    BY <1>2 DEF Sqlite!Call
  <2>3. Status(t) = "new" /\ Status(t)' = "pending" /\ View(t)' = View(t)
    BY <1>2 DEF Sqlite!Call
  <2> QED
    BY <2>1, <2>2, <2>3, AbstractStep
<1>3. ASSUME NEW t \in Transactions,
             Sqlite!Begin(t) \/ Sqlite!BeginFails(t) \/ Sqlite!Abort(t)
      PROVE  [Abstract!Next]_(Abstract!storeVars)
  <2>1. /\ Ledger' = Ledger
        /\ \A u \in Transactions : Status(u)' = Status(u) /\ View(u)' = View(u)
    <3>1. CASE Sqlite!Begin(t)
      BY <3>1 DEF Sqlite!Begin, Sqlite!First, Ledger
    <3>2. CASE Sqlite!BeginFails(t)
      BY <3>2 DEF Sqlite!BeginFails, Sqlite!First, Sqlite!Finish, Ledger
    <3>3. CASE Sqlite!Abort(t)
      <4>1. PICK answer \in {"threw", "error"} : Sqlite!Rollback(t, answer)
        BY <3>3 DEF Sqlite!Abort
      <4> QED
        BY <4>1 DEF Sqlite!Rollback, Sqlite!Finish, Ledger
    <3> QED
      BY <1>3, <3>1, <3>2, <3>3
  <2> QED
    BY <2>1, AbstractStutter
<1>4. ASSUME NEW t \in Transactions, Sqlite!Load(t) PROVE [Abstract!Next]_(Abstract!storeVars)
  <2>1. payload # Absent
    BY <1>4 DEF Sqlite!Load, Sqlite!Open, SqliteOpened
  <2>2. Ledger' = Ledger /\ t \in Reads
    BY <1>4 DEF Sqlite!Load, Ledger
  <2>3. \A u \in Transactions \ {t} : Status(u)' = Status(u) /\ View(u)' = View(u)
    BY <1>4 DEF Sqlite!Load, Sqlite!Finish, Sqlite!First
  <2>4. Status(t) = "pending" /\ Status(t)' = "effective" /\ View(t)' = Ledger
    BY <1>4, <2>1 DEF Sqlite!Load, Sqlite!Finish, Sqlite!First, Ledger
  <2> QED
    BY <2>2, <2>3, <2>4, AbstractStep
<1>5. ASSUME NEW t \in Transactions, Sqlite!Commit(t) PROVE [Abstract!Next]_(Abstract!storeVars)
  <2>1. writer = t /\ state[t] = payload /\ payload # Absent /\ t \notin Reads
    BY <1>5 DEF Sqlite!Commit, Sqlite!Open, SqliteLock, SqliteOpened
  <2>2. payload' = Append(payload, t) /\ payload' \in Seq(Transactions)
    BY <1>5, <2>1 DEF Sqlite!Commit
  <2>3. Ledger = payload /\ Ledger' = Append(Ledger, t)
    BY <2>1, <2>2 DEF Ledger
  <2>4. \A u \in Transactions \ {t} : Status(u)' = Status(u) /\ View(u)' = View(u)
    BY <1>5 DEF Sqlite!Commit, Sqlite!Finish
  <2>5. Status(t) = "pending" /\ Status(t)' = "effective" /\ View(t)' = Ledger
    BY <1>5, <2>1, <2>3 DEF Sqlite!Commit, Sqlite!Finish
  <2> QED
    BY <2>1, <2>3, <2>4, <2>5, AbstractStep
<1>6. ASSUME NEW t \in Transactions, Sqlite!Leave(t) PROVE [Abstract!Next]_(Abstract!storeVars)
  <2>1. Ledger' = Ledger
    BY <1>6 DEF Sqlite!Leave, Ledger
  <2>2. \A u \in Transactions \ {t} : Status(u)' = Status(u) /\ View(u)' = View(u)
    BY <1>6 DEF Sqlite!Leave
  <2>3. \/ Status(t) = "effective" /\ Status(t)' = "ok" /\ View(t)' = View(t)
        \/ Status(t) = "pending" /\ Status(t)' = "threw" /\ t \notin Reads /\ View(t)' = View(t)
        \/ Status(t) = "pending" /\ Status(t)' = "failed" /\ View(t)' = <<>>
    BY <1>6 DEF Sqlite!Leave, Answers
  <2> QED
    BY <2>1, <2>2, <2>3, AbstractStep
<1>7. ASSUME NEW p, Sqlite!Crash(p) PROVE [Abstract!Next]_(Abstract!storeVars)
  <2> DEFINE lost == {t \in Transactions : Sqlite!Active(t) /\ Sqlite!Process(t) = p}
  <2>1. Ledger' = Ledger
    BY <1>7 DEF Sqlite!Crash, Ledger
  <2>2. \A t \in lost : /\ Status(t) \in {"pending", "effective"}
                        /\ Status(t)' = "failed" /\ View(t)' = <<>>
    BY <1>7 DEF Sqlite!Crash, Sqlite!Active
  <2>3. \A t \in Transactions \ lost : Status(t)' = Status(t) /\ View(t)' = View(t)
    BY <1>7 DEF Sqlite!Crash
  <2> QED
    BY <2>1, <2>2, <2>3, AbstractFail
<1> QED
  BY <1>1, <1>2, <1>3, <1>4, <1>5, <1>6, <1>7 DEF Sqlite!Next, Sqlite!Step

-----------------------------------------------------------------------------
(***************************************************************************)
(* PostgreSQL.                                                             *)
(***************************************************************************)
PostgresType ==
    /\ payload \in Seq(Transactions) /\ writer \in Transactions \cup {Nobody}
    /\ pc \in [Transactions -> {"start", "connecting", "locking", "computing", "committing",
                               "releasing", "ended"}]
    /\ session \in [Transactions -> {"none", "open", "locked", "committing", "committed"}]
    /\ state \in [Transactions -> Seq(Transactions)] /\ outcome \in [Transactions -> Answers]

\* Where the client is, what the server knows of it, and what it will answer.  A session may
\* outlive its client; what it may still commit or has committed was answered with an error.
PostgresCalls ==
    \A t \in Transactions :
        /\ pc[t] \in {"start", "connecting"} => session[t] = "none" /\ outcome[t] = "none"
        /\ pc[t] \in {"locking", "computing", "committing"} => outcome[t] = "none" /\ t \notin Reads
        /\ pc[t] = "locking" => session[t] \in {"none", "open"}
        /\ pc[t] = "computing" => session[t] \in {"none", "locked"}
        /\ pc[t] = "committing" => session[t] \in {"none", "committing", "committed"}
        /\ pc[t] = "releasing" => /\ outcome[t] # "none"
                                  /\ session[t] \in {"none", "committed"}
                                  /\ session[t] = "committed" => outcome[t] = "ok"
        /\ pc[t] = "ended" => /\ outcome[t] # "none"
                              /\ session[t] \in {"committing", "committed"} => outcome[t] = "error"
        /\ session[t] # "none" \/ outcome[t] = "threw" => t \notin Reads

\* The row lock belongs to the session that has loaded the ledger and may commit it; that
\* ledger is the one in the row.
PostgresLock ==
    /\ \A t \in Transactions : session[t] \in {"locked", "committing"} <=> writer = t
    /\ writer # Nobody => state[writer] = payload

PostgresInv == PostgresType /\ PostgresCalls /\ PostgresLock

\* The steps of a client between its call and its COMMIT.
LEMMA PostgresClientStep ==
    ASSUME PostgresInv, NEW t \in Transactions,
           \/ Postgres!Call(t) \/ Postgres!Connect(t) \/ Postgres!ConnectFails(t)
           \/ Postgres!Read(t) \/ Postgres!LockAndLoad(t) \/ Postgres!SendCommit(t)
    PROVE  PostgresInv'
<1> USE DatabaseAssumption DEF PostgresInv, PostgresType, PostgresCalls, PostgresLock, Answers,
        Postgres!PostgresAssumption, Postgres!Goto, Postgres!Serve, Postgres!Outcome
<1>1. CASE Postgres!Call(t)
  BY <1>1 DEF Postgres!Call
<1>2. CASE Postgres!Connect(t)
  BY <1>2 DEF Postgres!Connect
<1>3. CASE Postgres!ConnectFails(t)
  BY <1>3 DEF Postgres!ConnectFails
<1>4. CASE Postgres!Read(t)
  BY <1>4 DEF Postgres!Read
<1>5. CASE Postgres!LockAndLoad(t)
  BY <1>5 DEF Postgres!LockAndLoad
<1>6. CASE Postgres!SendCommit(t)
  BY <1>6 DEF Postgres!SendCommit
<1> QED
  BY <1>1, <1>2, <1>3, <1>4, <1>5, <1>6

\* COMMIT and its answer, the ways a call ends, and what becomes of sessions.
LEMMA PostgresEndStep ==
    ASSUME PostgresInv, NEW t \in Transactions,
           \/ Postgres!ServerCommits(t) \/ Postgres!CommitAnswered(t) \/ Postgres!Rollback(t)
           \/ Postgres!Release(t) \/ Postgres!Drop(t) \/ Postgres!ServerEnds(t)
    PROVE  PostgresInv'
<1> USE DatabaseAssumption DEF PostgresInv, PostgresType, PostgresCalls, PostgresLock, Answers,
        Postgres!PostgresAssumption, Postgres!Goto, Postgres!Serve, Postgres!Outcome,
        Postgres!Unlocked
<1>1. CASE Postgres!ServerCommits(t)
  <2>1. writer = t /\ payload' \in Seq(Transactions)
    BY <1>1 DEF Postgres!ServerCommits
  <2>2. PostgresType'
    BY <1>1, <2>1 DEF Postgres!ServerCommits
  <2>3. PostgresCalls'
    BY <1>1 DEF Postgres!ServerCommits
  <2>4. PostgresLock'
    BY <1>1, <2>1 DEF Postgres!ServerCommits
  <2> QED
    BY <2>2, <2>3, <2>4
<1>2. CASE Postgres!CommitAnswered(t)
  BY <1>2 DEF Postgres!CommitAnswered
<1>3. CASE Postgres!Rollback(t)
  <2>1. PICK answer \in {"error", "threw"} : Postgres!Outcome(t, answer)
    BY <1>3 DEF Postgres!Rollback
  <2> QED
    BY <1>3, <2>1 DEF Postgres!Rollback
<1>4. CASE Postgres!Release(t)
  <2>1. PostgresType' /\ PostgresCalls'
    BY <1>4 DEF Postgres!Release
  <2>2. session[t] \notin {"locked", "committing"} /\ session'[t] = "none"
    BY <1>4 DEF Postgres!Release
  <2>3. \A u \in Transactions \ {t} : session'[u] = session[u]
    BY <1>4 DEF Postgres!Release
  <2>4. PostgresLock'
    BY <1>4, <2>2, <2>3 DEF Postgres!Release
  <2> QED
    BY <2>1, <2>4
<1>5. CASE Postgres!Drop(t)
  <2>1. PICK answer \in {"error", "threw"} :
            Postgres!Outcome(t, answer) /\ (answer = "threw" => pc[t] = "computing")
    BY <1>5 DEF Postgres!Drop
  <2> QED
    BY <1>5, <2>1 DEF Postgres!Drop
<1>6. CASE Postgres!ServerEnds(t)
  BY <1>6 DEF Postgres!ServerEnds
<1> QED
  BY <1>1, <1>2, <1>3, <1>4, <1>5, <1>6

LEMMA PostgresStep ==
    ASSUME PostgresInv, Postgres!Next
    PROVE  PostgresInv'
<1>1. ASSUME NEW p, Postgres!Crash(p) PROVE PostgresInv'
  BY <1>1 DEF PostgresInv, PostgresType, PostgresCalls, PostgresLock, Answers, Postgres!Crash,
     Postgres!Active
<1> QED
  BY <1>1, PostgresClientStep, PostgresEndStep DEF Postgres!Next, Postgres!Progress

\* PostgreSQL: a transaction takes effect when the server commits it, a read with its SELECT.
LEMMA PostgresImplements ==
    ASSUME PostgresInv, Postgres!Next, backend = "postgres", backend' = "postgres"
    PROVE  [Abstract!Next]_(Abstract!storeVars)
<1> USE DatabaseAssumption DEF PostgresInv, PostgresType, PostgresCalls, Answers,
        Postgres!PostgresAssumption, Status, View, Postgres!StatusOf, Postgres!ViewOf,
        Postgres!Goto, Postgres!Serve, Postgres!Outcome
<1>1. payload # Absent /\ Ledger = payload
  BY DEF Ledger, Sqlite!SqliteAssumption
<1>2. ASSUME payload' = payload PROVE Ledger' = Ledger
  BY <1>2 DEF Ledger
<1>3. ASSUME NEW t \in Transactions,
             \/ Postgres!Connect(t) \/ Postgres!LockAndLoad(t) \/ Postgres!SendCommit(t)
             \/ Postgres!CommitAnswered(t) \/ Postgres!Rollback(t)
      PROVE  [Abstract!Next]_(Abstract!storeVars)
  <2>1. Ledger' = Ledger
    BY <1>2, <1>3 DEF Postgres!Connect, Postgres!LockAndLoad, Postgres!SendCommit,
       Postgres!CommitAnswered, Postgres!Rollback
  <2>2. \A u \in Transactions : Status(u)' = Status(u) /\ View(u)' = View(u)
    <3>1. CASE Postgres!Connect(t) \/ Postgres!LockAndLoad(t) \/ Postgres!SendCommit(t)
      BY <3>1 DEF Postgres!Connect, Postgres!LockAndLoad, Postgres!SendCommit
    <3>2. CASE Postgres!CommitAnswered(t)
      BY <3>2 DEF Postgres!CommitAnswered
    <3>3. CASE Postgres!Rollback(t)
      BY <3>3 DEF Postgres!Rollback
    <3> QED
      BY <1>3, <3>1, <3>2, <3>3
  <2> QED
    BY <2>1, <2>2, AbstractStutter
<1>4. ASSUME NEW t \in Transactions, Postgres!Call(t)
      PROVE  [Abstract!Next]_(Abstract!storeVars)
  <2>1. Ledger' = Ledger
    BY <1>2, <1>4 DEF Postgres!Call
  <2>2. \A u \in Transactions \ {t} : Status(u)' = Status(u) /\ View(u)' = View(u)
    BY <1>4 DEF Postgres!Call
  <2>3. Status(t) = "new" /\ Status(t)' = "pending" /\ View(t)' = View(t)
    BY <1>4 DEF Postgres!Call
  <2> QED
    BY <2>1, <2>2, <2>3, AbstractStep
<1>5. ASSUME NEW t \in Transactions, Postgres!Read(t)
      PROVE  [Abstract!Next]_(Abstract!storeVars)
  <2>1. Ledger' = Ledger /\ t \in Reads
    BY <1>2, <1>5 DEF Postgres!Read
  <2>2. \A u \in Transactions \ {t} : Status(u)' = Status(u) /\ View(u)' = View(u)
    BY <1>5 DEF Postgres!Read
  <2>3. Status(t) = "pending" /\ Status(t)' = "effective" /\ View(t)' = Ledger
    BY <1>1, <1>5 DEF Postgres!Read
  <2> QED
    BY <2>1, <2>2, <2>3, AbstractStep
<1>6. ASSUME NEW t \in Transactions, Postgres!ServerCommits(t)
      PROVE  [Abstract!Next]_(Abstract!storeVars)
  <2>1. writer = t /\ state[t] = payload /\ t \notin Reads
    BY <1>6 DEF Postgres!ServerCommits, PostgresLock
  <2>2. payload' = Append(payload, t) /\ payload' \in Seq(Transactions)
    BY <1>6, <2>1 DEF Postgres!ServerCommits
  <2>3. Ledger' = Append(Ledger, t)
    BY <1>1, <2>2 DEF Ledger, Sqlite!SqliteAssumption
  <2>4. \A u \in Transactions \ {t} : Status(u)' = Status(u) /\ View(u)' = View(u)
    BY <1>6 DEF Postgres!ServerCommits
  <2>5. Status(t) = "pending" /\ Status(t)' = "effective" /\ View(t)' = Ledger
    BY <1>1, <1>6, <2>1 DEF Postgres!ServerCommits
  <2> QED
    BY <2>1, <2>3, <2>4, <2>5, AbstractStep
<1>7. ASSUME NEW t \in Transactions,
             \/ Postgres!ConnectFails(t) \/ Postgres!Release(t) \/ Postgres!Drop(t)
             \/ Postgres!ServerEnds(t)
      PROVE  [Abstract!Next]_(Abstract!storeVars)
  <2>1. Ledger' = Ledger
    BY <1>2, <1>7 DEF Postgres!ConnectFails, Postgres!Release, Postgres!Drop, Postgres!ServerEnds
  <2>2. \A u \in Transactions \ {t} : Status(u)' = Status(u) /\ View(u)' = View(u)
    BY <1>7 DEF Postgres!ConnectFails, Postgres!Release, Postgres!Drop, Postgres!ServerEnds
  <2>3. \/ /\ View(t)' = View(t)
           /\ \/ Status(t) = "effective" /\ Status(t)' = "ok"
              \/ Status(t) = "pending" /\ Status(t)' = "threw" /\ t \notin Reads
              \/ Status(t)' = Status(t)
        \/ /\ Status(t) \in {"pending", "effective"} /\ Status(t)' = "failed"
           /\ View(t)' = <<>>
    <3>1. CASE Postgres!ConnectFails(t)
      BY <3>1 DEF Postgres!ConnectFails
    <3>2. CASE Postgres!Release(t)
      BY <3>2 DEF Postgres!Release
    <3>3. CASE Postgres!Drop(t)
      <4>1. PICK answer \in {"error", "threw"} :
                Postgres!Outcome(t, answer) /\ (answer = "threw" => pc[t] = "computing")
        BY <3>3 DEF Postgres!Drop
      <4> QED
        BY <3>3, <4>1 DEF Postgres!Drop
    <3>4. CASE Postgres!ServerEnds(t)
      BY <3>4 DEF Postgres!ServerEnds
    <3> QED
      BY <1>7, <3>1, <3>2, <3>3, <3>4
  <2> QED
    BY <2>1, <2>2, <2>3, AbstractStep
<1>8. ASSUME NEW p, Postgres!Crash(p) PROVE [Abstract!Next]_(Abstract!storeVars)
  <2> DEFINE failing == {t \in Transactions : Status(t) # "failed" /\ Status(t)' = "failed"}
  <2>1. Ledger' = Ledger
    BY <1>2, <1>8 DEF Postgres!Crash
  <2>2. ASSUME NEW t \in Transactions
        PROVE  \/ Status(t)' = Status(t) /\ View(t)' = View(t)
               \/ /\ Status(t) \in {"pending", "effective"}
                  /\ Status(t)' = "failed" /\ View(t)' = <<>>
    <3>1. CASE pc'[t] = pc[t] /\ outcome'[t] = outcome[t]
      BY <1>8, <3>1 DEF Postgres!Crash
    <3>2. CASE Postgres!Active(t) /\ pc'[t] = "ended" /\ outcome'[t] = "error"
      BY <1>8, <3>2 DEF Postgres!Crash, Postgres!Active
    <3> QED
      BY <1>8, <3>1, <3>2 DEF Postgres!Crash
  <2>3. \A t \in failing : /\ Status(t) \in {"pending", "effective"}
                           /\ Status(t)' = "failed" /\ View(t)' = <<>>
    BY <2>2
  <2>4. \A t \in Transactions \ failing : Status(t)' = Status(t) /\ View(t)' = View(t)
    BY <2>2
  <2>5. failing \in SUBSET Transactions
    OBVIOUS
  <2> HIDE DEF failing
  <2> QED
    BY <2>1, <2>3, <2>4, <2>5, AbstractFail
<1> QED
  BY <1>3, <1>4, <1>5, <1>6, <1>7, <1>8 DEF Postgres!Next, Postgres!Progress

-----------------------------------------------------------------------------
(***************************************************************************)
(* A deployment uses one of the two.                                       *)
(***************************************************************************)
DatabaseInv ==
    \/ backend = "sqlite" /\ SqliteInv
    \/ backend = "postgres" /\ PostgresInv

LEMMA DatabaseInit == Init => DatabaseInv
<1> SUFFICES ASSUME Init PROVE DatabaseInv
  OBVIOUS
<1> USE DatabaseAssumption DEF Init, Answers, Sqlite!SqliteAssumption
<1>1. <<>> \in Seq(Transactions)
  OBVIOUS
<1>2. CASE backend = "sqlite"
  <2>1. SqliteType
    BY <1>1, <1>2 DEF SqliteType
  <2>2. SqliteOpened /\ SqliteAnswers
    BY <1>2 DEF SqliteOpened, SqliteAnswers
  <2>3. SqliteLock /\ SqliteMutex
    BY <1>2 DEF SqliteLock, SqliteMutex, Sqlite!LockEnds, Sqlite!Open, Sqlite!Active
  <2> QED
    BY <1>2, <2>1, <2>2, <2>3 DEF DatabaseInv, SqliteInv
<1>3. CASE backend = "postgres"
  <2>1. PostgresType
    BY <1>1, <1>3 DEF PostgresType
  <2>2. PostgresCalls /\ PostgresLock
    BY <1>3 DEF PostgresCalls, PostgresLock
  <2> QED
    BY <1>3, <2>1, <2>2 DEF DatabaseInv, PostgresInv
<1> QED
  BY <1>2, <1>3

LEMMA DatabaseStep ==
    ASSUME DatabaseInv, [Next]_vars
    PROVE  DatabaseInv'
<1>1. CASE Sqlite!Next /\ WithSqlite
  <2>1. SqliteInv /\ backend' = "sqlite"
    BY <1>1 DEF DatabaseInv, WithSqlite
  <2>2. SqliteInv'
    BY <1>1, <2>1, SqliteTypeStep, SqliteLockStep, SqliteMutexStep DEF SqliteInv
  <2> QED
    BY <2>1, <2>2 DEF DatabaseInv
<1>2. CASE Postgres!Next /\ WithPostgres
  BY <1>2, PostgresStep DEF DatabaseInv, WithPostgres
<1>3. CASE UNCHANGED vars
  <2> USE <1>3 DEF DatabaseInv, vars, ofSqlite
  <2>1. CASE backend = "sqlite"
    BY <2>1 DEF SqliteInv, SqliteType, SqliteOpened, SqliteAnswers, SqliteLock, SqliteMutex,
       Sqlite!LockEnds, Sqlite!Open, Sqlite!Active, Sqlite!SharesMutex
  <2>2. CASE backend = "postgres"
    BY <2>2 DEF PostgresInv, PostgresType, PostgresCalls, PostgresLock
  <2> QED
    BY <2>1, <2>2
<1> QED
  BY <1>1, <1>2, <1>3 DEF Next

LEMMA DatabaseSafe == Spec => []DatabaseInv
<1>1. DatabaseInv /\ [Next]_vars => DatabaseInv'
  BY DatabaseStep
<1> QED
  BY <1>1, DatabaseInit, PTL DEF Spec

\* SQLite's write lock always belongs to a transaction that runs: a failed call, a closed store
\* and a crash leave none behind (sqlite-store.ts:92-106).
THEOREM LockIsReleased == Spec => []LockEnds
<1>1. DatabaseInv => LockEnds
  BY DEF DatabaseInv, SqliteInv, SqliteLock, LockEnds
<1> QED
  BY <1>1, DatabaseSafe, PTL

\* A call that waits for SQLite's write lock never waits for its own process, whichever of its
\* stores has it: the mutex of the database's path orders them (sqlite-store.ts:10).
THEOREM ProcessNeverBlocksItself == Spec => []NeverBlocksItself
<1>1. DatabaseInv => NeverBlocksItself
  BY DEF DatabaseInv, SqliteInv, SqliteType, SqliteLock, SqliteMutex, NeverBlocksItself,
     Sqlite!NeverBlocksItself, Sqlite!LockEnds, Sqlite!First, Sqlite!Open, Sqlite!Active,
     Sqlite!SharesMutex, Sqlite!Process
<1> QED
  BY <1>1, DatabaseSafe, PTL

\* The ledger a PostgreSQL transaction was given is the one in the row, and no other session
\* can still commit one it has loaded, whatever its client was told (postgres-store.ts:119-126).
THEOREM LoadedLedgerIsFinal == Spec => []LoadedIsFinal
<1>1. DatabaseInv => LoadedIsFinal
  BY DatabaseAssumption DEF DatabaseInv, PostgresInv, PostgresType, PostgresLock, LoadedIsFinal,
     Postgres!LoadedIsFinal, Postgres!PostgresAssumption
<1> QED
  BY <1>1, DatabaseSafe, PTL

\* Each step of either store is a step of LedgerStore or shows nothing: every transact and read
\* takes effect at one instant on the ledger all the earlier ones left, and survives failures,
\* closed stores, dropped connections and crashes.
THEOREM DatabasesAreAtomic == Spec => ImplementsLedgerStore
<1>1. Init => Abstract!Init
  BY DatabaseAssumption DEF Init, Abstract!Init, Ledger, Sqlite!StatusOf, Sqlite!ViewOf,
     Postgres!StatusOf, Postgres!ViewOf
<1>2. ASSUME DatabaseInv, [Next]_vars PROVE [Abstract!Next]_(Abstract!storeVars)
  <2>1. CASE Sqlite!Next /\ WithSqlite
    BY <1>2, <2>1, SqliteImplements DEF DatabaseInv, WithSqlite
  <2>2. CASE Postgres!Next /\ WithPostgres
    BY <1>2, <2>2, PostgresImplements DEF DatabaseInv, WithPostgres
  <2>3. CASE UNCHANGED vars
    <3>1. Ledger' = Ledger /\ backend' = backend
      BY <2>3 DEF vars, Ledger
    <3>2. \A t \in Transactions : Status(t)' = Status(t) /\ View(t)' = View(t)
      BY <2>3 DEF vars, ofSqlite, Status, View, Sqlite!StatusOf, Sqlite!ViewOf,
         Postgres!StatusOf, Postgres!ViewOf
    <3> QED
      BY <3>1, <3>2, AbstractStutter
  <2> QED
    BY <1>2, <2>1, <2>2, <2>3 DEF Next
<1> QED
  BY <1>1, <1>2, DatabaseSafe, PTL DEF Spec, ImplementsLedgerStore, Abstract!Spec
=============================================================================
