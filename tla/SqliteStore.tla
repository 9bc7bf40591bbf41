----------------------------- MODULE SqliteStore -----------------------------
(***************************************************************************)
(* NodeSqliteStore (src/src/sqlite-store.ts).  Several stores, in one or   *)
(* more processes, are open on one database file.  node:sqlite is          *)
(* synchronous, so a transaction has one pause, the await of its function: *)
(* BEGIN IMMEDIATE and load come before it in one step, save and COMMIT    *)
(* after it in another.  Stores of one process on one path share a mutex;  *)
(* between processes there is SQLite's write lock.  A statement may fail,  *)
(* close comes at any time, a process may end.  As SQLite has it, an       *)
(* unfinished transaction leaves nothing, whether it fails, is closed or   *)
(* crashes; a crash of the host is not modelled.                           *)
(***************************************************************************)
EXTENDS Naturals, Sequences

CONSTANTS
    Transactions,  \* the calls made on the stores
    Reads,         \* those of them that call read
    Stores,
    StoreOf,       \* StoreOf[t] is the store t is called on
    ProcessOf,     \* ProcessOf[s] is the process that has the store s
    Absent,        \* there is no table yet
    Nobody,        \* nobody has the write lock
    MaxCrashes     \* bound on the number of crashes

SqliteAssumption ==
    /\ Reads \subseteq Transactions
    /\ StoreOf \in [Transactions -> Stores]
    /\ Stores \subseteq DOMAIN ProcessOf
    /\ Nobody \notin Transactions
    /\ Absent \notin Seq(Transactions)
    /\ MaxCrashes \in Nat

VARIABLES
    payload,  \* the ledger in the database
    writer,   \* the call whose transaction has the write lock
    pc,       \* where each call is
    state,    \* state[t] is the ledger t loaded
    outcome,  \* what each call will answer, or has answered
    ahead,    \* ahead[t] is the set of calls queued before t on its mutex
    store,    \* store[s]: "unopened", "open", "closed", or "gone" with its process
    crashes

vars == <<payload, writer, pc, state, outcome, ahead, store, crashes>>

Init ==
    /\ payload = Absent
    /\ writer = Nobody
    /\ pc = [t \in Transactions |-> "start"]
    /\ state = [t \in Transactions |-> <<>>]
    /\ outcome = [t \in Transactions |-> "none"]
    /\ ahead = [t \in Transactions |-> {}]
    /\ store = [s \in Stores |-> "unopened"]
    /\ crashes = 0

Active(t) == pc[t] \in {"queued", "computing", "leaving"}
Process(t) == ProcessOf[StoreOf[t]]
Open(t) == store[StoreOf[t]] = "open"

SharesStore(t, u) == StoreOf[t] = StoreOf[u]

\* mutexFor: one mutex per process and path, so stores of a process on the file share it.
SharesMutex(t, u) == Process(t) = Process(u)

-----------------------------------------------------------------------------
OpenReplacing(s) ==
    /\ store[s] = "unopened"
    /\ writer = Nobody
    /\ store' = [store EXCEPT ![s] = "open"]
    /\ payload' = <<>>
    /\ UNCHANGED <<writer, pc, state, outcome, ahead, crashes>>

\* CREATE TABLE IF NOT EXISTS, INSERT OR IGNORE of the empty ledger.
OpenStore(s) ==
    /\ store[s] = "unopened"
    /\ writer = Nobody
    /\ store' = [store EXCEPT ![s] = "open"]
    /\ payload' = IF payload = Absent THEN <<>> ELSE payload
    /\ UNCHANGED <<writer, pc, state, outcome, ahead, crashes>>

\* Closing the connection ends its transaction; calls on it go on until they use it.
Close(s) ==
    /\ store[s] = "open"
    /\ store' = [store EXCEPT ![s] = "closed"]
    /\ writer' = IF writer # Nobody /\ StoreOf[writer] = s THEN Nobody ELSE writer
    /\ UNCHANGED <<payload, pc, state, outcome, ahead, crashes>>

\* A store that is already closed takes calls too; they fail at BEGIN IMMEDIATE, or at prepare.
Call(t) ==
    /\ pc[t] = "start"
    /\ store[StoreOf[t]] \in {"open", "closed"}
    /\ pc' = [pc EXCEPT ![t] = "queued"]
    /\ ahead' = [ahead EXCEPT ![t] = {u \in Transactions : Active(u) /\ SharesMutex(t, u)}]
    /\ UNCHANGED <<payload, writer, state, outcome, store, crashes>>

First(t) == pc[t] = "queued" /\ ahead[t] = {}

\* The call's own part is over; its promise and the mutex are settled later.
Finish(t, answer) ==
    /\ pc' = [pc EXCEPT ![t] = "leaving"]
    /\ outcome' = [outcome EXCEPT ![t] = answer]
    /\ UNCHANGED <<ahead, store, crashes>>

\* BEGIN IMMEDIATE waits for the lock up to busy_timeout, then load runs and fn is called.
Begin(t) ==
    /\ First(t) /\ t \notin Reads
    /\ Open(t)
    /\ writer = Nobody
    /\ writer' = t
    /\ state' = [state EXCEPT ![t] = payload]
    /\ pc' = [pc EXCEPT ![t] = "computing"]
    /\ UNCHANGED <<payload, outcome, ahead, store, crashes>>

\* Outside the try block: busy, closed or I/O.  A failing load, inside it, is rolled back.
BeginFails(t) ==
    /\ First(t)
    /\ Finish(t, "error")
    /\ UNCHANGED <<payload, writer, state>>

Load(t) ==
    /\ First(t) /\ t \in Reads
    /\ Open(t)
    /\ state' = [state EXCEPT ![t] = payload]
    /\ Finish(t, "ok")
    /\ UNCHANGED <<payload, writer>>

\* fn has returned: save and COMMIT.
Commit(t) ==
    /\ pc[t] = "computing"
    /\ Open(t)
    /\ payload' = Append(state[t], t)
    /\ writer' = Nobody
    /\ Finish(t, "ok")
    /\ UNCHANGED state

\* ROLLBACK; on a closed connection it fails, is ignored, and the lock is gone already.
Rollback(t, answer) ==
    /\ pc[t] = "computing"
    /\ writer' = IF writer = t THEN Nobody ELSE writer
    /\ Finish(t, answer)
    /\ UNCHANGED <<payload, state>>

RollbackForgotten(t, answer) ==
    /\ pc[t] = "computing"
    /\ Finish(t, answer)
    /\ UNCHANGED <<payload, state, writer>>

AbortWithoutRollback(t) == RollbackForgotten(t, "threw") \/ RollbackForgotten(t, "error")

\* fn throws; or save or COMMIT does.
Abort(t) == Rollback(t, "threw") \/ Rollback(t, "error")

LeaveKeepingMutex(t) ==
    /\ pc[t] = "leaving"
    /\ pc' = [pc EXCEPT ![t] = "ended"]
    /\ UNCHANGED <<payload, writer, state, outcome, ahead, store, crashes>>

\* The mutex goes to the next call and the promise is settled.
Leave(t) ==
    /\ pc[t] = "leaving"
    /\ pc' = [pc EXCEPT ![t] = "ended"]
    /\ ahead' = [u \in Transactions |-> ahead[u] \ {t}]
    /\ UNCHANGED <<payload, writer, state, outcome, store, crashes>>

Crash(p) ==
    LET lost == {t \in Transactions : Active(t) /\ Process(t) = p}
    IN  /\ crashes < MaxCrashes
        /\ crashes' = crashes + 1
        /\ store' = [s \in Stores |-> IF ProcessOf[s] = p /\ store[s] # "unopened"
                                      THEN "gone" ELSE store[s]]
        /\ writer' = IF writer \in lost THEN Nobody ELSE writer
        /\ pc' = [t \in Transactions |-> IF t \in lost THEN "ended" ELSE pc[t]]
        /\ outcome' = [t \in Transactions |-> IF t \in lost THEN "error" ELSE outcome[t]]
        /\ ahead' = [t \in Transactions |-> ahead[t] \ lost]
        /\ UNCHANGED <<payload, state>>

-----------------------------------------------------------------------------
\* What a running call does on its own; the busy timeout lets BEGIN end either way.
Step(t) == Begin(t) \/ BeginFails(t) \/ Load(t) \/ Commit(t) \/ Abort(t) \/ Leave(t)

Next ==
    \/ \E s \in Stores : OpenStore(s) \/ Close(s)
    \/ \E t \in Transactions : Call(t) \/ Step(t)
    \/ \E s \in Stores : Crash(ProcessOf[s])

Spec == Init /\ [][Next]_vars /\ \A t \in Transactions : WF_vars(Step(t))

-----------------------------------------------------------------------------
\* The call that reaches BEGIN IMMEDIATE never waits for a transaction of its own process,
\* which could not finish while exec blocks the event loop (sqlite-store.ts:10, one mutex per
\* path: two stores of a process on one file take turns).
NeverBlocksItself ==
    \A t \in Transactions : First(t) /\ writer # Nobody => Process(writer) # Process(t)

\* The write lock is held by a transaction that is still going to end it, never by one whose
\* call failed, was closed under it or crashed (sqlite-store.ts:92-106, ROLLBACK in the catch).
LockEnds == writer # Nobody => pc[writer] = "computing" /\ Open(writer)

\* What DatabaseStores shows to be a LedgerStore.
StatusOf(t) ==
    CASE pc[t] = "start" -> "new"
      [] pc[t] = "ended" -> (CASE outcome[t] = "error" -> "failed" [] OTHER -> outcome[t])
      [] pc[t] = "leaving" /\ outcome[t] = "ok" -> "effective"
      [] OTHER -> "pending"

ViewOf(t) == IF outcome[t] = "ok" THEN state[t] ELSE <<>>
=============================================================================
