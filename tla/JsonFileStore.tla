---------------------------- MODULE JsonFileStore ----------------------------
(***************************************************************************)
(* JsonFileStore (src/src/store.ts) and the Mutex it queues on             *)
(* (src/src/mutex.ts), as the file operations it awaits one after another. *)
(* Processes share the ledger file and its lock file; each process has one *)
(* store, whose calls pass its mutex in FIFO order.  A process may end at  *)
(* any point, losing its calls but not its files, and start again.  File   *)
(* operations may fail.  rename is atomic, as POSIX has it; a crash of the *)
(* host is not modelled, and neither is a damaged ledger file, which load  *)
(* refuses (a failed load).                                                *)
(***************************************************************************)
EXTENDS Naturals, Sequences

CONSTANTS
    Transactions,  \* the calls made on the store
    Reads,         \* those of them that call read
    Processes,
    ProcessOf,     \* ProcessOf[t] is the process that makes the call t
    Nobody,        \* the lock file does not exist
    MaxCrashes     \* bound on the number of crashes

ASSUME StoreAssumption ==
    /\ Reads \subseteq Transactions
    /\ ProcessOf \in [Transactions -> Processes]
    /\ Nobody \notin Transactions
    /\ MaxCrashes \in Nat

VARIABLES
    file,      \* the contents of the ledger file
    lock,      \* the call that created the lock file, or Nobody
    pc,        \* pc[t] is where the call t is
    state,     \* state[t] is the ledger t loaded
    late,      \* late[t]: the deadline of t's lock loop has passed
    outcome,   \* outcome[t] is what t will answer, or has answered
    ahead,     \* ahead[t] is the set of calls queued before t on its mutex
    up,        \* the processes that are running
    crashes    \* the number of crashes so far

vars == <<file, lock, pc, state, late, outcome, ahead, up, crashes>>

Positions == {"start", "queued", "locking", "opened", "holding", "computed",
              "written", "unlocking", "ended"}
Outcomes == {"none", "ok", "threw", "error"}

Active(t) == pc[t] \notin {"start", "ended"}

\* The call runs with the lock file it created in place.
InCriticalSection(t) == pc[t] \in {"opened", "holding", "computed", "written", "unlocking"}

Init ==
    /\ file = <<>>
    /\ lock = Nobody
    /\ pc = [t \in Transactions |-> "start"]
    /\ state = [t \in Transactions |-> <<>>]
    /\ late = [t \in Transactions |-> FALSE]
    /\ outcome = [t \in Transactions |-> "none"]
    /\ ahead = [t \in Transactions |-> {}]
    /\ up = Processes
    /\ crashes = 0

-----------------------------------------------------------------------------
Goto(t, position) == pc' = [pc EXCEPT ![t] = position]

\* runExclusive: the call takes its place behind the calls of its process.
Call(t) ==
    /\ pc[t] = "start"
    /\ ProcessOf[t] \in up
    /\ Goto(t, "queued")
    /\ ahead' = [ahead EXCEPT ![t] =
                    {u \in Transactions : Active(u) /\ ProcessOf[u] = ProcessOf[t]}]
    /\ UNCHANGED <<file, lock, state, late, outcome, up, crashes>>

Enter(t) ==
    /\ pc[t] = "queued"
    /\ ahead[t] = {}
    /\ Goto(t, "locking")
    /\ UNCHANGED <<file, lock, state, late, outcome, ahead, up, crashes>>

EndUnanswered(t, answer) ==
    /\ Goto(t, "ended")
    /\ ahead' = [u \in Transactions |-> ahead[u] \ {t}]
    /\ UNCHANGED outcome

EndKeepingMutex(t, answer) ==
    /\ Goto(t, "ended")
    /\ outcome' = [outcome EXCEPT ![t] = answer]
    /\ UNCHANGED ahead

\* The call ends and lets the next one through its mutex.
End(t, answer) ==
    /\ Goto(t, "ended")
    /\ outcome' = [outcome EXCEPT ![t] = answer]
    /\ ahead' = [u \in Transactions |-> ahead[u] \ {t}]

CreateLockAnyway(t) ==
    /\ pc[t] = "locking"
    /\ lock' = t
    /\ Goto(t, "opened")
    /\ UNCHANGED <<file, state, late, outcome, ahead, up, crashes>>

\* open(lockPath, "wx") succeeds only when no lock file exists; a retry that fails is no step.
CreateLock(t) ==
    /\ pc[t] = "locking"
    /\ lock = Nobody
    /\ lock' = t
    /\ Goto(t, "opened")
    /\ UNCHANGED <<file, state, late, outcome, ahead, up, crashes>>

DeadlinePasses(t) ==
    /\ pc[t] = "locking"
    /\ ~late[t]
    /\ late' = [late EXCEPT ![t] = TRUE]
    /\ UNCHANGED <<file, lock, pc, state, outcome, ahead, up, crashes>>

TimeOutStealingLock(t) ==
    /\ pc[t] = "locking"
    /\ lock # Nobody
    /\ late[t]
    /\ lock' = Nobody
    /\ UNCHANGED <<file, pc, state, late, outcome, ahead, up, crashes>>

\* EEXIST past the deadline.
TimeOut(t) ==
    /\ pc[t] = "locking"
    /\ lock # Nobody
    /\ late[t]
    /\ End(t, "error")
    /\ UNCHANGED <<file, lock, state, late, up, crashes>>

\* mkdir, or open with an error other than EEXIST.
LockError(t) ==
    /\ pc[t] = "locking"
    /\ End(t, "error")
    /\ UNCHANGED <<file, lock, state, late, up, crashes>>

WritePid(t) ==
    /\ pc[t] = "opened"
    /\ Goto(t, "holding")
    /\ UNCHANGED <<file, lock, state, late, outcome, ahead, up, crashes>>

\* The lock file exists already, but acquireFileLock throws before it returns its release.
WritePidFails(t) ==
    /\ pc[t] = "opened"
    /\ End(t, "error")
    /\ UNCHANGED <<file, lock, state, late, up, crashes>>

\* To the finally block, with what the call is going to answer.
Finally(t, answer) ==
    /\ Goto(t, "unlocking")
    /\ outcome' = [outcome EXCEPT ![t] = answer]
    /\ UNCHANGED ahead

\* load, then fn on what it returned; a read is done with that.
Load(t) ==
    /\ pc[t] = "holding"
    /\ state' = [state EXCEPT ![t] = file]
    /\ \/ t \in Reads /\ Finally(t, "ok")
       \/ t \notin Reads /\ Finally(t, "threw")
       \/ t \notin Reads /\ Goto(t, "computed") /\ UNCHANGED <<outcome, ahead>>
    /\ UNCHANGED <<file, lock, late, up, crashes>>

\* save: the temporary file, then rename over the ledger file.
WriteTemp(t) ==
    /\ pc[t] = "computed"
    /\ Goto(t, "written")
    /\ UNCHANGED <<file, lock, state, late, outcome, ahead, up, crashes>>

RenameTemp(t) ==
    /\ pc[t] = "written"
    /\ file' = Append(state[t], t)
    /\ Finally(t, "ok")
    /\ UNCHANGED <<lock, state, late, up, crashes>>

FileErrorInPlace(t) ==
    /\ pc[t] \in {"holding", "computed", "written"}
    /\ Finally(t, "error")
    /\ file' = IF pc[t] = "written" THEN <<>> ELSE file
    /\ UNCHANGED <<lock, state, late, up, crashes>>

\* load, writeFile or rename throws.
FileError(t) ==
    /\ pc[t] \in {"holding", "computed", "written"}
    /\ Finally(t, "error")
    /\ UNCHANGED <<file, lock, state, late, up, crashes>>

\* unlink, which takes a lock file that is gone for done.
Unlock(t) ==
    /\ pc[t] = "unlocking"
    /\ lock' = Nobody
    /\ End(t, outcome[t])
    /\ UNCHANGED <<file, state, late, up, crashes>>

\* unlink throws out of the finally block: the answer becomes an error and the file stays.
UnlockFails(t) ==
    /\ pc[t] = "unlocking"
    /\ End(t, "error")
    /\ UNCHANGED <<file, lock, state, late, up, crashes>>

-----------------------------------------------------------------------------
Crash(p) ==
    LET lost == {t \in Transactions : Active(t) /\ ProcessOf[t] = p}
    IN  /\ p \in up
        /\ crashes < MaxCrashes
        /\ crashes' = crashes + 1
        /\ up' = up \ {p}
        /\ pc' = [t \in Transactions |-> IF t \in lost THEN "ended" ELSE pc[t]]
        /\ outcome' = [t \in Transactions |-> IF t \in lost THEN "error" ELSE outcome[t]]
        /\ ahead' = [t \in Transactions |-> ahead[t] \ lost]
        /\ UNCHANGED <<file, lock, state, late>>

Restart(p) ==
    /\ p \notin up
    /\ up' = up \cup {p}
    /\ UNCHANGED <<file, lock, pc, state, late, outcome, ahead, crashes>>

-----------------------------------------------------------------------------
\* The steps a running call takes on its own.
Step(t) ==
    \/ Enter(t) \/ CreateLock(t) \/ DeadlinePasses(t) \/ TimeOut(t) \/ WritePid(t)
    \/ Load(t) \/ WriteTemp(t) \/ RenameTemp(t) \/ Unlock(t)

Failure(t) == LockError(t) \/ WritePidFails(t) \/ FileError(t) \/ UnlockFails(t)

Next ==
    \/ \E t \in Transactions : Call(t) \/ Step(t) \/ Failure(t)
    \/ \E p \in Processes : Crash(p) \/ Restart(p)

\* A process that runs keeps running its calls: timers fire and file operations come back.
Fairness == \A t \in Transactions : WF_vars(Step(t))

Spec == Init /\ [][Next]_vars /\ Fairness

-----------------------------------------------------------------------------
\* Every variable has its shape, and a call has an answer when it has ended and not before
\* it knows one (store.ts transact, mutex.ts runExclusive).
TypeOK ==
    /\ file \in Seq(Transactions)
    /\ lock \in Transactions \cup {Nobody}
    /\ pc \in [Transactions -> Positions]
    /\ state \in [Transactions -> Seq(Transactions)]
    /\ late \in [Transactions -> BOOLEAN]
    /\ outcome \in [Transactions -> Outcomes]
    /\ ahead \in [Transactions -> SUBSET Transactions]
    /\ up \subseteq Processes
    /\ crashes \in 0..MaxCrashes
    /\ \A t \in Transactions :
          /\ pc[t] \in {"unlocking", "ended"} => outcome[t] # "none"
          /\ pc[t] \notin {"unlocking", "ended"} => outcome[t] = "none"

\* Whoever is between load and unlock owns the lock file, so no two calls of any processes
\* read, change and replace the ledger at the same time (store.ts acquireFileLock).
LockProtects ==
    \A t \in Transactions : InCriticalSection(t) => lock = t

\* A lock file whose creator is gone: it crashed, or failed between open and unlink.
Orphaned == lock # Nobody /\ ~InCriticalSection(lock)

\* The store fails closed: behind an orphaned lock file the ledger is never written again and
\* no call begun later succeeds, for nothing in the store removes another call's lock file.
OrphanFailsClosed ==
    [][Orphaned => /\ UNCHANGED <<file, lock>>
                   /\ \A t \in Transactions : outcome'[t] = "ok" => outcome[t] = "ok"]_vars

\* Nobody waits forever: every call ends with an answer, even behind an orphaned lock file
\* (the deadline of acquireFileLock) and behind calls that failed (the finally of runExclusive).
CallsEnd == \A t \in Transactions : Active(t) ~> pc[t] = "ended"

-----------------------------------------------------------------------------
\* The status of a call as LedgerStore sees it: a transaction takes effect with its rename, a
\* read with its load.
StatusOf(t) ==
    CASE pc[t] = "start" -> "new"
      [] pc[t] = "ended" /\ outcome[t] = "error" -> "failed"
      [] pc[t] = "ended" /\ outcome[t] = "threw" -> "threw"
      [] pc[t] = "ended" /\ outcome[t] = "ok" -> "ok"
      [] pc[t] = "unlocking" /\ outcome[t] = "ok" -> "effective"
      [] OTHER -> "pending"

ViewOf(t) == IF outcome[t] = "ok" THEN state[t] ELSE <<>>

Abstract ==
    INSTANCE LedgerStore WITH
        ledger <- file,
        status <- [t \in Transactions |-> StatusOf(t)],
        view <- [t \in Transactions |-> ViewOf(t)]

\* The lock file, the mutex and the replaced file together make every transact and read one
\* atomic transaction of LedgerStore, through failures and crashes (store.ts JsonFileStore).
ImplementsLedgerStore == Abstract!Spec
=============================================================================
