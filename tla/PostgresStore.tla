---------------------------- MODULE PostgresStore ----------------------------
(***************************************************************************)
(* PostgresStore (src/src/postgres-store.ts).  Clients in several          *)
(* processes, each with a bounded pool of connections, share the row of    *)
(* one namespace.  There is no in-process mutex: SELECT ... FOR UPDATE     *)
(* orders the transactions.  A connection may drop at any point.  Its      *)
(* client then throws at once, while the server ends the session later:    *)
(* a COMMIT it had received may still be carried out after the caller was  *)
(* told that the transaction failed.  The pool throws away a connection    *)
(* that dropped.  The row exists once open has run (initialize); nobody    *)
(* deletes it.                                                             *)
(***************************************************************************)
EXTENDS Naturals, Sequences, FiniteSets

CONSTANTS
    Transactions,  \* the calls made on the stores
    Reads,         \* those of them that call read
    ProcessOf,     \* ProcessOf[t] is the process, and so the pool, of t
    PoolSize,      \* maxConnections
    Nobody         \* nobody has the row lock

PostgresAssumption ==
    /\ Reads \subseteq Transactions
    /\ Transactions \subseteq DOMAIN ProcessOf
    /\ PoolSize \in Nat \ {0}
    /\ Nobody \notin Transactions

VARIABLES
    payload,  \* the committed ledger
    lock,     \* the transaction whose session has the row lock
    pc,       \* where each client is
    session,  \* what the server knows of each transaction
    state,    \* state[t] is the ledger t loaded
    outcome   \* what each call will answer, or has answered

vars == <<payload, lock, pc, session, state, outcome>>

Init ==
    /\ payload = <<>>
    /\ lock = Nobody
    /\ pc = [t \in Transactions |-> "start"]
    /\ session = [t \in Transactions |-> "none"]
    /\ state = [t \in Transactions |-> <<>>]
    /\ outcome = [t \in Transactions |-> "none"]

Active(t) == pc[t] \notin {"start", "ended"}
Connected(t) == pc[t] \in {"locking", "computing", "committing", "releasing"}
PoolHasRoom(t) ==
    Cardinality({u \in Transactions : Connected(u) /\ ProcessOf[u] = ProcessOf[t]}) < PoolSize

Goto(t, position) == pc' = [pc EXCEPT ![t] = position]
Serve(t, what) == session' = [session EXCEPT ![t] = what]
Outcome(t, answer) == outcome' = [outcome EXCEPT ![t] = answer]
Unlocked(t) == IF lock = t THEN Nobody ELSE lock

-----------------------------------------------------------------------------
Call(t) ==
    /\ pc[t] = "start"
    /\ Goto(t, "connecting")
    /\ UNCHANGED <<payload, lock, session, state, outcome>>

\* pool.connect and BEGIN.
Connect(t) ==
    /\ pc[t] = "connecting" /\ t \notin Reads
    /\ PoolHasRoom(t)
    /\ Goto(t, "locking")
    /\ Serve(t, "open")
    /\ UNCHANGED <<payload, lock, state, outcome>>

\* The server refuses, or close has ended the pool, which lets running calls finish.
ConnectFails(t) ==
    /\ pc[t] = "connecting"
    /\ Goto(t, "ended")
    /\ Outcome(t, "error")
    /\ UNCHANGED <<payload, lock, session, state>>

\* read: one plain SELECT, which waits for no lock and sees the last commit.
Read(t) ==
    /\ pc[t] = "connecting" /\ t \in Reads
    /\ PoolHasRoom(t)
    /\ state' = [state EXCEPT ![t] = payload]
    /\ Goto(t, "releasing")
    /\ Outcome(t, "ok")
    /\ UNCHANGED <<payload, lock, session>>

LoadWithoutLock(t) ==
    /\ pc[t] = "locking"
    /\ Serve(t, "locked")
    /\ lock' = t
    /\ state' = [state EXCEPT ![t] = payload]
    /\ Goto(t, "computing")
    /\ UNCHANGED <<payload, outcome>>

\* SELECT ... FOR UPDATE, then fn on what it returned.
LockAndLoad(t) ==
    /\ pc[t] = "locking" /\ session[t] = "open"
    /\ lock = Nobody
    /\ lock' = t
    /\ Serve(t, "locked")
    /\ state' = [state EXCEPT ![t] = payload]
    /\ Goto(t, "computing")
    /\ UNCHANGED <<payload, outcome>>

\* fn has returned, UPDATE is done, COMMIT is sent.
SendCommit(t) ==
    /\ pc[t] = "computing" /\ session[t] = "locked"
    /\ Goto(t, "committing")
    /\ Serve(t, "committing")
    /\ UNCHANGED <<payload, lock, state, outcome>>

\* The server commits, whether or not the client is still there to hear of it.
ServerCommits(t) ==
    /\ session[t] = "committing"
    /\ payload' = Append(state[t], t)
    /\ lock' = Nobody
    /\ Serve(t, "committed")
    /\ UNCHANGED <<pc, state, outcome>>

CommitAnswered(t) ==
    /\ pc[t] = "committing"
    /\ session[t] = "committed"
    /\ Goto(t, "releasing")
    /\ Outcome(t, "ok")
    /\ UNCHANGED <<payload, lock, session, state>>

\* A statement fails, or fn throws: ROLLBACK, and the connection can be used again.
Rollback(t) ==
    /\ pc[t] \in {"locking", "computing"}
    /\ \/ Outcome(t, "error")
       \/ pc[t] = "computing" /\ Outcome(t, "threw")
    /\ Goto(t, "releasing")
    /\ Serve(t, "none")
    /\ lock' = Unlocked(t)
    /\ UNCHANGED <<payload, state>>

\* client.release in the finally block, and the answer.
Release(t) ==
    /\ pc[t] = "releasing"
    /\ Goto(t, "ended")
    /\ Serve(t, "none")
    /\ UNCHANGED <<payload, lock, state, outcome>>

\* The connection drops, or fn throws just then: the failing ROLLBACK is ignored.
Drop(t) ==
    /\ pc[t] \in {"locking", "computing", "committing"}
    /\ \/ Outcome(t, "error")
       \/ pc[t] = "computing" /\ Outcome(t, "threw")
    /\ Goto(t, "ended")
    /\ UNCHANGED <<payload, lock, session, state>>

\* A process dies, with all its calls.
Crash(p) ==
    LET lost == {t \in Transactions : Active(t) /\ ProcessOf[t] = p}
    IN  /\ lost # {}
        /\ pc' = [t \in Transactions |-> IF t \in lost THEN "ended" ELSE pc[t]]
        /\ outcome' = [t \in Transactions |-> IF t \in lost THEN "error" ELSE outcome[t]]
        /\ UNCHANGED <<payload, lock, session, state>>

\* The server rolls back what was not committed: it notices that its client is gone, or ends
\* the session itself, which the client learns from its next statement.
ServerEnds(t) ==
    /\ \/ session[t] \in {"open", "locked", "committing"}
       \/ session[t] = "committed" /\ pc[t] = "ended"
    /\ Serve(t, "none")
    /\ lock' = Unlocked(t)
    /\ UNCHANGED <<payload, pc, state, outcome>>

-----------------------------------------------------------------------------
Progress(t) ==
    \/ Connect(t) \/ Read(t) \/ LockAndLoad(t) \/ SendCommit(t) \/ ServerCommits(t)
    \/ CommitAnswered(t) \/ Release(t)
    \/ pc[t] = "ended" /\ ServerEnds(t)
    \/ session[t] = "none" /\ Drop(t)

Next ==
    \/ \E t \in Transactions :
        \/ Call(t) \/ Progress(t)
        \/ ConnectFails(t) \/ Rollback(t) \/ Drop(t) \/ ServerEnds(t)
    \/ \E t \in Transactions : Crash(ProcessOf[t])

\* fn returns, the server serves its sessions and notices dead connections; whoever stays in
\* line is served in the end, for each call is made once.
Spec == Init /\ [][Next]_vars /\ \A t \in Transactions : WF_vars(Progress(t))

-----------------------------------------------------------------------------
\* The ledger given to a transaction's function is final: no other transaction that has loaded
\* it can still commit, one whose caller was told of a failure included.  So a retry after an
\* ambiguous COMMIT decides on what became of the first try (postgres-store.ts:119-126).
LoadedIsFinal ==
    \A t \in Transactions :
        pc[t] = "computing" /\ session[t] = "locked" =>
            /\ state[t] = payload
            /\ \A u \in Transactions \ {t} : session[u] \notin {"locked", "committing"}

\* A failed call whose session may still commit is pending for everybody but its caller.
StatusOf(t) ==
    CASE pc[t] = "start" -> "new"
      [] pc[t] = "ended" /\ outcome[t] = "error" ->
            (CASE session[t] = "committing" -> "pending"
               [] session[t] = "committed" -> "effective"
               [] OTHER -> "failed")
      [] pc[t] = "ended" /\ outcome[t] # "error" -> outcome[t]
      [] pc[t] # "ended" /\ (session[t] = "committed" \/ outcome[t] = "ok") -> "effective"
      [] OTHER -> "pending"

ViewOf(t) == IF StatusOf(t) \in {"effective", "ok"} THEN state[t] ELSE <<>>
=============================================================================
