----------------------------- MODULE LedgerStore -----------------------------
(***************************************************************************)
(* What SpendFirewall relies on in a LedgerStore (src/src/types.ts): each  *)
(* transaction takes effect at one instant, on the ledger all the earlier  *)
(* ones left, and its effect survives everything that comes after.  A      *)
(* transaction is a call of transact or read; its function appends the     *)
(* transaction to the ledger, so the ledger is the serial order of the     *)
(* transactions that took effect and a lost update is an entry missing     *)
(* from it.  The answer may be lost or be an error: "failed" is an error   *)
(* whose caller cannot tell whether the transaction took effect.           *)
(***************************************************************************)
EXTENDS Sequences

CONSTANTS
    Transactions,  \* the calls made on the store
    Reads          \* those of them that only read

VARIABLES
    ledger,   \* the transactions that took effect, in order
    status,   \* status[t] of each transaction
    view      \* view[t] is the ledger t's function was given, once it took effect and
              \* as long as its caller may still be told

storeVars == <<ledger, status, view>>

Statuses == {"new", "pending", "effective", "ok", "threw", "failed"}

Init ==
    /\ ledger = <<>>
    /\ status = [t \in Transactions |-> "new"]
    /\ view = [t \in Transactions |-> <<>>]

Begin(t) ==
    /\ status[t] = "new"
    /\ status' = [status EXCEPT ![t] = "pending"]
    /\ UNCHANGED <<ledger, view>>

\* The transaction takes effect; the caller does not know yet.
TakeEffect(t) ==
    /\ status[t] = "pending"
    /\ status' = [status EXCEPT ![t] = "effective"]
    /\ view' = [view EXCEPT ![t] = ledger]
    /\ ledger' = IF t \in Reads THEN ledger ELSE Append(ledger, t)

\* The function throws: the caller gets the exception and the ledger keeps its value.
Throw(t) ==
    /\ status[t] = "pending"
    /\ t \notin Reads
    /\ status' = [status EXCEPT ![t] = "threw"]
    /\ UNCHANGED <<ledger, view>>

Return(t) ==
    /\ status[t] = "effective"
    /\ status' = [status EXCEPT ![t] = "ok"]
    /\ UNCHANGED <<ledger, view>>

\* A store error, or the end of the caller's process, before or after the effect; several
\* calls of one process fail at once when it ends.
Fail ==
    /\ \E failing \in (SUBSET Transactions) \ {{}} :
          /\ \A t \in failing : status[t] \in {"pending", "effective"}
          /\ status' = [t \in Transactions |-> IF t \in failing THEN "failed" ELSE status[t]]
          /\ view' = [t \in Transactions |-> IF t \in failing THEN <<>> ELSE view[t]]
    /\ UNCHANGED ledger

Next ==
    \/ \E t \in Transactions : Begin(t) \/ TakeEffect(t) \/ Throw(t) \/ Return(t)
    \/ Fail

Spec == Init /\ [][Next]_storeVars
=============================================================================
