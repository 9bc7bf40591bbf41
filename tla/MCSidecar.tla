------------------------------ MODULE MCSidecar ------------------------------
(***************************************************************************)
(* Instances of Sidecar for TLC: workflows that share an idempotency key.  *)
(***************************************************************************)
EXTENDS Sidecar, TLC

\* Two operations a user, of one unit each.
PerUser ==
    [p \in PolicyIds |->
        [match |-> [field \in {} |-> {}], groupBy |-> {"userId"},
         window |-> [kind |-> "utc-day", rolling |-> 0],
         limitUsd |-> 2, limitCalls |-> Undefined,
         maxOperationUsd |-> Undefined, maxConcurrent |-> Undefined, mode |-> "enforce"]]

User(user) == [field \in Fields |-> IF field = "userId" THEN user ELSE Undefined]
Reserve(user, key) ==
    [context |-> User(user), estimatedCostUsd |-> 1, requestId |-> Undefined,
     idempotencyKey |-> key]

SameKey == [w \in Workflows |-> Reserve("ann", "key")]
\* What the other clients record: one unit, for nobody.
Recorded == {Reserve(Undefined, Undefined)}
OneUnit == [w \in Workflows |-> 1]
OneLane == [c \in Callers |-> "process"]
Symmetry == Permutations(Ids) \cup Permutations(Callers) \cup Permutations(Workflows)
=============================================================================
