------------------------------ MODULE MCProtect ------------------------------
(***************************************************************************)
(* Instances of Protect for TLC: one rolling budget in one process.        *)
(***************************************************************************)
EXTENDS Protect

RollingBudget ==
    [p \in PolicyIds |->
        [match |-> [field \in {} |-> {}], groupBy |-> {},
         window |-> [kind |-> "rolling", rolling |-> 1],
         limitUsd |-> 2, limitCalls |-> Undefined,
         maxOperationUsd |-> Undefined, maxConcurrent |-> Undefined, mode |-> "enforce"]]

\* One unit without a key, and an estimate nobody knows under a key.
Request(estimate, key) ==
    [context |-> [field \in Fields |-> Undefined], estimatedCostUsd |-> estimate,
     requestId |-> Undefined, idempotencyKey |-> key]
UnitOrUnknown == {Request(1, Undefined), Request(Undefined, "key")}

OneLane == [c \in Callers |-> "process"]
=============================================================================
