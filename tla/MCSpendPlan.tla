----------------------------- MODULE MCSpendPlan -----------------------------
(***************************************************************************)
(* Instances of SpendPlan for TLC: plans of two operations, one of them on *)
(* behalf of ann, with every count and concurrency up to two.              *)
(***************************************************************************)
EXTENDS SpendPlan, TLC

UtcDay == [kind |-> "utc-day", rolling |-> 0]
Unlimited == [match |-> [field \in {} |-> {}], groupBy |-> {}, window |-> UtcDay,
              limitUsd |-> Undefined, limitCalls |-> Undefined,
              maxOperationUsd |-> Undefined, maxConcurrent |-> Undefined,
              mode |-> "enforce"]

\* A daily budget for all, and two operations a day and at a time for each user.
TwoPolicies ==
    [p \in PolicyIds |->
        CASE p = "budget" -> [Unlimited EXCEPT !.limitUsd = 3]
          [] p = "per-user" -> [Unlimited EXCEPT !.groupBy = {"userId"}, !.limitCalls = 2,
                                                 !.maxConcurrent = 2]]

User(user) == [field \in Fields |-> IF field = "userId" THEN user ELSE Undefined]

Operation(user, estimate, count, concurrent) ==
    [context |-> User(user), estimatedCostUsd |-> estimate, count |-> count,
     concurrent |-> concurrent]

TwoOperations ==
    {[operations |-> [o \in {"draft", "render"} |->
                        IF o = "draft" THEN Operation("ann", 1, counts[1], counts[2])
                        ELSE Operation(user, 1, Undefined, 1)],
      maxTotalUsd |-> maxTotal] :
        counts \in (0..2) \X {Undefined, 0, 1, 2}, user \in {"ann", Undefined},
        maxTotal \in {2, Undefined}}

OthersRequest == {[context |-> User("ann"), estimatedCostUsd |-> 1, requestId |-> Undefined,
                   idempotencyKey |-> Undefined]}
LanePerCaller == [c \in Callers |-> c]
Symmetry == Permutations(Ids) \cup Permutations(Workers)
=============================================================================
