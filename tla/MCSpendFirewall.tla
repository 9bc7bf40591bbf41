--------------------------- MODULE MCSpendFirewall ---------------------------
(***************************************************************************)
(* Instances of SpendFirewall for TLC: policies, contexts and requests.    *)
(***************************************************************************)
EXTENDS SpendFirewall, TLC

Lifetime == [kind |-> "lifetime", rolling |-> 0]
UtcDay == [kind |-> "utc-day", rolling |-> 0]
UtcMonth == [kind |-> "utc-month", rolling |-> 0]
Rolling(n) == [kind |-> "rolling", rolling |-> n]

NoMatch == [field \in {} |-> {}]
Unlimited == [match |-> NoMatch, groupBy |-> {}, window |-> UtcDay,
              limitUsd |-> Undefined, limitCalls |-> Undefined,
              maxOperationUsd |-> Undefined, maxConcurrent |-> Undefined,
              mode |-> "enforce"]

\* A context over the fields of the instance; a field given no value is absent.
NoContext == [field \in Fields |-> Undefined]
Custom(user) ==
    [field \in Fields |-> CASE field = "provider" -> "custom"
                            [] field = "userId" -> user]

Request(context, estimate, key) ==
    [context |-> context, estimatedCostUsd |-> estimate, requestId |-> Undefined,
     idempotencyKey |-> key]

\* One budget for everybody, of a day and of a month of two days.
CalendarPolicies ==
    [p \in PolicyIds |->
        CASE p = "daily" -> [Unlimited EXCEPT !.limitUsd = 2]
          [] p = "monthly" -> [Unlimited EXCEPT !.window = UtcMonth, !.limitUsd = 3]]
OneUnit == {Request(NoContext, 1, Undefined)}

\* Per user (callers without a user are one more group): one call in flight, two in all; a
\* ceiling for ann alone; and a policy that only observes, at a ceiling per call most exceed.
PerUserPolicies ==
    [p \in PolicyIds |->
        CASE p = "per-user" -> [Unlimited EXCEPT !.window = Lifetime, !.groupBy = {"userId"},
                                                 !.maxConcurrent = 1, !.limitCalls = 2]
          [] p = "ann" -> [Unlimited EXCEPT !.window = UtcMonth, !.limitUsd = 1,
                                            !.maxOperationUsd = 1,
                                            !.match = [field \in {"userId"} |-> {"ann"}]]
          [] p = "shadow" -> [Unlimited EXCEPT !.maxOperationUsd = 0, !.mode = "observe"]]

\* Ann's key with two intents, and without an estimate; somebody without a user or a key; and a
\* request that lacks the required provider.
LedgerRequests ==
    {Request(Custom("ann"), estimate, "key") : estimate \in {0, 1, Undefined}}
    \cup {Request(Custom(Undefined), 0, Undefined), Request(NoContext, 1, "key")}

\* A rolling budget that one request uses up.
RollingPolicies ==
    [p \in PolicyIds |-> [Unlimited EXCEPT !.window = Rolling(1), !.limitUsd = 1]]

LanePerCaller == [c \in Callers |-> c]
Symmetry == Permutations(Ids) \cup Permutations(Callers)
=============================================================================
