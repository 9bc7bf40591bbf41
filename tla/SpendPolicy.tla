----------------------------- MODULE SpendPolicy -----------------------------
(***************************************************************************)
(* The budget rules of src/src/policy.ts: what a policy matches, which     *)
(* ledger records count against it, and when a request or a settlement     *)
(* violates it.  Everything here is a function of a ledger (a table of     *)
(* open reservations and a sequence of charges), a context, an amount and  *)
(* the time the caller read; no state is kept.                             *)
(*                                                                         *)
(* Amounts are whole units of a currency, so the Number.EPSILON slack of   *)
(* the comparisons plays no role.  A time is a number of ticks.  Values of *)
(* context fields are compared and never looked into; a tag is one more    *)
(* field.                                                                  *)
(***************************************************************************)
EXTENDS Naturals, Sequences, FiniteSets, Totals

CONSTANTS
    Fields,        \* the context fields, tags included
    Values,        \* the values a context field may hold
    Undefined,     \* an absent field, limit, key or estimate
    PolicyIds,     \* the policies of the configuration, by their unique id
    Policy,        \* Policy[p] is the configured policy p
    DayLength,     \* ticks in a UTC day
    MonthLength    \* ticks in a UTC month

Optional(S) == S \cup {Undefined}

Contexts == [Fields -> Optional(Values)]

WindowKinds == {"lifetime", "utc-day", "utc-month", "rolling"}

PolicyType ==
    [match          : UNION {[fields -> SUBSET Values] : fields \in SUBSET Fields},
     groupBy        : SUBSET Fields,
     window         : [kind : WindowKinds, rolling : Nat],
     limitUsd       : Optional(Nat),
     limitCalls     : Optional(Nat),
     maxOperationUsd : Optional(Nat),
     maxConcurrent  : Optional(Nat),
     mode           : {"enforce", "observe"}]

\* validateFirewallConfig: some control is set, and a rolling window has a length.
ValidPolicy(policy) ==
    /\ \E limit \in {"limitUsd", "limitCalls", "maxOperationUsd", "maxConcurrent"} :
          policy[limit] # Undefined
    /\ policy.window.kind = "rolling" => policy.window.rolling > 0

ASSUME PolicyAssumption ==
    /\ Undefined \notin Values
    /\ Undefined \notin Nat
    /\ Policy \in [PolicyIds -> PolicyType]
    /\ \A p \in PolicyIds : ValidPolicy(Policy[p])
    /\ DayLength \in Nat \ {0}
    /\ MonthLength \in Nat \ {0}

-----------------------------------------------------------------------------
\* The values of a policy's match are ANDed over fields; an absent field matches nothing.
MatchesPolicy(p, context) ==
    \A field \in DOMAIN Policy[p].match : context[field] \in Policy[p].match[field]

\* With no groupBy every context has the same, empty group.
PolicyGroup(p, context) == [field \in Policy[p].groupBy |-> context[field]]

\* A rolling window is closed at both ends and ends at now: a record stamped later is outside.
InBudgetWindow(createdAt, window, now) ==
    \/ window.kind = "lifetime"
    \/ window.kind = "utc-day" /\ createdAt \div DayLength = now \div DayLength
    \/ window.kind = "utc-month" /\ createdAt \div MonthLength = now \div MonthLength
    \/ window.kind = "rolling" /\ createdAt <= now /\ now <= createdAt + window.rolling

\* The records (a reservation table or the charges) that count against p for this context.
Counted(records, p, context, now) ==
    {k \in DOMAIN records :
        /\ InBudgetWindow(records[k].createdAt, Policy[p].window, now)
        /\ MatchesPolicy(p, records[k].context)
        /\ PolicyGroup(p, records[k].context) = PolicyGroup(p, context)}

ActualUsd(charges, p, context, now) ==
    Total([k \in Counted(charges, p, context, now) |-> charges[k].costUsd])

ReservedUsd(reservations, p, context, now) ==
    Total([k \in Counted(reservations, p, context, now) |-> reservations[k].estimatedCostUsd])

ProjectedActualOnly(reservations, charges, p, context, now) ==
    ActualUsd(charges, p, context, now)

ProjectedUsd(reservations, charges, p, context, now) ==
    ActualUsd(charges, p, context, now) + ReservedUsd(reservations, p, context, now)

Concurrent(reservations, p, context, now) ==
    Cardinality(Counted(reservations, p, context, now))

ProjectedOpenCalls(reservations, charges, p, context, now) ==
    Concurrent(reservations, p, context, now)

ProjectedCalls(reservations, charges, p, context, now) ==
    Cardinality(Counted(charges, p, context, now)) + Concurrent(reservations, p, context, now)

-----------------------------------------------------------------------------
Exceeds(projected, limit) == limit # Undefined /\ projected > limit

ViolatesButConcurrency(reservations, charges, p, context, estimate, now) ==
    \/ Exceeds(estimate, Policy[p].maxOperationUsd)
    \/ Exceeds(ProjectedUsd(reservations, charges, p, context, now) + estimate, Policy[p].limitUsd)
    \/ Exceeds(ProjectedCalls(reservations, charges, p, context, now) + 1, Policy[p].limitCalls)

Violates(reservations, charges, p, context, estimate, now) ==
    \/ Exceeds(estimate, Policy[p].maxOperationUsd)
    \/ Exceeds(ProjectedUsd(reservations, charges, p, context, now) + estimate, Policy[p].limitUsd)
    \/ Exceeds(ProjectedCalls(reservations, charges, p, context, now) + 1, Policy[p].limitCalls)
    \/ Exceeds(Concurrent(reservations, p, context, now) + 1, Policy[p].maxConcurrent)

AllowedBySome(reservations, charges, context, estimate, now) ==
    \E p \in PolicyIds :
        MatchesPolicy(p, context) /\ Policy[p].mode = "enforce"
            => ~Violates(reservations, charges, p, context, estimate, now)

\* evaluateSpendRequest(...).allowed: no matching policy in enforce mode is violated.
Allowed(reservations, charges, context, estimate, now) ==
    \A p \in PolicyIds :
        MatchesPolicy(p, context) /\ Policy[p].mode = "enforce"
            => ~Violates(reservations, charges, p, context, estimate, now)

PostSettlementOfCharges(reservations, charges, context, now) ==
    LET matched == {p \in PolicyIds : MatchesPolicy(p, context)}
    IN  {<<p, "budget">> : p \in {q \in matched :
            Exceeds(ActualUsd(charges, q, context, now), Policy[q].limitUsd)}}
        \cup
        {<<p, "call-count">> : p \in {q \in matched :
            Exceeds(Cardinality(Counted(charges, q, context, now)), Policy[q].limitCalls)}}

PostSettlementViolations(reservations, charges, context, now) ==
    LET matched == {p \in PolicyIds : MatchesPolicy(p, context)}
    IN  {<<p, "budget">> : p \in {q \in matched :
            Exceeds(ProjectedUsd(reservations, charges, q, context, now), Policy[q].limitUsd)}}
        \cup
        {<<p, "call-count">> : p \in {q \in matched :
            Exceeds(ProjectedCalls(reservations, charges, q, context, now), Policy[q].limitCalls)}}
=============================================================================
