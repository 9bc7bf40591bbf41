------------------------------ MODULE SpendPlan ------------------------------
(***************************************************************************)
(* A spend plan (src/src/plan.ts) and the workload it announces.  The plan *)
(* is checked once, by simulate on the ledger of that moment or by a       *)
(* budget contract (src/src/contract.ts) on an empty one; when it passes,  *)
(* workers run its operations through the SpendFirewall, each of them      *)
(* count times and at most concurrent at once, at no more than its         *)
(* estimate.  The other callers use the same ledger as they like, before   *)
(* the check and after it.                                                 *)
(***************************************************************************)
EXTENDS SpendFirewall

CONSTANTS
    Plans,    \* plans: [operations, a table by name; maxTotalUsd]
    Checks,   \* how a plan is checked: "simulate", "contract"
    Workers   \* the callers that run the plan

\* An operation that simulateSpendPlan does not throw at for its estimate or its counts.
PlannedOperation ==
    [context : Contexts, estimatedCostUsd : Nat, count : Optional(Nat), concurrent : Optional(Nat)]

ASSUME PlanAssumption ==
    /\ Workers \subseteq Callers /\ IsFiniteSet(Workers)
    /\ \A announced \in Plans :
          /\ IsFiniteSet(DOMAIN announced.operations)
          /\ Undefined \notin DOMAIN announced.operations
          /\ \A o \in DOMAIN announced.operations : announced.operations[o] \in PlannedOperation
          /\ announced.maxTotalUsd \in Optional(Nat)

VARIABLES
    plan,
    verdict,  \* of the check: "none", "invalid", "blocked", "passed"
    left,     \* left[o]: how many times operation o has still to be started
    worker,   \* worker[c]: the operation c reserves for, or Undefined
    started,  \* started[id]: the operation that was reserved as id
    stale,    \* history: the ledger is not what the check saw, but for the plan's own work
    denied    \* history: an operation of the plan was denied

planVars == <<plan, verdict, left, worker, started, stale, denied>>
workload == <<plan, verdict, left, worker, started, denied>>

Names == DOMAIN plan.operations

InitPlan ==
    /\ Init
    /\ plan \in Plans
    /\ verdict = "none"
    /\ left = [o \in Names |-> 0]
    /\ worker = [c \in Callers |-> Undefined]
    /\ started = [id \in {} |-> Undefined]
    /\ stale = FALSE /\ denied = FALSE

-----------------------------------------------------------------------------
\* simulateSpendPlan
OrOne(n) == IF n = Undefined THEN 1 ELSE n
Count(o) == OrOne(plan.operations[o].count)
ConcurrentRuns(o) == OrOne(plan.operations[o].concurrent)
Estimate(o) == plan.operations[o].estimatedCostUsd
PlanContext(o) == NormalizeContext(plan.operations[o].context)

ValidPlan == \A o \in Names : ConcurrentRuns(o) <= Count(o) \/ Count(o) = 0

PlanTotalOnce == Total([o \in Names |-> Estimate(o)])
PlanTotal == Total([o \in Names |-> Estimate(o) * Count(o)])

\* planViolations of the operations that fall into one group of p, on top of a ledger.
PlanViolatesAlone(p, ops, context, open, spent) ==
    \/ Exceeds(Total([o \in ops |-> Estimate(o) * Count(o)]), Policy[p].limitUsd)
    \/ Exceeds(Total([o \in ops |-> Count(o)]), Policy[p].limitCalls)
    \/ \E o \in ops : Exceeds(Estimate(o), Policy[p].maxOperationUsd)
    \/ Exceeds(Total([o \in ops |-> ConcurrentRuns(o)]), Policy[p].maxConcurrent)

PlanViolates(p, ops, context, open, spent) ==
    \/ Exceeds(ProjectedUsd(open, spent, p, context, clock)
               + Total([o \in ops |-> Estimate(o) * Count(o)]), Policy[p].limitUsd)
    \/ Exceeds(ProjectedCalls(open, spent, p, context, clock)
               + Total([o \in ops |-> Count(o)]), Policy[p].limitCalls)
    \/ \E o \in ops : Exceeds(Estimate(o), Policy[p].maxOperationUsd)
    \/ Exceeds(Concurrent(open, p, context, clock)
               + Total([o \in ops |-> ConcurrentRuns(o)]), Policy[p].maxConcurrent)

\* A grouped policy is checked for the groups the plan has operations in, any other always, with
\* the operations that match it.
PlanBlocked(open, spent) ==
    \E p \in {q \in PolicyIds : Enforced(q)} :
        LET matching == {o \in Names : MatchesPolicy(p, PlanContext(o))}
        IN  \/ /\ Policy[p].groupBy = {}
               /\ PlanViolates(p, matching, NormalizeContext([f \in Fields |-> Undefined]),
                               open, spent)
            \/ \E o \in matching :
                LET group == PolicyGroup(p, PlanContext(o))
                    ops == {q \in matching : PolicyGroup(p, PlanContext(q)) = group}
                IN  PlanViolates(p, ops, PlanContext(o), open, spent)

TooLarge == Exceeds(PlanTotal, plan.maxTotalUsd)

\* simulate reads the ledger; verifyBudgetContract takes an empty one.
CheckPlan(check) ==
    LET open == IF check = "simulate" THEN reservations ELSE [id \in {} |-> Undefined]
        spent == IF check = "simulate" THEN charges ELSE <<>>
    IN  /\ verdict = "none"
        /\ verdict' = CASE ~ValidPlan -> "invalid"
                        [] ValidPlan /\ (PlanBlocked(open, spent) \/ TooLarge) -> "blocked"
                        [] OTHER -> "passed"
        /\ left' = [o \in Names |-> IF verdict' = "passed" THEN Count(o) ELSE 0]
        /\ stale' = (<<open, spent>> # <<reservations, charges>>)
        /\ UNCHANGED <<vars, plan, worker, started, denied>>

-----------------------------------------------------------------------------
\* The workload
InFlightRuns(o) ==
    Cardinality({c \in Workers : worker[c] = o})
    + Cardinality({id \in DOMAIN started : started[id] = o /\ id \in DOMAIN reservations})

StartOperation(c) ==
    \E o \in Names :
        LET request == [context |-> plan.operations[o].context,
                        estimatedCostUsd |-> Estimate(o),
                        requestId |-> Undefined, idempotencyKey |-> Undefined]
        IN  /\ left[o] > 0
            /\ InFlightRuns(o) < ConcurrentRuns(o)
            /\ RoomForReservation
            /\ Enqueue(c, "reserve", Normalize(request), Undefined, Undefined)
            /\ left' = [left EXCEPT ![o] = @ - 1]
            /\ worker' = [worker EXCEPT ![c] = o]
            /\ UNCHANGED <<plan, verdict, started, stale, denied>>

OperationReserved(c) ==
    /\ CommitReserve(c)
    /\ answer' # "store-error"
    /\ started' = IF answer' = "reserved"
                  THEN Bind(started, CHOOSE id \in DOMAIN reservations' \ DOMAIN reservations : TRUE,
                            worker[c])
                  ELSE started
    /\ denied' = (denied \/ answer' = "denied")
    /\ worker' = [worker EXCEPT ![c] = Undefined]
    /\ UNCHANGED <<plan, verdict, left, stale>>

\* An estimate is conservative: an operation costs no more.
FinishOperation(c) ==
    \E id \in DOMAIN started \cap DOMAIN reservations, actual \in Amounts :
        /\ actual <= Estimate(started[id])
        /\ RoomForCharge
        /\ Enqueue(c, "settle", Undefined, id, actual)
        /\ UNCHANGED planVars

OperationSettled(c) == CommitSettle(c) /\ UNCHANGED planVars

\* Somebody else's call.  What it leaves in the ledger after the check is news to the plan.
Other(c) ==
    /\ \/ BeginReserve(c) \/ BeginRecordActual(c)
       \/ \E id \in DOMAIN reservations \ DOMAIN started, actual \in Amounts :
             RoomForCharge /\ Enqueue(c, "settle", Undefined, id, actual)
       \/ CommitReserve(c) \/ CommitSettle(c) \/ CommitRecordActual(c)
    /\ stale' = (stale \/ (verdict # "none" /\ <<reservations, charges>>' # <<reservations, charges>>))
    /\ UNCHANGED workload

NextPlan ==
    \/ \E check \in Checks : CheckPlan(check)
    \/ \E c \in Workers :
        StartOperation(c) \/ OperationReserved(c) \/ FinishOperation(c) \/ OperationSettled(c)
    \/ \E c \in Callers \ Workers : Other(c)
    \/ Tick /\ UNCHANGED planVars

SpecPlan == InitPlan /\ [][NextPlan]_<<vars, planVars>>

-----------------------------------------------------------------------------
\* A plan that passes runs: none of its operations is denied, in any order and overlap the plan
\* allows and over any change of day, unless others used the ledger after the check, or a
\* contract passed on an empty ledger meets one that is not (plan.ts, contract.ts).
PassedPlanRuns == denied => stale

\* The workload of a plan that passes never holds and spends more than maxTotalUsd (contract.ts,
\* maxTotalExceeded).
TotalHeld ==
    plan.maxTotalUsd # Undefined =>
        Total([id \in DOMAIN started \cap DOMAIN reservations |-> reservations[id].estimatedCostUsd])
        + Total([i \in {j \in DOMAIN charges : charges[j].reservationId \in DOMAIN started} |->
                    charges[i].costUsd])
            <= plan.maxTotalUsd
=============================================================================
