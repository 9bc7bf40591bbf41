----------------------------- MODULE AiSpendGuard -----------------------------
(***************************************************************************)
(* AiSpendGuard (src/src/guard.ts), the older guard with daily, monthly    *)
(* and per-request limits, global and per provider.  Each call reads the   *)
(* clock and then waits for its transaction; calls commit in any order, as *)
(* they do in several processes.  What a call does after its transaction,  *)
(* awaiting the warning callback and, in settle, a read of the status, is  *)
(* a step of its own that may throw although the effect is in the ledger.  *)
(* protect is the sequence of reserve, the paid operation and settle; the  *)
(* handle Reservation is given to callers of reserve, on which any of them *)
(* may call settle and release, at once or again after an error.           *)
(***************************************************************************)
EXTENDS Naturals, Sequences, FiniteSets, Totals

CONSTANTS
    Callers,          \* concurrent users of the guard
    Ids,              \* reservation ids (randomUUID)
    Providers,
    Undefined,        \* an absent limit or estimate
    Limit,            \* Limit[scope]: config.global and config.providers
    WarnAt,           \* config.warnAt, in percent
    UnknownEstimate,  \* config.unknownEstimate
    Estimates,        \* the estimates callers give, Undefined among them
    Costs,            \* the actual costs callers give
    Uses,             \* what callers start: "protect", "reserve", "settle", "release", "record"
    OnOperationError, \* the options.onOperationError callers pass: "hold", "release"
    StoreFails,       \* may the store fail, before or after an effect?
    WarningThrows,    \* may the warning callback throw?
    DayLength, MonthLength,
    MaxTime,          \* bound on the clock
    MaxCharges        \* bound on the number of charges

Periods == {"daily", "monthly"}
Scopes == {"global"} \cup Providers
LimitNames == {"perRequest"} \cup Periods

ASSUME GuardAssumption ==
    /\ "global" \notin Providers
    /\ Undefined \notin Nat \cup Ids
    /\ Limit \in [Scopes -> [LimitNames -> Nat \cup {Undefined}]]
    /\ WarnAt \subseteq 1..100
    /\ UnknownEstimate \in {"allow", "deny"}
    /\ Estimates \subseteq Nat \cup {Undefined}
    /\ Costs \subseteq Nat
    /\ {StoreFails, WarningThrows} \subseteq BOOLEAN

VARIABLES
    reservations, charges, \* the ledger
    clock,
    task,      \* task[c]: what c does and how far it is
    closed,    \* closed[id]: the flag of the handle of a reservation made with reserve
    operation, \* history: operation[id] says whether protect's caller waived the charge
    admitted,  \* history: admitted[id] is the time at which id was reserved
    outcome    \* outcome[c]: how c's last protect ended

ledger == <<reservations, charges>>
clientVars == <<closed, operation, outcome>>
vars == <<ledger, admitted, clock, task, clientVars>>

Task(use, stage, provider, id, amount, now) ==
    [use |-> use, stage |-> stage, provider |-> provider, id |-> id, amount |-> amount,
     now |-> now, warned |-> FALSE]

NoTask == Task("none", "none", Undefined, Undefined, Undefined, 0)

Init ==
    /\ reservations = [id \in {} |-> Undefined]
    /\ charges = <<>>
    /\ clock = 0
    /\ task = [c \in Callers |-> NoTask]
    /\ closed = [id \in {} |-> FALSE]
    /\ operation = [id \in {} |-> FALSE]
    /\ admitted = [id \in {} |-> 0]
    /\ outcome = [c \in Callers |-> [result |-> "none", id |-> Undefined]]

-----------------------------------------------------------------------------
\* Limits
InPeriod(createdAt, period, now) ==
    \/ period = "daily" /\ createdAt \div DayLength = now \div DayLength
    \/ period = "monthly" /\ createdAt \div MonthLength = now \div MonthLength

Counted(records, scope, period, now) ==
    {k \in DOMAIN records :
        /\ scope = "global" \/ records[k].provider = scope
        /\ InPeriod(records[k].createdAt, period, now)}

ActualOnly(open, spent, scope, period, now) ==
    Total([k \in Counted(spent, scope, period, now) |-> spent[k].costUsd])

\* snapshot(...).projectedUsd of a ledger
ProjectedUsd(open, spent, scope, period, now) ==
    Total([k \in Counted(spent, scope, period, now) |-> spent[k].costUsd])
    + Total([k \in Counted(open, scope, period, now) |-> open[k].estimatedCostUsd])

ScopeAllows(scope, estimate, now) ==
    /\ Limit[scope]["perRequest"] # Undefined => estimate <= Limit[scope]["perRequest"]
    /\ \A period \in Periods :
        Limit[scope][period] # Undefined =>
            ProjectedUsd(reservations, charges, scope, period, now) + estimate
                <= Limit[scope][period]

AllowedGlobally(provider, estimate, now) == ScopeAllows("global", estimate, now)

Allowed(provider, estimate, now) ==
    ScopeAllows("global", estimate, now) /\ ScopeAllows(provider, estimate, now)

\* collectWarnings of the ledger a transaction leaves: is there any event to emit?
Warns(open, spent, provider, now) ==
    \E scope \in {"global", provider}, period \in Periods, w \in WarnAt :
        LET limit == Limit[scope][period]
            projected == ProjectedUsd(open, spent, scope, period, now)
        IN  /\ limit # Undefined
            /\ projected > 0
            /\ 100 * projected >= w * limit

-----------------------------------------------------------------------------
At(c, stage) == task[c].stage = stage
Go(c, stage) == task' = [task EXCEPT ![c].stage = stage]

End(c, result) ==
    /\ task' = [task EXCEPT ![c] = NoTask]
    /\ outcome' = IF task[c].use = "protect"
                  THEN [outcome EXCEPT ![c] = [result |-> result, id |-> task[c].id]]
                  ELSE outcome

ThrowOperationError(c, error) ==
    End(c, IF task[c].use # "protect" THEN error
           ELSE CASE task[c].stage \in {"settling", "settled"} -> "reconcile-settlement"
                  [] task[c].stage = "releasing" -> "operation-error"
                  [] OTHER -> error)

\* What an error thrown at this point of the call becomes.
Throw(c, error) ==
    End(c, IF task[c].use = "protect" /\ task[c].stage \in {"settling", "settled"}
           THEN "reconcile-settlement" ELSE error)

Start(c, next) ==
    /\ At(c, "none")
    /\ task' = [task EXCEPT ![c] = next]
    /\ UNCHANGED <<ledger, admitted, clock, clientVars>>

RoomForCharge ==
    Len(charges) + Cardinality({c \in Callers : task[c].stage \in {"settling", "recording"}})
        < MaxCharges

\* After the commit: the call goes on at the next stage, or its answer is lost.
Committed(c, stage, id, warned) ==
    \/ /\ task' = [task EXCEPT ![c] =
                      [use |-> task[c].use, stage |-> stage, provider |-> task[c].provider,
                       id |-> id, amount |-> task[c].amount, now |-> task[c].now,
                       warned |-> warned]]
       /\ UNCHANGED outcome
    \/ StoreFails /\ Throw(c, "store-error")

\* The transaction fails without effect.
StoreFailure(c) ==
    /\ StoreFails
    /\ task[c].stage \in {"reserving", "settling", "releasing", "recording"}
    /\ Throw(c, "store-error")
    /\ UNCHANGED <<ledger, admitted, clock, closed, operation>>

-----------------------------------------------------------------------------
\* UnknownEstimateError is thrown before the store is touched: such a request never starts.
StartReserve(c) ==
    \E use \in Uses \cap {"protect", "reserve"}, provider \in Providers, given \in Estimates :
        LET estimate == IF given = Undefined /\ UnknownEstimate = "allow" THEN 0 ELSE given
        IN  /\ estimate # Undefined
            /\ Start(c, Task(use, "reserving", provider, Undefined, estimate, clock))

\* Tables: f with k bound to v, and f without k.
Bind(f, k, v) == [j \in DOMAIN f \cup {k} |-> IF j = k THEN v ELSE f[j]]
Unbind(f, k) == [j \in DOMAIN f \ {k} |-> f[j]]

Reserve(c) ==
    LET t == task[c]
    IN  /\ At(c, "reserving")
        /\ \/ /\ ~Allowed(t.provider, t.amount, t.now)
              /\ End(c, "denied")
              /\ UNCHANGED <<reservations, admitted>>
           \/ /\ Allowed(t.provider, t.amount, t.now)
              /\ \E id \in Ids \ DOMAIN admitted :
                    LET open == Bind(reservations, id,
                                     [provider |-> t.provider, estimatedCostUsd |-> t.amount,
                                      createdAt |-> t.now])
                    IN  /\ reservations' = open
                        /\ admitted' = Bind(admitted, id, t.now)
                        /\ Committed(c, "reserved", id, Warns(open, charges, t.provider, t.now))
        /\ UNCHANGED <<charges, clock, closed, operation>>

\* The warnings are out: reserve's caller gets the handle, protect runs the paid operation.
Reserved(c) ==
    LET id == task[c].id
    IN  /\ At(c, "reserved")
        /\ \/ /\ task[c].use = "reserve"
              /\ closed' = Bind(closed, id, FALSE)
              /\ End(c, "reserved")
              /\ UNCHANGED operation
           \/ /\ task[c].use = "protect"
              /\ operation' = Bind(operation, id, FALSE)
              /\ Go(c, "operation")
              /\ UNCHANGED <<closed, outcome>>
        /\ UNCHANGED <<ledger, admitted, clock>>

\* After the commit, the callback throws out of emitWarnings, which does not catch it, or
\* settle's read of the status fails.
ThrowsAfterCommit(c) ==
    /\ task[c].stage \in {"reserved", "settled", "recorded"}
    /\ \/ WarningThrows /\ task[c].warned /\ Throw(c, "warning-error")
       \/ StoreFails /\ At(c, "settled") /\ Throw(c, "store-error")
    /\ UNCHANGED <<ledger, admitted, clock, closed, operation>>

-----------------------------------------------------------------------------
OperationReturns(c) ==
    /\ At(c, "operation")
    /\ Go(c, "cost")
    /\ UNCHANGED <<ledger, admitted, clock, clientVars>>

OperationThrows(c) ==
    /\ At(c, "operation")
    /\ \/ /\ "release" \in OnOperationError
          /\ Go(c, "releasing")
          /\ operation' = [operation EXCEPT ![task[c].id] = TRUE]
          /\ UNCHANGED outcome
       \/ /\ "hold" \in OnOperationError
          /\ End(c, "reconcile-operation")
          /\ UNCHANGED operation
    /\ UNCHANGED <<ledger, admitted, clock, closed>>

CostThrowsReleasing(c) ==
    /\ At(c, "cost")
    /\ Go(c, "releasing")
    /\ UNCHANGED <<ledger, admitted, clock, clientVars>>

CostThrows(c) ==
    /\ At(c, "cost")
    /\ End(c, "reconcile-cost-calculation")
    /\ UNCHANGED <<ledger, admitted, clock, closed, operation>>

CostKnown(c) ==
    /\ At(c, "cost")
    /\ RoomForCharge
    /\ \E actual \in Costs :
        task' = [task EXCEPT ![c] =
                    Task(task[c].use, "settling", task[c].provider, task[c].id, actual, clock)]
    /\ UNCHANGED <<ledger, admitted, clock, clientVars>>

\* settle throws on a closed handle and release returns: the store is not reached.
StartSettle(c) ==
    /\ RoomForCharge
    /\ \E id \in DOMAIN closed, actual \in Costs :
        /\ "settle" \in Uses /\ ~closed[id]
        /\ Start(c, Task("settle", "settling", Undefined, id, actual, clock))

StartRelease(c) ==
    \E id \in DOMAIN closed :
        /\ "release" \in Uses /\ ~closed[id]
        /\ Start(c, Task("release", "releasing", Undefined, id, Undefined, 0))

SettledCharge(t) ==
    [provider |-> reservations[t.id].provider, costUsd |-> t.amount, createdAt |-> t.now,
     reservationId |-> t.id, estimateUsd |-> reservations[t.id].estimatedCostUsd]

SettleKeeping(c) ==
    LET t == task[c]
        provider == reservations[t.id].provider
    IN  /\ At(c, "settling")
        /\ t.id \in DOMAIN reservations
        /\ charges' = Append(charges, SettledCharge(t))
        /\ Committed(c, "settled", t.id, Warns(reservations, charges', provider, t.now))
        /\ UNCHANGED <<reservations, admitted, clock, closed, operation>>

Settle(c) ==
    LET t == task[c]
        provider == reservations[t.id].provider
    IN  /\ At(c, "settling")
        /\ \/ t.id \notin DOMAIN reservations /\ Throw(c, "not-found") /\ UNCHANGED ledger
           \/ /\ t.id \in DOMAIN reservations
              /\ reservations' = Unbind(reservations, t.id)
              /\ charges' = Append(charges, SettledCharge(t))
              /\ Committed(c, "settled", t.id, Warns(reservations', charges', provider, t.now))
        /\ UNCHANGED <<admitted, clock, closed, operation>>

CloseHandle(id) == [i \in DOMAIN closed |-> closed[i] \/ i = id]

\* The warnings are out and the status read: the answer, and the closed handle.
Settled(c) ==
    /\ At(c, "settled")
    /\ closed' = CloseHandle(task[c].id)
    /\ End(c, IF task[c].use = "protect" THEN "value" ELSE "settled")
    /\ UNCHANGED <<ledger, admitted, clock, operation>>

Release(c) ==
    LET t == task[c]
    IN  /\ At(c, "releasing")
        /\ \/ t.id \notin DOMAIN reservations /\ Throw(c, "not-found") /\ UNCHANGED reservations
           \/ /\ t.id \in DOMAIN reservations
              /\ reservations' = Unbind(reservations, t.id)
              /\ Committed(c, "released", t.id, FALSE)
        /\ UNCHANGED <<charges, admitted, clock, closed, operation>>

\* protect throws the operation's own error on.
Released(c) ==
    /\ At(c, "released")
    /\ closed' = CloseHandle(task[c].id)
    /\ End(c, IF task[c].use = "protect" THEN "operation-error" ELSE "released")
    /\ UNCHANGED <<ledger, admitted, clock, operation>>

StartRecord(c) ==
    /\ RoomForCharge
    /\ "record" \in Uses
    /\ \E provider \in Providers, cost \in Costs :
        Start(c, Task("record", "recording", provider, Undefined, cost, clock))

\* Spend that already happened is charged whatever the limits say.
Record(c) ==
    LET t == task[c]
    IN  /\ At(c, "recording")
        /\ charges' = Append(charges, [provider |-> t.provider, costUsd |-> t.amount,
                                       createdAt |-> t.now, reservationId |-> Undefined,
                                       estimateUsd |-> Undefined])
        /\ Committed(c, "recorded", Undefined, Warns(reservations, charges', t.provider, t.now))
        /\ UNCHANGED <<reservations, admitted, clock, closed, operation>>

Recorded(c) ==
    /\ At(c, "recorded")
    /\ End(c, "recorded")
    /\ UNCHANGED <<ledger, admitted, clock, closed, operation>>

Tick ==
    /\ clock < MaxTime
    /\ clock' = clock + 1
    /\ UNCHANGED <<ledger, admitted, task, clientVars>>

Next ==
    \/ \E c \in Callers :
        \/ StartReserve(c) \/ Reserve(c) \/ Reserved(c) \/ ThrowsAfterCommit(c)
        \/ OperationReturns(c) \/ OperationThrows(c) \/ CostThrows(c) \/ CostKnown(c)
        \/ StartSettle(c) \/ Settle(c) \/ Settled(c)
        \/ StartRelease(c) \/ Release(c) \/ Released(c)
        \/ StartRecord(c) \/ Record(c) \/ Recorded(c) \/ StoreFailure(c)
    \/ Tick

Spec == Init /\ [][Next]_vars

-----------------------------------------------------------------------------
Charged(id) == \E i \in DOMAIN charges : charges[i].reservationId = id

\* What the guard admitted into a period: its open reservations, and of the charges whose
\* reservation was made in it too no more than the estimate.
AdmittedUsd(scope, period, t) ==
    Total([id \in Counted(reservations, scope, period, t) |-> reservations[id].estimatedCostUsd])
    + Total([i \in {j \in Counted(charges, scope, period, t) :
                       /\ charges[j].reservationId # Undefined
                       /\ InPeriod(admitted[charges[j].reservationId], period, t)} |->
                IF charges[i].costUsd <= charges[i].estimateUsd
                THEN charges[i].costUsd ELSE charges[i].estimateUsd])

\* The hard stop: no day or month, of the whole or of a provider, is given more than its limit,
\* whatever calls race, read the clock early, settle above their estimate or fail after their
\* commit (guard.ts reserve, assertScope).
BudgetHeld ==
    \A scope \in Scopes, period \in Periods, t \in 0..MaxTime :
        Limit[scope][period] # Undefined => AdmittedUsd(scope, period, t) <= Limit[scope][period]

\* The configuration as policies of SpendFirewall, one per scope and period that has a limit.
Limited == {p \in Scopes \X Periods :
               \E limit \in {p[2], "perRequest"} : Limit[p[1]][limit] # Undefined}

PolicyOf(scope, period) ==
    [match |-> IF scope = "global" THEN [f \in {} |-> {}] ELSE [f \in {"provider"} |-> {scope}],
     groupBy |-> {},
     window |-> [kind |-> IF period = "daily" THEN "utc-day" ELSE "utc-month", rolling |-> 0],
     limitUsd |-> Limit[scope][period], limitCalls |-> Undefined,
     maxOperationUsd |-> Limit[scope]["perRequest"], maxConcurrent |-> Undefined,
     mode |-> "enforce"]

Context(provider) == [field \in {"provider"} |-> provider]

Firewall == INSTANCE SpendPolicy
    WITH Fields <- {"provider"}, Values <- Providers, PolicyIds <- Limited,
         Policy <- [p \in Limited |-> PolicyOf(p[1], p[2])]

\* The guard decides as SpendFirewall does with one policy per limit of the configuration, on
\* every ledger it can produce: whoever moves to the firewall, as README.md recommends, keeps
\* the decisions (guard.ts assertAllowed, policy.ts evaluateSpendRequest).
DecidesAsFirewall ==
    LET open == [id \in DOMAIN reservations |->
                    [context |-> Context(reservations[id].provider),
                     createdAt |-> reservations[id].createdAt,
                     estimatedCostUsd |-> reservations[id].estimatedCostUsd]]
        spent == [i \in DOMAIN charges |->
                    [context |-> Context(charges[i].provider),
                     createdAt |-> charges[i].createdAt, costUsd |-> charges[i].costUsd]]
    IN  \A provider \in Providers, estimate \in Costs \cup (Estimates \ {Undefined}),
           t \in 0..MaxTime :
            Allowed(provider, estimate, t)
                <=> Firewall!Allowed(open, spent, Context(provider), estimate, t)

\* A reservation is charged at most once and is not open once charged, though a settle that threw
\* after its charge leaves the handle open and may be retried, and settle and release overlap
\* (guard.ts:127-147, 55-67).
ChargedOnce ==
    /\ \A i, j \in DOMAIN charges :
          charges[i].reservationId # Undefined
              /\ charges[i].reservationId = charges[j].reservationId => i = j
    /\ \A i \in DOMAIN charges : charges[i].reservationId \notin DOMAIN reservations

\* Paid work stays in the ledger, open or charged, unless the operation threw and its caller had
\* chosen release for that case (guard.ts protect).
PaidWorkIsHeld ==
    \A id \in DOMAIN operation : operation[id] \/ id \in DOMAIN reservations \/ Charged(id)

\* How protect ends says what happened to the money (guard.ts:189-233).
OutcomeIsTrue ==
    \A c \in Callers :
        LET id == outcome[c].id
        IN  CASE outcome[c].result = "value" -> Charged(id) /\ id \notin DOMAIN reservations
              [] outcome[c].result = "operation-error" ->
                    ~Charged(id) /\ id \notin DOMAIN reservations
              [] outcome[c].result \in {"reconcile-operation", "reconcile-cost-calculation"} ->
                    id \in DOMAIN reservations
              [] outcome[c].result = "reconcile-settlement" ->
                    id \in DOMAIN reservations \/ Charged(id)
              [] OTHER -> TRUE
=============================================================================
