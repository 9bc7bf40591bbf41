---------------------------- MODULE SpendFirewall ----------------------------
(***************************************************************************)
(* SpendFirewall (src/src/firewall.ts) over a shared ledger.  A call runs  *)
(* in two steps: Begin* is the synchronous prefix, which normalises the    *)
(* request and reads the clock; the commit step is everything the function *)
(* given to store.transact does, atomically, with the clock value read     *)
(* earlier.  Between the two, other calls commit and time passes.  Calls   *)
(* of one Lane share an in-process mutex and commit in the order they      *)
(* began; calls of different lanes (other processes on the same ledger, or *)
(* PostgresStore, which has no mutex) commit in any order.                 *)
(*                                                                         *)
(* A store error before the commit leaves the ledger alone (StoreFailure); *)
(* one after it (or a lost answer) leaves the effect: Answer allows it on  *)
(* every commit.  A caller may name any reservation id that was ever       *)
(* issued, as the CLI and the HTTP sidecar let it.                         *)
(***************************************************************************)
EXTENDS SpendPolicy

CONSTANTS
    Callers,          \* concurrent users of the firewall
    Lane,             \* Lane[c] is the in-process mutex that c's calls queue on
    Ids,              \* reservation ids (randomUUID)
    Keys,             \* idempotency keys
    RequestIds,       \* request ids
    Requests,         \* the requests callers make, before normalisation
    Amounts,          \* the costs and new estimates callers give to settle and resize
    Operations,       \* the operations callers use
    RequiredContext,  \* config.requiredContext
    DefaultProvider,  \* config.defaultProvider
    UnknownEstimate,  \* config.unknownEstimate
    MaxTime,          \* bound on the clock
    MaxCharges        \* bound on the number of charges

OperationNames == {"reserve", "settle", "resize", "release", "recordActual"}

Fingerprints == [context : Contexts, cost : Nat, requestId : Optional(RequestIds)]

RequestType ==
    [context : Contexts, estimatedCostUsd : Optional(Nat),
     requestId : Optional(RequestIds), idempotencyKey : Optional(Keys)]

NormalRequestType ==
    [context : Contexts, estimatedCostUsd : Nat,
     requestId : Optional(RequestIds), idempotencyKey : Optional(Keys)]

ReservationType ==
    [context : Contexts, estimatedCostUsd : Nat, createdAt : Nat,
     idempotencyKey : Optional(Keys), fingerprint : Fingerprints]

ChargeType ==
    [context : Contexts, costUsd : Nat, createdAt : Nat,
     reservationId : Optional(Ids), estimateUsd : Optional(Nat),
     idempotencyKey : Optional(Keys), fingerprint : Fingerprints]

Reports == SUBSET (PolicyIds \X {"budget", "call-count"})

CallType ==
    [op : OperationNames \cup {"none"}, request : Optional(NormalRequestType),
     id : Optional(Ids), costUsd : Optional(Nat), now : Nat]

Refusals == {"rejected", "duplicate", "conflict", "denied", "not-found"}
Successes == {"reserved", "settled", "resized", "released", "recorded"}
Answers == {"none", "store-error"} \cup Refusals \cup Successes

ASSUME FirewallAssumption ==
    /\ IsFiniteSet(Ids)
    /\ Undefined \notin Ids \cup Keys \cup RequestIds \cup RequestType
    /\ "provider" \in Fields
    /\ "custom" \in Values
    /\ Requests \subseteq RequestType
    /\ Amounts \subseteq Nat
    /\ Operations \subseteq OperationNames
    /\ RequiredContext \subseteq Fields
    /\ DefaultProvider \in Optional(Values)
    /\ UnknownEstimate \in {"allow", "deny"}
    /\ MaxTime \in Nat
    /\ MaxCharges \in Nat

VARIABLES
    reservations,  \* the open reservations of the ledger, by id
    charges,       \* the charges of the ledger, in the order they were pushed
    clock,         \* the time every process reads
    call,          \* call[c] is the call c has in flight, or NoCall
    ahead,         \* ahead[c] is the set of callers queued before c on its mutex
    answer,        \* the outcome the last step gave the caller whose call it ended
    admission,     \* history: when each reservation ever made was created, and
                   \* the clock value of the last evaluation that approved its amount
    told           \* history: the postSettlementViolations that the caller behind each
                   \* charge was told of, Undefined if that answer was lost

vars == <<reservations, charges, clock, call, ahead, answer, admission, told>>

NoCall == [op |-> "none", request |-> Undefined, id |-> Undefined,
           costUsd |-> Undefined, now |-> 0]

Init ==
    /\ reservations = [id \in {} |-> Undefined]
    /\ charges = <<>>
    /\ clock = 0
    /\ call = [c \in Callers |-> NoCall]
    /\ ahead = [c \in Callers |-> {}]
    /\ answer = "none"
    /\ admission = [id \in {} |-> Undefined]
    /\ told = [i \in {} |-> Undefined]

-----------------------------------------------------------------------------
\* Tables: f with k bound to v, and f without k.
Bind(f, k, v) == [j \in DOMAIN f \cup {k} |-> IF j = k THEN v ELSE f[j]]
UnbindNothing(f, k) == f
Unbind(f, k) == [j \in DOMAIN f \ {k} |-> f[j]]

Fingerprint(context, cost, requestId) ==
    [context |-> context, cost |-> cost, requestId |-> requestId]

WithConfiguredDefault(context) ==
    IF context["provider"] = Undefined
    THEN [context EXCEPT !["provider"] = DefaultProvider]
    ELSE context

MissingContext(context) ==
    {field \in RequiredContext : WithConfiguredDefault(context)[field] = Undefined}

NormalizeContext(context) ==
    IF WithConfiguredDefault(context)["provider"] = Undefined
    THEN [context EXCEPT !["provider"] = "custom"]
    ELSE WithConfiguredDefault(context)

NormalizeEstimate(estimate) ==
    IF estimate = Undefined /\ UnknownEstimate = "allow" THEN 0 ELSE estimate

Normalize(request) ==
    [request EXCEPT !.context = NormalizeContext(@),
                    !.estimatedCostUsd = NormalizeEstimate(@)]

AcceptedWithoutEstimate(request) == MissingContext(request.context) = {}

\* MissingSpendContextError and UnknownEstimateError, thrown before the store is touched.
Accepted(request) ==
    /\ MissingContext(request.context) = {}
    /\ NormalizeEstimate(request.estimatedCostUsd) # Undefined

-----------------------------------------------------------------------------
Idle(c) == call[c].op = "none"

InFlight(ops) == {c \in Callers : call[c].op \in ops}

\* Room for what the calls in flight may still add keeps the ledger within its bounds.
RoomForReservation ==
    Cardinality(DOMAIN admission) + Cardinality(InFlight({"reserve"})) < Cardinality(Ids)
RoomForCharge ==
    Len(charges) + Cardinality(InFlight({"settle", "recordActual"})) < MaxCharges

Enqueue(c, op, request, id, costUsd) ==
    /\ Idle(c)
    /\ op \in Operations
    /\ call' = [call EXCEPT ![c] = [op |-> op, request |-> request, id |-> id,
                                    costUsd |-> costUsd, now |-> clock]]
    /\ ahead' = [ahead EXCEPT ![c] = {d \in Callers : ~Idle(d) /\ Lane[d] = Lane[c]}]
    /\ answer' = "none"
    /\ UNCHANGED <<reservations, charges, clock, admission, told>>

BeginReserve(c) ==
    \E request \in Requests :
        /\ Accepted(request)
        /\ RoomForReservation
        /\ Enqueue(c, "reserve", Normalize(request), Undefined, Undefined)

BeginRecordActual(c) ==
    \E request \in Requests :
        /\ request.estimatedCostUsd # Undefined
        /\ MissingContext(request.context) = {}
        /\ RoomForCharge
        /\ Enqueue(c, "recordActual", Normalize(request), Undefined, request.estimatedCostUsd)

\* The argument is checked before anything else: the call fails without reaching the store.
RejectRequest(c) ==
    /\ Idle(c)
    /\ \/ /\ "reserve" \in Operations
          /\ \E request \in Requests : ~Accepted(request)
       \/ /\ "recordActual" \in Operations
          /\ \E request \in Requests : MissingContext(request.context) # {}
    /\ answer' = "rejected"
    /\ UNCHANGED <<reservations, charges, clock, call, ahead, admission, told>>

BeginSettle(c) ==
    \E id \in DOMAIN admission, actual \in Amounts :
        RoomForCharge /\ Enqueue(c, "settle", Undefined, id, actual)

BeginResize(c) ==
    \E id \in DOMAIN admission, estimate \in Amounts :
        Enqueue(c, "resize", Undefined, id, estimate)

BeginRelease(c) ==
    \E id \in DOMAIN admission :
        Enqueue(c, "release", Undefined, id, Undefined)

-----------------------------------------------------------------------------
TurnWithoutMutex(c, op) == call[c].op = op

\* c is at the head of its mutex and its call is op.
Turn(c, op) == call[c].op = op /\ ahead[c] = {}

DequeueHoldingMutex(c) ==
    /\ call' = [call EXCEPT ![c] = NoCall]
    /\ UNCHANGED ahead

Dequeue(c) ==
    /\ call' = [call EXCEPT ![c] = NoCall]
    /\ ahead' = [d \in Callers |-> ahead[d] \ {c}]

\* The call ends; its answer reaches c, or is lost after the commit.
Answer(c, outcome) ==
    /\ Dequeue(c)
    /\ answer' \in {outcome, "store-error"}
    /\ UNCHANGED clock

Refuse(c, outcome) ==
    /\ Dequeue(c)
    /\ answer' = outcome
    /\ UNCHANGED <<reservations, charges, clock, admission, told>>

\* The ledger records that already carry the key, if one is given.
Pending(key) == {id \in DOMAIN reservations : key # Undefined /\ reservations[id].idempotencyKey = key}
Settled(key) == {i \in DOMAIN charges : key # Undefined /\ charges[i].idempotencyKey = key}

ExistingFingerprint(key) ==
    IF Pending(key) # {}
    THEN reservations[CHOOSE id \in Pending(key) : TRUE].fingerprint
    ELSE charges[CHOOSE i \in Settled(key) : \A j \in Settled(key) : i <= j].fingerprint

KeyNotPending(key) == Pending(key) = {}

KeyFree(key) == Pending(key) = {} /\ Settled(key) = {}

\* DuplicateOperationError, or IdempotencyConflictError when the intent differs.
RefuseKey(c, key, fingerprint) ==
    /\ ~KeyFree(key)
    /\ Refuse(c, IF ExistingFingerprint(key) = fingerprint THEN "duplicate" ELSE "conflict")

RequestFingerprint(request) ==
    Fingerprint(request.context, request.estimatedCostUsd, request.requestId)

CommitReserve(c) ==
    LET request == call[c].request
        now == call[c].now
        allowed == Allowed(reservations, charges, request.context,
                           request.estimatedCostUsd, now)
        record == [context |-> request.context,
                   estimatedCostUsd |-> request.estimatedCostUsd,
                   createdAt |-> now,
                   idempotencyKey |-> request.idempotencyKey,
                   fingerprint |-> RequestFingerprint(request)]
    IN  /\ Turn(c, "reserve")
        /\ \/ RefuseKey(c, request.idempotencyKey, RequestFingerprint(request))
           \/ KeyFree(request.idempotencyKey) /\ ~allowed /\ Refuse(c, "denied")
           \/ /\ KeyFree(request.idempotencyKey)
              /\ allowed
              /\ \E id \in Ids \ DOMAIN admission :
                    /\ reservations' = Bind(reservations, id, record)
                    /\ admission' = Bind(admission, id, [createdAt |-> now, approvedAt |-> now])
              /\ Answer(c, "reserved")
              /\ UNCHANGED <<charges, told>>

\* A settled reservation's charge: stamped now, everything else copied from the reservation.
SettledCharge(id, actual, now) ==
    [context |-> reservations[id].context,
     costUsd |-> actual,
     createdAt |-> now,
     reservationId |-> id,
     estimateUsd |-> reservations[id].estimatedCostUsd,
     idempotencyKey |-> reservations[id].idempotencyKey,
     fingerprint |-> reservations[id].fingerprint]

\* The violations of the ledger that has the charge go to the caller with the answer and are
\* kept nowhere: what an answer that is lost had to tell, nobody is told.
Tell(remaining, charge) ==
    LET violations == PostSettlementViolations(remaining, Append(charges, charge),
                                               charge.context, charge.createdAt)
        lost == answer' = "store-error" /\ violations # {}
    IN  told' = Bind(told, Len(charges) + 1, IF lost THEN Undefined ELSE violations)

CommitSettle(c) ==
    LET id == call[c].id
        remaining == Unbind(reservations, id)
        charge == SettledCharge(id, call[c].costUsd, call[c].now)
    IN  /\ Turn(c, "settle")
        /\ \/ id \notin DOMAIN reservations /\ Refuse(c, "not-found")
           \/ /\ id \in DOMAIN reservations
              /\ reservations' = remaining
              /\ charges' = Append(charges, charge)
              /\ Answer(c, "settled")
              /\ Tell(remaining, charge)
              /\ UNCHANGED admission

ForgetDenied(out, id, reservation) == reservations' = out

\* Denied: the reservation that was taken out of the ledger goes back as it was.
PutBack(out, id, reservation) == reservations' = Bind(out, id, reservation)

\* An increase is judged on the ledger without the reservation.
CommitResize(c) ==
    LET id == call[c].id
        now == call[c].now
        reservation == reservations[id]
        next == call[c].costUsd
        out == Unbind(reservations, id)
        allowed == Allowed(out, charges, reservation.context, next, now)
        resized == [reservation EXCEPT !.estimatedCostUsd = next]
    IN  /\ Turn(c, "resize")
        /\ \/ id \notin DOMAIN reservations /\ Refuse(c, "not-found")
           \/ /\ id \in DOMAIN reservations
              /\ next <= reservation.estimatedCostUsd
              /\ reservations' = [reservations EXCEPT ![id] = resized]
              /\ Answer(c, "resized")
              /\ UNCHANGED <<charges, admission, told>>
           \/ /\ id \in DOMAIN reservations
              /\ next > reservation.estimatedCostUsd
              /\ ~allowed
              /\ PutBack(out, id, reservation)
              /\ Answer(c, "denied")
              /\ UNCHANGED <<charges, admission, told>>
           \/ /\ id \in DOMAIN reservations
              /\ next > reservation.estimatedCostUsd
              /\ allowed
              /\ reservations' = Bind(out, id, resized)
              /\ admission' = [admission EXCEPT ![id].approvedAt = now]
              /\ Answer(c, "resized")
              /\ UNCHANGED <<charges, told>>

CommitRelease(c) ==
    LET id == call[c].id
    IN  /\ Turn(c, "release")
        /\ \/ id \notin DOMAIN reservations /\ Refuse(c, "not-found")
           \/ /\ id \in DOMAIN reservations
              /\ reservations' = Unbind(reservations, id)
              /\ Answer(c, "released")
              /\ UNCHANGED <<charges, admission, told>>

CommitRecordActual(c) ==
    LET request == call[c].request
        fingerprint == Fingerprint(request.context, call[c].costUsd, request.requestId)
        charge == [context |-> request.context,
                   costUsd |-> call[c].costUsd,
                   createdAt |-> call[c].now,
                   reservationId |-> Undefined,
                   estimateUsd |-> Undefined,
                   idempotencyKey |-> request.idempotencyKey,
                   fingerprint |-> fingerprint]
    IN  /\ Turn(c, "recordActual")
        /\ \/ RefuseKey(c, request.idempotencyKey, fingerprint)
           \/ /\ KeyFree(request.idempotencyKey)
              /\ charges' = Append(charges, charge)
              /\ Answer(c, "recorded")
              /\ Tell(reservations, charge)
              /\ UNCHANGED <<reservations, admission>>

\* The transaction throws before it commits: lock timeout, busy database, failed write.
StoreFailure(c) ==
    /\ ~Idle(c)
    /\ ahead[c] = {}
    /\ Refuse(c, "store-error")

Tick ==
    /\ clock < MaxTime
    /\ clock' = clock + 1
    /\ UNCHANGED <<reservations, charges, call, ahead, answer, admission, told>>

-----------------------------------------------------------------------------
Next ==
    \/ \E c \in Callers :
        \/ BeginReserve(c) \/ BeginSettle(c) \/ BeginResize(c)
        \/ BeginRelease(c) \/ BeginRecordActual(c) \/ RejectRequest(c)
        \/ CommitReserve(c) \/ CommitSettle(c) \/ CommitResize(c)
        \/ CommitRelease(c) \/ CommitRecordActual(c) \/ StoreFailure(c)
    \/ Tick

Spec == Init /\ [][Next]_vars

-----------------------------------------------------------------------------
(***************************************************************************)
(* Properties                                                              *)
(***************************************************************************)

\* Every call carries the arguments of its operation.
ArgumentsOK ==
    \A c \in Callers :
        /\ call[c].op \in {"reserve", "recordActual"} => call[c].request # Undefined
        /\ call[c].op \in {"settle", "resize", "release"} => call[c].id # Undefined
        /\ call[c].op \in {"settle", "resize", "recordActual"} => call[c].costUsd # Undefined

\* Every table and call has its shape, and a request that gets past normalisation has an
\* estimate and all its arguments (firewall.ts normalizeRequest).
TypeOK ==
    /\ DOMAIN reservations \subseteq Ids
    /\ reservations \in [DOMAIN reservations -> ReservationType]
    /\ charges \in Seq(ChargeType)
    /\ clock \in Nat
    /\ call \in [Callers -> CallType]
    /\ ahead \in [Callers -> SUBSET Callers]
    /\ answer \in Answers
    /\ DOMAIN admission \subseteq Ids
    /\ admission \in [DOMAIN admission -> [createdAt : Nat, approvedAt : Nat]]
    /\ DOMAIN reservations \subseteq DOMAIN admission
    /\ told \in [DOMAIN charges -> Optional(Reports)]
    /\ ArgumentsOK

Times == 0..MaxTime

Calendar(p) == Policy[p].window.kind # "rolling"

Enforced(p) == Policy[p].mode = "enforce"

\* Open reservations that p's window at t counts and that were approved in that same window.
ApprovedOpen(p, context, t) ==
    {id \in Counted(reservations, p, context, t) :
        InBudgetWindow(admission[id].approvedAt, Policy[p].window, t)}

\* Charges that p's window at t counts and whose reservation was made and approved in it.
ApprovedSettled(p, context, t) ==
    {i \in Counted(charges, p, context, t) :
        /\ charges[i].reservationId # Undefined
        /\ InBudgetWindow(admission[charges[i].reservationId].createdAt, Policy[p].window, t)
        /\ InBudgetWindow(admission[charges[i].reservationId].approvedAt, Policy[p].window, t)}

\* What the firewall itself admitted into the window: no more of a charge than its estimate.
AdmittedUsd(p, context, t) ==
    Total([id \in ApprovedOpen(p, context, t) |-> reservations[id].estimatedCostUsd])
    + Total([i \in ApprovedSettled(p, context, t) |->
                IF charges[i].costUsd <= charges[i].estimateUsd
                THEN charges[i].costUsd ELSE charges[i].estimateUsd])

\* The ceiling of a policy: in every calendar window and group, what evaluateSpendRequest let
\* in, whether still reserved or settled since, never adds up to more than limitUsd, however
\* calls interleave, with stale clock values, lost answers and retries (firewall.ts reserve,
\* settle, resize).
BudgetHeld ==
    \A p \in PolicyIds, context \in Contexts, t \in Times :
        Enforced(p) /\ Calendar(p) /\ MatchesPolicy(p, context) /\ Policy[p].limitUsd # Undefined
            => AdmittedUsd(p, context, t) <= Policy[p].limitUsd

\* limitCalls likewise bounds, in every calendar window and group, the operations reserved in
\* it that are still open or were settled in it (policy.ts requestViolations).
CallsHeld ==
    \A p \in PolicyIds, context \in Contexts, t \in Times :
        Enforced(p) /\ Calendar(p) /\ MatchesPolicy(p, context) /\ Policy[p].limitCalls # Undefined
            => Concurrent(reservations, p, context, t)
               + Cardinality({i \in Counted(charges, p, context, t) :
                    /\ charges[i].reservationId # Undefined
                    /\ InBudgetWindow(admission[charges[i].reservationId].createdAt,
                                      Policy[p].window, t)})
               <= Policy[p].limitCalls

\* maxConcurrent bounds the reservations of one calendar window and group that are open at
\* the same time (policy.ts requestViolations, concurrency).
ConcurrencyHeld ==
    \A p \in PolicyIds, context \in Contexts, t \in Times :
        Enforced(p) /\ Calendar(p) /\ MatchesPolicy(p, context) /\ Policy[p].maxConcurrent # Undefined
            => Concurrent(reservations, p, context, t) <= Policy[p].maxConcurrent

\* An overspend is silent only behind a lost answer: when settled and approved spend of a
\* calendar window is above an enforced limitUsd, the last settlement in that window and group
\* told its caller so, or had its report lost by a store that failed after the commit
\* (firewall.ts settle, recordActual; policy.ts postSettlementViolations).
OverspendReported ==
    \A p \in PolicyIds, context \in Contexts, t \in Times :
        Enforced(p) /\ Calendar(p) /\ MatchesPolicy(p, context) /\ Policy[p].limitUsd # Undefined
            => \/ ActualUsd(charges, p, context, t)
                  + Total([id \in ApprovedOpen(p, context, t) |->
                              reservations[id].estimatedCostUsd]) <= Policy[p].limitUsd
               \/ \E i \in Counted(charges, p, context, t) :
                      /\ \A j \in Counted(charges, p, context, t) : j <= i
                      /\ told[i] = Undefined \/ <<p, "budget">> \in told[i]

\* An idempotency key is on at most one record, open or charged, so that an operation retried
\* under its key is never admitted twice (firewall.ts reserve, recordActual).
OneRecordPerKey ==
    \A key \in Keys :
        /\ \A a, b \in Pending(key) : a = b
        /\ \A i, j \in Settled(key) : i = j
        /\ Pending(key) = {} \/ Settled(key) = {}

\* A reservation is charged at most once and is not open once charged, whatever settle, resize
\* and release calls race on its id (firewall.ts settle).
ChargedOnce ==
    /\ \A i, j \in DOMAIN charges :
          charges[i].reservationId # Undefined
              /\ charges[i].reservationId = charges[j].reservationId => i = j
    /\ \A i \in DOMAIN charges : charges[i].reservationId \notin DOMAIN reservations

\* Reserved money is never forgotten: a reservation that disappears was released by a caller
\* who asked for that, or became the charge that carries its key, context and last estimate;
\* no charge ever disappears or changes (firewall.ts settle, resize, release).
NeverForgotten ==
    [][/\ \A id \in DOMAIN reservations \ DOMAIN reservations' :
             \/ \E c \in Callers : call[c].op = "release" /\ call[c].id = id /\ Idle(c)'
             \/ \E i \in DOMAIN charges' \ DOMAIN charges :
                   /\ charges'[i].reservationId = id
                   /\ charges'[i].estimateUsd = reservations[id].estimatedCostUsd
                   /\ charges'[i].context = reservations[id].context
                   /\ charges'[i].idempotencyKey = reservations[id].idempotencyKey
       /\ \A i \in DOMAIN charges : i \in DOMAIN charges' /\ charges'[i] = charges[i]]_vars

\* Two requests never both consume the same remaining rolling budget: the open reservations
\* stamped in any one rolling window add up to at most limitUsd (policy.ts inBudgetWindow).
RollingBudgetHeld ==
    \A p \in PolicyIds, context \in Contexts, t \in Times :
        Enforced(p) /\ ~Calendar(p) /\ MatchesPolicy(p, context) /\ Policy[p].limitUsd # Undefined
            => Total([id \in {k \in Counted(reservations, p, context, t) :
                                 admission[k].approvedAt = admission[k].createdAt}
                         |-> reservations[id].estimatedCostUsd]) <= Policy[p].limitUsd
=============================================================================
