------------------------ MODULE SpendFirewallProofs ------------------------
(***************************************************************************)
(* Safety of SpendFirewall for every configuration, every number of        *)
(* callers and lanes, and unbounded amounts: what the ledger and the calls *)
(* in flight keep of each other, the limits of calendar windows, and, for  *)
(* callers that share one mutex, those of rolling windows.                 *)
(***************************************************************************)
EXTENDS SpendFirewall, TotalsTheorems

\* A request that passes normalisation has a context with a provider and a natural estimate.
LEMMA NormalizeType ==
    ASSUME NEW request \in RequestType, NormalizeEstimate(request.estimatedCostUsd) # Undefined
    PROVE  /\ Normalize(request) \in NormalRequestType
           /\ Normalize(request) # Undefined
<1>1. NormalizeEstimate(request.estimatedCostUsd) \in Nat
  BY DEF NormalizeEstimate, RequestType, Optional
<1>2. WithConfiguredDefault(request.context) \in Contexts
  BY FirewallAssumption DEF WithConfiguredDefault, Contexts, RequestType, Optional
<1>3. NormalizeContext(request.context) \in Contexts
  BY <1>2, FirewallAssumption DEF NormalizeContext, Contexts, RequestType, Optional
<1>4. Normalize(request) \in NormalRequestType
  BY <1>1, <1>3 DEF Normalize, NormalRequestType, RequestType
<1>5. NormalRequestType \subseteq RequestType
  BY DEF NormalRequestType, RequestType, Optional
<1> QED
  BY <1>4, <1>5, FirewallAssumption

LEMMA DequeueType ==
    ASSUME TypeOK, NEW c \in Callers, Dequeue(c)
    PROVE  /\ call' \in [Callers -> CallType]
           /\ ahead' \in [Callers -> SUBSET Callers]
           /\ ArgumentsOK'
<1>1. NoCall \in CallType
  BY DEF NoCall, CallType, Optional
<1> QED
  BY <1>1 DEF TypeOK, Dequeue, ArgumentsOK, NoCall

LEMMA RefuseType ==
    ASSUME TypeOK, NEW c \in Callers, NEW outcome \in Answers, Refuse(c, outcome)
    PROVE  TypeOK'
BY DequeueType DEF TypeOK, Refuse

LEMMA EnqueueType ==
    ASSUME TypeOK, NEW c \in Callers, NEW op \in OperationNames,
           NEW request \in Optional(NormalRequestType), NEW id \in Optional(Ids),
           NEW costUsd \in Optional(Nat),
           op \in {"reserve", "recordActual"} => request # Undefined,
           op \in {"settle", "resize", "release"} => id # Undefined,
           op \in {"settle", "resize", "recordActual"} => costUsd # Undefined,
           Enqueue(c, op, request, id, costUsd)
    PROVE  TypeOK'
<1> DEFINE new == [op |-> op, request |-> request, id |-> id, costUsd |-> costUsd, now |-> clock]
<1>1. new \in CallType
  BY DEF CallType, TypeOK
<1>2. call' \in [Callers -> CallType]
  BY <1>1 DEF TypeOK, Enqueue
<1>3. ahead' \in [Callers -> SUBSET Callers]
  BY DEF TypeOK, Enqueue
<1>4. ArgumentsOK'
  BY DEF TypeOK, Enqueue, ArgumentsOK
<1> QED
  BY <1>2, <1>3, <1>4 DEF TypeOK, Enqueue, Answers

\* What a call in flight carries, by its operation.
LEMMA CallArguments ==
    ASSUME TypeOK, NEW c \in Callers
    PROVE  /\ call[c] \in CallType
           /\ call[c].now \in Nat
           /\ call[c].op \in {"reserve", "recordActual"} => call[c].request \in NormalRequestType
           /\ call[c].op \in {"settle", "resize", "release"} => call[c].id \in Ids
           /\ call[c].op \in {"settle", "resize", "recordActual"} => call[c].costUsd \in Nat
BY DEF TypeOK, ArgumentsOK, CallType, Optional

\* What a caller is told of its charge, or is not because its answer is lost.
LEMMA TellType ==
    ASSUME TypeOK, NEW charge \in ChargeType, NEW remaining,
           charges' = Append(charges, charge), Tell(remaining, charge)
    PROVE  told' \in [DOMAIN charges' -> Optional(Reports)]
<1> DEFINE violations == PostSettlementViolations(remaining, Append(charges, charge),
                                                  charge.context, charge.createdAt)
<1>1. violations \in Reports
  BY DEF PostSettlementViolations, Reports
<1>2. DOMAIN charges' = DOMAIN charges \cup {Len(charges) + 1}
  BY DEF TypeOK
<1>3. PICK report \in Optional(Reports) : told' = Bind(told, Len(charges) + 1, report)
  BY <1>1 DEF Tell, Optional
<1> QED
  BY <1>2, <1>3 DEF TypeOK, Bind

\* A reservation taken out of the ledger and put back, as it was or with another estimate.
LEMMA TakenOutAndBack ==
    ASSUME TypeOK, NEW id \in DOMAIN reservations, NEW record
    PROVE  Bind(Unbind(reservations, id), id, record) = [reservations EXCEPT ![id] = record]
BY DEF TypeOK, Bind, Unbind

LEMMA SettledChargeType ==
    ASSUME TypeOK, NEW id \in DOMAIN reservations, NEW actual \in Nat, NEW now \in Nat
    PROVE  SettledCharge(id, actual, now) \in ChargeType
<1>1. reservations[id] \in ReservationType /\ id \in Ids
  BY DEF TypeOK
<1> QED
  BY <1>1 DEF SettledCharge, ChargeType, ReservationType, Optional

LEMMA InitType == Init => TypeOK
<1> SUFFICES ASSUME Init PROVE TypeOK
  OBVIOUS
<1>1. NoCall \in CallType
  BY DEF NoCall, CallType, Optional
<1>2. ArgumentsOK
  BY DEF Init, ArgumentsOK, NoCall
<1> QED
  BY <1>1, <1>2 DEF Init, TypeOK, Answers

LEMMA BeginType ==
    ASSUME TypeOK, NEW c \in Callers,
           \/ BeginReserve(c) \/ BeginSettle(c) \/ BeginResize(c)
           \/ BeginRelease(c) \/ BeginRecordActual(c) \/ RejectRequest(c)
    PROVE  TypeOK'
<1> USE DEF OperationNames, Optional
<1>1. CASE BeginReserve(c)
  <2>1. PICK request \in Requests :
          Accepted(request) /\ Enqueue(c, "reserve", Normalize(request), Undefined, Undefined)
    BY <1>1 DEF BeginReserve
  <2>2. Normalize(request) \in NormalRequestType /\ Normalize(request) # Undefined
    BY <2>1, NormalizeType, FirewallAssumption DEF Accepted
  <2> QED
    BY <2>1, <2>2, EnqueueType
<1>2. CASE BeginRecordActual(c)
  <2>1. PICK request \in Requests :
          /\ request.estimatedCostUsd # Undefined
          /\ Enqueue(c, "recordActual", Normalize(request), Undefined, request.estimatedCostUsd)
    BY <1>2 DEF BeginRecordActual
  <2>2. request \in RequestType /\ request.estimatedCostUsd \in Nat
    BY <2>1, FirewallAssumption DEF RequestType
  <2>3. Normalize(request) \in NormalRequestType /\ Normalize(request) # Undefined
    BY <2>1, <2>2, NormalizeType DEF NormalizeEstimate
  <2> QED
    BY <2>1, <2>2, <2>3, EnqueueType, PolicyAssumption
<1>3. CASE BeginSettle(c)
  <2>1. PICK id \in DOMAIN admission, actual \in Amounts :
          Enqueue(c, "settle", Undefined, id, actual)
    BY <1>3 DEF BeginSettle
  <2>2. id \in Ids /\ actual \in Nat /\ id # Undefined /\ actual # Undefined
    BY FirewallAssumption, PolicyAssumption DEF TypeOK
  <2> QED
    BY <2>1, <2>2, EnqueueType
<1>4. CASE BeginResize(c)
  <2>1. PICK id \in DOMAIN admission, estimate \in Amounts :
          Enqueue(c, "resize", Undefined, id, estimate)
    BY <1>4 DEF BeginResize
  <2>2. id \in Ids /\ estimate \in Nat /\ id # Undefined /\ estimate # Undefined
    BY FirewallAssumption, PolicyAssumption DEF TypeOK
  <2> QED
    BY <2>1, <2>2, EnqueueType
<1>5. CASE BeginRelease(c)
  <2>1. PICK id \in DOMAIN admission : Enqueue(c, "release", Undefined, id, Undefined)
    BY <1>5 DEF BeginRelease
  <2>2. id \in Ids /\ id # Undefined
    BY FirewallAssumption DEF TypeOK
  <2> QED
    BY <2>1, <2>2, EnqueueType
<1>6. CASE RejectRequest(c)
  BY <1>6 DEF RejectRequest, TypeOK, ArgumentsOK, Answers, Refusals
<1> QED
  BY <1>1, <1>2, <1>3, <1>4, <1>5, <1>6

LEMMA CommitReserveType ==
    ASSUME TypeOK, NEW c \in Callers, CommitReserve(c)
    PROVE  TypeOK'
<1> DEFINE request == call[c].request
           now == call[c].now
           record == [context |-> request.context,
                      estimatedCostUsd |-> request.estimatedCostUsd,
                      createdAt |-> now,
                      idempotencyKey |-> request.idempotencyKey,
                      fingerprint |-> RequestFingerprint(request)]
           history == [createdAt |-> now, approvedAt |-> now]
<1>1. CASE RefuseKey(c, request.idempotencyKey, RequestFingerprint(request))
  <2>1. PICK outcome \in {"duplicate", "conflict"} : Refuse(c, outcome)
    BY <1>1 DEF RefuseKey
  <2> QED
    BY <2>1, RefuseType DEF Answers, Refusals
<1>2. CASE Refuse(c, "denied")
  BY <1>2, RefuseType DEF Answers, Refusals
<1>3. CASE /\ \E id \in Ids \ DOMAIN admission :
                 /\ reservations' = Bind(reservations, id, record)
                 /\ admission' = Bind(admission, id, history)
           /\ Answer(c, "reserved")
           /\ UNCHANGED <<charges, told>>
  <2>1. PICK id \in Ids \ DOMAIN admission :
          /\ reservations' = Bind(reservations, id, record)
          /\ admission' = Bind(admission, id, history)
    BY <1>3
  <2>2. request \in NormalRequestType /\ now \in Nat
    BY CallArguments DEF CommitReserve, Turn
  <2>3. record \in ReservationType
    BY <2>2 DEF ReservationType, NormalRequestType, RequestFingerprint, Fingerprint, Fingerprints
  <2>4. history \in [createdAt : Nat, approvedAt : Nat]
    BY <2>2
  <2>5. /\ reservations' \in [DOMAIN reservations' -> ReservationType]
        /\ DOMAIN reservations' = DOMAIN reservations \cup {id}
        /\ DOMAIN reservations' \subseteq Ids
    BY <2>1, <2>3 DEF TypeOK, Bind
  <2>6. /\ admission' \in [DOMAIN admission' -> [createdAt : Nat, approvedAt : Nat]]
        /\ DOMAIN admission' = DOMAIN admission \cup {id}
        /\ DOMAIN admission' \subseteq Ids
    BY <2>1, <2>4 DEF TypeOK, Bind
  <2>7. Dequeue(c) /\ answer' \in Answers /\ UNCHANGED clock
    BY <1>3 DEF Answer, Answers, Successes
  <2> QED
    BY <1>3, <2>5, <2>6, <2>7, DequeueType DEF TypeOK
<1> QED
  BY <1>1, <1>2, <1>3 DEF CommitReserve

LEMMA CommitSettleType ==
    ASSUME TypeOK, NEW c \in Callers, CommitSettle(c)
    PROVE  TypeOK'
<1> DEFINE id == call[c].id
           remaining == Unbind(reservations, id)
           charge == SettledCharge(id, call[c].costUsd, call[c].now)
<1>1. CASE Refuse(c, "not-found")
  BY <1>1, RefuseType DEF Answers, Refusals
<1>2. CASE /\ id \in DOMAIN reservations
           /\ reservations' = remaining
           /\ charges' = Append(charges, charge)
           /\ Answer(c, "settled")
           /\ Tell(remaining, charge)
           /\ UNCHANGED admission
  <2>1. call[c].costUsd \in Nat /\ call[c].now \in Nat
    BY CallArguments DEF CommitSettle, Turn
  <2>2. charge \in ChargeType
    BY <1>2, <2>1, SettledChargeType
  <2> HIDE DEF charge, remaining
  <2>3. charges' \in Seq(ChargeType) /\ told' \in [DOMAIN charges' -> Optional(Reports)]
    BY <1>2, <2>2, TellType DEF TypeOK
  <2>4. /\ reservations' \in [DOMAIN reservations' -> ReservationType]
        /\ DOMAIN reservations' = DOMAIN reservations \ {id}
        /\ DOMAIN reservations' \subseteq Ids
    BY <1>2 DEF TypeOK, Unbind, remaining
  <2>5. Dequeue(c) /\ answer' \in Answers /\ UNCHANGED clock
    BY <1>2 DEF Answer, Answers, Successes
  <2> QED
    BY <1>2, <2>3, <2>4, <2>5, DequeueType DEF TypeOK
<1> QED
  BY <1>1, <1>2 DEF CommitSettle

LEMMA CommitResizeType ==
    ASSUME TypeOK, NEW c \in Callers, CommitResize(c)
    PROVE  TypeOK'
<1> DEFINE id == call[c].id
           next == call[c].costUsd
           resized == [reservations[id] EXCEPT !.estimatedCostUsd = next]
<1>1. next \in Nat /\ call[c].now \in Nat
  BY CallArguments DEF CommitResize, Turn
<1>2. CASE Refuse(c, "not-found")
  BY <1>2, RefuseType DEF Answers, Refusals
<1>3. CASE /\ id \in DOMAIN reservations
           /\ \E record \in {reservations[id], resized} :
                 reservations' = [reservations EXCEPT ![id] = record]
           /\ \/ UNCHANGED admission
              \/ admission' = [admission EXCEPT ![id].approvedAt = call[c].now]
           /\ \E outcome \in {"resized", "denied"} : Answer(c, outcome)
           /\ UNCHANGED <<charges, told>>
  <2>1. /\ reservations' \in [DOMAIN reservations' -> ReservationType]
        /\ DOMAIN reservations' = DOMAIN reservations
    <3>1. reservations[id] \in ReservationType
      BY <1>3 DEF TypeOK
    <3>2. resized \in ReservationType
      BY <1>1, <3>1 DEF ReservationType
    <3>3. PICK record \in ReservationType : reservations' = [reservations EXCEPT ![id] = record]
      BY <1>3, <3>1, <3>2
    <3> QED
      BY <3>3 DEF TypeOK
  <2>2. /\ admission' \in [DOMAIN admission' -> [createdAt : Nat, approvedAt : Nat]]
        /\ DOMAIN admission' = DOMAIN admission
    <3>1. id \in DOMAIN admission
      BY <1>3 DEF TypeOK
    <3>2. [admission[id] EXCEPT !.approvedAt = call[c].now] \in [createdAt : Nat, approvedAt : Nat]
      BY <1>1, <3>1 DEF TypeOK
    <3>3. CASE UNCHANGED admission
      BY <3>3 DEF TypeOK
    <3>4. CASE admission' = [admission EXCEPT ![id].approvedAt = call[c].now]
      <4>1. admission' = [admission EXCEPT ![id] = [@ EXCEPT !.approvedAt = call[c].now]]
        BY <3>4
      <4> QED
        BY <3>1, <3>2, <4>1 DEF TypeOK
    <3> QED
      BY <1>3, <3>3, <3>4
  <2>3. Dequeue(c) /\ answer' \in Answers /\ UNCHANGED clock
    BY <1>3 DEF Answer, Answers, Successes, Refusals
  <2> QED
    BY <1>3, <2>1, <2>2, <2>3, DequeueType DEF TypeOK
<1> QED
  BY <1>2, <1>3, TakenOutAndBack DEF CommitResize, PutBack

LEMMA CommitReleaseType ==
    ASSUME TypeOK, NEW c \in Callers, CommitRelease(c)
    PROVE  TypeOK'
<1> DEFINE id == call[c].id
<1>1. CASE Refuse(c, "not-found")
  BY <1>1, RefuseType DEF Answers, Refusals
<1>2. CASE /\ reservations' = Unbind(reservations, id)
           /\ Answer(c, "released")
           /\ UNCHANGED <<charges, admission, told>>
  <2>1. /\ reservations' \in [DOMAIN reservations' -> ReservationType]
        /\ DOMAIN reservations' = DOMAIN reservations \ {id}
        /\ DOMAIN reservations' \subseteq Ids
    BY <1>2 DEF TypeOK, Unbind
  <2>2. Dequeue(c) /\ answer' \in Answers /\ UNCHANGED clock
    BY <1>2 DEF Answer, Answers, Successes
  <2> QED
    BY <1>2, <2>1, <2>2, DequeueType DEF TypeOK
<1> QED
  BY <1>1, <1>2 DEF CommitRelease

LEMMA CommitRecordActualType ==
    ASSUME TypeOK, NEW c \in Callers, CommitRecordActual(c)
    PROVE  TypeOK'
<1> DEFINE request == call[c].request
           fingerprint == Fingerprint(request.context, call[c].costUsd, request.requestId)
           charge == [context |-> request.context,
                      costUsd |-> call[c].costUsd,
                      createdAt |-> call[c].now,
                      reservationId |-> Undefined,
                      estimateUsd |-> Undefined,
                      idempotencyKey |-> request.idempotencyKey,
                      fingerprint |-> fingerprint]
<1>1. CASE RefuseKey(c, request.idempotencyKey, fingerprint)
  <2>1. PICK outcome \in {"duplicate", "conflict"} : Refuse(c, outcome)
    BY <1>1 DEF RefuseKey
  <2> QED
    BY <2>1, RefuseType DEF Answers, Refusals
<1>2. CASE /\ charges' = Append(charges, charge)
           /\ Answer(c, "recorded")
           /\ Tell(reservations, charge)
           /\ UNCHANGED <<reservations, admission>>
  <2>1. request \in NormalRequestType /\ call[c].costUsd \in Nat /\ call[c].now \in Nat
    BY CallArguments DEF CommitRecordActual, Turn
  <2>2. charge \in ChargeType
    BY <2>1 DEF ChargeType, NormalRequestType, Fingerprint, Fingerprints, Optional
  <2> HIDE DEF charge
  <2>3. charges' \in Seq(ChargeType) /\ told' \in [DOMAIN charges' -> Optional(Reports)]
    BY <1>2, <2>2, TellType DEF TypeOK
  <2>4. Dequeue(c) /\ answer' \in Answers /\ UNCHANGED clock
    BY <1>2 DEF Answer, Answers, Successes
  <2> QED
    BY <1>2, <2>3, <2>4, DequeueType DEF TypeOK
<1> QED
  BY <1>1, <1>2 DEF CommitRecordActual

LEMMA NextType == TypeOK /\ [Next]_vars => TypeOK'
<1> SUFFICES ASSUME TypeOK, [Next]_vars PROVE TypeOK'
  OBVIOUS
<1>1. ASSUME NEW c \in Callers, StoreFailure(c) PROVE TypeOK'
  BY <1>1, RefuseType DEF StoreFailure, Answers
<1>2. CASE Tick
  BY <1>2 DEF Tick, TypeOK, ArgumentsOK, Answers
<1>3. CASE UNCHANGED vars
  BY <1>3 DEF vars, TypeOK, ArgumentsOK
<1> QED
  BY <1>1, <1>2, <1>3, BeginType, CommitReserveType, CommitSettleType, CommitResizeType,
     CommitReleaseType, CommitRecordActualType DEF Next

\* Every reachable state is well typed (firewall.ts, all of SpendFirewall's operations).
THEOREM TypeCorrect == Spec => []TypeOK
BY InitType, NextType, PTL DEF Spec

-----------------------------------------------------------------------------
(***************************************************************************)
(* What a step does to the ledger.  Every step of SpendFirewall has one of *)
(* these effects on reservations, charges and admission, so an invariant   *)
(* of the ledger is preserved when each effect preserves it.               *)
(***************************************************************************)
ReserveEffect(id, record) ==
    /\ id \in Ids \ DOMAIN admission /\ record \in ReservationType
    /\ KeyFree(record.idempotencyKey)
    /\ Allowed(reservations, charges, record.context, record.estimatedCostUsd, record.createdAt)
    /\ reservations' = Bind(reservations, id, record)
    /\ admission' = Bind(admission, id, [createdAt |-> record.createdAt,
                                         approvedAt |-> record.createdAt])
    /\ charges' = charges /\ told' = told

SettleEffect(id, charge) ==
    /\ id \in DOMAIN reservations /\ charge \in ChargeType
    /\ charge.reservationId = id /\ charge.context = reservations[id].context
    /\ charge.estimateUsd = reservations[id].estimatedCostUsd
    /\ charge.idempotencyKey = reservations[id].idempotencyKey
    /\ reservations' = Unbind(reservations, id) /\ charges' = Append(charges, charge)
    /\ Tell(Unbind(reservations, id), charge) /\ admission' = admission

ShrinkEffect(id, estimate) ==
    /\ id \in DOMAIN reservations /\ estimate \in Nat
    /\ estimate <= reservations[id].estimatedCostUsd
    /\ reservations' = [reservations EXCEPT ![id].estimatedCostUsd = estimate]
    /\ charges' = charges /\ admission' = admission /\ told' = told

GrowEffect(id, estimate, now) ==
    /\ id \in DOMAIN reservations /\ estimate \in Nat
    /\ now \in Nat
    /\ Allowed(Unbind(reservations, id), charges, reservations[id].context, estimate, now)
    /\ reservations' = [reservations EXCEPT ![id].estimatedCostUsd = estimate]
    /\ charges' = charges /\ told' = told
    /\ admission' = [admission EXCEPT ![id].approvedAt = now]

ReleaseEffect(id) ==
    /\ id \in DOMAIN reservations
    /\ reservations' = Unbind(reservations, id)
    /\ charges' = charges /\ admission' = admission /\ told' = told

RecordEffect(charge) ==
    /\ charge \in ChargeType /\ charge.reservationId = Undefined
    /\ KeyFree(charge.idempotencyKey)
    /\ reservations' = reservations
    /\ charges' = Append(charges, charge)
    /\ Tell(reservations, charge)
    /\ admission' = admission

LedgerEffect ==
    \/ UNCHANGED <<reservations, charges, admission, told>>
    \/ \E id \in Ids, record \in ReservationType : ReserveEffect(id, record)
    \/ \E id \in Ids, charge \in ChargeType : SettleEffect(id, charge)
    \/ \E id \in Ids, estimate \in Nat : ShrinkEffect(id, estimate)
    \/ \E id \in Ids, estimate \in Nat, now \in Nat : GrowEffect(id, estimate, now)
    \/ \E id \in Ids : ReleaseEffect(id)
    \/ \E charge \in ChargeType : RecordEffect(charge)

LEMMA ReserveHasEffect ==
    ASSUME TypeOK, NEW c \in Callers, CommitReserve(c)
    PROVE  LedgerEffect
<1> DEFINE request == call[c].request
           now == call[c].now
           record == [context |-> request.context,
                      estimatedCostUsd |-> request.estimatedCostUsd,
                      createdAt |-> now,
                      idempotencyKey |-> request.idempotencyKey,
                      fingerprint |-> RequestFingerprint(request)]
<1>1. CASE /\ KeyFree(request.idempotencyKey)
           /\ Allowed(reservations, charges, request.context, request.estimatedCostUsd, now)
           /\ \E id \in Ids \ DOMAIN admission :
                 /\ reservations' = Bind(reservations, id, record)
                 /\ admission' = Bind(admission, id, [createdAt |-> now, approvedAt |-> now])
           /\ UNCHANGED <<charges, told>>
  <2>1. PICK id \in Ids \ DOMAIN admission :
          /\ reservations' = Bind(reservations, id, record)
          /\ admission' = Bind(admission, id, [createdAt |-> now, approvedAt |-> now])
    BY <1>1
  <2>2. request \in NormalRequestType /\ now \in Nat
    BY CallArguments DEF CommitReserve, Turn
  <2>3. record \in ReservationType
    BY <2>2 DEF ReservationType, NormalRequestType, RequestFingerprint, Fingerprint, Fingerprints
  <2>4. ReserveEffect(id, record)
    BY <1>1, <2>1, <2>3 DEF ReserveEffect
  <2> QED
    BY <2>3, <2>4 DEF LedgerEffect
<1>2. CASE UNCHANGED <<reservations, charges, admission, told>>
  BY <1>2 DEF LedgerEffect
<1> QED
  BY <1>1, <1>2 DEF CommitReserve, RefuseKey, Refuse

LEMMA SettleHasEffect ==
    ASSUME TypeOK, NEW c \in Callers, CommitSettle(c)
    PROVE  LedgerEffect
<1> DEFINE id == call[c].id
           remaining == Unbind(reservations, id)
           charge == SettledCharge(id, call[c].costUsd, call[c].now)
<1>1. CASE /\ id \in DOMAIN reservations
           /\ reservations' = remaining
           /\ charges' = Append(charges, charge)
           /\ Tell(remaining, charge)
           /\ UNCHANGED admission
  <2>1. id \in Ids /\ call[c].costUsd \in Nat /\ call[c].now \in Nat
    BY CallArguments DEF CommitSettle, Turn
  <2>2. charge \in ChargeType
    BY <1>1, <2>1, SettledChargeType
  <2>3. /\ charge.reservationId = id
        /\ charge.context = reservations[id].context
        /\ charge.estimateUsd = reservations[id].estimatedCostUsd
        /\ charge.idempotencyKey = reservations[id].idempotencyKey
    BY DEF SettledCharge
  <2> HIDE DEF charge
  <2>4. SettleEffect(id, charge)
    BY <1>1, <2>2, <2>3 DEF SettleEffect
  <2> QED
    BY <2>1, <2>2, <2>4 DEF LedgerEffect
<1>2. CASE UNCHANGED <<reservations, charges, admission, told>>
  BY <1>2 DEF LedgerEffect
<1> QED
  BY <1>1, <1>2 DEF CommitSettle, Refuse

LEMMA ResizeCommits ==
    ASSUME TypeOK, NEW c \in Callers, CommitResize(c)
    PROVE  \/ UNCHANGED <<reservations, charges, admission, told>>
           \/ ShrinkEffect(call[c].id, call[c].costUsd)
           \/ GrowEffect(call[c].id, call[c].costUsd, call[c].now)
<1> DEFINE id == call[c].id
           resized == [reservations[id] EXCEPT !.estimatedCostUsd = call[c].costUsd]
<1>1. id \in Ids /\ call[c].costUsd \in Nat /\ call[c].now \in Nat
  BY CallArguments DEF CommitResize, Turn
<1>2. ASSUME id \in DOMAIN reservations
      PROVE  /\ [reservations EXCEPT ![id] = reservations[id]] = reservations
             /\ [reservations EXCEPT ![id] = resized]
                  = [reservations EXCEPT ![id].estimatedCostUsd = call[c].costUsd]
  BY <1>2 DEF TypeOK
<1> QED
  BY <1>1, <1>2, TakenOutAndBack DEF CommitResize, PutBack, Refuse, ShrinkEffect, GrowEffect

LEMMA ResizeHasEffect ==
    ASSUME TypeOK, NEW c \in Callers, CommitResize(c)
    PROVE  LedgerEffect
<1>1. call[c].id \in Ids /\ call[c].costUsd \in Nat /\ call[c].now \in Nat
  BY CallArguments DEF CommitResize, Turn
<1> QED
  BY <1>1, ResizeCommits DEF LedgerEffect

LEMMA ReleaseHasEffect ==
    ASSUME TypeOK, NEW c \in Callers, CommitRelease(c)
    PROVE  LedgerEffect
<1>1. call[c].id \in Ids
  BY CallArguments DEF CommitRelease, Turn
<1>2. UNCHANGED <<reservations, charges, admission, told>> \/ ReleaseEffect(call[c].id)
  BY DEF CommitRelease, Refuse, ReleaseEffect
<1> QED
  BY <1>1, <1>2 DEF LedgerEffect

LEMMA RecordCommits ==
    ASSUME TypeOK, NEW c \in Callers, CommitRecordActual(c)
    PROVE  \/ UNCHANGED <<reservations, charges, admission, told>>
           \/ \E charge \in ChargeType : RecordEffect(charge) /\ charge.createdAt = call[c].now
<1> DEFINE request == call[c].request
           fingerprint == Fingerprint(request.context, call[c].costUsd, request.requestId)
           charge == [context |-> request.context,
                      costUsd |-> call[c].costUsd,
                      createdAt |-> call[c].now,
                      reservationId |-> Undefined,
                      estimateUsd |-> Undefined,
                      idempotencyKey |-> request.idempotencyKey,
                      fingerprint |-> fingerprint]
<1>1. CASE /\ KeyFree(request.idempotencyKey)
           /\ charges' = Append(charges, charge)
           /\ Tell(reservations, charge)
           /\ UNCHANGED <<reservations, admission>>
  <2>1. request \in NormalRequestType /\ call[c].costUsd \in Nat /\ call[c].now \in Nat
    BY CallArguments DEF CommitRecordActual, Turn
  <2>2. charge \in ChargeType
    BY <2>1 DEF ChargeType, NormalRequestType, Fingerprint, Fingerprints, Optional
  <2>3. charge.reservationId = Undefined /\ charge.createdAt = call[c].now
           /\ charge.idempotencyKey = request.idempotencyKey
    OBVIOUS
  <2> HIDE DEF charge
  <2>4. RecordEffect(charge)
    BY <1>1, <2>2, <2>3 DEF RecordEffect
  <2> QED
    BY <2>2, <2>3, <2>4
<1> QED
  BY <1>1 DEF CommitRecordActual, RefuseKey, Refuse

LEMMA RecordHasEffect ==
    ASSUME TypeOK, NEW c \in Callers, CommitRecordActual(c)
    PROVE  LedgerEffect
BY RecordCommits DEF LedgerEffect

LEMMA StepHasEffect ==
    ASSUME TypeOK, [Next]_vars
    PROVE  LedgerEffect
<1>1. ASSUME NEW c \in Callers,
             \/ BeginReserve(c) \/ BeginSettle(c) \/ BeginResize(c)
             \/ BeginRelease(c) \/ BeginRecordActual(c) \/ RejectRequest(c) \/ StoreFailure(c)
      PROVE  LedgerEffect
  BY <1>1 DEF BeginReserve, BeginSettle, BeginResize, BeginRelease, BeginRecordActual,
     RejectRequest, StoreFailure, Enqueue, Refuse, LedgerEffect
<1>2. CASE Tick \/ UNCHANGED vars
  BY <1>2 DEF Tick, vars, LedgerEffect
<1> QED
  BY <1>1, <1>2, ReserveHasEffect, SettleHasEffect, ResizeHasEffect, ReleaseHasEffect,
     RecordHasEffect DEF Next

\* The charges after a push.
LEMMA AppendFacts ==
    ASSUME TypeOK, NEW charge \in ChargeType, charges' = Append(charges, charge)
    PROVE  /\ Len(charges) \in Nat
           /\ DOMAIN charges = 1..Len(charges)
           /\ DOMAIN charges' = DOMAIN charges \cup {Len(charges) + 1}
           /\ Len(charges) + 1 \notin DOMAIN charges
           /\ \A i \in DOMAIN charges : charges'[i] = charges[i]
           /\ charges'[Len(charges) + 1] = charge
BY DEF TypeOK

-----------------------------------------------------------------------------
(***************************************************************************)
(* One charge per reservation, one record per key.                         *)
(***************************************************************************)
\* The history agrees with the ledger.
HistoryOK ==
    /\ \A id \in DOMAIN reservations : admission[id].createdAt = reservations[id].createdAt
    /\ \A i \in DOMAIN charges :
          charges[i].reservationId # Undefined
              => charges[i].reservationId \in DOMAIN admission /\ charges[i].estimateUsd \in Nat

LedgerInv == TypeOK /\ HistoryOK /\ ChargedOnce /\ OneRecordPerKey

LEMMA ReservePreserves ==
    ASSUME LedgerInv, NEW id \in Ids, NEW record \in ReservationType, ReserveEffect(id, record)
    PROVE  HistoryOK' /\ ChargedOnce' /\ OneRecordPerKey'
<1>1. /\ DOMAIN reservations' = DOMAIN reservations \cup {id}
      /\ id \notin DOMAIN reservations
      /\ reservations'[id] = record
      /\ \A k \in DOMAIN reservations : reservations'[k] = reservations[k]
  BY DEF ReserveEffect, Bind, LedgerInv, TypeOK
<1>2. /\ DOMAIN admission' = DOMAIN admission \cup {id}
      /\ admission'[id].createdAt = record.createdAt
      /\ \A k \in DOMAIN admission : admission'[k] = admission[k]
  BY DEF ReserveEffect, Bind
<1>3. charges' = charges /\ id \notin DOMAIN admission /\ id # Undefined
  BY FirewallAssumption DEF ReserveEffect
<1>4. HistoryOK'
  BY <1>1, <1>2, <1>3 DEF HistoryOK, LedgerInv, TypeOK
<1>5. ChargedOnce'
  BY <1>1, <1>3 DEF ChargedOnce, LedgerInv, HistoryOK
<1>6. OneRecordPerKey'
  <2> SUFFICES ASSUME NEW key \in Keys
               PROVE  /\ \A a, b \in Pending(key)' : a = b
                      /\ \A i, j \in Settled(key)' : i = j
                      /\ Pending(key)' = {} \/ Settled(key)' = {}
    BY DEF OneRecordPerKey
  <2>1. Settled(key)' = Settled(key)
    BY <1>3 DEF Settled
  <2>2. CASE record.idempotencyKey = key
    <3>1. Pending(key) = {} /\ Settled(key) = {}
      BY <2>2 DEF ReserveEffect, KeyFree
    <3>2. Pending(key)' \subseteq {id}
      BY <1>1, <3>1 DEF Pending
    <3> QED
      BY <2>1, <3>1, <3>2
  <2>3. CASE record.idempotencyKey # key
    <3>1. Pending(key)' = Pending(key)
      BY <1>1, <2>3 DEF Pending
    <3> QED
      BY <2>1, <3>1 DEF LedgerInv, OneRecordPerKey
  <2> QED
    BY <2>2, <2>3
<1> QED
  BY <1>4, <1>5, <1>6

LEMMA SettlePreserves ==
    ASSUME LedgerInv, NEW id \in Ids, NEW charge \in ChargeType, SettleEffect(id, charge)
    PROVE  HistoryOK' /\ ChargedOnce' /\ OneRecordPerKey'
<1> DEFINE new == Len(charges) + 1
<1>1. /\ DOMAIN charges' = DOMAIN charges \cup {new}
      /\ new \notin DOMAIN charges
      /\ \A i \in DOMAIN charges : charges'[i] = charges[i]
      /\ charges'[new] = charge
  BY AppendFacts DEF SettleEffect, LedgerInv
<1>2. /\ DOMAIN reservations' = DOMAIN reservations \ {id}
      /\ \A k \in DOMAIN reservations' : reservations'[k] = reservations[k]
      /\ id \in DOMAIN reservations
  BY DEF SettleEffect, Unbind
<1>3. /\ charge.reservationId = id
      /\ charge.estimateUsd \in Nat
      /\ charge.idempotencyKey = reservations[id].idempotencyKey
      /\ admission' = admission
      /\ id \in DOMAIN admission
  BY DEF SettleEffect, LedgerInv, TypeOK, ReservationType
<1> HIDE DEF new
<1>4. HistoryOK'
  BY <1>1, <1>2, <1>3 DEF HistoryOK, LedgerInv
<1>5. ChargedOnce'
  BY <1>1, <1>2, <1>3 DEF ChargedOnce, LedgerInv
<1>6. OneRecordPerKey'
  <2> SUFFICES ASSUME NEW key \in Keys
               PROVE  /\ \A a, b \in Pending(key)' : a = b
                      /\ \A i, j \in Settled(key)' : i = j
                      /\ Pending(key)' = {} \/ Settled(key)' = {}
    BY DEF OneRecordPerKey
  <2>1. Pending(key)' = Pending(key) \ {id}
    BY <1>2 DEF Pending
  <2>2. CASE id \in Pending(key)
    <3>1. Settled(key) = {} /\ Pending(key) \subseteq {id}
      BY <2>2 DEF LedgerInv, OneRecordPerKey
    <3>2. Settled(key)' \subseteq {new}
      BY <1>1, <3>1 DEF Settled
    <3> QED
      BY <2>1, <3>1, <3>2
  <2>3. CASE id \notin Pending(key)
    <3>1. charge.idempotencyKey # key \/ key = Undefined
      BY <1>2, <1>3, <2>3 DEF Pending
    <3>2. Settled(key)' = Settled(key)
      BY <1>1, <3>1 DEF Settled
    <3> QED
      BY <2>1, <2>3, <3>2 DEF LedgerInv, OneRecordPerKey
  <2> QED
    BY <2>2, <2>3
<1> QED
  BY <1>4, <1>5, <1>6

\* The reservations after a resize.
LEMMA ResizeFacts ==
    ASSUME TypeOK, NEW id \in DOMAIN reservations, NEW estimate \in Nat,
           reservations' = [reservations EXCEPT ![id].estimatedCostUsd = estimate]
    PROVE  /\ DOMAIN reservations' = DOMAIN reservations
           /\ \A k \in DOMAIN reservations \ {id} : reservations'[k] = reservations[k]
           /\ reservations'[id].estimatedCostUsd = estimate
           /\ \A k \in DOMAIN reservations :
                 /\ reservations'[k].createdAt = reservations[k].createdAt
                 /\ reservations'[k].context = reservations[k].context
                 /\ reservations'[k].idempotencyKey = reservations[k].idempotencyKey
<1>1. /\ reservations[id] \in ReservationType
      /\ reservations'[id] = [reservations[id] EXCEPT !.estimatedCostUsd = estimate]
  BY DEF TypeOK
<1>2. /\ reservations'[id].estimatedCostUsd = estimate
      /\ reservations'[id].createdAt = reservations[id].createdAt
      /\ reservations'[id].context = reservations[id].context
      /\ reservations'[id].idempotencyKey = reservations[id].idempotencyKey
  BY <1>1 DEF ReservationType
<1>3. /\ DOMAIN reservations' = DOMAIN reservations
      /\ \A k \in DOMAIN reservations \ {id} : reservations'[k] = reservations[k]
  OBVIOUS
<1> QED
  BY <1>2, <1>3

\* A resize changes an amount and the time of its approval, and nothing these invariants read.
LEMMA ResizePreserves ==
    ASSUME LedgerInv, NEW id \in Ids, NEW estimate \in Nat, NEW now \in Nat,
           ShrinkEffect(id, estimate) \/ GrowEffect(id, estimate, now)
    PROVE  HistoryOK' /\ ChargedOnce' /\ OneRecordPerKey'
<1>1. /\ DOMAIN reservations' = DOMAIN reservations
      /\ \A k \in DOMAIN reservations :
            /\ reservations'[k].createdAt = reservations[k].createdAt
            /\ reservations'[k].idempotencyKey = reservations[k].idempotencyKey
  BY ResizeFacts DEF ShrinkEffect, GrowEffect, LedgerInv
<1>2. /\ DOMAIN admission' = DOMAIN admission
      /\ \A k \in DOMAIN admission : admission'[k].createdAt = admission[k].createdAt
  <2>1. CASE admission' = admission
    BY <2>1
  <2>2. CASE admission' = [admission EXCEPT ![id].approvedAt = now]
    <3>1. /\ DOMAIN admission' = DOMAIN admission
          /\ \A k \in DOMAIN admission \ {id} : admission'[k] = admission[k]
      BY <2>2
    <3>2. id \in DOMAIN admission =>
            /\ admission[id] \in [createdAt : Nat, approvedAt : Nat]
            /\ admission'[id] = [admission[id] EXCEPT !.approvedAt = now]
      BY <2>2 DEF LedgerInv, TypeOK
    <3>3. id \in DOMAIN admission => admission'[id].createdAt = admission[id].createdAt
      BY <3>2
    <3> QED
      BY <3>1, <3>3
  <2> QED
    BY <2>1, <2>2 DEF ShrinkEffect, GrowEffect
<1>3. charges' = charges
  BY DEF ShrinkEffect, GrowEffect
<1>4. HistoryOK'
  BY <1>1, <1>2, <1>3 DEF HistoryOK, LedgerInv, TypeOK
<1>5. ChargedOnce'
  BY <1>1, <1>3 DEF ChargedOnce, LedgerInv
<1>6. \A key \in Keys : Pending(key)' = Pending(key) /\ Settled(key)' = Settled(key)
  BY <1>1, <1>3 DEF Pending, Settled
<1> QED
  BY <1>4, <1>5, <1>6 DEF OneRecordPerKey, LedgerInv

LEMMA ReleasePreserves ==
    ASSUME LedgerInv, NEW id \in Ids, ReleaseEffect(id)
    PROVE  HistoryOK' /\ ChargedOnce' /\ OneRecordPerKey'
<1>1. /\ DOMAIN reservations' = DOMAIN reservations \ {id}
      /\ \A k \in DOMAIN reservations' : reservations'[k] = reservations[k]
      /\ charges' = charges
      /\ admission' = admission
  BY DEF ReleaseEffect, Unbind
<1>2. \A key \in Keys : Pending(key)' \subseteq Pending(key) /\ Settled(key)' = Settled(key)
  BY <1>1 DEF Pending, Settled
<1> QED
  BY <1>1, <1>2 DEF HistoryOK, ChargedOnce, OneRecordPerKey, LedgerInv

LEMMA RecordPreserves ==
    ASSUME LedgerInv, NEW charge \in ChargeType, RecordEffect(charge)
    PROVE  HistoryOK' /\ ChargedOnce' /\ OneRecordPerKey'
<1> DEFINE new == Len(charges) + 1
<1>1. /\ DOMAIN charges' = DOMAIN charges \cup {new}
      /\ new \notin DOMAIN charges
      /\ \A i \in DOMAIN charges : charges'[i] = charges[i]
      /\ charges'[new] = charge
  BY AppendFacts DEF RecordEffect, LedgerInv
<1>2. /\ charge.reservationId = Undefined
      /\ reservations' = reservations
      /\ admission' = admission
  BY DEF RecordEffect
<1> HIDE DEF new
<1>3. HistoryOK'
  BY <1>1, <1>2 DEF HistoryOK, LedgerInv
<1>4. Undefined \notin DOMAIN reservations
  BY FirewallAssumption DEF LedgerInv, TypeOK
<1>5. ChargedOnce'
  BY <1>1, <1>2, <1>4 DEF ChargedOnce, LedgerInv
<1>6. OneRecordPerKey'
  <2> SUFFICES ASSUME NEW key \in Keys
               PROVE  /\ \A a, b \in Pending(key)' : a = b
                      /\ \A i, j \in Settled(key)' : i = j
                      /\ Pending(key)' = {} \/ Settled(key)' = {}
    BY DEF OneRecordPerKey
  <2>1. Pending(key)' = Pending(key)
    BY <1>2 DEF Pending
  <2>2. CASE charge.idempotencyKey = key
    <3>1. Pending(key) = {} /\ Settled(key) = {}
      BY <2>2 DEF RecordEffect, KeyFree
    <3>2. Settled(key)' \subseteq {new}
      BY <1>1, <3>1 DEF Settled
    <3> QED
      BY <2>1, <3>1, <3>2
  <2>3. CASE charge.idempotencyKey # key
    <3>1. Settled(key)' = Settled(key)
      BY <1>1, <2>3 DEF Settled
    <3> QED
      BY <2>1, <3>1 DEF LedgerInv, OneRecordPerKey
  <2> QED
    BY <2>2, <2>3
<1> QED
  BY <1>3, <1>5, <1>6

LEMMA InitLedger == Init => LedgerInv
BY InitType DEF Init, LedgerInv, HistoryOK, ChargedOnce, OneRecordPerKey, Pending, Settled

LEMMA NextLedger == LedgerInv /\ [Next]_vars => LedgerInv'
<1> SUFFICES ASSUME LedgerInv, [Next]_vars PROVE LedgerInv'
  OBVIOUS
<1>1. TypeOK /\ TypeOK'
  BY NextType DEF LedgerInv
<1>2. LedgerEffect
  BY <1>1, StepHasEffect
<1>3. CASE UNCHANGED <<reservations, charges, admission>>
  <2>1. \A key \in Keys : Pending(key)' = Pending(key) /\ Settled(key)' = Settled(key)
    BY <1>3 DEF Pending, Settled
  <2>2. HistoryOK' /\ ChargedOnce'
    BY <1>3 DEF LedgerInv, HistoryOK, ChargedOnce
  <2>3. OneRecordPerKey'
    BY <2>1 DEF LedgerInv, OneRecordPerKey
  <2> QED
    BY <1>1, <2>2, <2>3 DEF LedgerInv
<1>4. HistoryOK' /\ ChargedOnce' /\ OneRecordPerKey'
  BY <1>2, <1>3, ReservePreserves, SettlePreserves, ResizePreserves, ReleasePreserves,
     RecordPreserves DEF LedgerEffect, LedgerInv
<1> QED
  BY <1>1, <1>4 DEF LedgerInv

LEMMA LedgerCorrect == Spec => []LedgerInv
BY InitLedger, NextLedger, PTL DEF Spec

\* However calls interleave, fail and are retried, no reservation is charged twice or left
\* open once charged (firewall.ts settle).
THEOREM NeverChargedTwice == Spec => []ChargedOnce
<1>1. LedgerInv => ChargedOnce
  BY DEF LedgerInv
<1> QED
  BY <1>1, LedgerCorrect, PTL

\* An idempotency key never gets a second record, so an operation is not admitted again under
\* its key while it is reserved or once it is settled (firewall.ts reserve, recordActual).
THEOREM KeysAreUnique == Spec => []OneRecordPerKey
<1>1. LedgerInv => OneRecordPerKey
  BY DEF LedgerInv
<1> QED
  BY <1>1, LedgerCorrect, PTL

-----------------------------------------------------------------------------
(***************************************************************************)
(* What a step may never do.                                               *)
(***************************************************************************)
\* What NeverForgotten asks of one step, for the reservations and for the charges.
Accounted(id) ==
    \/ \E c \in Callers : call[c].op = "release" /\ call[c].id = id /\ Idle(c)'
    \/ \E i \in DOMAIN charges' \ DOMAIN charges :
          /\ charges'[i].reservationId = id
          /\ charges'[i].estimateUsd = reservations[id].estimatedCostUsd
          /\ charges'[i].context = reservations[id].context
          /\ charges'[i].idempotencyKey = reservations[id].idempotencyKey

ChargesKept == \A i \in DOMAIN charges : i \in DOMAIN charges' /\ charges'[i] = charges[i]

NoneForgotten == (\A id \in DOMAIN reservations \ DOMAIN reservations' : Accounted(id)) /\ ChargesKept

LEMMA NoneForgottenByRelease ==
    ASSUME TypeOK, NEW c \in Callers, CommitRelease(c)
    PROVE  NoneForgotten
<1>1. ChargesKept
  BY DEF CommitRelease, Refuse, ChargesKept
<1>2. ASSUME NEW id \in DOMAIN reservations \ DOMAIN reservations' PROVE Accounted(id)
  <2>1. call[c].op = "release" /\ call[c].id = id
    BY <1>2 DEF CommitRelease, Turn, Refuse, Unbind
  <2>2. Dequeue(c)
    BY DEF CommitRelease, Refuse, Answer
  <2>3. Idle(c)'
    BY <2>2 DEF Dequeue, Idle, NoCall, TypeOK
  <2> QED
    BY <2>1, <2>3 DEF Accounted
<1> QED
  BY <1>1, <1>2 DEF NoneForgotten

\* An effect that takes a reservation away without a charge is that of a release.
LEMMA NoneForgottenByEffect ==
    ASSUME TypeOK, LedgerEffect,
           charges' = charges => DOMAIN reservations \subseteq DOMAIN reservations'
    PROVE  NoneForgotten
<1> USE DEF NoneForgotten, ChargesKept
<1>1. CASE UNCHANGED <<reservations, charges, admission>>
  BY <1>1
<1>2. ASSUME NEW id \in Ids, NEW record \in ReservationType, ReserveEffect(id, record)
      PROVE  NoneForgotten
  BY <1>2 DEF ReserveEffect, Bind
<1>3. ASSUME NEW id \in Ids, NEW charge \in ChargeType, SettleEffect(id, charge)
      PROVE  NoneForgotten
  <2>1. /\ ChargesKept
        /\ Len(charges) + 1 \in DOMAIN charges' \ DOMAIN charges
        /\ charges'[Len(charges) + 1] = charge
    BY <1>3, AppendFacts DEF SettleEffect
  <2>2. DOMAIN reservations \ DOMAIN reservations' = {id}
    BY <1>3 DEF SettleEffect, Unbind
  <2>3. Accounted(id)
    BY <1>3, <2>1 DEF SettleEffect, Accounted
  <2> QED
    BY <2>1, <2>2, <2>3
<1>4. ASSUME NEW id \in Ids, NEW estimate \in Nat, NEW now \in Nat,
             ShrinkEffect(id, estimate) \/ GrowEffect(id, estimate, now)
      PROVE  NoneForgotten
  BY <1>4 DEF ShrinkEffect, GrowEffect
<1>5. ASSUME NEW id \in Ids, ReleaseEffect(id) PROVE NoneForgotten
  BY <1>5 DEF ReleaseEffect, Unbind
<1>6. ASSUME NEW charge \in ChargeType, RecordEffect(charge) PROVE NoneForgotten
  BY <1>6, AppendFacts DEF RecordEffect
<1> QED
  BY <1>1, <1>2, <1>3, <1>4, <1>5, <1>6 DEF LedgerEffect

\* A reservation that disappears was released by a caller who asked for that, or is the charge
\* that carries its key, context and last estimate; charges stay as they are (firewall.ts
\* settle, release).
THEOREM NothingIsForgotten == Spec => NeverForgotten
<1>1. ASSUME TypeOK, [Next]_vars PROVE NoneForgotten
  <2>1. ASSUME NEW c \in Callers, CommitRelease(c) PROVE NoneForgotten
    BY <1>1, <2>1, NoneForgottenByRelease
  <2>2. ASSUME NEW c \in Callers, CommitSettle(c) PROVE NoneForgotten
    <3>1. charges' # charges \/ reservations' = reservations
      <4>1. Append(charges, SettledCharge(call[c].id, call[c].costUsd, call[c].now)) # charges
        BY <1>1 DEF TypeOK
      <4> QED
        BY <2>2, <4>1 DEF CommitSettle, Refuse
    <3> QED
      BY <1>1, <3>1, StepHasEffect, NoneForgottenByEffect
  <2>3. ASSUME NEW c \in Callers,
               \/ BeginReserve(c) \/ BeginSettle(c) \/ BeginResize(c)
               \/ BeginRelease(c) \/ BeginRecordActual(c) \/ RejectRequest(c)
               \/ CommitReserve(c) \/ CommitRecordActual(c) \/ StoreFailure(c)
        PROVE  NoneForgotten
    <3>1. DOMAIN reservations \subseteq DOMAIN reservations'
      BY <2>3 DEF BeginReserve, BeginSettle, BeginResize, BeginRelease, BeginRecordActual,
         RejectRequest, CommitReserve, CommitRecordActual, StoreFailure, Enqueue, Refuse,
         RefuseKey, Bind
    <3> QED
      BY <1>1, <3>1, StepHasEffect, NoneForgottenByEffect
  <2>4. ASSUME NEW c \in Callers, CommitResize(c) PROVE NoneForgotten
    <3>1. DOMAIN reservations \subseteq DOMAIN reservations'
      BY <1>1, <2>4, ResizeCommits DEF ShrinkEffect, GrowEffect
    <3> QED
      BY <1>1, <3>1, StepHasEffect, NoneForgottenByEffect
  <2>5. CASE Tick \/ UNCHANGED vars
    BY <2>5 DEF Tick, vars, NoneForgotten, ChargesKept
  <2> QED
    BY <1>1, <2>1, <2>2, <2>3, <2>4, <2>5 DEF Next
<1> QED
  BY <1>1, TypeCorrect, PTL DEF Spec, NeverForgotten, NoneForgotten, Accounted, ChargesKept

-----------------------------------------------------------------------------
(***************************************************************************)
(* The limits of calendar windows: what was admitted into a window never   *)
(* exceeds the budget of a policy, and when what was settled does, a       *)
(* caller was told; nor do the numbers of operations exceed theirs.  The   *)
(* proofs go over the effects a step has on the ledger (StepHasEffect) for *)
(* a fixed enforced policy, group and window.                              *)
(***************************************************************************)
\* A limit that is set is a number.
LEMMA LimitType ==
    ASSUME NEW p \in PolicyIds
    PROVE  /\ Policy[p].limitUsd \in Optional(Nat)
           /\ Policy[p].limitCalls \in Optional(Nat)
           /\ Policy[p].maxConcurrent \in Optional(Nat)
<1>1. Policy[p] \in PolicyType
  BY PolicyAssumption
<1> QED
  BY <1>1 DEF PolicyType

\* Two times in one calendar window, and two contexts of one group, count the same records.
LEMMA SameCount ==
    ASSUME NEW p, NEW context, NEW other, NEW now, NEW t, NEW records,
           Calendar(p),
           InBudgetWindow(now, Policy[p].window, t),
           PolicyGroup(p, other) = PolicyGroup(p, context)
    PROVE  Counted(records, p, other, now) = Counted(records, p, context, t)
<1>1. \A createdAt : InBudgetWindow(createdAt, Policy[p].window, now)
                       <=> InBudgetWindow(createdAt, Policy[p].window, t)
  BY DEF InBudgetWindow, Calendar
<1> QED
  BY <1>1 DEF Counted

\* The sums over the records a policy counts are natural numbers.
LEMMA UsageType ==
    ASSUME NEW S, IsFiniteSet(S), NEW T, T \subseteq S, NEW f \in [T -> Nat]
    PROVE  IsFiniteSet(T) /\ Total(f) \in Nat
BY FS_Subset, TotalType

LEMMA LedgerFinite ==
    ASSUME TypeOK
    PROVE  IsFiniteSet(DOMAIN reservations) /\ IsFiniteSet(DOMAIN charges)
<1>1. IsFiniteSet(DOMAIN reservations)
  BY FS_Subset, FirewallAssumption DEF TypeOK
<1>2. Len(charges) \in Nat /\ DOMAIN charges = 1..Len(charges)
  BY DEF TypeOK
<1>3. IsFiniteSet(1..Len(charges))
  BY <1>2, FS_Interval
<1> QED
  BY <1>1, <1>2, <1>3

-----------------------------------------------------------------------------
(***************************************************************************)
(* The two sums of AdmittedUsd.                                            *)
(***************************************************************************)
Capped(charge) ==
    IF charge.costUsd <= charge.estimateUsd THEN charge.costUsd ELSE charge.estimateUsd

OpenAmounts(p, context, t) ==
    [id \in ApprovedOpen(p, context, t) |-> reservations[id].estimatedCostUsd]

SettledAmounts(p, context, t) ==
    [i \in ApprovedSettled(p, context, t) |-> Capped(charges[i])]

\* Admitted amounts are numbers, and no more than what the evaluator counts.
LEMMA AdmittedAmounts ==
    ASSUME LedgerInv, NEW p, NEW context, NEW t
    PROVE  /\ IsFiniteSet(ApprovedOpen(p, context, t))
           /\ OpenAmounts(p, context, t) \in [ApprovedOpen(p, context, t) -> Nat]
           /\ Total(OpenAmounts(p, context, t)) \in Nat
           /\ IsFiniteSet(ApprovedSettled(p, context, t))
           /\ SettledAmounts(p, context, t) \in [ApprovedSettled(p, context, t) -> Nat]
           /\ Total(SettledAmounts(p, context, t)) \in Nat
           /\ ActualUsd(charges, p, context, t) \in Nat
           /\ Total(SettledAmounts(p, context, t)) <= ActualUsd(charges, p, context, t)
<1> DEFINE counted == Counted(charges, p, context, t)
           costs == [i \in counted |-> charges[i].costUsd]
<1>1. ApprovedOpen(p, context, t) \subseteq DOMAIN reservations
  BY DEF ApprovedOpen, Counted
<1>2. OpenAmounts(p, context, t) \in [ApprovedOpen(p, context, t) -> Nat]
  BY <1>1 DEF OpenAmounts, LedgerInv, TypeOK, ReservationType
<1>3. counted \subseteq DOMAIN charges /\ ApprovedSettled(p, context, t) \subseteq counted
  BY DEF ApprovedSettled, Counted
<1>4. \A i \in DOMAIN charges : charges[i] \in ChargeType
  BY DEF LedgerInv, TypeOK
<1>5. costs \in [counted -> Nat]
  BY <1>3, <1>4 DEF ChargeType
<1>6. \A i \in ApprovedSettled(p, context, t) :
         /\ Capped(charges[i]) \in Nat
         /\ Capped(charges[i]) <= costs[i]
  <2> SUFFICES ASSUME NEW i \in ApprovedSettled(p, context, t)
               PROVE  Capped(charges[i]) \in Nat /\ Capped(charges[i]) <= costs[i]
    OBVIOUS
  <2>1. charges[i].costUsd \in Nat /\ costs[i] = charges[i].costUsd
    BY <1>3, <1>4 DEF ChargeType
  <2>2. charges[i].estimateUsd \in Nat
    BY <1>3 DEF ApprovedSettled, LedgerInv, HistoryOK
  <2> QED
    BY <2>1, <2>2 DEF Capped
<1>7. SettledAmounts(p, context, t) \in [ApprovedSettled(p, context, t) -> Nat]
  BY <1>6 DEF SettledAmounts
<1>8. IsFiniteSet(counted) /\ Total(costs) \in Nat
  BY <1>3, <1>5, LedgerFinite, UsageType DEF LedgerInv
<1> HIDE DEF counted, costs
<1>9. Total(SettledAmounts(p, context, t)) <= Total(costs)
  <2>1. \A i \in ApprovedSettled(p, context, t) : SettledAmounts(p, context, t)[i] <= costs[i]
    BY <1>6 DEF SettledAmounts
  <2> QED
    BY <2>1, <1>3, <1>5, <1>7, <1>8, TotalMonotone
<1>10. /\ IsFiniteSet(ApprovedOpen(p, context, t))
       /\ Total(OpenAmounts(p, context, t)) \in Nat
  BY <1>1, <1>2, LedgerFinite, UsageType DEF LedgerInv
<1>11. /\ IsFiniteSet(ApprovedSettled(p, context, t))
       /\ Total(SettledAmounts(p, context, t)) \in Nat
  BY <1>3, <1>7, <1>8, UsageType
<1>12. ActualUsd(charges, p, context, t) = Total(costs)
  BY DEF ActualUsd, counted, costs
<1>13. /\ ActualUsd(charges, p, context, t) \in Nat
       /\ Total(SettledAmounts(p, context, t)) <= ActualUsd(charges, p, context, t)
  BY <1>8, <1>9, <1>12
<1> QED
  BY <1>2, <1>7, <1>10, <1>11, <1>13

LEMMA AdmittedSum ==
    ASSUME NEW p, NEW context, NEW t
    PROVE  /\ AdmittedUsd(p, context, t)
                = Total(OpenAmounts(p, context, t)) + Total(SettledAmounts(p, context, t))
           /\ AdmittedUsd(p, context, t)'
                = Total(OpenAmounts(p, context, t)') + Total(SettledAmounts(p, context, t)')
BY DEF AdmittedUsd, OpenAmounts, SettledAmounts, Capped

\* What the evaluator counts as reserved covers the estimates of any reservations it counts.
LEMMA ReservedCovers ==
    ASSUME NEW table, IsFiniteSet(DOMAIN table),
           \A k \in DOMAIN table : table[k].estimatedCostUsd \in Nat,
           NEW p, NEW context, NEW t,
           NEW S, S \subseteq Counted(table, p, context, t),
           NEW f \in [S -> Nat], \A k \in S : f[k] = table[k].estimatedCostUsd
    PROVE  /\ ReservedUsd(table, p, context, t) \in Nat
           /\ Total(f) <= ReservedUsd(table, p, context, t)
<1> DEFINE counted == Counted(table, p, context, t)
           estimates == [k \in counted |-> table[k].estimatedCostUsd]
<1>1. counted \subseteq DOMAIN table
  BY DEF Counted
<1>2. estimates \in [counted -> Nat]
  BY <1>1
<1>3. IsFiniteSet(counted) /\ Total(estimates) \in Nat
  BY <1>1, <1>2, UsageType
<1>4. \A k \in S : f[k] <= estimates[k]
  OBVIOUS
<1>5. ReservedUsd(table, p, context, t) = Total(estimates)
  BY DEF ReservedUsd
<1> HIDE DEF counted, estimates
<1>6. S \subseteq counted
  BY DEF counted
<1>7. Total(f) <= Total(estimates)
  BY <1>2, <1>3, <1>4, <1>6, TotalMonotone
<1> QED
  BY <1>3, <1>5, <1>7

\* A request the evaluator allows fits under the limit of every enforced policy it matches.
LEMMA AllowedFits ==
    ASSUME NEW table, NEW p \in PolicyIds, Enforced(p), Calendar(p),
           Policy[p].limitUsd # Undefined,
           NEW context, NEW other, NEW now, NEW t, NEW estimate \in Nat,
           MatchesPolicy(p, other),
           InBudgetWindow(now, Policy[p].window, t),
           PolicyGroup(p, other) = PolicyGroup(p, context),
           Allowed(table, charges, other, estimate, now),
           ActualUsd(charges, p, context, t) \in Nat,
           ReservedUsd(table, p, context, t) \in Nat
    PROVE  /\ Policy[p].limitUsd \in Nat
           /\ ActualUsd(charges, p, context, t) + ReservedUsd(table, p, context, t) + estimate
                <= Policy[p].limitUsd
<1>1. Policy[p].limitUsd \in Nat
  BY LimitType DEF Optional
<1>2. ~Exceeds(ProjectedUsd(table, charges, p, other, now) + estimate, Policy[p].limitUsd)
  BY DEF Allowed, Violates, Enforced
<1>3. /\ Counted(table, p, other, now) = Counted(table, p, context, t)
      /\ Counted(charges, p, other, now) = Counted(charges, p, context, t)
  BY SameCount
<1>4. ProjectedUsd(table, charges, p, other, now)
        = ActualUsd(charges, p, context, t) + ReservedUsd(table, p, context, t)
  BY <1>3 DEF ProjectedUsd, ActualUsd, ReservedUsd
<1> QED
  BY <1>1, <1>2, <1>4 DEF Exceeds

-----------------------------------------------------------------------------
(***************************************************************************)
(* What each effect does to the admitted amount.                           *)
(***************************************************************************)
\* An enforced policy with a budget over calendar windows, for the context of a group.
Budgeted(p, context) ==
    /\ Enforced(p) /\ Calendar(p)
    /\ MatchesPolicy(p, context) /\ Policy[p].limitUsd # Undefined

WithinBudget(p, context, t) == AdmittedUsd(p, context, t) <= Policy[p].limitUsd

OpenUsd(p, context, t) == Total(OpenAmounts(p, context, t))

\* The last settlement of the window was told, or its report was lost.
Told(p, context, t) ==
    \E i \in Counted(charges, p, context, t) :
        /\ \A j \in Counted(charges, p, context, t) : j <= i
        /\ told[i] = Undefined \/ <<p, "budget">> \in told[i]

OverspendTold(p, context, t) ==
    \/ ActualUsd(charges, p, context, t) + OpenUsd(p, context, t) <= Policy[p].limitUsd
    \/ Told(p, context, t)

\* The approved open amounts of a window after a step: some of those there were, none larger.
OpenShrinks(p, context, t) ==
    /\ ApprovedOpen(p, context, t)' \subseteq ApprovedOpen(p, context, t)
    /\ \A k \in ApprovedOpen(p, context, t)' :
          OpenAmounts(p, context, t)'[k] <= OpenAmounts(p, context, t)[k]

\* A step that charges nothing: the open amounts shrink, or the evaluator found that they fit.
OpenStep(p, context, t) ==
    /\ charges' = charges
    /\ SettledAmounts(p, context, t)' = SettledAmounts(p, context, t)
    /\ \/ OpenShrinks(p, context, t)
       \/ ActualUsd(charges, p, context, t) + OpenUsd(p, context, t)' <= Policy[p].limitUsd

\* Charges whose admission a step leaves alone keep their admitted amounts.
LEMMA SameSettled ==
    ASSUME NEW p, NEW context, NEW t, charges' = charges,
           \A i \in DOMAIN charges : charges[i].reservationId # Undefined
               => admission'[charges[i].reservationId] = admission[charges[i].reservationId]
    PROVE  SettledAmounts(p, context, t)' = SettledAmounts(p, context, t)
<1>1. ApprovedSettled(p, context, t)' = ApprovedSettled(p, context, t)
  BY DEF ApprovedSettled, Counted
<1> QED
  BY <1>1 DEF SettledAmounts

LEMMA ReserveOpen ==
    ASSUME LedgerInv, NEW id \in Ids, NEW record \in ReservationType, ReserveEffect(id, record),
           NEW p \in PolicyIds, NEW context, NEW t, Budgeted(p, context)
    PROVE  OpenStep(p, context, t)
<1> DEFINE open == ApprovedOpen(p, context, t)
           amounts == OpenAmounts(p, context, t)
<1>1. /\ DOMAIN reservations' = DOMAIN reservations \cup {id}
      /\ id \notin DOMAIN reservations
      /\ reservations'[id] = record
      /\ \A k \in DOMAIN reservations : reservations'[k] = reservations[k]
  BY DEF ReserveEffect, Bind, LedgerInv, TypeOK
<1>2. /\ admission'[id].createdAt = record.createdAt
      /\ admission'[id].approvedAt = record.createdAt
      /\ \A k \in DOMAIN admission : admission'[k] = admission[k]
      /\ DOMAIN reservations \subseteq DOMAIN admission
  BY DEF ReserveEffect, Bind, LedgerInv, TypeOK
<1>3. charges' = charges
  BY DEF ReserveEffect
<1>4. SettledAmounts(p, context, t)' = SettledAmounts(p, context, t)
  <2>1. \A i \in DOMAIN charges : charges[i].reservationId # Undefined
            => admission'[charges[i].reservationId] = admission[charges[i].reservationId]
    BY <1>2 DEF LedgerInv, HistoryOK
  <2> QED
    BY <1>3, <2>1, SameSettled
<1>5. CASE ~(/\ InBudgetWindow(record.createdAt, Policy[p].window, t)
             /\ MatchesPolicy(p, record.context)
             /\ PolicyGroup(p, record.context) = PolicyGroup(p, context))
  <2>1. open' = open
    BY <1>1, <1>2, <1>5 DEF ApprovedOpen, Counted
  <2>2. amounts' = amounts
    BY <1>1, <2>1 DEF OpenAmounts, ApprovedOpen, Counted
  <2>3. \A k \in open' : amounts'[k] <= amounts[k]
    BY <2>1, <2>2, AdmittedAmounts
  <2> QED
    BY <1>3, <1>4, <2>1, <2>3 DEF OpenStep, OpenShrinks
<1>6. CASE /\ InBudgetWindow(record.createdAt, Policy[p].window, t)
           /\ MatchesPolicy(p, record.context)
           /\ PolicyGroup(p, record.context) = PolicyGroup(p, context)
  <2>1. open' = open \cup {id} /\ id \notin open
    BY <1>1, <1>2, <1>6 DEF ApprovedOpen, Counted
  <2>2. record.estimatedCostUsd \in Nat
    BY DEF ReservationType
  <2>3. IsFiniteSet(open) /\ amounts \in [open -> Nat]
    BY AdmittedAmounts
  <2>4. amounts' = [k \in open \cup {id} |->
                       IF k = id THEN record.estimatedCostUsd ELSE amounts[k]]
    BY <1>1, <2>1 DEF OpenAmounts, ApprovedOpen, Counted
  <2>5. Total(amounts') = record.estimatedCostUsd + Total(amounts)
    <3> HIDE DEF open, amounts
    <3> QED
      BY <2>1, <2>2, <2>3, <2>4, TotalAdd
  <2>6. /\ ReservedUsd(reservations, p, context, t) \in Nat
        /\ Total(amounts) <= ReservedUsd(reservations, p, context, t)
    <3>1. \A k \in DOMAIN reservations : reservations[k].estimatedCostUsd \in Nat
      BY DEF LedgerInv, TypeOK, ReservationType
    <3>2. open \subseteq Counted(reservations, p, context, t)
      BY DEF ApprovedOpen
    <3>3. \A k \in open : amounts[k] = reservations[k].estimatedCostUsd
      BY DEF OpenAmounts
    <3> QED
      BY <2>3, <3>1, <3>2, <3>3, LedgerFinite, ReservedCovers DEF LedgerInv
  <2>7. /\ Policy[p].limitUsd \in Nat
        /\ ActualUsd(charges, p, context, t) + ReservedUsd(reservations, p, context, t)
             + record.estimatedCostUsd <= Policy[p].limitUsd
    BY <1>6, <2>2, <2>6, AdmittedAmounts, AllowedFits DEF Budgeted, ReserveEffect
  <2>8. Total(amounts) \in Nat /\ ActualUsd(charges, p, context, t) \in Nat
    BY AdmittedAmounts
  <2>9. ActualUsd(charges, p, context, t) + Total(amounts') <= Policy[p].limitUsd
    <3> HIDE DEF amounts
    <3> QED
      BY <2>2, <2>5, <2>6, <2>7, <2>8
  <2> QED
    BY <1>3, <1>4, <2>9 DEF OpenStep, OpenUsd
<1> QED
  BY <1>5, <1>6

\* The admitted amounts after a step are numbers too.
LEMMA NextAmounts ==
    ASSUME TypeOK', NEW p, NEW context, NEW t
    PROVE  /\ OpenAmounts(p, context, t)' \in [ApprovedOpen(p, context, t)' -> Nat]
           /\ Total(OpenAmounts(p, context, t)') \in Nat
<1> DEFINE open == ApprovedOpen(p, context, t)
           amounts == OpenAmounts(p, context, t)
<1>1. open' \subseteq DOMAIN reservations' /\ DOMAIN reservations' \subseteq Ids
  BY DEF ApprovedOpen, Counted, TypeOK
<1>2. amounts' \in [open' -> Nat]
  BY <1>1 DEF OpenAmounts, TypeOK, ReservationType
<1>3. open' \subseteq Ids
  BY <1>1
<1> HIDE DEF open, amounts
<1>4. Total(amounts') \in Nat
  BY <1>2, <1>3, FirewallAssumption, UsageType
<1> QED
  BY <1>2, <1>4 DEF open, amounts

LEMMA ReleaseOpen ==
    ASSUME LedgerInv, NEW id \in Ids, ReleaseEffect(id), NEW p, NEW context, NEW t
    PROVE  OpenStep(p, context, t)
<1>1. /\ DOMAIN reservations' = DOMAIN reservations \ {id}
      /\ \A k \in DOMAIN reservations' : reservations'[k] = reservations[k]
      /\ charges' = charges
      /\ admission' = admission
  BY DEF ReleaseEffect, Unbind
<1>2. ApprovedOpen(p, context, t)' \subseteq ApprovedOpen(p, context, t)
  BY <1>1 DEF ApprovedOpen, Counted
<1>3. \A k \in ApprovedOpen(p, context, t)' :
         OpenAmounts(p, context, t)'[k] = OpenAmounts(p, context, t)[k]
  BY <1>1, <1>2 DEF OpenAmounts, ApprovedOpen, Counted
<1>4. \A k \in ApprovedOpen(p, context, t)' :
         OpenAmounts(p, context, t)'[k] <= OpenAmounts(p, context, t)[k]
  BY <1>2, <1>3, AdmittedAmounts
<1>5. SettledAmounts(p, context, t)' = SettledAmounts(p, context, t)
  BY <1>1, SameSettled
<1> QED
  BY <1>1, <1>2, <1>4, <1>5 DEF OpenStep, OpenShrinks

LEMMA ShrinkOpen ==
    ASSUME LedgerInv, NEW id \in Ids, NEW estimate \in Nat, ShrinkEffect(id, estimate),
           NEW p, NEW context, NEW t
    PROVE  OpenStep(p, context, t)
<1>1. /\ DOMAIN reservations' = DOMAIN reservations
      /\ \A k \in DOMAIN reservations \ {id} : reservations'[k] = reservations[k]
      /\ reservations'[id].estimatedCostUsd = estimate
      /\ \A k \in DOMAIN reservations :
            /\ reservations'[k].createdAt = reservations[k].createdAt
            /\ reservations'[k].context = reservations[k].context
      /\ estimate <= reservations[id].estimatedCostUsd
      /\ charges' = charges
      /\ admission' = admission
  BY ResizeFacts DEF ShrinkEffect, LedgerInv
<1>2. ApprovedOpen(p, context, t)' = ApprovedOpen(p, context, t)
  BY <1>1 DEF ApprovedOpen, Counted
<1>3. \A k \in DOMAIN reservations : reservations[k].estimatedCostUsd \in Nat
  BY DEF LedgerInv, TypeOK, ReservationType
<1>4. \A k \in DOMAIN reservations :
         reservations'[k].estimatedCostUsd <= reservations[k].estimatedCostUsd
  BY <1>1, <1>3
<1>5. \A k \in ApprovedOpen(p, context, t)' :
         OpenAmounts(p, context, t)'[k] <= OpenAmounts(p, context, t)[k]
  BY <1>1, <1>2, <1>4 DEF OpenAmounts, ApprovedOpen, Counted
<1>6. SettledAmounts(p, context, t)' = SettledAmounts(p, context, t)
  BY <1>1, SameSettled
<1> QED
  BY <1>1, <1>2, <1>5, <1>6 DEF OpenStep, OpenShrinks

\* An increase is evaluated without the reservation it replaces.
LEMMA GrowOpen ==
    ASSUME LedgerInv, TypeOK', NEW id \in Ids, NEW estimate \in Nat, NEW now \in Nat,
           GrowEffect(id, estimate, now),
           NEW p \in PolicyIds, NEW context, NEW t, Budgeted(p, context)
    PROVE  OpenStep(p, context, t)
<1> DEFINE open == ApprovedOpen(p, context, t)
           amounts == OpenAmounts(p, context, t)
           others == Unbind(reservations, id)
<1>1. /\ DOMAIN reservations' = DOMAIN reservations
      /\ id \in DOMAIN reservations
      /\ \A k \in DOMAIN reservations \ {id} : reservations'[k] = reservations[k]
      /\ reservations'[id].estimatedCostUsd = estimate
      /\ \A k \in DOMAIN reservations :
            /\ reservations'[k].createdAt = reservations[k].createdAt
            /\ reservations'[k].context = reservations[k].context
  BY ResizeFacts DEF GrowEffect, LedgerInv
<1>2. /\ id \in DOMAIN admission
      /\ admission'[id].approvedAt = now
      /\ \A k \in DOMAIN admission \ {id} : admission'[k] = admission[k]
  <2>1. /\ id \in DOMAIN admission
        /\ admission[id] \in [createdAt : Nat, approvedAt : Nat]
        /\ admission' = [admission EXCEPT ![id].approvedAt = now]
    BY DEF GrowEffect, LedgerInv, TypeOK
  <2> QED
    BY <2>1
<1>3. charges' = charges
  BY DEF GrowEffect
<1>4. SettledAmounts(p, context, t)' = SettledAmounts(p, context, t)
  <2>1. \A i \in DOMAIN charges : charges[i].reservationId # Undefined
            => admission'[charges[i].reservationId] = admission[charges[i].reservationId]
    BY <1>1, <1>2 DEF LedgerInv, ChargedOnce, HistoryOK
  <2> QED
    BY <1>3, <2>1, SameSettled
<1>5. open' \ {id} = open \ {id}
  BY <1>1, <1>2 DEF ApprovedOpen, Counted, LedgerInv, TypeOK
<1>6. \A k \in open' \ {id} : amounts'[k] = amounts[k] /\ amounts'[k] = reservations[k].estimatedCostUsd
  BY <1>1, <1>5 DEF OpenAmounts, ApprovedOpen, Counted
<1>7. CASE id \notin open'
  <2>1. open' \subseteq open
    BY <1>5, <1>7
  <2>2. \A k \in open' : amounts'[k] <= amounts[k]
    BY <1>6, <1>7, <2>1, AdmittedAmounts
  <2> QED
    BY <1>3, <1>4, <2>1, <2>2 DEF OpenStep, OpenShrinks
<1>8. CASE id \in open'
  <2> DEFINE rest == [k \in open' \ {id} |-> amounts'[k]]
  <2>1. /\ MatchesPolicy(p, reservations[id].context)
        /\ PolicyGroup(p, reservations[id].context) = PolicyGroup(p, context)
        /\ InBudgetWindow(now, Policy[p].window, t)
    BY <1>1, <1>2, <1>8 DEF ApprovedOpen, Counted
  <2>2. amounts' \in [open' -> Nat] /\ IsFiniteSet(open')
    <3>1. open' \subseteq Ids
      BY DEF ApprovedOpen, Counted, TypeOK
    <3> QED
      BY <3>1, NextAmounts, FirewallAssumption, FS_Subset
  <2>3. rest \in [open' \ {id} -> Nat] /\ \A k \in open' \ {id} : rest[k] = amounts'[k]
    <3> HIDE DEF open, amounts
    <3> QED
      BY <2>2
  <2>4. amounts'[id] = estimate
    BY <1>1, <1>8 DEF OpenAmounts
  <2>5. Total(amounts') = estimate + Total(rest)
    <3> HIDE DEF open, amounts, rest
    <3> QED
      BY <1>8, <2>2, <2>3, <2>4, TotalSplit
  <2>6. /\ IsFiniteSet(DOMAIN others)
        /\ \A k \in DOMAIN others : /\ others[k] = reservations[k]
                                    /\ others[k].estimatedCostUsd \in Nat
        /\ DOMAIN others = DOMAIN reservations \ {id}
    <3>1. DOMAIN others \subseteq DOMAIN reservations
      BY DEF Unbind
    <3> QED
      BY <3>1, LedgerFinite, FS_Subset DEF Unbind, LedgerInv, TypeOK, ReservationType
  <2>7. open' \ {id} \subseteq Counted(others, p, context, t)
    BY <1>5, <2>6 DEF ApprovedOpen, Counted
  <2>8. \A k \in open' \ {id} : rest[k] = others[k].estimatedCostUsd
    BY <1>6, <2>3, <2>6, <2>7 DEF Counted
  <2>9. /\ ReservedUsd(others, p, context, t) \in Nat
        /\ Total(rest) <= ReservedUsd(others, p, context, t)
    <3> HIDE DEF open, amounts, rest, others
    <3> QED
      BY <2>3, <2>6, <2>7, <2>8, ReservedCovers
  <2>10. /\ Policy[p].limitUsd \in Nat
         /\ ActualUsd(charges, p, context, t) + ReservedUsd(others, p, context, t) + estimate
              <= Policy[p].limitUsd
    BY <2>1, <2>9, AdmittedAmounts, AllowedFits DEF Budgeted, GrowEffect
  <2>11. Total(rest) \in Nat /\ ActualUsd(charges, p, context, t) \in Nat
    <3> HIDE DEF open, amounts, rest
    <3>1. IsFiniteSet(open' \ {id})
      BY <2>2, FS_RemoveElement
    <3> QED
      BY <2>3, <3>1, TotalType, AdmittedAmounts
  <2>12. ActualUsd(charges, p, context, t) + Total(amounts') <= Policy[p].limitUsd
    <3> HIDE DEF amounts, rest, others
    <3> QED
      BY <2>5, <2>9, <2>10, <2>11
  <2> QED
    BY <1>3, <1>4, <2>12 DEF OpenStep, OpenUsd
<1> QED
  BY <1>7, <1>8

\* An amount that a smaller one replaces, or that goes.
LEMMA OpenUsdShrinks ==
    ASSUME LedgerInv, TypeOK', NEW p, NEW context, NEW t, OpenShrinks(p, context, t)
    PROVE  OpenUsd(p, context, t)' <= OpenUsd(p, context, t)
BY AdmittedAmounts, NextAmounts, TotalMonotone DEF OpenShrinks, OpenUsd

LEMMA OpenStepWithinBudget ==
    ASSUME LedgerInv, TypeOK', NEW p \in PolicyIds, NEW context, NEW t, Budgeted(p, context),
           WithinBudget(p, context, t), OpenStep(p, context, t)
    PROVE  WithinBudget(p, context, t)'
<1> DEFINE before == OpenUsd(p, context, t)
           after == OpenUsd(p, context, t)'
           settled == Total(SettledAmounts(p, context, t))
           actual == ActualUsd(charges, p, context, t)
<1>1. before \in Nat /\ after \in Nat /\ settled \in Nat /\ actual \in Nat /\ settled <= actual
  BY AdmittedAmounts, NextAmounts DEF OpenUsd
<1>2. /\ AdmittedUsd(p, context, t) = before + settled
      /\ AdmittedUsd(p, context, t)' = after + settled
  BY AdmittedSum DEF OpenStep, OpenUsd
<1>3. Policy[p].limitUsd \in Nat
  BY LimitType DEF Budgeted, Optional
<1>4. after <= before \/ actual + after <= Policy[p].limitUsd
  BY OpenUsdShrinks DEF OpenStep
<1> HIDE DEF before, after, settled, actual
<1> QED
  BY <1>1, <1>2, <1>3, <1>4 DEF WithinBudget

\* A settlement moves at most its estimate from the open to the settled amounts.
LEMMA SettleWithinBudget ==
    ASSUME LedgerInv, TypeOK', NEW id \in Ids, NEW charge \in ChargeType,
           SettleEffect(id, charge),
           NEW p \in PolicyIds, NEW context, NEW t,
           Budgeted(p, context), WithinBudget(p, context, t)
    PROVE  WithinBudget(p, context, t)'
<1> DEFINE new == Len(charges) + 1
           open == ApprovedOpen(p, context, t)
           amounts == OpenAmounts(p, context, t)
           settled == ApprovedSettled(p, context, t)
           paid == SettledAmounts(p, context, t)
<1>1. /\ DOMAIN charges' = DOMAIN charges \cup {new}
      /\ new \notin DOMAIN charges
      /\ \A i \in DOMAIN charges : charges'[i] = charges[i]
      /\ charges'[new] = charge
  BY AppendFacts DEF SettleEffect, LedgerInv
<1>2. /\ DOMAIN reservations' = DOMAIN reservations \ {id}
      /\ \A k \in DOMAIN reservations' : reservations'[k] = reservations[k]
      /\ id \in DOMAIN reservations
  BY DEF SettleEffect, Unbind
<1>3. /\ charge.reservationId = id
      /\ charge.context = reservations[id].context
      /\ charge.estimateUsd = reservations[id].estimatedCostUsd
      /\ charge.estimateUsd \in Nat
      /\ charge.costUsd \in Nat
      /\ admission' = admission
      /\ admission[id].createdAt = reservations[id].createdAt
  BY DEF SettleEffect, LedgerInv, HistoryOK, TypeOK, ReservationType, ChargeType
<1> HIDE DEF new
<1>4. open' = open \ {id}
  BY <1>2, <1>3 DEF ApprovedOpen, Counted
<1>5. \A k \in open' : amounts'[k] = amounts[k]
  BY <1>2, <1>4 DEF OpenAmounts, ApprovedOpen, Counted
<1>6. settled \subseteq settled' /\ settled' \subseteq settled \cup {new} /\ new \notin settled
  BY <1>1, <1>3 DEF ApprovedSettled, Counted
<1>7. \A i \in settled : paid'[i] = paid[i]
  BY <1>1, <1>6 DEF SettledAmounts, ApprovedSettled, Counted
<1>8. CASE new \notin settled'
  <2>1. settled' = settled
    BY <1>6, <1>8
  <2>2. paid' = paid
    BY <1>1, <2>1 DEF SettledAmounts, ApprovedSettled, Counted
  <2>3. \A k \in open' : amounts'[k] <= amounts[k]
    BY <1>4, <1>5, AdmittedAmounts
  <2>4. Policy[p].limitUsd \in Nat
    BY LimitType DEF Budgeted, Optional
  <2>5. Total(amounts') <= Total(amounts)
    BY <1>4, <2>3, AdmittedAmounts, NextAmounts, TotalMonotone
  <2> QED
    BY <2>2, <2>4, <2>5, AdmittedAmounts, NextAmounts, AdmittedSum DEF WithinBudget
<1>9. CASE new \in settled'
  <2>1. id \in open
    BY <1>1, <1>2, <1>3, <1>9 DEF ApprovedOpen, ApprovedSettled, Counted
  <2>2. Total(amounts) = charge.estimateUsd + Total(amounts')
    <3>1. IsFiniteSet(open) /\ amounts \in [open -> Nat]
      BY AdmittedAmounts
    <3>2. amounts' \in [open \ {id} -> Nat]
      BY <1>4, NextAmounts
    <3>3. amounts[id] = charge.estimateUsd
      BY <1>3, <2>1 DEF OpenAmounts
    <3> HIDE DEF open, amounts
    <3> QED
      BY <1>4, <1>5, <2>1, <3>1, <3>2, <3>3, TotalSplit
  <2>3. Capped(charge) \in Nat /\ Capped(charge) <= charge.estimateUsd
    BY <1>3 DEF Capped
  <2>4. Total(paid') = Capped(charge) + Total(paid)
    <3>1. IsFiniteSet(settled) /\ paid \in [settled -> Nat]
      BY AdmittedAmounts
    <3>2. paid' = [i \in settled \cup {new} |-> IF i = new THEN Capped(charge) ELSE paid[i]]
      <4>1. settled' = settled \cup {new}
        BY <1>6, <1>9
      <4>2. paid' = [i \in settled' |-> Capped(charges'[i])]
        BY DEF SettledAmounts, Capped
      <4>3. \A i \in settled : Capped(charges'[i]) = paid[i]
        BY <1>1 DEF SettledAmounts, ApprovedSettled, Counted
      <4> QED
        BY <1>1, <1>6, <4>1, <4>2, <4>3
    <3> HIDE DEF settled, paid
    <3> QED
      BY <1>6, <2>3, <3>1, <3>2, TotalAdd
  <2>5. Total(amounts') \in Nat /\ Total(paid) \in Nat
    BY NextAmounts, AdmittedAmounts
  <2>6. Policy[p].limitUsd \in Nat
    BY LimitType DEF Budgeted, Optional
  <2>7. Total(amounts) + Total(paid) <= Policy[p].limitUsd
    BY AdmittedSum DEF WithinBudget
  <2>8. AdmittedUsd(p, context, t)' = Total(amounts') + Total(paid')
    BY AdmittedSum
  <2> HIDE DEF amounts, paid
  <2>9. Total(amounts') + Total(paid') <= Policy[p].limitUsd
    BY <1>3, <2>2, <2>3, <2>4, <2>5, <2>6, <2>7
  <2> QED
    BY <2>8, <2>9 DEF WithinBudget
<1> QED
  BY <1>8, <1>9

\* A charge nobody reserved was never admitted, so it is not part of the admitted amount.
LEMMA RecordWithinBudget ==
    ASSUME LedgerInv, NEW charge \in ChargeType, RecordEffect(charge),
           NEW p \in PolicyIds, NEW context, NEW t,
           WithinBudget(p, context, t)
    PROVE  WithinBudget(p, context, t)'
<1> DEFINE new == Len(charges) + 1
<1>1. /\ DOMAIN charges' = DOMAIN charges \cup {new}
      /\ new \notin DOMAIN charges
      /\ \A i \in DOMAIN charges : charges'[i] = charges[i]
      /\ charges'[new] = charge
  BY AppendFacts DEF RecordEffect, LedgerInv
<1>2. /\ charge.reservationId = Undefined
      /\ reservations' = reservations
      /\ admission' = admission
  BY DEF RecordEffect
<1> HIDE DEF new
<1>3. ApprovedSettled(p, context, t)' = ApprovedSettled(p, context, t)
  BY <1>1, <1>2 DEF ApprovedSettled, Counted
<1>4. SettledAmounts(p, context, t)' = SettledAmounts(p, context, t)
  BY <1>1, <1>3 DEF SettledAmounts, ApprovedSettled, Counted
<1>5. OpenAmounts(p, context, t)' = OpenAmounts(p, context, t)
  BY <1>2 DEF OpenAmounts, ApprovedOpen, Counted
<1> QED
  BY <1>4, <1>5, AdmittedSum DEF WithinBudget

-----------------------------------------------------------------------------
LEMMA InitBudget == Init => BudgetHeld
<1> SUFFICES ASSUME Init, NEW p \in PolicyIds, NEW context, NEW t, Budgeted(p, context)
             PROVE  WithinBudget(p, context, t)
  BY DEF BudgetHeld, Budgeted, WithinBudget
<1>1. DOMAIN OpenAmounts(p, context, t) = {} /\ DOMAIN SettledAmounts(p, context, t) = {}
  BY DEF Init, OpenAmounts, SettledAmounts, ApprovedOpen, ApprovedSettled, Counted
<1>2. Policy[p].limitUsd \in Nat
  BY LimitType DEF Budgeted, Optional
<1>3. /\ Total(OpenAmounts(p, context, t)) = 0
      /\ Total(SettledAmounts(p, context, t)) = 0
  BY <1>1, TotalEmpty
<1> QED
  BY <1>2, <1>3, AdmittedSum DEF WithinBudget

LEMMA NextBudget == LedgerInv /\ BudgetHeld /\ [Next]_vars => BudgetHeld'
<1> SUFFICES ASSUME LedgerInv, BudgetHeld, [Next]_vars,
                    NEW p \in PolicyIds, NEW context \in Contexts, NEW t \in Times,
                    Budgeted(p, context)
             PROVE  WithinBudget(p, context, t)'
  BY DEF BudgetHeld, Budgeted, WithinBudget, Enforced, Calendar, MatchesPolicy, Times
<1>1. TypeOK' /\ LedgerEffect
  BY NextType, StepHasEffect DEF LedgerInv
<1>2. WithinBudget(p, context, t)
  BY DEF BudgetHeld, Budgeted, WithinBudget
<1>3. CASE UNCHANGED <<reservations, charges, admission>>
  <2>1. /\ OpenAmounts(p, context, t)' = OpenAmounts(p, context, t)
        /\ SettledAmounts(p, context, t)' = SettledAmounts(p, context, t)
    BY <1>3 DEF OpenAmounts, SettledAmounts, Capped, ApprovedOpen, ApprovedSettled, Counted
  <2> QED
    BY <1>2, <2>1, AdmittedSum DEF WithinBudget
<1>4. CASE \E id \in Ids, record \in ReservationType : ReserveEffect(id, record)
  BY <1>1, <1>2, <1>4, ReserveOpen, OpenStepWithinBudget
<1>5. CASE \E id \in Ids, charge \in ChargeType : SettleEffect(id, charge)
  BY <1>1, <1>2, <1>5, SettleWithinBudget
<1>6. CASE \E id \in Ids, estimate \in Nat : ShrinkEffect(id, estimate)
  BY <1>1, <1>2, <1>6, ShrinkOpen, OpenStepWithinBudget
<1>7. CASE \E id \in Ids, estimate \in Nat, now \in Nat : GrowEffect(id, estimate, now)
  BY <1>1, <1>2, <1>7, GrowOpen, OpenStepWithinBudget
<1>8. CASE \E id \in Ids : ReleaseEffect(id)
  BY <1>1, <1>2, <1>8, ReleaseOpen, OpenStepWithinBudget
<1>9. CASE \E charge \in ChargeType : RecordEffect(charge)
  BY <1>2, <1>9, RecordWithinBudget
<1> QED
  BY <1>1, <1>3, <1>4, <1>5, <1>6, <1>7, <1>8, <1>9 DEF LedgerEffect

\* Whatever the policies, the callers and the order in which their calls commit, what the
\* firewall admitted into a calendar window never exceeds the budget of an enforced policy
\* (firewall.ts reserve, settle, resize; policy.ts evaluateSpendRequest).
THEOREM BudgetNeverExceeded == Spec => []BudgetHeld
<1>1. Init => BudgetHeld
  BY InitBudget
<1>2. LedgerInv /\ BudgetHeld /\ [Next]_vars => BudgetHeld'
  BY NextBudget
<1> QED
  BY <1>1, <1>2, LedgerCorrect, PTL DEF Spec

-----------------------------------------------------------------------------
(***************************************************************************)
(* Overspend is told.                                                      *)
(***************************************************************************)
LEMMA OpenStepOverspend ==
    ASSUME LedgerInv, TypeOK', NEW p \in PolicyIds, NEW context, NEW t, Budgeted(p, context),
           OverspendTold(p, context, t), OpenStep(p, context, t), told' = told
    PROVE  OverspendTold(p, context, t)'
<1> DEFINE before == OpenUsd(p, context, t)
           after == OpenUsd(p, context, t)'
           actual == ActualUsd(charges, p, context, t)
<1>1. ActualUsd(charges, p, context, t)' = actual /\ Told(p, context, t)' = Told(p, context, t)
  BY DEF OpenStep, ActualUsd, Told, Counted
<1>2. before \in Nat /\ after \in Nat /\ actual \in Nat
  BY AdmittedAmounts, NextAmounts DEF OpenUsd
<1>3. Policy[p].limitUsd \in Nat
  BY LimitType DEF Budgeted, Optional
<1>4. after <= before \/ actual + after <= Policy[p].limitUsd
  BY OpenUsdShrinks DEF OpenStep
<1>5. actual + before <= Policy[p].limitUsd \/ Told(p, context, t)
  BY DEF OverspendTold
<1>6. actual + after <= Policy[p].limitUsd \/ Told(p, context, t)
  <2> HIDE DEF before, after, actual
  <2> QED
    BY <1>2, <1>3, <1>4, <1>5
<1> QED
  BY <1>1, <1>6 DEF OverspendTold

\* The report of a charge is that of the ledger it leaves, unless it is lost.
TellsOf(new) ==
    told'[new] \in {Undefined,
        PostSettlementViolations(reservations', charges', charges'[new].context,
                                 charges'[new].createdAt)}

\* The charge the window counts tells of the overspend it leaves, for the reservations the
\* evaluator counts cover the approved ones.
LEMMA ChargeTells ==
    ASSUME TypeOK', NEW p \in PolicyIds, NEW context, NEW t, Budgeted(p, context),
           NEW new \in DOMAIN charges', TellsOf(new), \A j \in DOMAIN charges' : j <= new,
           InBudgetWindow(charges'[new].createdAt, Policy[p].window, t),
           MatchesPolicy(p, charges'[new].context),
           PolicyGroup(p, charges'[new].context) = PolicyGroup(p, context)
    PROVE  OverspendTold(p, context, t)'
<1> DEFINE charge == charges'[new]
           actual == ActualUsd(charges', p, context, t)
           reserved == ReservedUsd(reservations', p, context, t)
           open == OpenUsd(p, context, t)'
<1>1. new \in Counted(charges', p, context, t)
  BY DEF Counted
<1>2. /\ Counted(charges', p, charge.context, charge.createdAt) = Counted(charges', p, context, t)
      /\ Counted(reservations', p, charge.context, charge.createdAt)
           = Counted(reservations', p, context, t)
  BY SameCount DEF Budgeted
<1>3. ProjectedUsd(reservations', charges', p, charge.context, charge.createdAt)
        = actual + reserved
  BY <1>2 DEF ProjectedUsd, ActualUsd, ReservedUsd
<1>4. actual + reserved > Policy[p].limitUsd
        => told'[new] = Undefined \/ <<p, "budget">> \in told'[new]
  <2>1. ASSUME actual + reserved > Policy[p].limitUsd
        PROVE  told'[new] = Undefined \/ <<p, "budget">> \in told'[new]
    <3>1. Exceeds(ProjectedUsd(reservations', charges', p, charge.context, charge.createdAt),
                  Policy[p].limitUsd)
      BY <1>3, <2>1 DEF Exceeds, Budgeted
    <3> QED
      BY <3>1 DEF TellsOf, PostSettlementViolations
  <2> QED
    BY <2>1
<1>5. /\ DOMAIN reservations' \subseteq Ids
      /\ \A k \in DOMAIN reservations' : reservations'[k].estimatedCostUsd \in Nat
      /\ IsFiniteSet(DOMAIN reservations')
      /\ IsFiniteSet(DOMAIN charges')
  <2>1. /\ DOMAIN reservations' \subseteq Ids
        /\ \A k \in DOMAIN reservations' : reservations'[k].estimatedCostUsd \in Nat
    BY DEF TypeOK, ReservationType
  <2>2. Len(charges') \in Nat /\ DOMAIN charges' = 1..Len(charges')
    BY DEF TypeOK
  <2>3. IsFiniteSet(1..Len(charges'))
    BY <2>2, FS_Interval
  <2> QED
    BY <2>1, <2>2, <2>3, FS_Subset, FirewallAssumption
<1>6. /\ ApprovedOpen(p, context, t)' \subseteq Counted(reservations', p, context, t)
      /\ \A k \in ApprovedOpen(p, context, t)' :
            OpenAmounts(p, context, t)'[k] = reservations'[k].estimatedCostUsd
  BY DEF ApprovedOpen, OpenAmounts
<1>7. reserved \in Nat /\ open <= reserved /\ open \in Nat
  BY <1>5, <1>6, NextAmounts, ReservedCovers DEF OpenUsd
<1>8. actual \in Nat
  <2> DEFINE counted == Counted(charges', p, context, t)
             costs == [i \in counted |-> charges'[i].costUsd]
  <2>1. counted \subseteq DOMAIN charges'
    BY DEF Counted
  <2>2. \A i \in DOMAIN charges' : charges'[i] \in ChargeType
    BY DEF TypeOK
  <2>3. costs \in [counted -> Nat]
    BY <2>1, <2>2 DEF ChargeType
  <2>4. actual = Total(costs)
    BY DEF ActualUsd
  <2> HIDE DEF counted, costs
  <2> QED
    BY <1>5, <2>1, <2>3, <2>4, UsageType
<1>9. Policy[p].limitUsd \in Nat
  BY LimitType DEF Budgeted, Optional
<1>10. \/ actual + open <= Policy[p].limitUsd
       \/ told'[new] = Undefined \/ <<p, "budget">> \in told'[new]
  <2> HIDE DEF actual, reserved, open, charge
  <2> QED
    BY <1>4, <1>7, <1>8, <1>9
<1> QED
  BY <1>1, <1>10 DEF OverspendTold, Told, Counted

\* A charge outside the window adds nothing to it, and leaves what it told.
LEMMA ChargeOverspend ==
    ASSUME LedgerInv, TypeOK', NEW p \in PolicyIds, NEW context, NEW t, Budgeted(p, context),
           NEW charge \in ChargeType, charges' = Append(charges, charge), Tell(reservations', charge),
           OpenShrinks(p, context, t), OverspendTold(p, context, t)
    PROVE  OverspendTold(p, context, t)'
<1> DEFINE new == Len(charges) + 1
           counted == Counted(charges, p, context, t)
<1>1. /\ DOMAIN charges' = DOMAIN charges \cup {new}
      /\ new \notin DOMAIN charges
      /\ \A i \in DOMAIN charges : charges'[i] = charges[i]
      /\ charges'[new] = charge
      /\ \A j \in DOMAIN charges' : j <= new
  BY AppendFacts DEF LedgerInv
<1>t. /\ TellsOf(new)
      /\ \A i \in DOMAIN charges : told'[i] = told[i]
  BY <1>1 DEF Tell, TellsOf, Bind, LedgerInv, TypeOK
<1> HIDE DEF new
<1>2. CASE /\ InBudgetWindow(charge.createdAt, Policy[p].window, t)
           /\ MatchesPolicy(p, charge.context)
           /\ PolicyGroup(p, charge.context) = PolicyGroup(p, context)
  BY <1>1, <1>t, <1>2, ChargeTells
<1>3. CASE ~(/\ InBudgetWindow(charge.createdAt, Policy[p].window, t)
             /\ MatchesPolicy(p, charge.context)
             /\ PolicyGroup(p, charge.context) = PolicyGroup(p, context))
  <2>1. counted' = counted
    BY <1>1, <1>3 DEF Counted
  <2>2. ActualUsd(charges, p, context, t)' = ActualUsd(charges, p, context, t)
    BY <1>1, <2>1 DEF ActualUsd, Counted
  <2>3. Told(p, context, t) => Told(p, context, t)'
    BY <1>1, <1>t, <2>1 DEF Told, Counted
  <2>4. OpenUsd(p, context, t)' <= OpenUsd(p, context, t)
    BY OpenUsdShrinks
  <2>5. /\ OpenUsd(p, context, t)' \in Nat /\ OpenUsd(p, context, t) \in Nat
        /\ ActualUsd(charges, p, context, t) \in Nat
        /\ Policy[p].limitUsd \in Nat
    BY AdmittedAmounts, NextAmounts, LimitType DEF OpenUsd, Budgeted, Optional
  <2> QED
    BY <2>2, <2>3, <2>4, <2>5 DEF OverspendTold
<1> QED
  BY <1>2, <1>3

LEMMA SettleOverspend ==
    ASSUME LedgerInv, TypeOK', NEW id \in Ids, NEW charge \in ChargeType,
           SettleEffect(id, charge),
           NEW p \in PolicyIds, NEW context, NEW t,
           Budgeted(p, context), OverspendTold(p, context, t)
    PROVE  OverspendTold(p, context, t)'
<1>1. /\ DOMAIN reservations' = DOMAIN reservations \ {id}
      /\ \A k \in DOMAIN reservations' : reservations'[k] = reservations[k]
      /\ admission' = admission
  BY DEF SettleEffect, Unbind
<1>2. ApprovedOpen(p, context, t)' \subseteq ApprovedOpen(p, context, t)
  BY <1>1 DEF ApprovedOpen, Counted
<1>3. \A k \in ApprovedOpen(p, context, t)' :
         OpenAmounts(p, context, t)'[k] = OpenAmounts(p, context, t)[k]
  BY <1>1, <1>2 DEF OpenAmounts, ApprovedOpen, Counted
<1>4. OpenShrinks(p, context, t)
  BY <1>2, <1>3, AdmittedAmounts DEF OpenShrinks
<1>5. Tell(reservations', charge)
  BY DEF SettleEffect, Tell
<1> QED
  BY <1>4, <1>5, ChargeOverspend DEF SettleEffect

LEMMA RecordOverspend ==
    ASSUME LedgerInv, TypeOK', NEW charge \in ChargeType, RecordEffect(charge),
           NEW p \in PolicyIds, NEW context, NEW t,
           Budgeted(p, context), OverspendTold(p, context, t)
    PROVE  OverspendTold(p, context, t)'
<1>1. /\ ApprovedOpen(p, context, t)' = ApprovedOpen(p, context, t)
      /\ OpenAmounts(p, context, t)' = OpenAmounts(p, context, t)
  BY DEF RecordEffect, OpenAmounts, ApprovedOpen, Counted
<1>2. OpenShrinks(p, context, t)
  BY <1>1, AdmittedAmounts DEF OpenShrinks
<1>3. Tell(reservations', charge)
  BY DEF RecordEffect, Tell
<1> QED
  BY <1>2, <1>3, ChargeOverspend DEF RecordEffect

LEMMA NextOverspend == LedgerInv /\ OverspendReported /\ [Next]_vars => OverspendReported'
<1> SUFFICES ASSUME LedgerInv, OverspendReported, [Next]_vars,
                    NEW p \in PolicyIds, NEW context \in Contexts, NEW t \in Times,
                    Budgeted(p, context)
             PROVE  OverspendTold(p, context, t)'
  BY DEF OverspendReported, Budgeted, OverspendTold, Told, OpenUsd, OpenAmounts, Enforced,
     Calendar, MatchesPolicy, Times
<1>1. TypeOK' /\ LedgerEffect
  BY NextType, StepHasEffect DEF LedgerInv
<1>2. OverspendTold(p, context, t)
  BY DEF OverspendReported, Budgeted, OverspendTold, Told, OpenUsd, OpenAmounts
<1>3. CASE UNCHANGED <<reservations, charges, admission, told>>
  <2>1. /\ OpenAmounts(p, context, t)' = OpenAmounts(p, context, t)
        /\ SettledAmounts(p, context, t)' = SettledAmounts(p, context, t)
        /\ ApprovedOpen(p, context, t)' = ApprovedOpen(p, context, t)
    BY <1>3 DEF OpenAmounts, SettledAmounts, Capped, ApprovedOpen, ApprovedSettled, Counted
  <2>2. OpenStep(p, context, t)
    BY <1>3, <2>1, AdmittedAmounts DEF OpenStep, OpenShrinks
  <2> QED
    BY <1>1, <1>2, <1>3, <2>2, OpenStepOverspend
<1>4. CASE \E id \in Ids, record \in ReservationType : ReserveEffect(id, record)
  BY <1>1, <1>2, <1>4, ReserveOpen, OpenStepOverspend DEF ReserveEffect
<1>5. CASE \E id \in Ids, charge \in ChargeType : SettleEffect(id, charge)
  BY <1>1, <1>2, <1>5, SettleOverspend
<1>6. CASE \E id \in Ids, estimate \in Nat : ShrinkEffect(id, estimate)
  BY <1>1, <1>2, <1>6, ShrinkOpen, OpenStepOverspend DEF ShrinkEffect
<1>7. CASE \E id \in Ids, estimate \in Nat, now \in Nat : GrowEffect(id, estimate, now)
  BY <1>1, <1>2, <1>7, GrowOpen, OpenStepOverspend DEF GrowEffect
<1>8. CASE \E id \in Ids : ReleaseEffect(id)
  BY <1>1, <1>2, <1>8, ReleaseOpen, OpenStepOverspend DEF ReleaseEffect
<1>9. CASE \E charge \in ChargeType : RecordEffect(charge)
  BY <1>1, <1>2, <1>9, RecordOverspend
<1> QED
  BY <1>1, <1>3, <1>4, <1>5, <1>6, <1>7, <1>8, <1>9 DEF LedgerEffect

LEMMA InitOverspend == Init => OverspendReported
<1> SUFFICES ASSUME Init, NEW p \in PolicyIds, NEW context, NEW t, Budgeted(p, context)
             PROVE  ActualUsd(charges, p, context, t) + OpenUsd(p, context, t)
                      <= Policy[p].limitUsd
  BY DEF OverspendReported, Budgeted, OpenUsd, OpenAmounts
<1> DEFINE costs == [i \in Counted(charges, p, context, t) |-> charges[i].costUsd]
<1>1. DOMAIN OpenAmounts(p, context, t) = {} /\ DOMAIN costs = {}
  BY DEF Init, OpenAmounts, ApprovedOpen, Counted
<1>2. Policy[p].limitUsd \in Nat
  BY LimitType DEF Budgeted, Optional
<1>3. Total(OpenAmounts(p, context, t)) = 0 /\ Total(costs) = 0
  BY <1>1, TotalEmpty
<1> QED
  BY <1>2, <1>3 DEF ActualUsd, OpenUsd

\* However calls interleave, when settled and approved spend of a calendar window is above an
\* enforced budget, the last settlement in that window and group told its caller so, or had its
\* answer lost after the commit (firewall.ts settle, recordActual; policy.ts
\* postSettlementViolations).
THEOREM OverspendIsReported == Spec => []OverspendReported
<1>1. Init => OverspendReported
  BY InitOverspend
<1>2. LedgerInv /\ OverspendReported /\ [Next]_vars => OverspendReported'
  BY NextOverspend
<1> QED
  BY <1>1, <1>2, LedgerCorrect, PTL DEF Spec

-----------------------------------------------------------------------------
(***************************************************************************)
(* The limits on numbers of operations: limitCalls and maxConcurrent.  The *)
(* argument is that of the budget with cardinalities in place of sums; a   *)
(* resize changes neither count.                                           *)
(***************************************************************************)
OpenCalls(p, context, t) == Counted(reservations, p, context, t)

SettledCalls(p, context, t) ==
    {i \in Counted(charges, p, context, t) :
        /\ charges[i].reservationId # Undefined
        /\ InBudgetWindow(admission[charges[i].reservationId].createdAt, Policy[p].window, t)}

\* The counts are numbers, and the settled operations no more than the charges of the window.
LEMMA CallCounts ==
    ASSUME TypeOK, NEW p, NEW context, NEW t
    PROVE  /\ IsFiniteSet(OpenCalls(p, context, t))
           /\ Cardinality(OpenCalls(p, context, t)) \in Nat
           /\ IsFiniteSet(SettledCalls(p, context, t))
           /\ Cardinality(SettledCalls(p, context, t)) \in Nat
           /\ Cardinality(Counted(charges, p, context, t)) \in Nat
           /\ Cardinality(SettledCalls(p, context, t))
                <= Cardinality(Counted(charges, p, context, t))
<1>1. /\ OpenCalls(p, context, t) \subseteq DOMAIN reservations
      /\ Counted(charges, p, context, t) \subseteq DOMAIN charges
      /\ SettledCalls(p, context, t) \subseteq Counted(charges, p, context, t)
  BY DEF OpenCalls, SettledCalls, Counted
<1>2. /\ IsFiniteSet(OpenCalls(p, context, t))
      /\ IsFiniteSet(Counted(charges, p, context, t))
  BY <1>1, LedgerFinite, FS_Subset
<1>3. /\ IsFiniteSet(SettledCalls(p, context, t))
      /\ Cardinality(SettledCalls(p, context, t)) <= Cardinality(Counted(charges, p, context, t))
  BY <1>1, <1>2, FS_Subset
<1> QED
  BY <1>2, <1>3, FS_CardinalityType

\* An allowed request finds room under the call and concurrency limits of its window.
LEMMA AllowedCounts ==
    ASSUME NEW p \in PolicyIds, Enforced(p), Calendar(p),
           NEW context, NEW other, NEW now, NEW t, NEW estimate,
           MatchesPolicy(p, other),
           InBudgetWindow(now, Policy[p].window, t),
           PolicyGroup(p, other) = PolicyGroup(p, context),
           Allowed(reservations, charges, other, estimate, now)
    PROVE  /\ ~Exceeds(Cardinality(Counted(charges, p, context, t))
                         + Cardinality(OpenCalls(p, context, t)) + 1, Policy[p].limitCalls)
           /\ ~Exceeds(Cardinality(OpenCalls(p, context, t)) + 1, Policy[p].maxConcurrent)
<1>1. /\ ~Exceeds(ProjectedCalls(reservations, charges, p, other, now) + 1, Policy[p].limitCalls)
      /\ ~Exceeds(Concurrent(reservations, p, other, now) + 1, Policy[p].maxConcurrent)
  BY DEF Allowed, Violates, Enforced
<1>2. /\ Counted(reservations, p, other, now) = Counted(reservations, p, context, t)
      /\ Counted(charges, p, other, now) = Counted(charges, p, context, t)
  BY SameCount
<1> QED
  BY <1>1, <1>2 DEF ProjectedCalls, Concurrent, OpenCalls

-----------------------------------------------------------------------------
(***************************************************************************)
(* What a step does to the counted operations: it adds one that was        *)
(* allowed, moves one from open to settled, or only removes some.          *)
(***************************************************************************)
CountsAdmit(p, context, t) ==
    /\ ~Exceeds(Cardinality(Counted(charges, p, context, t))
                  + Cardinality(OpenCalls(p, context, t)) + 1, Policy[p].limitCalls)
    /\ ~Exceeds(Cardinality(OpenCalls(p, context, t)) + 1, Policy[p].maxConcurrent)
    /\ Cardinality(OpenCalls(p, context, t)') = Cardinality(OpenCalls(p, context, t)) + 1
    /\ SettledCalls(p, context, t)' = SettledCalls(p, context, t)

CountsMove(p, context, t) ==
    /\ Cardinality(OpenCalls(p, context, t)) = Cardinality(OpenCalls(p, context, t)') + 1
    /\ Cardinality(SettledCalls(p, context, t)') = Cardinality(SettledCalls(p, context, t)) + 1

CountsShrink(p, context, t) ==
    /\ Cardinality(OpenCalls(p, context, t)') <= Cardinality(OpenCalls(p, context, t))
    /\ SettledCalls(p, context, t)' = SettledCalls(p, context, t)

CountsStep(p, context, t) ==
    CountsAdmit(p, context, t) \/ CountsMove(p, context, t) \/ CountsShrink(p, context, t)

LEMMA FewerCounts ==
    ASSUME TypeOK, NEW p, NEW context, NEW t,
           OpenCalls(p, context, t)' \subseteq OpenCalls(p, context, t),
           SettledCalls(p, context, t)' = SettledCalls(p, context, t)
    PROVE  CountsStep(p, context, t)
<1>1. Cardinality(OpenCalls(p, context, t)') <= Cardinality(OpenCalls(p, context, t))
  BY CallCounts, FS_Subset
<1> QED
  BY <1>1 DEF CountsStep, CountsShrink

LEMMA ReserveCounts ==
    ASSUME LedgerInv, NEW id \in Ids, NEW record \in ReservationType, ReserveEffect(id, record),
           NEW p \in PolicyIds, NEW context, NEW t, Enforced(p), Calendar(p)
    PROVE  CountsStep(p, context, t)
<1> DEFINE open == OpenCalls(p, context, t)
<1>1. /\ DOMAIN reservations' = DOMAIN reservations \cup {id}
      /\ id \notin DOMAIN reservations
      /\ reservations'[id] = record
      /\ \A k \in DOMAIN reservations : reservations'[k] = reservations[k]
  BY DEF ReserveEffect, Bind, LedgerInv, TypeOK
<1>2. \A k \in DOMAIN admission : admission'[k] = admission[k]
  BY DEF ReserveEffect, Bind
<1>3. charges' = charges
  BY DEF ReserveEffect
<1>4. SettledCalls(p, context, t)' = SettledCalls(p, context, t)
  <2>1. \A i \in DOMAIN charges : charges[i].reservationId # Undefined
            => admission'[charges[i].reservationId] = admission[charges[i].reservationId]
    BY <1>2 DEF LedgerInv, HistoryOK
  <2> QED
    BY <1>3, <2>1 DEF SettledCalls, Counted
<1>5. CASE id \notin open'
  <2>1. open' \subseteq open
    BY <1>1, <1>5 DEF OpenCalls, Counted
  <2> QED
    BY <1>4, <2>1, FewerCounts DEF LedgerInv
<1>6. CASE id \in open'
  <2>1. open' = open \cup {id} /\ id \notin open
    BY <1>1, <1>6 DEF OpenCalls, Counted
  <2>2. /\ MatchesPolicy(p, record.context)
        /\ PolicyGroup(p, record.context) = PolicyGroup(p, context)
        /\ InBudgetWindow(record.createdAt, Policy[p].window, t)
    BY <1>1, <1>6 DEF OpenCalls, Counted
  <2>3. IsFiniteSet(open)
    BY CallCounts DEF LedgerInv
  <2>4. Cardinality(open') = Cardinality(open) + 1
    <3> HIDE DEF open
    <3> QED
      BY <2>1, <2>3, FS_AddElement
  <2>5. Allowed(reservations, charges, record.context, record.estimatedCostUsd, record.createdAt)
    BY DEF ReserveEffect
  <2> QED
    BY <1>4, <2>2, <2>4, <2>5, AllowedCounts DEF CountsStep, CountsAdmit
<1> QED
  BY <1>5, <1>6

LEMMA SettleCounts ==
    ASSUME LedgerInv, NEW id \in Ids, NEW charge \in ChargeType, SettleEffect(id, charge),
           NEW p \in PolicyIds, NEW context, NEW t
    PROVE  CountsStep(p, context, t)
<1> DEFINE new == Len(charges) + 1
           open == OpenCalls(p, context, t)
           settled == SettledCalls(p, context, t)
<1>1. /\ DOMAIN charges' = DOMAIN charges \cup {new}
      /\ new \notin DOMAIN charges
      /\ \A i \in DOMAIN charges : charges'[i] = charges[i]
      /\ charges'[new] = charge
  BY AppendFacts DEF SettleEffect, LedgerInv
<1>2. /\ DOMAIN reservations' = DOMAIN reservations \ {id}
      /\ \A k \in DOMAIN reservations' : reservations'[k] = reservations[k]
      /\ id \in DOMAIN reservations
  BY DEF SettleEffect, Unbind
<1>3. /\ charge.reservationId = id
      /\ charge.context = reservations[id].context
      /\ admission' = admission
      /\ admission[id].createdAt = reservations[id].createdAt
  BY DEF SettleEffect, LedgerInv, HistoryOK
<1> HIDE DEF new
<1>4. open' = open \ {id}
  BY <1>2 DEF OpenCalls, Counted
<1>5. settled \subseteq settled' /\ settled' \subseteq settled \cup {new} /\ new \notin settled
  BY <1>1, <1>3 DEF SettledCalls, Counted
<1>6. CASE new \notin settled'
  <2>1. settled' = settled
    BY <1>5, <1>6
  <2> QED
    BY <1>4, <2>1, FewerCounts DEF LedgerInv
<1>7. CASE new \in settled'
  <2>1. id \in open
    BY <1>1, <1>2, <1>3, <1>7 DEF OpenCalls, SettledCalls, Counted
  <2>2. settled' = settled \cup {new}
    BY <1>5, <1>7
  <2>3. IsFiniteSet(open) /\ IsFiniteSet(settled) /\ Cardinality(open) \in Nat
    BY CallCounts DEF LedgerInv
  <2>4. Cardinality(open) = Cardinality(open') + 1
    <3> HIDE DEF open
    <3>1. Cardinality(open') = Cardinality(open) - 1
      BY <1>4, <2>1, <2>3, FS_RemoveElement
    <3> QED
      BY <2>3, <3>1
  <2>5. Cardinality(settled') = Cardinality(settled) + 1
    <3> HIDE DEF settled
    <3> QED
      BY <1>5, <2>2, <2>3, FS_AddElement
  <2> QED
    BY <2>4, <2>5 DEF CountsStep, CountsMove
<1> QED
  BY <1>6, <1>7

\* A resize keeps every record where it is counted.
LEMMA ResizeCounts ==
    ASSUME LedgerInv, NEW id \in Ids, NEW estimate \in Nat, NEW now \in Nat,
           ShrinkEffect(id, estimate) \/ GrowEffect(id, estimate, now),
           NEW p \in PolicyIds, NEW context, NEW t
    PROVE  CountsStep(p, context, t)
<1>1. /\ DOMAIN reservations' = DOMAIN reservations
      /\ \A k \in DOMAIN reservations :
            /\ reservations'[k].createdAt = reservations[k].createdAt
            /\ reservations'[k].context = reservations[k].context
      /\ charges' = charges
      /\ id \in DOMAIN reservations
  BY ResizeFacts DEF ShrinkEffect, GrowEffect, LedgerInv
<1>2. \A k \in DOMAIN admission \ {id} : admission'[k] = admission[k]
  BY DEF ShrinkEffect, GrowEffect
<1>3. \A i \in DOMAIN charges : charges[i].reservationId # Undefined
          => admission'[charges[i].reservationId] = admission[charges[i].reservationId]
  BY <1>1, <1>2 DEF LedgerInv, ChargedOnce, HistoryOK
<1>4. OpenCalls(p, context, t)' = OpenCalls(p, context, t)
  BY <1>1 DEF OpenCalls, Counted
<1>5. SettledCalls(p, context, t)' = SettledCalls(p, context, t)
  BY <1>1, <1>3 DEF SettledCalls, Counted
<1> QED
  BY <1>4, <1>5, FewerCounts DEF LedgerInv

LEMMA ReleaseCounts ==
    ASSUME LedgerInv, NEW id \in Ids, ReleaseEffect(id), NEW p \in PolicyIds, NEW context, NEW t
    PROVE  CountsStep(p, context, t)
<1>1. /\ DOMAIN reservations' = DOMAIN reservations \ {id}
      /\ \A k \in DOMAIN reservations' : reservations'[k] = reservations[k]
      /\ charges' = charges
      /\ admission' = admission
  BY DEF ReleaseEffect, Unbind
<1>2. OpenCalls(p, context, t)' \subseteq OpenCalls(p, context, t)
  BY <1>1 DEF OpenCalls, Counted
<1>3. SettledCalls(p, context, t)' = SettledCalls(p, context, t)
  BY <1>1 DEF SettledCalls, Counted
<1> QED
  BY <1>2, <1>3, FewerCounts DEF LedgerInv

LEMMA RecordCounts ==
    ASSUME LedgerInv, NEW charge \in ChargeType, RecordEffect(charge),
           NEW p \in PolicyIds, NEW context, NEW t
    PROVE  CountsStep(p, context, t)
<1> DEFINE new == Len(charges) + 1
<1>1. /\ DOMAIN charges' = DOMAIN charges \cup {new}
      /\ new \notin DOMAIN charges
      /\ \A i \in DOMAIN charges : charges'[i] = charges[i]
      /\ charges'[new] = charge
  BY AppendFacts DEF RecordEffect, LedgerInv
<1>2. /\ charge.reservationId = Undefined
      /\ reservations' = reservations
      /\ admission' = admission
  BY DEF RecordEffect
<1> HIDE DEF new
<1>3. SettledCalls(p, context, t)' = SettledCalls(p, context, t)
  BY <1>1, <1>2 DEF SettledCalls, Counted
<1>4. OpenCalls(p, context, t)' = OpenCalls(p, context, t)
  BY <1>2 DEF OpenCalls
<1> QED
  BY <1>3, <1>4, FewerCounts DEF LedgerInv

LEMMA StepCounts ==
    ASSUME LedgerInv, [Next]_vars,
           NEW p \in PolicyIds, NEW context, NEW t, Enforced(p), Calendar(p)
    PROVE  CountsStep(p, context, t)
<1>1. LedgerEffect
  BY NextType, StepHasEffect DEF LedgerInv
<1>2. CASE UNCHANGED <<reservations, charges, admission>>
  <2>1. /\ OpenCalls(p, context, t)' = OpenCalls(p, context, t)
        /\ SettledCalls(p, context, t)' = SettledCalls(p, context, t)
    BY <1>2 DEF OpenCalls, SettledCalls, Counted
  <2> QED
    BY <2>1, FewerCounts DEF LedgerInv
<1>3. CASE \E id \in Ids, record \in ReservationType : ReserveEffect(id, record)
  BY <1>3, ReserveCounts
<1>4. CASE \E id \in Ids, charge \in ChargeType : SettleEffect(id, charge)
  BY <1>4, SettleCounts
<1>5. CASE \E id \in Ids, estimate \in Nat : ShrinkEffect(id, estimate)
  BY <1>5, ResizeCounts
<1>6. CASE \E id \in Ids, estimate \in Nat, now \in Nat : GrowEffect(id, estimate, now)
  BY <1>6, ResizeCounts
<1>7. CASE \E id \in Ids : ReleaseEffect(id)
  BY <1>7, ReleaseCounts
<1>8. CASE \E charge \in ChargeType : RecordEffect(charge)
  BY <1>8, RecordCounts
<1> QED
  BY <1>1, <1>2, <1>3, <1>4, <1>5, <1>6, <1>7, <1>8 DEF LedgerEffect

-----------------------------------------------------------------------------
CallsAt(p, context, t) ==
    Cardinality(OpenCalls(p, context, t)) + Cardinality(SettledCalls(p, context, t))
        <= Policy[p].limitCalls

OpenAt(p, context, t) == Cardinality(OpenCalls(p, context, t)) <= Policy[p].maxConcurrent

LEMMA CountsStayWithin ==
    ASSUME LedgerInv, [Next]_vars,
           NEW p \in PolicyIds, NEW context, NEW t, Enforced(p), Calendar(p)
    PROVE  /\ Policy[p].limitCalls # Undefined /\ CallsAt(p, context, t)
                => CallsAt(p, context, t)'
           /\ Policy[p].maxConcurrent # Undefined /\ OpenAt(p, context, t)
                => OpenAt(p, context, t)'
<1> DEFINE open == Cardinality(OpenCalls(p, context, t))
           settled == Cardinality(SettledCalls(p, context, t))
           charged == Cardinality(Counted(charges, p, context, t))
<1>1. open \in Nat /\ settled \in Nat /\ charged \in Nat /\ settled <= charged
  BY CallCounts DEF LedgerInv
<1>2. open' \in Nat /\ settled' \in Nat
  <2>1. TypeOK'
    BY NextType DEF LedgerInv
  <2>2. /\ OpenCalls(p, context, t)' \subseteq Ids
        /\ SettledCalls(p, context, t)' \subseteq 1..Len(charges')
        /\ Len(charges') \in Nat
    BY <2>1 DEF OpenCalls, SettledCalls, Counted, TypeOK
  <2>3. IsFiniteSet(1..Len(charges'))
    BY <2>2, FS_Interval
  <2>4. IsFiniteSet(OpenCalls(p, context, t)') /\ IsFiniteSet(SettledCalls(p, context, t)')
    BY <2>2, <2>3, FirewallAssumption, FS_Subset
  <2> QED
    BY <2>4, FS_CardinalityType
<1>3. \/ /\ ~Exceeds(charged + open + 1, Policy[p].limitCalls)
         /\ ~Exceeds(open + 1, Policy[p].maxConcurrent)
         /\ open' = open + 1
         /\ settled' = settled
      \/ open = open' + 1 /\ settled' = settled + 1
      \/ open' <= open /\ settled' = settled
  BY StepCounts DEF CountsStep, CountsAdmit, CountsMove, CountsShrink
<1>4. /\ CallsAt(p, context, t) <=> open + settled <= Policy[p].limitCalls
      /\ CallsAt(p, context, t)' <=> open' + settled' <= Policy[p].limitCalls
      /\ OpenAt(p, context, t) <=> open <= Policy[p].maxConcurrent
      /\ OpenAt(p, context, t)' <=> open' <= Policy[p].maxConcurrent
  BY DEF CallsAt, OpenAt
<1>5. /\ Policy[p].limitCalls # Undefined => Policy[p].limitCalls \in Nat
      /\ Policy[p].maxConcurrent # Undefined => Policy[p].maxConcurrent \in Nat
  BY LimitType DEF Optional
<1> HIDE DEF open, settled, charged
<1>6. ASSUME Policy[p].limitCalls # Undefined, open + settled <= Policy[p].limitCalls
      PROVE  open' + settled' <= Policy[p].limitCalls
  <2>1. Policy[p].limitCalls \in Nat
    BY <1>5, <1>6
  <2>2. CASE ~Exceeds(charged + open + 1, Policy[p].limitCalls) /\ open' = open + 1
              /\ settled' = settled
    <3>1. charged + open + 1 <= Policy[p].limitCalls
      BY <1>1, <1>6, <2>1, <2>2 DEF Exceeds
    <3> QED
      BY <1>1, <2>1, <2>2, <3>1
  <2>3. CASE open = open' + 1 /\ settled' = settled + 1
    BY <1>1, <1>2, <1>6, <2>3
  <2>4. CASE open' <= open /\ settled' = settled
    BY <1>1, <1>2, <1>6, <2>1, <2>4
  <2> QED
    BY <1>3, <2>2, <2>3, <2>4
<1>7. ASSUME Policy[p].maxConcurrent # Undefined, open <= Policy[p].maxConcurrent
      PROVE  open' <= Policy[p].maxConcurrent
  <2>1. Policy[p].maxConcurrent \in Nat
    BY <1>5, <1>7
  <2>2. CASE ~Exceeds(open + 1, Policy[p].maxConcurrent) /\ open' = open + 1
    BY <1>1, <1>7, <2>1, <2>2 DEF Exceeds
  <2>3. CASE open = open' + 1
    BY <1>1, <1>2, <1>7, <2>1, <2>3
  <2>4. CASE open' <= open
    BY <1>1, <1>2, <1>7, <2>1, <2>4
  <2> QED
    BY <1>3, <2>2, <2>3, <2>4
<1> QED
  BY <1>4, <1>6, <1>7

\* What was reserved in a calendar window and group, open or settled, never numbers more than
\* limitCalls, for every configuration and interleaving (policy.ts requestViolations).
THEOREM CallsNeverExceeded == Spec => []CallsHeld
<1>1. Init => CallsHeld
  <2> SUFFICES ASSUME Init, NEW p \in PolicyIds, NEW context, NEW t,
                      Policy[p].limitCalls # Undefined
               PROVE  CallsAt(p, context, t)
    BY DEF CallsHeld, CallsAt, Concurrent, OpenCalls, SettledCalls
  <2>1. OpenCalls(p, context, t) = {} /\ SettledCalls(p, context, t) = {}
    BY DEF Init, OpenCalls, SettledCalls, Counted
  <2>2. Policy[p].limitCalls \in Nat
    BY LimitType DEF Optional
  <2> QED
    BY <2>1, <2>2, FS_EmptySet DEF CallsAt
<1>2. LedgerInv /\ CallsHeld /\ [Next]_vars => CallsHeld'
  <2> SUFFICES ASSUME LedgerInv, CallsHeld, [Next]_vars,
                      NEW p \in PolicyIds, NEW context \in Contexts, NEW t \in Times,
                      Enforced(p), Calendar(p), MatchesPolicy(p, context),
                      Policy[p].limitCalls # Undefined
               PROVE  CallsAt(p, context, t)'
    BY DEF CallsHeld, CallsAt, Concurrent, OpenCalls, SettledCalls,
           Enforced, Calendar, MatchesPolicy, Times
  <2>1. CallsAt(p, context, t)
    BY DEF CallsHeld, CallsAt, Concurrent, OpenCalls, SettledCalls
  <2> QED
    BY <2>1, CountsStayWithin
<1> QED
  BY <1>1, <1>2, LedgerCorrect, PTL DEF Spec

\* The open reservations of a calendar window and group never number more than maxConcurrent,
\* for every configuration and interleaving (policy.ts requestViolations).
THEOREM ConcurrencyNeverExceeded == Spec => []ConcurrencyHeld
<1>1. Init => ConcurrencyHeld
  <2> SUFFICES ASSUME Init, NEW p \in PolicyIds, NEW context, NEW t,
                      Policy[p].maxConcurrent # Undefined
               PROVE  OpenAt(p, context, t)
    BY DEF ConcurrencyHeld, OpenAt, Concurrent, OpenCalls
  <2>1. OpenCalls(p, context, t) = {}
    BY DEF Init, OpenCalls, Counted
  <2>2. Policy[p].maxConcurrent \in Nat
    BY LimitType DEF Optional
  <2> QED
    BY <2>1, <2>2, FS_EmptySet DEF OpenAt
<1>2. LedgerInv /\ ConcurrencyHeld /\ [Next]_vars => ConcurrencyHeld'
  <2> SUFFICES ASSUME LedgerInv, ConcurrencyHeld, [Next]_vars,
                      NEW p \in PolicyIds, NEW context \in Contexts, NEW t \in Times,
                      Enforced(p), Calendar(p), MatchesPolicy(p, context),
                      Policy[p].maxConcurrent # Undefined
               PROVE  OpenAt(p, context, t)'
    BY DEF ConcurrencyHeld, OpenAt, Concurrent, OpenCalls,
           Enforced, Calendar, MatchesPolicy, Times
  <2>1. OpenAt(p, context, t)
    BY DEF ConcurrencyHeld, OpenAt, Concurrent, OpenCalls
  <2> QED
    BY <2>1, CountsStayWithin
<1> QED
  BY <1>1, <1>2, LedgerCorrect, PTL DEF Spec

-----------------------------------------------------------------------------
(***************************************************************************)
(* Rolling budgets, for programs that share one in-process mutex.  A       *)
(* rolling window ends at the clock value the evaluator was given, so a    *)
(* call must never be evaluated behind a reservation stamped later: on one *)
(* mutex calls commit in the order in which they read the clock.  Where    *)
(* two processes share a ledger that fails (the run rolling_lanes).        *)
(***************************************************************************)

\* The callers share one process (JsonFileStore and MemoryStore hold its mutex).
OneMutex == \A c, d \in Callers : Lane[c] = Lane[d]

\* Whoever is ahead began no later, and of two calls one is ahead of the other.
QueueOrder ==
    /\ \A c \in Callers : \A d \in ahead[c] :
          ~Idle(c) /\ ~Idle(d) /\ call[d].now <= call[c].now
    /\ \A c, d \in Callers :
          c # d /\ ~Idle(c) /\ ~Idle(d) => c \in ahead[d] \/ d \in ahead[c]

\* No reservation is stamped later than a call that is still to be evaluated.
StampsBehind ==
    /\ \A c \in Callers : ~Idle(c) => call[c].now <= clock
    /\ \A id \in DOMAIN reservations :
          /\ reservations[id].createdAt <= clock
          /\ \A c \in Callers : ~Idle(c) => reservations[id].createdAt <= call[c].now

RollingInv == QueueOrder /\ StampsBehind /\ RollingBudgetHeld

-----------------------------------------------------------------------------
(***************************************************************************)
(* What a commit evaluated at now does to the open reservations.           *)
(***************************************************************************)
Thins ==
    /\ \A id \in DOMAIN reservations' :
          /\ id \in DOMAIN reservations
          /\ reservations'[id].createdAt = reservations[id].createdAt
          /\ reservations'[id].context = reservations[id].context
          /\ reservations'[id].estimatedCostUsd <= reservations[id].estimatedCostUsd
    /\ admission' = admission

Stamps(now) ==
    \/ Thins
    \/ \E id \in Ids, record \in ReservationType :
          ReserveEffect(id, record) /\ record.createdAt = now
    \/ \E id \in Ids, estimate \in Nat : GrowEffect(id, estimate, now)

LEMMA ThinStamps ==
    ASSUME Thins, NEW now
    PROVE  Stamps(now)
BY Zenon DEF Stamps

LEMMA SameStamps ==
    ASSUME LedgerInv, UNCHANGED <<reservations, admission>>, NEW now
    PROVE  Stamps(now)
<1>1. Thins
  BY DEF Thins, LedgerInv, TypeOK, ReservationType
<1> QED
  BY <1>1, ThinStamps

LEMMA ReserveStamps ==
    ASSUME LedgerInv, NEW c \in Callers, CommitReserve(c)
    PROVE  Stamps(call[c].now)
<1> DEFINE request == call[c].request
           now == call[c].now
           record == [context |-> request.context,
                      estimatedCostUsd |-> request.estimatedCostUsd,
                      createdAt |-> now,
                      idempotencyKey |-> request.idempotencyKey,
                      fingerprint |-> RequestFingerprint(request)]
<1>1. CASE UNCHANGED <<reservations, admission>>
  BY <1>1, SameStamps
<1>2. CASE /\ KeyFree(request.idempotencyKey)
           /\ Allowed(reservations, charges, request.context, request.estimatedCostUsd, now)
           /\ \E id \in Ids \ DOMAIN admission :
                 /\ reservations' = Bind(reservations, id, record)
                 /\ admission' = Bind(admission, id, [createdAt |-> now, approvedAt |-> now])
           /\ UNCHANGED <<charges, told>>
  <2>1. PICK id \in Ids \ DOMAIN admission :
          /\ reservations' = Bind(reservations, id, record)
          /\ admission' = Bind(admission, id, [createdAt |-> now, approvedAt |-> now])
    BY <1>2
  <2>2. request \in NormalRequestType /\ now \in Nat
    BY CallArguments DEF CommitReserve, Turn, LedgerInv
  <2>3. record \in ReservationType /\ record.createdAt = now
    BY <2>2 DEF ReservationType, NormalRequestType, RequestFingerprint, Fingerprint, Fingerprints
  <2>4. ReserveEffect(id, record)
    BY <1>2, <2>1, <2>3 DEF ReserveEffect
  <2> QED
    BY <2>3, <2>4 DEF Stamps
<1> QED
  BY <1>1, <1>2 DEF CommitReserve, RefuseKey, Refuse

LEMMA CommitStamps ==
    ASSUME LedgerInv, NEW c \in Callers,
           \/ CommitReserve(c) \/ CommitSettle(c) \/ CommitResize(c)
           \/ CommitRelease(c) \/ CommitRecordActual(c) \/ StoreFailure(c)
    PROVE  /\ ~Idle(c) /\ ahead[c] = {}
           /\ call' = [call EXCEPT ![c] = NoCall]
           /\ ahead' = [d \in Callers |-> ahead[d] \ {c}]
           /\ clock' = clock
           /\ Stamps(call[c].now)
<1>1. /\ ~Idle(c) /\ ahead[c] = {}
      /\ call' = [call EXCEPT ![c] = NoCall]
      /\ ahead' = [d \in Callers |-> ahead[d] \ {c}]
      /\ clock' = clock
  BY DEF CommitReserve, CommitSettle, CommitResize, CommitRelease, CommitRecordActual,
     StoreFailure, RefuseKey, PutBack, Refuse, Answer, Dequeue, Turn, Idle
<1>2. \A id \in DOMAIN reservations : reservations[id].estimatedCostUsd \in Nat
  BY DEF LedgerInv, TypeOK, ReservationType
<1> SUFFICES Stamps(call[c].now)
  BY <1>1
<1>3. CASE CommitSettle(c) \/ CommitRelease(c)
  <2>1. Thins
    BY <1>2, <1>3 DEF CommitSettle, CommitRelease, Refuse, Unbind, Thins
  <2> QED
    BY <2>1, ThinStamps
<1>4. CASE CommitRecordActual(c) \/ StoreFailure(c)
  BY <1>4, SameStamps DEF CommitRecordActual, StoreFailure, RefuseKey, Refuse
<1>5. CASE CommitResize(c)
  <2>1. call[c].id \in Ids /\ call[c].costUsd \in Nat /\ call[c].now \in Nat
    BY <1>5, CallArguments DEF CommitResize, Turn, LedgerInv
  <2>2. \/ UNCHANGED <<reservations, admission>>
        \/ ShrinkEffect(call[c].id, call[c].costUsd)
        \/ GrowEffect(call[c].id, call[c].costUsd, call[c].now)
    BY <1>5, <2>1, ResizeCommits DEF LedgerInv
  <2>3. CASE ShrinkEffect(call[c].id, call[c].costUsd)
    <3>1. Thins
      BY <1>2, <2>1, <2>3, ResizeFacts DEF ShrinkEffect, LedgerInv, Thins
    <3> QED
      BY <3>1, ThinStamps
  <2>4. CASE GrowEffect(call[c].id, call[c].costUsd, call[c].now)
    BY <2>1, <2>4, Zenon DEF Stamps
  <2> QED
    BY <2>1, <2>2, <2>3, <2>4, SameStamps
<1> QED
  BY <1>3, <1>4, <1>5, ReserveStamps

-----------------------------------------------------------------------------
(***************************************************************************)
(* The order of the queue and of the stamps.                               *)
(***************************************************************************)
LEMMA EnqueueOrder ==
    ASSUME OneMutex, TypeOK, QueueOrder, StampsBehind, NEW c \in Callers,
           NEW op \in OperationNames, NEW request, NEW id, NEW costUsd,
           Enqueue(c, op, request, id, costUsd)
    PROVE  QueueOrder' /\ StampsBehind'
<1>1. /\ call'[c].op = op /\ call'[c].now = clock
      /\ op # "none" /\ Idle(c)
      /\ \A d \in Callers \ {c} : call'[d] = call[d]
      /\ ahead' = [ahead EXCEPT ![c] = {d \in Callers : ~Idle(d) /\ Lane[d] = Lane[c]}]
      /\ UNCHANGED <<reservations, clock>>
  BY DEF Enqueue, TypeOK, OperationNames
<1>2. /\ ahead'[c] = {d \in Callers : ~Idle(d)}
      /\ \A d \in Callers \ {c} : ahead'[d] = ahead[d]
  BY <1>1 DEF OneMutex, TypeOK
<1>3. \A d \in Callers \ {c} : Idle(d)' <=> Idle(d)
  BY <1>1 DEF Idle
<1>4. ~Idle(c)'
  BY <1>1 DEF Idle
<1>5. clock \in Nat
  BY DEF TypeOK
<1>6. QueueOrder'
  <2>1. ASSUME NEW d \in Callers, NEW e \in ahead'[d]
        PROVE  ~Idle(d)' /\ ~Idle(e)' /\ call'[e].now <= call'[d].now
    <3>1. CASE d = c
      BY <1>1, <1>2, <1>3, <1>4, <2>1, <3>1 DEF StampsBehind
    <3>2. CASE d # c
      <4>1. e \in ahead[d] /\ e \in Callers /\ ~Idle(e)
        BY <1>2, <2>1, <3>2 DEF QueueOrder, TypeOK
      <4>2. e # c
        BY <1>1, <4>1
      <4> QED
        BY <1>1, <1>3, <3>2, <4>1, <4>2 DEF QueueOrder
    <3> QED
      BY <3>1, <3>2
  <2>2. ASSUME NEW d \in Callers, NEW e \in Callers, d # e, ~Idle(d)', ~Idle(e)'
        PROVE  d \in ahead'[e] \/ e \in ahead'[d]
    BY <1>2, <1>3, <2>2 DEF QueueOrder
  <2> QED
    BY <2>1, <2>2 DEF QueueOrder
<1>7. StampsBehind'
  BY <1>1, <1>3, <1>5 DEF StampsBehind
<1> QED
  BY <1>6, <1>7

LEMMA CommitOrder ==
    ASSUME TypeOK, TypeOK', QueueOrder, StampsBehind, NEW c \in Callers,
           ~Idle(c), ahead[c] = {},
           call' = [call EXCEPT ![c] = NoCall],
           ahead' = [d \in Callers |-> ahead[d] \ {c}],
           clock' = clock,
           Stamps(call[c].now)
    PROVE  QueueOrder' /\ StampsBehind'
<1>1. /\ Idle(c)'
      /\ \A d \in Callers \ {c} : call'[d] = call[d] /\ (Idle(d)' <=> Idle(d))
  BY DEF Idle, NoCall, TypeOK
<1>2. QueueOrder'
  <2>1. ASSUME NEW d \in Callers, NEW e \in ahead'[d]
        PROVE  ~Idle(d)' /\ ~Idle(e)' /\ call'[e].now <= call'[d].now
    <3>1. e \in ahead[d] /\ e # c /\ d # c /\ e \in Callers
      BY <2>1 DEF TypeOK
    <3> QED
      BY <1>1, <3>1 DEF QueueOrder
  <2>2. ASSUME NEW d \in Callers, NEW e \in Callers, d # e, ~Idle(d)', ~Idle(e)'
        PROVE  d \in ahead'[e] \/ e \in ahead'[d]
    <3>1. d # c /\ e # c
      BY <1>1, <2>2
    <3> QED
      BY <1>1, <2>2, <3>1 DEF QueueOrder
  <2> QED
    BY <2>1, <2>2 DEF QueueOrder
<1>3. /\ call[c].now <= clock
      /\ \A d \in Callers \ {c} : ~Idle(d) => call[c].now <= call[d].now
  BY DEF QueueOrder, StampsBehind
<1>4. ASSUME NEW id \in DOMAIN reservations'
      PROVE  \/ /\ id \in DOMAIN reservations
                /\ reservations'[id].createdAt = reservations[id].createdAt
             \/ reservations'[id].createdAt = call[c].now
  <2>1. CASE Thins
    BY <1>4, <2>1 DEF Thins
  <2>2. ASSUME NEW new \in Ids, NEW record \in ReservationType,
               ReserveEffect(new, record), record.createdAt = call[c].now
        PROVE  \/ /\ id \in DOMAIN reservations
                  /\ reservations'[id].createdAt = reservations[id].createdAt
               \/ reservations'[id].createdAt = call[c].now
    BY <1>4, <2>2 DEF ReserveEffect, Bind
  <2>3. ASSUME NEW grown \in Ids, NEW estimate \in Nat, GrowEffect(grown, estimate, call[c].now)
        PROVE  /\ id \in DOMAIN reservations
               /\ reservations'[id].createdAt = reservations[id].createdAt
    BY <1>4, <2>3, ResizeFacts DEF GrowEffect
  <2> QED
    BY <2>1, <2>2, <2>3 DEF Stamps
<1>5. StampsBehind'
  <2>1. ASSUME NEW d \in Callers, ~Idle(d)'
        PROVE  d # c /\ ~Idle(d) /\ call'[d] = call[d]
    BY <1>1, <2>1
  <2> QED
    BY <1>3, <1>4, <2>1 DEF StampsBehind
<1> QED
  BY <1>2, <1>5

-----------------------------------------------------------------------------
(***************************************************************************)
(* The open amounts of a rolling window.                                   *)
(***************************************************************************)
RollingOpen(p, context, t) ==
    {k \in Counted(reservations, p, context, t) :
        admission[k].approvedAt = admission[k].createdAt}

RollingAmounts(p, context, t) ==
    [id \in RollingOpen(p, context, t) |-> reservations[id].estimatedCostUsd]

RollingUsd(p, context, t) == Total(RollingAmounts(p, context, t))

\* An enforced policy with a budget over a rolling window, for the context of a group.
Rolling(p, context) ==
    /\ Enforced(p) /\ ~Calendar(p)
    /\ MatchesPolicy(p, context) /\ Policy[p].limitUsd # Undefined

LEMMA RollingTypes ==
    ASSUME NEW p, NEW context, NEW t
    PROVE  /\ TypeOK => /\ IsFiniteSet(RollingOpen(p, context, t))
                        /\ RollingAmounts(p, context, t) \in [RollingOpen(p, context, t) -> Nat]
                        /\ RollingUsd(p, context, t) \in Nat
           /\ TypeOK' => /\ IsFiniteSet(RollingOpen(p, context, t)')
                         /\ RollingAmounts(p, context, t)'
                              \in [RollingOpen(p, context, t)' -> Nat]
                         /\ RollingUsd(p, context, t)' \in Nat
<1> DEFINE open == RollingOpen(p, context, t)
           amounts == RollingAmounts(p, context, t)
<1>1. ASSUME TypeOK PROVE open \subseteq Ids /\ amounts \in [open -> Nat]
  BY <1>1 DEF RollingOpen, RollingAmounts, Counted, TypeOK, ReservationType
<1>2. ASSUME TypeOK' PROVE open' \subseteq Ids /\ amounts' \in [open' -> Nat]
  BY <1>2 DEF RollingOpen, RollingAmounts, Counted, TypeOK, ReservationType
<1> HIDE DEF open, amounts
<1>3. TypeOK => IsFiniteSet(open) /\ Total(amounts) \in Nat
  BY <1>1, FirewallAssumption, UsageType
<1>4. TypeOK' => IsFiniteSet(open') /\ Total(amounts') \in Nat
  BY <1>2, FirewallAssumption, UsageType
<1> QED
  BY <1>1, <1>2, <1>3, <1>4 DEF open, amounts, RollingUsd

\* Amounts that are among those there were, none larger, add up to no more.
LEMMA RollingShrinks ==
    ASSUME TypeOK, TypeOK', NEW p, NEW context, NEW t,
           RollingOpen(p, context, t)' \subseteq RollingOpen(p, context, t),
           \A k \in RollingOpen(p, context, t)' :
              reservations'[k].estimatedCostUsd <= reservations[k].estimatedCostUsd
    PROVE  RollingUsd(p, context, t)' <= RollingUsd(p, context, t)
<1> DEFINE open == RollingOpen(p, context, t)
           amounts == RollingAmounts(p, context, t)
<1>1. \A k \in open' : amounts'[k] <= amounts[k]
  BY DEF RollingAmounts
<1>2. /\ IsFiniteSet(open) /\ open' \subseteq open
      /\ amounts \in [open -> Nat] /\ amounts' \in [open' -> Nat]
  BY RollingTypes
<1> HIDE DEF open, amounts
<1>3. Total(amounts') <= Total(amounts)
  BY <1>1, <1>2, TotalMonotone
<1> QED
  BY <1>3 DEF amounts, RollingUsd

\* A time no earlier than the stamps of a window's reservations counts every one of them.
LEMMA EarlierCounted ==
    ASSUME NEW p \in PolicyIds, NEW context, NEW t \in Nat, Rolling(p, context),
           NEW table, NEW now \in Nat, NEW other,
           \A k \in DOMAIN table : table[k].createdAt \in Nat /\ table[k].createdAt <= now,
           PolicyGroup(p, other) = PolicyGroup(p, context),
           InBudgetWindow(now, Policy[p].window, t)
    PROVE  Counted(table, p, context, t) \subseteq Counted(table, p, other, now)
<1>1. Policy[p].window.kind = "rolling" /\ Policy[p].window.rolling \in Nat
  BY PolicyAssumption DEF PolicyType, Rolling, Calendar
<1>2. now <= t /\ t <= now + Policy[p].window.rolling
  BY <1>1 DEF InBudgetWindow
<1> SUFFICES ASSUME NEW k \in Counted(table, p, context, t)
             PROVE  k \in Counted(table, p, other, now)
  OBVIOUS
<1>3. /\ k \in DOMAIN table
      /\ InBudgetWindow(table[k].createdAt, Policy[p].window, t)
      /\ MatchesPolicy(p, table[k].context)
      /\ PolicyGroup(p, table[k].context) = PolicyGroup(p, context)
  BY DEF Counted
<1>4. InBudgetWindow(table[k].createdAt, Policy[p].window, now)
  BY <1>1, <1>2, <1>3 DEF InBudgetWindow
<1> QED
  BY <1>3, <1>4 DEF Counted

\* What the evaluator allows fits under the limit together with the reservations it counts.
LEMMA AllowedRolling ==
    ASSUME LedgerInv, NEW p \in PolicyIds, NEW context, Rolling(p, context), NEW table,
           NEW now, NEW other, NEW estimate \in Nat, MatchesPolicy(p, other),
           Allowed(table, charges, other, estimate, now),
           ReservedUsd(table, p, other, now) \in Nat, NEW open \in Nat,
           open <= ReservedUsd(table, p, other, now)
    PROVE  estimate + open <= Policy[p].limitUsd
<1>1. Policy[p].limitUsd \in Nat
  BY LimitType DEF Rolling, Optional
<1>2. ActualUsd(charges, p, other, now) \in Nat
  BY AdmittedAmounts
<1>3. ~Exceeds(ProjectedUsd(table, charges, p, other, now) + estimate, Policy[p].limitUsd)
  BY DEF Allowed, Violates, Rolling, Enforced
<1> QED
  BY <1>1, <1>2, <1>3 DEF Exceeds, ProjectedUsd, Rolling

LEMMA ReserveRolling ==
    ASSUME LedgerInv, TypeOK', NEW id \in Ids, NEW record \in ReservationType,
           ReserveEffect(id, record),
           \A k \in DOMAIN reservations : reservations[k].createdAt <= record.createdAt,
           NEW p \in PolicyIds, NEW context, NEW t \in Nat, Rolling(p, context),
           RollingUsd(p, context, t) <= Policy[p].limitUsd
    PROVE  RollingUsd(p, context, t)' <= Policy[p].limitUsd
<1> DEFINE open == RollingOpen(p, context, t)
           amounts == RollingAmounts(p, context, t)
<1>1. /\ DOMAIN reservations' = DOMAIN reservations \cup {id}
      /\ id \notin DOMAIN reservations
      /\ reservations'[id] = record
      /\ \A k \in DOMAIN reservations : reservations'[k] = reservations[k]
  BY DEF ReserveEffect, Bind, LedgerInv, TypeOK
<1>2. /\ admission'[id].createdAt = record.createdAt
      /\ admission'[id].approvedAt = record.createdAt
      /\ \A k \in DOMAIN admission : admission'[k] = admission[k]
      /\ DOMAIN reservations \subseteq DOMAIN admission
  BY DEF ReserveEffect, Bind, LedgerInv, TypeOK
<1>3. CASE ~(/\ InBudgetWindow(record.createdAt, Policy[p].window, t)
             /\ MatchesPolicy(p, record.context)
             /\ PolicyGroup(p, record.context) = PolicyGroup(p, context))
  <2>1. open' = open
    BY <1>1, <1>2, <1>3 DEF RollingOpen, Counted
  <2>2. amounts' = amounts
    BY <1>1, <2>1 DEF RollingAmounts, RollingOpen, Counted
  <2> QED
    BY <2>2 DEF RollingUsd
<1>4. CASE /\ InBudgetWindow(record.createdAt, Policy[p].window, t)
           /\ MatchesPolicy(p, record.context)
           /\ PolicyGroup(p, record.context) = PolicyGroup(p, context)
  <2>1. open' = open \cup {id} /\ id \notin open
    BY <1>1, <1>2, <1>4 DEF RollingOpen, Counted
  <2>2. record.estimatedCostUsd \in Nat /\ record.createdAt \in Nat
    BY DEF ReservationType
  <2>3. IsFiniteSet(open) /\ amounts \in [open -> Nat]
    BY RollingTypes DEF LedgerInv
  <2>4. amounts' = [k \in open \cup {id} |->
                       IF k = id THEN record.estimatedCostUsd ELSE amounts[k]]
    BY <1>1, <2>1 DEF RollingAmounts, RollingOpen, Counted
  <2>5. Total(amounts') = record.estimatedCostUsd + Total(amounts)
    <3> HIDE DEF open, amounts
    <3> QED
      BY <2>1, <2>2, <2>3, <2>4, TotalAdd
  <2>6. record.estimatedCostUsd + Total(amounts) <= Policy[p].limitUsd
    <3>1. \A k \in DOMAIN reservations : /\ reservations[k].estimatedCostUsd \in Nat
                                         /\ reservations[k].createdAt \in Nat
      BY DEF LedgerInv, TypeOK, ReservationType
    <3>2. open \subseteq Counted(reservations, p, context, t)
      BY DEF RollingOpen
    <3>3. \A k \in open : amounts[k] = reservations[k].estimatedCostUsd
      BY DEF RollingAmounts
    <3>4. IsFiniteSet(DOMAIN reservations)
      BY LedgerFinite DEF LedgerInv
    <3>5. Counted(reservations, p, context, t)
            \subseteq Counted(reservations, p, record.context, record.createdAt)
      BY <1>4, <2>2, <3>1, EarlierCounted
    <3>6. Allowed(reservations, charges, record.context, record.estimatedCostUsd, record.createdAt)
      BY DEF ReserveEffect
    <3> HIDE DEF open, amounts
    <3>7. /\ ReservedUsd(reservations, p, record.context, record.createdAt) \in Nat
          /\ Total(amounts) <= ReservedUsd(reservations, p, record.context, record.createdAt)
      BY <2>3, <3>1, <3>2, <3>3, <3>4, <3>5, ReservedCovers
    <3>8. Total(amounts) \in Nat
      BY <2>3, TotalType
    <3> QED
      BY <1>4, <2>2, <3>6, <3>7, <3>8, AllowedRolling
  <2> QED
    BY <2>5, <2>6 DEF RollingUsd
<1> QED
  BY <1>3, <1>4

\* An increase that is approved at the time its reservation was made is evaluated against the
\* same window; any other one takes the reservation out of those approved in it.
LEMMA GrowRolling ==
    ASSUME LedgerInv, TypeOK', NEW id \in Ids, NEW estimate \in Nat, NEW now \in Nat,
           GrowEffect(id, estimate, now),
           \A k \in DOMAIN reservations : reservations[k].createdAt <= now,
           NEW p \in PolicyIds, NEW context, NEW t \in Nat, Rolling(p, context),
           RollingUsd(p, context, t) <= Policy[p].limitUsd
    PROVE  RollingUsd(p, context, t)' <= Policy[p].limitUsd
<1> DEFINE open == RollingOpen(p, context, t)
           amounts == RollingAmounts(p, context, t)
           others == Unbind(reservations, id)
<1>1. /\ DOMAIN reservations' = DOMAIN reservations
      /\ id \in DOMAIN reservations
      /\ \A k \in DOMAIN reservations \ {id} : reservations'[k] = reservations[k]
      /\ reservations'[id].estimatedCostUsd = estimate
      /\ \A k \in DOMAIN reservations :
            /\ reservations'[k].createdAt = reservations[k].createdAt
            /\ reservations'[k].context = reservations[k].context
  BY ResizeFacts DEF GrowEffect, LedgerInv
<1>2. /\ id \in DOMAIN admission
      /\ admission'[id].approvedAt = now
      /\ admission'[id].createdAt = reservations[id].createdAt
      /\ \A k \in DOMAIN admission \ {id} : admission'[k] = admission[k]
  <2>1. /\ id \in DOMAIN admission
        /\ admission[id] \in [createdAt : Nat, approvedAt : Nat]
        /\ admission[id].createdAt = reservations[id].createdAt
        /\ admission' = [admission EXCEPT ![id].approvedAt = now]
    BY DEF GrowEffect, LedgerInv, TypeOK, HistoryOK
  <2> QED
    BY <2>1
<1>3. open' \ {id} = open \ {id}
  BY <1>1, <1>2 DEF RollingOpen, Counted, LedgerInv, TypeOK
<1>4. \A k \in open' \ {id} : reservations'[k] = reservations[k]
  BY <1>1 DEF RollingOpen, Counted
<1>5. \A k \in DOMAIN reservations : /\ reservations[k].estimatedCostUsd \in Nat
                                     /\ reservations[k].createdAt \in Nat
  BY DEF LedgerInv, TypeOK, ReservationType
<1>6. CASE id \notin open'
  <2>1. open' \subseteq open
    BY <1>3, <1>6
  <2>2. \A k \in open' : reservations'[k].estimatedCostUsd <= reservations[k].estimatedCostUsd
    BY <1>4, <1>5, <1>6, <2>1 DEF RollingOpen, Counted
  <2>3. RollingUsd(p, context, t)' <= RollingUsd(p, context, t)
    BY <2>1, <2>2, RollingShrinks DEF LedgerInv
  <2>4. /\ RollingUsd(p, context, t)' \in Nat /\ RollingUsd(p, context, t) \in Nat
        /\ Policy[p].limitUsd \in Nat
    BY RollingTypes, LimitType DEF LedgerInv, Rolling, Optional
  <2> QED
    BY <2>3, <2>4
<1>7. CASE id \in open'
  <2> DEFINE rest == [k \in open' \ {id} |-> amounts'[k]]
  <2>1. /\ MatchesPolicy(p, reservations[id].context)
        /\ PolicyGroup(p, reservations[id].context) = PolicyGroup(p, context)
        /\ InBudgetWindow(now, Policy[p].window, t)
    BY <1>1, <1>2, <1>7 DEF RollingOpen, Counted
  <2>2. amounts' \in [open' -> Nat] /\ IsFiniteSet(open')
    BY RollingTypes
  <2>3. rest \in [open' \ {id} -> Nat] /\ \A k \in open' \ {id} : rest[k] = amounts'[k]
    <3> HIDE DEF open, amounts
    <3> QED
      BY <2>2
  <2>4. amounts'[id] = estimate
    BY <1>1, <1>7 DEF RollingAmounts
  <2>5. Total(amounts') = estimate + Total(rest)
    <3> HIDE DEF open, amounts, rest
    <3>1. \A f \in [open' -> Nat], g \in [open' \ {id} -> Nat] :
              (\A k \in open' \ {id} : g[k] = f[k]) => Total(f) = f[id] + Total(g)
      BY <1>7, <2>2, TotalSplit
    <3> QED
      BY <2>2, <2>3, <2>4, <3>1
  <2>6. /\ DOMAIN others = DOMAIN reservations \ {id}
        /\ \A k \in DOMAIN others : others[k] = reservations[k]
        /\ IsFiniteSet(DOMAIN others)
    <3>1. DOMAIN others \subseteq DOMAIN reservations
      BY DEF Unbind
    <3> QED
      BY <3>1, LedgerFinite, FS_Subset DEF Unbind, LedgerInv
  <2>7. open' \ {id} \subseteq Counted(others, p, context, t)
    BY <1>3, <2>6 DEF RollingOpen, Counted
  <2>8. \A k \in open' \ {id} : rest[k] = others[k].estimatedCostUsd
    BY <1>4, <2>3, <2>6, <2>7 DEF RollingAmounts, Counted
  <2>9. Allowed(others, charges, reservations[id].context, estimate, now)
    BY DEF GrowEffect
  <2>10. estimate + Total(rest) <= Policy[p].limitUsd
    <3>1. \A k \in DOMAIN others : /\ others[k].estimatedCostUsd \in Nat
                                   /\ others[k].createdAt \in Nat
                                   /\ others[k].createdAt <= now
      BY <1>5, <2>6
    <3> HIDE DEF open, amounts, rest, others
    <3>2. Counted(others, p, context, t) \subseteq Counted(others, p, reservations[id].context, now)
      BY <2>1, <3>1, EarlierCounted
    <3>3. /\ ReservedUsd(others, p, reservations[id].context, now) \in Nat
          /\ Total(rest) <= ReservedUsd(others, p, reservations[id].context, now)
      BY <2>3, <2>6, <2>7, <2>8, <3>1, <3>2, ReservedCovers
    <3>4. Total(rest) \in Nat
      BY <2>2, <2>3, FS_RemoveElement, TotalType
    <3> QED
      BY <2>1, <2>9, <3>3, <3>4, AllowedRolling
  <2> QED
    BY <2>5, <2>10 DEF RollingUsd
<1> QED
  BY <1>6, <1>7

LEMMA ThinsRolling ==
    ASSUME LedgerInv, TypeOK', Thins, NEW p \in PolicyIds, NEW context, NEW t,
           Rolling(p, context), RollingUsd(p, context, t) <= Policy[p].limitUsd
    PROVE  RollingUsd(p, context, t)' <= Policy[p].limitUsd
<1>1. RollingOpen(p, context, t)' \subseteq RollingOpen(p, context, t)
  BY DEF Thins, RollingOpen, Counted
<1>2. \A k \in RollingOpen(p, context, t)' :
         reservations'[k].estimatedCostUsd <= reservations[k].estimatedCostUsd
  BY DEF Thins, RollingOpen, Counted
<1>3. RollingUsd(p, context, t)' <= RollingUsd(p, context, t)
  BY <1>1, <1>2, RollingShrinks DEF LedgerInv
<1>4. /\ RollingUsd(p, context, t)' \in Nat /\ RollingUsd(p, context, t) \in Nat
      /\ Policy[p].limitUsd \in Nat
  BY RollingTypes, LimitType DEF LedgerInv, Rolling, Optional
<1> QED
  BY <1>3, <1>4

LEMMA StampsRolling ==
    ASSUME LedgerInv, TypeOK', RollingBudgetHeld, NEW now \in Nat, Stamps(now),
           \A k \in DOMAIN reservations : reservations[k].createdAt <= now
    PROVE  RollingBudgetHeld'
<1> SUFFICES ASSUME NEW p \in PolicyIds, NEW context \in Contexts, NEW t \in Times,
                    Rolling(p, context)
             PROVE  RollingUsd(p, context, t)' <= Policy[p].limitUsd
  BY DEF RollingBudgetHeld, Rolling, RollingUsd, RollingAmounts, RollingOpen, Enforced, Calendar,
     MatchesPolicy, Times
<1>1. RollingUsd(p, context, t) <= Policy[p].limitUsd
  BY DEF RollingBudgetHeld, Rolling, RollingUsd, RollingAmounts, RollingOpen
<1>2. t \in Nat
  BY FirewallAssumption DEF Times
<1> QED
  BY <1>1, <1>2, ThinsRolling, ReserveRolling, GrowRolling DEF Stamps

-----------------------------------------------------------------------------
(***************************************************************************)
(* The inductive invariant, for the firewall alone and under clients.      *)
(***************************************************************************)
LEMMA InitRolling ==
    ASSUME Init
    PROVE  RollingInv
<1>1. QueueOrder /\ StampsBehind
  BY DEF Init, QueueOrder, StampsBehind, Idle, NoCall
<1>2. ASSUME NEW p \in PolicyIds, NEW context, NEW t, Rolling(p, context)
      PROVE  RollingUsd(p, context, t) <= Policy[p].limitUsd
  <2>1. DOMAIN RollingAmounts(p, context, t) = {}
    BY DEF Init, RollingAmounts, RollingOpen, Counted
  <2>2. RollingUsd(p, context, t) = 0
    BY <2>1, TotalEmpty DEF RollingUsd
  <2>3. Policy[p].limitUsd \in Nat
    BY <1>2, LimitType DEF Rolling, Optional
  <2> QED
    BY <2>2, <2>3
<1>3. RollingBudgetHeld
  BY <1>2 DEF RollingBudgetHeld, Rolling, RollingUsd, RollingAmounts, RollingOpen
<1> QED
  BY <1>1, <1>3 DEF RollingInv

LEMMA QuietRolling ==
    ASSUME RollingBudgetHeld, UNCHANGED <<reservations, admission>>
    PROVE  RollingBudgetHeld'
BY DEF RollingBudgetHeld, Counted, Enforced, Calendar, MatchesPolicy, PolicyGroup, Times

LEMMA EnqueueRolling ==
    ASSUME OneMutex, LedgerInv, RollingInv, NEW c \in Callers, NEW op \in OperationNames,
           NEW request, NEW id, NEW costUsd, Enqueue(c, op, request, id, costUsd)
    PROVE  RollingInv'
<1>1. RollingBudgetHeld'
  BY QuietRolling DEF RollingInv, Enqueue
<1> QED
  BY <1>1, EnqueueOrder DEF RollingInv, LedgerInv

LEMMA CommitRolling ==
    ASSUME LedgerInv, TypeOK', RollingInv, NEW c \in Callers,
           \/ CommitReserve(c) \/ CommitSettle(c) \/ CommitResize(c)
           \/ CommitRelease(c) \/ CommitRecordActual(c) \/ StoreFailure(c)
    PROVE  RollingInv'
<1>1. /\ ~Idle(c) /\ Stamps(call[c].now)
      /\ QueueOrder' /\ StampsBehind'
  BY CommitStamps, CommitOrder DEF RollingInv, LedgerInv
<1>2. \A k \in DOMAIN reservations : reservations[k].createdAt <= call[c].now
  BY <1>1 DEF RollingInv, StampsBehind
<1>3. call[c].now \in Nat
  BY CallArguments DEF LedgerInv
<1>4. RollingBudgetHeld'
  BY <1>1, <1>2, <1>3, StampsRolling DEF RollingInv
<1> QED
  BY <1>1, <1>4 DEF RollingInv

\* Time passes, or nothing happens to the queue and the ledger.
LEMMA TickRolling ==
    ASSUME TypeOK, RollingInv, UNCHANGED <<reservations, call, ahead, admission>>,
           clock' \in {clock, clock + 1}
    PROVE  RollingInv'
<1>1. RollingBudgetHeld'
  BY QuietRolling DEF RollingInv
<1>2. QueueOrder'
  BY DEF RollingInv, QueueOrder, Idle
<1>3. /\ \A c \in Callers : call[c].now \in Nat
      /\ \A id \in DOMAIN reservations : reservations[id].createdAt \in Nat
      /\ clock \in Nat
  BY CallArguments DEF TypeOK, ReservationType
<1>4. StampsBehind'
  BY <1>3 DEF RollingInv, StampsBehind, Idle
<1> QED
  BY <1>1, <1>2, <1>4 DEF RollingInv

LEMMA NextRolling ==
    ASSUME OneMutex, LedgerInv, RollingInv, [Next]_vars
    PROVE  RollingInv'
<1>1. TypeOK /\ TypeOK'
  BY NextType DEF LedgerInv
<1>2. ASSUME NEW c \in Callers,
             \/ BeginReserve(c) \/ BeginSettle(c) \/ BeginResize(c)
             \/ BeginRelease(c) \/ BeginRecordActual(c)
      PROVE  RollingInv'
  BY <1>2, EnqueueRolling DEF BeginReserve, BeginSettle, BeginResize, BeginRelease,
     BeginRecordActual, OperationNames
<1>3. ASSUME NEW c \in Callers, RejectRequest(c) PROVE RollingInv'
  BY <1>1, <1>3, TickRolling DEF RejectRequest
<1>4. CASE Tick
  BY <1>1, <1>4, TickRolling DEF Tick
<1>5. CASE UNCHANGED vars
  BY <1>1, <1>5, TickRolling DEF vars
<1> QED
  BY <1>1, <1>2, <1>3, <1>4, <1>5, CommitRolling DEF Next

\* Within one process, two requests never both consume the same remaining rolling budget
\* (policy.ts inBudgetWindow; firewall.ts:120): for every configuration, the reservations
\* admitted into a rolling window and still open never add up to more than its limit.
THEOREM RollingBudgetNeverShared ==
    ASSUME OneMutex
    PROVE  Spec => []RollingBudgetHeld
<1>1. Init => RollingInv
  BY InitRolling
<1>2. LedgerInv /\ RollingInv /\ [Next]_vars => RollingInv'
  BY NextRolling
<1>3. RollingInv => RollingBudgetHeld
  BY DEF RollingInv
<1> QED
  BY <1>1, <1>2, <1>3, LedgerCorrect, PTL DEF Spec
=============================================================================
