---------------------------- MODULE ClientProofs ----------------------------
(***************************************************************************)
(* What the clients of SpendFirewall can rely on, for any number of        *)
(* callers, every configuration and every order of their steps: protects   *)
(* and calls on handles that race (Protect), workflows behind the HTTP     *)
(* sidecar and its status page (Sidecar), and a workload whose plan was    *)
(* checked beforehand (SpendPlan).                                         *)
(***************************************************************************)
EXTENDS Protect, Sidecar, SpendPlan, SpendFirewallProofs

-----------------------------------------------------------------------------
(***************************************************************************)
(* protect and handles.  Every reservation has one owner: the protect that *)
(* runs an operation under it, or the handle that reserve gave out; nobody *)
(* else calls the firewall with its id.                                    *)
(***************************************************************************)
Stages == {"none", "reserving", "operation", "cost", "settling", "releasing", "reserve", "answered"}
            \cup HandleCalls

\* The stages of a protect that has its reservation.
Working == {"operation", "cost", "settling", "releasing"}

\* The ways a protect that had its reservation ends, other than with the error of a release.
Endings == {"value", "operation-error", "reconcile-operation", "reconcile-cost-calculation",
            "reconcile-settlement"}

ClientType ==
    /\ task \in [Callers -> [stage : Stages, id : Optional(Ids), result : Answers,
                             amount : Optional(Nat)]]
    /\ handle \in [DOMAIN handle -> [estimateUsd : Nat, closed : BOOLEAN]]
    /\ operation \in [DOMAIN operation -> [key : Optional(Keys), waived : BOOLEAN]]
    /\ outcome \in [Callers -> [result : Answers \cup Endings, id : Optional(Ids)]]
    /\ DOMAIN handle \subseteq DOMAIN admission
    /\ DOMAIN operation \subseteq DOMAIN admission \ DOMAIN handle

\* The call a caller has in flight is the one of its stage, on a reservation of its own.
CallsMatch ==
    \A c \in Callers :
        LET stage == task[c].stage
        IN  /\ stage \in {"none", "operation", "cost", "answered"} => Idle(c)
            /\ stage \in {"reserving", "reserve"} => call[c].op = "reserve"
            /\ stage \in {"releasing", "release"} => call[c].op = "release"
            /\ stage \in {"settling", "settle"} => call[c].op = "settle"
            /\ stage \in {"resize", "topUp"} => call[c].op = "resize"
            /\ stage \in {"settling", "releasing"} \cup HandleCalls => call[c].id = task[c].id
            /\ stage \in Working => task[c].id \in DOMAIN operation
            /\ stage \in HandleCalls \cup {"answered"} => task[c].id \in DOMAIN handle

\* A reservation that protect works on is open and of that protect alone; the reservations of
\* ended protects are nobody's.
Owned ==
    /\ \A c \in Callers : task[c].stage \in Working => task[c].id \in DOMAIN reservations
    /\ \A c, d \in Callers :
          /\ task[d].stage \in Working => outcome[c].id # task[d].id
          /\ c # d /\ task[c].stage \in Working /\ task[d].stage \in Working
                => task[c].id # task[d].id
    /\ \A c \in Callers : /\ outcome[c].id \in DOMAIN operation \cup {Undefined}
                          /\ outcome[c].result \in Endings => outcome[c].id # Undefined

\* A record of the reservation, open or charged, carries the key.
CarriesKey(id, key) ==
    /\ id \in DOMAIN reservations => reservations[id].idempotencyKey = key
    /\ \A i \in DOMAIN charges : charges[i].reservationId = id => charges[i].idempotencyKey = key

\* What clients remember agrees with the ledger.
Remembered ==
    /\ \A id \in DOMAIN operation : CarriesKey(id, operation[id].key)
    /\ \A c \in Callers :
          /\ task[c].stage = "releasing" => operation[task[c].id].waived
          /\ task[c].stage = "answered" /\ task[c].result \in {"settled", "released"}
                => task[c].id \notin DOMAIN reservations
          /\ task[c].stage = "answered" /\ task[c].result = "resized" => task[c].amount \in Nat

ClientInv ==
    /\ LedgerInv /\ ClientType /\ CallsMatch /\ Owned /\ Remembered
    /\ PaidWorkIsHeld /\ OutcomeIsTrue /\ ClosedMeansGone

-----------------------------------------------------------------------------
(***************************************************************************)
(* What a commit does to one reservation.                                  *)
(***************************************************************************)
Same(id) ==
    /\ id \in DOMAIN reservations' <=> id \in DOMAIN reservations
    /\ Charged(id)' <=> Charged(id)

LEMMA QuietSame ==
    ASSUME UNCHANGED <<reservations, charges>>
    PROVE  \A id : Same(id)
BY DEF Same, Charged

LEMMA ReserveMoves ==
    ASSUME LedgerInv, NEW c \in Callers, CommitReserve(c)
    PROVE  /\ call' = [call EXCEPT ![c] = NoCall]
           /\ answer' \in Answers
           /\ DOMAIN admission \subseteq DOMAIN admission'
           /\ \A id \in DOMAIN admission : Same(id)
           /\ \A id \in DOMAIN reservations' \ DOMAIN reservations :
                 /\ id \in Ids \ DOMAIN admission
                 /\ id \in DOMAIN admission'
                 /\ ~Charged(id)'
                 /\ reservations'[id].idempotencyKey = call[c].request.idempotencyKey
                 /\ reservations'[id].idempotencyKey \in Optional(Keys)
                 /\ reservations'[id].estimatedCostUsd \in Nat
<1> DEFINE request == call[c].request
           record == [context |-> request.context,
                      estimatedCostUsd |-> request.estimatedCostUsd,
                      createdAt |-> call[c].now,
                      idempotencyKey |-> request.idempotencyKey,
                      fingerprint |-> RequestFingerprint(request)]
<1>1. request \in NormalRequestType
  BY CallArguments DEF CommitReserve, Turn, LedgerInv
<1>2. call' = [call EXCEPT ![c] = NoCall] /\ answer' \in Answers
  BY DEF CommitReserve, RefuseKey, Refuse, Answer, Dequeue, Answers, Refusals, Successes
<1>3. CASE UNCHANGED <<reservations, charges, admission>>
  BY <1>2, <1>3, QuietSame
<1>4. CASE /\ \E id \in Ids \ DOMAIN admission :
                 /\ reservations' = Bind(reservations, id, record)
                 /\ admission' = Bind(admission, id, [createdAt |-> call[c].now,
                                                      approvedAt |-> call[c].now])
           /\ UNCHANGED charges
  <2>1. PICK id \in Ids \ DOMAIN admission :
            /\ reservations' = Bind(reservations, id, record)
            /\ admission' = Bind(admission, id, [createdAt |-> call[c].now,
                                                 approvedAt |-> call[c].now])
    BY <1>4
  <2>2. /\ DOMAIN reservations' = DOMAIN reservations \cup {id}
        /\ DOMAIN admission' = DOMAIN admission \cup {id}
        /\ reservations'[id] = record
    BY <2>1 DEF Bind
  <2>3. \A k : Charged(k)' <=> Charged(k)
    BY <1>4 DEF Charged
  <2>4. ~Charged(id)
    BY FirewallAssumption DEF Charged, LedgerInv, HistoryOK
  <2>5. \A k \in DOMAIN admission : Same(k)
    BY <2>2, <2>3 DEF Same
  <2>6. /\ record.idempotencyKey = request.idempotencyKey
        /\ record.idempotencyKey \in Optional(Keys)
        /\ record.estimatedCostUsd \in Nat
    BY <1>1 DEF NormalRequestType
  <2> QED
    BY <1>2, <2>2, <2>3, <2>4, <2>5, <2>6
<1> QED
  BY <1>3, <1>4 DEF CommitReserve, RefuseKey, Refuse

LEMMA SettleMoves ==
    ASSUME LedgerInv, NEW c \in Callers, CommitSettle(c)
    PROVE  /\ call' = [call EXCEPT ![c] = NoCall]
           /\ answer' \in Answers \ {"released", "resized"}
           /\ admission' = admission
           /\ \A id \in DOMAIN admission \ {call[c].id} : Same(id)
           /\ \A id : id = call[c].id => /\ id \notin DOMAIN reservations'
                                         /\ id \in DOMAIN reservations => Charged(id)'
                                         /\ id \notin DOMAIN reservations => answer' # "settled"
<1> SUFFICES ASSUME NEW id, id = call[c].id
             PROVE  /\ call' = [call EXCEPT ![c] = NoCall]
                    /\ answer' \in Answers \ {"released", "resized"}
                    /\ admission' = admission
                    /\ \A k \in DOMAIN admission \ {id} : Same(k)
                    /\ id \notin DOMAIN reservations'
                    /\ id \in DOMAIN reservations => Charged(id)'
                    /\ id \notin DOMAIN reservations => answer' # "settled"
  OBVIOUS
<1> DEFINE charge == SettledCharge(id, call[c].costUsd, call[c].now)
<1>1. /\ call' = [call EXCEPT ![c] = NoCall]
      /\ answer' \in Answers \ {"released", "resized"}
      /\ admission' = admission
  BY DEF CommitSettle, Refuse, Answer, Dequeue, Answers, Refusals, Successes
<1>2. CASE id \notin DOMAIN reservations /\ Refuse(c, "not-found")
  BY <1>1, <1>2, QuietSame DEF Refuse
<1>3. CASE /\ id \in DOMAIN reservations
           /\ reservations' = Unbind(reservations, id)
           /\ charges' = Append(charges, charge)
  <2>1. charge \in ChargeType /\ charge.reservationId = id
    <3>1. call[c].costUsd \in Nat /\ call[c].now \in Nat
      BY CallArguments DEF CommitSettle, Turn, LedgerInv
    <3> QED
      BY <1>3, <3>1, SettledChargeType DEF LedgerInv, SettledCharge
  <2> HIDE DEF charge
  <2>2. /\ DOMAIN charges' = DOMAIN charges \cup {Len(charges) + 1}
        /\ \A i \in DOMAIN charges : charges'[i] = charges[i]
        /\ charges'[Len(charges) + 1] = charge
    BY <1>3, <2>1, AppendFacts DEF LedgerInv
  <2>3. DOMAIN reservations' = DOMAIN reservations \ {id}
    BY <1>3 DEF Unbind
  <2>4. Charged(id)'
    BY <2>1, <2>2 DEF Charged
  <2>5. ASSUME NEW k, k # id PROVE Charged(k)' <=> Charged(k)
    <3>1. charges'[Len(charges) + 1].reservationId # k
      BY <2>1, <2>2, <2>5
    <3> QED
      BY <2>2, <3>1 DEF Charged
  <2> QED
    BY <1>1, <1>3, <2>3, <2>4, <2>5 DEF Same
<1> QED
  BY <1>2, <1>3 DEF CommitSettle

LEMMA ReleaseMoves ==
    ASSUME LedgerInv, NEW c \in Callers, CommitRelease(c)
    PROVE  /\ call' = [call EXCEPT ![c] = NoCall]
           /\ answer' \in Answers \ {"settled", "resized"}
           /\ admission' = admission
           /\ \A id \in DOMAIN admission \ {call[c].id} : Same(id)
           /\ \A id : Charged(id)' <=> Charged(id)
           /\ call[c].id \notin DOMAIN reservations'
<1>1. /\ call' = [call EXCEPT ![c] = NoCall]
      /\ answer' \in Answers \ {"settled", "resized"}
      /\ admission' = admission /\ charges' = charges
  BY DEF CommitRelease, Refuse, Answer, Dequeue, Answers, Refusals, Successes
<1>2. DOMAIN reservations' = DOMAIN reservations \ {call[c].id}
  BY DEF CommitRelease, Refuse, Unbind
<1> QED
  BY <1>1, <1>2 DEF Same, Charged

LEMMA ResizeMoves ==
    ASSUME LedgerInv, NEW c \in Callers, CommitResize(c)
    PROVE  /\ call' = [call EXCEPT ![c] = NoCall]
           /\ answer' \in Answers \ {"settled", "released"}
           /\ DOMAIN admission' = DOMAIN admission
           /\ \A id : Same(id)
<1>1. /\ call' = [call EXCEPT ![c] = NoCall]
      /\ answer' \in Answers \ {"settled", "released"}
      /\ DOMAIN admission' = DOMAIN admission
      /\ charges' = charges
  BY DEF CommitResize, Refuse, Answer, Dequeue, Answers, Refusals, Successes
<1>2. DOMAIN reservations' = DOMAIN reservations
  BY DEF CommitResize, Refuse, PutBack, Bind, Unbind
<1> QED
  BY <1>1, <1>2 DEF Same, Charged

LEMMA FailureMoves ==
    ASSUME NEW c \in Callers, StoreFailure(c)
    PROVE  /\ call' = [call EXCEPT ![c] = NoCall]
           /\ answer' = "store-error"
           /\ UNCHANGED <<reservations, charges, admission>>
           /\ \A id : Same(id)
BY QuietSame DEF StoreFailure, Refuse, Dequeue

\* No step takes the key off a record, or gives a reservation a record under another key.
LEMMA KeysCarried ==
    ASSUME LedgerInv, LedgerEffect, NEW id \in DOMAIN admission, NEW key, CarriesKey(id, key)
    PROVE  CarriesKey(id, key)'
<1> USE DEF CarriesKey
<1>1. CASE UNCHANGED <<reservations, charges, admission>>
  BY <1>1
<1>2. ASSUME NEW new \in Ids, NEW record \in ReservationType, ReserveEffect(new, record)
      PROVE  CarriesKey(id, key)'
  BY <1>2 DEF ReserveEffect, Bind
<1>3. ASSUME NEW settled \in Ids, NEW charge \in ChargeType, SettleEffect(settled, charge)
      PROVE  CarriesKey(id, key)'
  <2>1. /\ DOMAIN charges' = DOMAIN charges \cup {Len(charges) + 1}
        /\ \A i \in DOMAIN charges : charges'[i] = charges[i]
        /\ charges'[Len(charges) + 1] = charge
    BY <1>3, AppendFacts DEF SettleEffect, LedgerInv
  <2>2. /\ DOMAIN reservations' \subseteq DOMAIN reservations
        /\ \A k \in DOMAIN reservations' : reservations'[k] = reservations[k]
    BY <1>3 DEF SettleEffect, Unbind
  <2> QED
    BY <1>3, <2>1, <2>2 DEF SettleEffect
<1>4. ASSUME NEW resized \in Ids, NEW estimate \in Nat, NEW now \in Nat,
             ShrinkEffect(resized, estimate) \/ GrowEffect(resized, estimate, now)
      PROVE  CarriesKey(id, key)'
  <2>1. /\ DOMAIN reservations' = DOMAIN reservations
        /\ \A k \in DOMAIN reservations :
              reservations'[k].idempotencyKey = reservations[k].idempotencyKey
    BY <1>4, ResizeFacts DEF ShrinkEffect, GrowEffect, LedgerInv
  <2> QED
    BY <1>4, <2>1 DEF ShrinkEffect, GrowEffect
<1>5. ASSUME NEW released \in Ids, ReleaseEffect(released) PROVE CarriesKey(id, key)'
  BY <1>5 DEF ReleaseEffect, Unbind
<1>6. ASSUME NEW charge \in ChargeType, RecordEffect(charge) PROVE CarriesKey(id, key)'
  <2>1. /\ DOMAIN charges' = DOMAIN charges \cup {Len(charges) + 1}
        /\ \A i \in DOMAIN charges : charges'[i] = charges[i]
        /\ charges'[Len(charges) + 1] = charge
    BY <1>6, AppendFacts DEF RecordEffect, LedgerInv
  <2>2. id # Undefined
    BY FirewallAssumption DEF LedgerInv, TypeOK
  <2> QED
    BY <1>6, <2>1, <2>2 DEF RecordEffect
<1> QED
  BY <1>1, <1>2, <1>3, <1>4, <1>5, <1>6 DEF LedgerEffect

-----------------------------------------------------------------------------
(***************************************************************************)
(* The ledger under clients: their steps are those of SpendFirewall, and a *)
(* topUp resizes to the sum its handle computed.                           *)
(***************************************************************************)
LEMMA EnqueuePreserves ==
    ASSUME LedgerInv, NEW c \in Callers, NEW op \in OperationNames,
           NEW id \in Ids, NEW costUsd \in Optional(Nat),
           op \in {"settle", "resize", "release"},
           op \in {"settle", "resize"} => costUsd # Undefined,
           Enqueue(c, op, Undefined, id, costUsd)
    PROVE  LedgerInv' /\ LedgerEffect
<1>1. TypeOK'
  <2>1. /\ Undefined \in Optional(NormalRequestType) /\ id \in Optional(Ids)
        /\ id # Undefined
    BY FirewallAssumption DEF Optional
  <2> QED
    BY <2>1, EnqueueType DEF LedgerInv
<1>2. UNCHANGED <<reservations, charges, admission, told>>
  BY DEF Enqueue
<1>3. \A key \in Keys : Pending(key)' = Pending(key) /\ Settled(key)' = Settled(key)
  BY <1>2 DEF Pending, Settled
<1>4. HistoryOK' /\ ChargedOnce' /\ OneRecordPerKey'
  BY <1>2, <1>3 DEF LedgerInv, HistoryOK, ChargedOnce, OneRecordPerKey
<1> QED
  BY <1>1, <1>2, <1>4 DEF LedgerInv, LedgerEffect

LEMMA FirewallStep ==
    ASSUME LedgerInv, [Next]_vars
    PROVE  LedgerInv' /\ LedgerEffect
BY NextLedger, StepHasEffect DEF LedgerInv

\* The reservation of a task is one that was made.
LEMMA TaskId ==
    ASSUME ClientInv, NEW c \in Callers,
           task[c].stage \in Working \cup HandleCalls \cup {"answered"}
    PROVE  task[c].id \in Ids
BY DEF ClientInv, LedgerInv, TypeOK, ClientType, CallsMatch

LEMMA ClientLedger ==
    ASSUME ClientInv, NextClients
    PROVE  LedgerInv' /\ LedgerEffect
<1>1. LedgerInv
  BY DEF ClientInv
<1>2. ASSUME NEW c \in Callers,
             \/ BeginReserve(c) \/ CommitReserve(c) \/ CommitSettle(c) \/ CommitRelease(c)
             \/ CommitResize(c) \/ StoreFailure(c)
      PROVE  LedgerInv' /\ LedgerEffect
  BY <1>1, <1>2, FirewallStep DEF Next
<1>3. ASSUME NEW c \in Callers, NEW id \in Ids, Enqueue(c, "release", Undefined, id, Undefined)
      PROVE  LedgerInv' /\ LedgerEffect
  BY <1>1, <1>3, EnqueuePreserves DEF OperationNames, Optional
<1>4. ASSUME NEW c \in Callers, NEW id \in Ids, NEW op \in {"settle", "resize"},
             NEW amount \in Nat, Enqueue(c, op, Undefined, id, amount)
      PROVE  LedgerInv' /\ LedgerEffect
  <2>1. amount \in Optional(Nat) /\ amount # Undefined
    BY PolicyAssumption DEF Optional
  <2> QED
    BY <1>1, <1>4, <2>1, EnqueuePreserves DEF OperationNames
<1>5. CASE UNCHANGED vars
  BY <1>1, <1>5, FirewallStep
<1>6. CASE Tick
  BY <1>1, <1>6, FirewallStep DEF Next
<1>7. ASSUME NEW c \in Callers, OperationThrows(c) PROVE LedgerInv' /\ LedgerEffect
  <2>1. task[c].id \in Ids
    BY <1>7, TaskId DEF OperationThrows, Stage, Working
  <2> QED
    BY <1>3, <1>5, <1>7, <2>1 DEF OperationThrows
<1>8. ASSUME NEW c \in Callers, CostKnown(c) PROVE LedgerInv' /\ LedgerEffect
  <2>1. task[c].id \in Ids
    BY <1>8, TaskId DEF CostKnown, Stage, Working
  <2> QED
    BY <1>4, <1>8, <2>1, FirewallAssumption DEF CostKnown
<1>9. ASSUME NEW c \in Callers, StartHandleCall(c) PROVE LedgerInv' /\ LedgerEffect
  <2>1. PICK id \in DOMAIN handle :
            \/ CallHandle(c, "release", "release", id, Undefined)
            \/ \E amount \in Amounts :
                  \/ CallHandle(c, "settle", "settle", id, amount)
                  \/ CallHandle(c, "resize", "resize", id, amount)
                  \/ CallHandle(c, "topUp", "resize", id, handle[id].estimateUsd + amount)
    BY <1>9 DEF StartHandleCall
  <2>2. id \in Ids /\ handle[id].estimateUsd \in Nat
    BY <1>1 DEF ClientInv, ClientType, LedgerInv, TypeOK
  <2>3. \A amount \in Amounts : amount \in Nat /\ handle[id].estimateUsd + amount \in Nat
    BY <2>2, FirewallAssumption
  <2> QED
    BY <1>3, <1>4, <2>1, <2>2, <2>3 DEF CallHandle
<1>10. ASSUME NEW c \in Callers,
              \/ StartProtect(c) \/ OperationReturns(c) \/ CostThrows(c) \/ StoreAnswers(c)
              \/ StartReserve(c) \/ HandleReserved(c) \/ HandleAnswered(c) \/ Resume(c)
       PROVE  LedgerInv' /\ LedgerEffect
  BY <1>2, <1>5, <1>10 DEF StartProtect, OperationReturns, CostThrows, StoreAnswers,
     ProtectReserved, ProtectReleased, ProtectSettled, StartReserve, HandleReserved,
     HandleAnswered, Resume
<1> QED
  BY <1>6, <1>7, <1>8, <1>9, <1>10 DEF NextClients

-----------------------------------------------------------------------------
(***************************************************************************)
(* Steps that leave the ledger alone.                                      *)
(***************************************************************************)
ClientState ==
    /\ ClientType /\ CallsMatch /\ Owned /\ Remembered
    /\ PaidWorkIsHeld /\ OutcomeIsTrue /\ ClosedMeansGone

\* What is kept when neither the ledger nor what clients remember of it changes.
LEMMA QuietClients ==
    ASSUME ClientInv, UNCHANGED <<reservations, charges, admission, handle, operation>>
    PROVE  /\ PaidWorkIsHeld' /\ ClosedMeansGone'
           /\ outcome' = outcome => OutcomeIsTrue'
           /\ (\A id \in DOMAIN operation : CarriesKey(id, operation[id].key))'
BY DEF ClientInv, PaidWorkIsHeld, OutcomeIsTrue, ClosedMeansGone, Remembered, CarriesKey, Charged

LEMMA TickClients ==
    ASSUME ClientInv, Tick, UNCHANGED <<task, clientVars>>
    PROVE  ClientState'
<1>1. UNCHANGED <<reservations, charges, admission, call, handle, operation, outcome>>
  BY DEF Tick, clientVars
<1>2. ClientType' /\ CallsMatch' /\ Owned'
  BY <1>1 DEF ClientInv, ClientType, CallsMatch, Owned, Idle
<1>3. Remembered'
  BY <1>1, QuietClients DEF ClientInv, Remembered
<1> QED
  BY <1>1, <1>2, <1>3, QuietClients DEF ClientState

LEMMA StartClients ==
    ASSUME ClientInv, NEW c \in Callers, StartProtect(c) \/ StartReserve(c)
    PROVE  ClientState'
<1>1. PICK stage \in {"reserving", "reserve"} :
          /\ task' = [task EXCEPT ![c] = [stage |-> stage, id |-> Undefined, result |-> "none",
                                          amount |-> Undefined]]
          /\ BeginReserve(c)
  BY DEF StartProtect, StartReserve, Go, Task, NoTask
<1>2. /\ UNCHANGED <<reservations, charges, admission, handle, operation, outcome>>
      /\ \A d \in Callers \ {c} : call'[d] = call[d]
      /\ call'[c].op = "reserve"
  BY DEF StartProtect, StartReserve, BeginReserve, Enqueue, clientVars, ClientInv, LedgerInv, TypeOK
<1>3. ClientType'
  BY <1>1, <1>2 DEF ClientInv, ClientType, Stages, Optional, Answers
<1>4. CallsMatch'
  BY <1>1, <1>2 DEF ClientInv, ClientType, CallsMatch, Idle, Working, HandleCalls
<1>5. Owned'
  BY <1>1, <1>2 DEF ClientInv, ClientType, Owned, Working
<1>6. Remembered'
  BY <1>1, <1>2, QuietClients DEF ClientInv, ClientType, Remembered
<1> QED
  BY <1>2, <1>3, <1>4, <1>5, <1>6, QuietClients DEF ClientState

\* A protect goes on with the reservation it works on, and its call is the one of its stage.
LEMMA WorkGoesOn ==
    ASSUME ClientInv, NEW c \in Callers, NEW stage \in Working, task[c].stage \in Working,
           task' = [task EXCEPT ![c] = Task(stage, task[c].id)],
           UNCHANGED <<reservations, charges, admission, handle, outcome>>,
           \A d \in Callers \ {c} : call'[d] = call[d],
           stage = "cost" => Idle(c)',
           stage = "settling" => call'[c].op = "settle" /\ call'[c].id = task[c].id,
           stage = "releasing" => call'[c].op = "release" /\ call'[c].id = task[c].id,
           stage # "operation",
           \/ stage # "releasing" /\ operation' = operation
           \/ operation' = [operation EXCEPT ![task[c].id].waived = TRUE]
    PROVE  ClientState'
<1> DEFINE mine == task[c].id
<1>1. /\ mine \in DOMAIN operation /\ mine \in Ids
      /\ mine \in DOMAIN reservations
      /\ task'[c] = [stage |-> stage, id |-> mine, result |-> "none", amount |-> Undefined]
      /\ \A d \in Callers \ {c} : task'[d] = task[d]
  BY TaskId DEF ClientInv, ClientType, CallsMatch, Owned, Task, NoTask
<1>2. /\ DOMAIN operation' = DOMAIN operation
      /\ \A id \in DOMAIN operation : /\ operation'[id].key = operation[id].key
                                      /\ operation[id].waived => operation'[id].waived
      /\ operation' \in [DOMAIN operation' -> [key : Optional(Keys), waived : BOOLEAN]]
      /\ stage = "releasing" => operation'[mine].waived
  <2>1. CASE stage # "releasing" /\ operation' = operation
    BY <2>1 DEF ClientInv, ClientType
  <2>2. CASE operation' = [operation EXCEPT ![mine].waived = TRUE]
    <3>1. operation[mine] \in [key : Optional(Keys), waived : BOOLEAN]
      BY <1>1 DEF ClientInv, ClientType
    <3>2. operation'[mine] = [operation[mine] EXCEPT !.waived = TRUE]
      BY <1>1, <2>2
    <3> QED
      BY <2>2, <3>1, <3>2 DEF ClientInv, ClientType
  <2> QED
    BY <2>1, <2>2
<1> HIDE DEF mine
<1>3. ClientType'
  <2>1. /\ stage \in Stages /\ mine \in Optional(Ids) /\ Undefined \in Optional(Nat)
        /\ "none" \in Answers
    BY <1>1 DEF Working, Stages, Optional, Answers
  <2>2. task' \in [Callers -> [stage : Stages, id : Optional(Ids), result : Answers,
                               amount : Optional(Nat)]]
    BY <1>1, <2>1 DEF ClientInv, ClientType, mine
  <2> QED
    BY <1>2, <2>2 DEF ClientInv, ClientType
<1>4. CallsMatch'
  BY <1>1, <1>2 DEF ClientInv, CallsMatch, Idle, Working, HandleCalls, mine
<1>5. Owned'
  <2>1. \A d \in Callers : task'[d].stage \in Working
            <=> task[d].stage \in Working
    BY <1>1
  <2>2. \A d \in Callers : task'[d].id = task[d].id
    BY <1>1 DEF mine
  <2> QED
    BY <1>2, <2>1, <2>2 DEF ClientInv, Owned
<1>6. Remembered'
  BY <1>1, <1>2 DEF ClientInv, Remembered, CarriesKey, CallsMatch, Working
<1>7. PaidWorkIsHeld' /\ OutcomeIsTrue' /\ ClosedMeansGone'
  BY <1>2 DEF ClientInv, PaidWorkIsHeld, OutcomeIsTrue, ClosedMeansGone, Charged
<1> QED
  BY <1>3, <1>4, <1>5, <1>6, <1>7 DEF ClientState

\* A protect ends without a call: its caller is told that the reservation is open.
LEMMA EndsOpen ==
    ASSUME ClientInv, NEW c \in Callers, task[c].stage \in {"operation", "cost"},
           NEW result \in {"reconcile-operation", "reconcile-cost-calculation"},
           End(c, result, task[c].id),
           UNCHANGED <<vars, handle, operation>>
    PROVE  ClientState'
<1> DEFINE mine == task[c].id
<1>1. /\ mine \in DOMAIN operation /\ mine \in Ids /\ mine # Undefined
      /\ mine \in DOMAIN reservations
      /\ Idle(c)
      /\ \A d \in Callers \ {c} : outcome[d].id # mine
                                  /\ (task[d].stage \in Working => task[d].id # mine)
  BY TaskId, FirewallAssumption DEF ClientInv, ClientType, CallsMatch, Owned, Working
<1>2. /\ task' = [task EXCEPT ![c] = NoTask]
      /\ outcome' = [outcome EXCEPT ![c] = [result |-> result, id |-> mine]]
      /\ UNCHANGED <<reservations, charges, admission, call, handle, operation>>
  BY DEF End, Go, vars
<1> HIDE DEF mine
<1>3. ClientType'
  <2>1. NoTask \in [stage : Stages, id : Optional(Ids), result : Answers, amount : Optional(Nat)]
    BY DEF NoTask, Stages, Optional, Answers
  <2>2. [result |-> result, id |-> mine] \in [result : Answers \cup Endings, id : Optional(Ids)]
    BY <1>1 DEF Endings, Optional
  <2> QED
    BY <1>2, <2>1, <2>2 DEF ClientInv, ClientType
<1>4. CallsMatch'
  BY <1>1, <1>2 DEF ClientInv, ClientType, CallsMatch, Idle, NoTask, Working, HandleCalls
<1>5. Owned'
  BY <1>1, <1>2 DEF ClientInv, ClientType, Owned, NoTask, Working
<1>6. Remembered'
  BY <1>2, QuietClients DEF ClientInv, ClientType, Remembered, NoTask
<1>7. OutcomeIsTrue'
  <2>1. outcome'[c] = [result |-> result, id |-> mine]
           /\ \A d \in Callers \ {c} : outcome'[d] = outcome[d]
    BY <1>2 DEF ClientInv, ClientType
  <2> QED
    BY <1>1, <1>2, <2>1 DEF ClientInv, OutcomeIsTrue, Charged
<1> QED
  BY <1>2, <1>3, <1>4, <1>5, <1>6, <1>7, QuietClients DEF ClientState

LEMMA WorkClients ==
    ASSUME ClientInv, NEW c \in Callers,
           OperationReturns(c) \/ OperationThrows(c) \/ CostThrows(c) \/ CostKnown(c)
    PROVE  ClientState'
<1> USE DEF Stage, Go, Working, clientVars
<1>1. CASE OperationReturns(c)
  <2>1. Idle(c)' /\ UNCHANGED vars
    BY <1>1 DEF OperationReturns, ClientInv, CallsMatch, Idle, vars
  <2> QED
    BY <1>1, <2>1, WorkGoesOn DEF OperationReturns, vars
<1>2. ASSUME NEW op \in OperationNames, NEW costUsd,
             Enqueue(c, op, Undefined, task[c].id, costUsd)
      PROVE  /\ call'[c].op = op /\ call'[c].id = task[c].id
             /\ \A d \in Callers \ {c} : call'[d] = call[d]
             /\ UNCHANGED <<reservations, charges, admission>>
  BY <1>2 DEF Enqueue, ClientInv, LedgerInv, TypeOK
<1>3. CASE OperationThrows(c)
  <2>1. CASE /\ Enqueue(c, "release", Undefined, task[c].id, Undefined)
             /\ Go(c, Task("releasing", task[c].id))
             /\ operation' = [operation EXCEPT ![task[c].id].waived = TRUE]
             /\ UNCHANGED <<outcome, handle>>
    BY <1>2, <1>3, <2>1, WorkGoesOn DEF OperationThrows, OperationNames
  <2>2. CASE /\ End(c, "reconcile-operation", task[c].id)
             /\ UNCHANGED <<vars, operation, handle>>
    BY <1>3, <2>2, EndsOpen DEF OperationThrows
  <2> QED
    BY <1>3, <2>1, <2>2 DEF OperationThrows
<1>4. CASE CostThrows(c)
  BY <1>4, EndsOpen DEF CostThrows
<1>5. CASE CostKnown(c)
  <2>1. PICK actual \in Amounts : Enqueue(c, "settle", Undefined, task[c].id, actual)
    BY <1>5 DEF CostKnown
  <2> QED
    BY <1>2, <1>5, <2>1, WorkGoesOn DEF CostKnown, OperationNames
<1> QED
  BY <1>1, <1>3, <1>4, <1>5

LEMMA HandleClients ==
    ASSUME ClientInv, NEW c \in Callers, StartHandleCall(c)
    PROVE  ClientState'
<1>1. PICK id \in DOMAIN handle, use \in HandleCalls, op \in {"resize", "settle", "release"} :
          /\ Stage(c, "none")
          /\ \E amount : Enqueue(c, op, Undefined, id, amount)
          /\ Go(c, Task(use, id))
          /\ UNCHANGED clientVars
          /\ use = "resize" \/ use = "topUp" => op = "resize"
          /\ use = "settle" => op = "settle"
          /\ use = "release" => op = "release"
  <2>1. PICK id \in DOMAIN handle :
            \/ CallHandle(c, "release", "release", id, Undefined)
            \/ \E amount \in Amounts :
                  \/ CallHandle(c, "settle", "settle", id, amount)
                  \/ CallHandle(c, "resize", "resize", id, amount)
                  \/ CallHandle(c, "topUp", "resize", id, handle[id].estimateUsd + amount)
    BY DEF StartHandleCall
  <2>2. ASSUME NEW use \in HandleCalls, NEW op \in {"resize", "settle", "release"}, NEW amount,
               CallHandle(c, use, op, id, amount),
               use = "resize" \/ use = "topUp" => op = "resize",
               use = "settle" => op = "settle",
               use = "release" => op = "release"
        PROVE  \E use_ \in HandleCalls, op_ \in {"resize", "settle", "release"} :
                  /\ Stage(c, "none")
                  /\ \E amount_ : Enqueue(c, op_, Undefined, id, amount_)
                  /\ Go(c, Task(use_, id))
                  /\ UNCHANGED clientVars
                  /\ use_ = "resize" \/ use_ = "topUp" => op_ = "resize"
                  /\ use_ = "settle" => op_ = "settle"
                  /\ use_ = "release" => op_ = "release"
    BY <2>2 DEF CallHandle
  <2> QED
    BY <2>1, <2>2 DEF HandleCalls
<1>2. /\ task' = [task EXCEPT ![c] = [stage |-> use, id |-> id, result |-> "none",
                                      amount |-> Undefined]]
      /\ UNCHANGED <<reservations, charges, admission, handle, operation, outcome>>
      /\ \A d \in Callers \ {c} : call'[d] = call[d]
      /\ call'[c].op = op /\ call'[c].id = id
      /\ id \in Ids
  <2>1. task' = [task EXCEPT ![c] = [stage |-> use, id |-> id, result |-> "none",
                                     amount |-> Undefined]]
    BY <1>1 DEF Go, Task
  <2>2. UNCHANGED <<reservations, charges, admission, handle, operation, outcome>>
    BY <1>1 DEF Enqueue, clientVars
  <2>3. PICK amount : call' = [call EXCEPT ![c] = [op |-> op, request |-> Undefined, id |-> id,
                                                  costUsd |-> amount, now |-> clock]]
    BY <1>1 DEF Enqueue
  <2>4. call \in [Callers -> CallType] /\ DOMAIN admission \subseteq Ids
    BY DEF ClientInv, LedgerInv, TypeOK
  <2>5. id \in Ids
    BY <2>4 DEF ClientInv, ClientType
  <2>6. \A d \in Callers \ {c} : call'[d] = call[d]
    BY <2>3, <2>4
  <2>7. call'[c].op = op /\ call'[c].id = id
    BY <2>3, <2>4
  <2> QED
    BY <2>1, <2>2, <2>5, <2>6, <2>7
<1>3. ClientType'
  BY <1>2 DEF ClientInv, ClientType, Stages, Optional, Answers
<1>4. CallsMatch'
  BY <1>1, <1>2 DEF ClientInv, ClientType, CallsMatch, Idle, Working, HandleCalls
<1>5. Owned'
  BY <1>2 DEF ClientInv, ClientType, Owned, Working, HandleCalls
<1>6. Remembered'
  BY <1>2, QuietClients DEF ClientInv, ClientType, Remembered, HandleCalls
<1> QED
  BY <1>2, <1>3, <1>4, <1>5, <1>6, QuietClients DEF ClientState

LEMMA ResumeClients ==
    ASSUME ClientInv, NEW c \in Callers, Resume(c)
    PROVE  ClientState'
<1> DEFINE mine == task[c].id
<1>1. /\ mine \in DOMAIN handle
      /\ task' = [task EXCEPT ![c] = NoTask]
      /\ UNCHANGED <<reservations, charges, admission, call, operation, outcome>>
      /\ Idle(c)
  BY DEF Resume, Stage, Go, vars, ClientInv, CallsMatch
<1>2. /\ handle' \in [DOMAIN handle -> [estimateUsd : Nat, closed : BOOLEAN]]
      /\ \A id \in DOMAIN handle :
            handle'[id].closed => handle[id].closed \/ id \notin DOMAIN reservations
  <2>1. handle[mine] \in [estimateUsd : Nat, closed : BOOLEAN]
    BY <1>1 DEF ClientInv, ClientType
  <2>2. CASE task[c].result = "resized"
    <3>1. task[c].amount \in Nat
      BY <2>2 DEF Resume, Stage, ClientInv, Remembered
    <3>2. handle' = [handle EXCEPT ![mine] = [handle[mine] EXCEPT !.estimateUsd = task[c].amount]]
      BY <1>1, <2>2 DEF Resume
    <3>3. /\ [handle[mine] EXCEPT !.estimateUsd = task[c].amount]
               \in [estimateUsd : Nat, closed : BOOLEAN]
          /\ [handle[mine] EXCEPT !.estimateUsd = task[c].amount].closed = handle[mine].closed
      BY <2>1, <3>1
    <3> QED
      BY <1>1, <3>2, <3>3 DEF ClientInv, ClientType
  <2>3. CASE task[c].result \in {"settled", "released"}
    <3>1. mine \notin DOMAIN reservations
      BY <2>3 DEF Resume, Stage, ClientInv, Remembered
    <3>2. handle' = [handle EXCEPT ![mine] = [handle[mine] EXCEPT !.closed = TRUE]]
      BY <1>1, <2>3 DEF Resume
    <3>3. [handle[mine] EXCEPT !.closed = TRUE] \in [estimateUsd : Nat, closed : BOOLEAN]
      BY <2>1
    <3> QED
      BY <1>1, <3>1, <3>2, <3>3 DEF ClientInv, ClientType
  <2>4. CASE task[c].result \notin {"resized", "settled", "released"}
    BY <2>4 DEF Resume, ClientInv, ClientType
  <2> QED
    BY <2>2, <2>3, <2>4
<1> HIDE DEF mine
<1>3. DOMAIN handle' = DOMAIN handle
  BY <1>2
<1>4. ClientType'
  BY <1>1, <1>2, <1>3 DEF ClientInv, ClientType, NoTask, Stages, Optional, Answers
<1>5. CallsMatch'
  BY <1>1, <1>3 DEF ClientInv, ClientType, CallsMatch, Idle, NoTask, Working, HandleCalls
<1>6. Owned'
  BY <1>1 DEF ClientInv, ClientType, Owned, NoTask, Working
<1>7. Remembered'
  BY <1>1 DEF ClientInv, ClientType, Remembered, CarriesKey, NoTask
<1>8. PaidWorkIsHeld' /\ OutcomeIsTrue' /\ ClosedMeansGone'
  BY <1>1, <1>2, <1>3 DEF ClientInv, PaidWorkIsHeld, OutcomeIsTrue, ClosedMeansGone, Charged
<1> QED
  BY <1>4, <1>5, <1>6, <1>7, <1>8 DEF ClientState

-----------------------------------------------------------------------------
(***************************************************************************)
(* Steps that commit: c's call does something to the reservation mine, and *)
(* everything is as it was for the reservations of the others.             *)
(***************************************************************************)
\* What the store does to the reservations of a call, whatever it answers.
Commits(c, mine) ==
    /\ call' = [call EXCEPT ![c] = NoCall]
    /\ DOMAIN admission \subseteq DOMAIN admission'
    /\ \A id \in DOMAIN admission \ {mine} : Same(id)
    /\ mine \in DOMAIN reservations' => mine \in DOMAIN reservations

OutcomeTrue(c) ==
    LET id == outcome[c].id
    IN  CASE outcome[c].result = "value" -> Charged(id) /\ id \notin DOMAIN reservations
          [] outcome[c].result = "operation-error" ->
                ~Charged(id) /\ id \notin DOMAIN reservations
          [] outcome[c].result \in {"reconcile-operation", "reconcile-cost-calculation"} ->
                id \in DOMAIN reservations
          [] outcome[c].result = "reconcile-settlement" ->
                id \in DOMAIN reservations \/ Charged(id)
          [] OTHER -> TRUE

\* What was told of a reservation stays true while nothing happens to it.
LEMMA OutcomeStays ==
    ASSUME NEW d \in Callers, OutcomeTrue(d), outcome'[d] = outcome[d],
           NEW id, id = outcome[d].id, Same(id) \/ outcome[d].result \notin Endings
    PROVE  OutcomeTrue(d)'
<1>1. CASE outcome[d].result \notin Endings
  BY <1>1 DEF OutcomeTrue, Endings
<1>2. CASE Same(id)
  BY <1>2 DEF OutcomeTrue, Same, Charged
<1> QED
  BY <1>1, <1>2

\* The other callers, when c's call commits on a reservation that is c's own.
LEMMA OthersKeep ==
    ASSUME ClientInv, LedgerEffect, NEW c \in Callers, NEW mine, Commits(c, mine),
           NEW d \in Callers \ {c}, task'[d] = task[d], outcome'[d] = outcome[d],
           \/ mine \notin DOMAIN operation
           \/ /\ task[c].stage \in Working /\ task[c].id = mine
    PROVE  /\ OutcomeTrue(d)'
           /\ task'[d].stage \in Working => task'[d].id \in DOMAIN reservations'
           /\ task'[d].stage = "answered" /\ task'[d].result \in {"settled", "released"}
                => task'[d].id \notin DOMAIN reservations'
           /\ call'[d] = call[d]
<1>1. task[d].stage \in Working => task[d].id # mine /\ task[d].id \in DOMAIN operation
  BY DEF ClientInv, CallsMatch, Owned
<1>2. OutcomeTrue(d)'
  <2>1. OutcomeTrue(d)
    BY DEF ClientInv, OutcomeIsTrue, OutcomeTrue
  <2>2. PICK id : id = outcome[d].id
    OBVIOUS
  <2>3. Same(id) \/ outcome[d].result \notin Endings
    BY <2>2 DEF ClientInv, ClientType, Owned, Commits
  <2> QED
    BY <2>1, <2>2, <2>3, OutcomeStays
<1>3. PICK id : id = task[d].id
  OBVIOUS
<1>4. task[d].stage \in Working => Same(id) /\ id \in DOMAIN reservations
  BY <1>1, <1>3 DEF ClientInv, ClientType, Owned, Commits
<1>5. task[d].stage = "answered" => id \in DOMAIN admission
  BY <1>3 DEF ClientInv, ClientType, CallsMatch
<1>6. id \in DOMAIN admission /\ id \notin DOMAIN reservations => id \notin DOMAIN reservations'
  BY DEF Commits, Same
<1> QED
  BY <1>2, <1>3, <1>4, <1>5, <1>6 DEF Same, ClientInv, LedgerInv, TypeOK, Remembered, Commits

\* What clients remember is kept, and added to for a reservation that the step makes.
Memory ==
    /\ handle' \in [DOMAIN handle' -> [estimateUsd : Nat, closed : BOOLEAN]]
    /\ operation' \in [DOMAIN operation' -> [key : Optional(Keys), waived : BOOLEAN]]
    /\ \A id \in DOMAIN handle : id \in DOMAIN handle' /\ handle'[id] = handle[id]
    /\ \A id \in DOMAIN operation : id \in DOMAIN operation' /\ operation'[id] = operation[id]
    /\ \A id \in DOMAIN handle' \ DOMAIN handle :
          id \in DOMAIN admission' \ DOMAIN admission /\ ~handle'[id].closed
    /\ \A id \in DOMAIN operation' \ DOMAIN operation :
          id \in (DOMAIN admission' \ DOMAIN admission) \cap DOMAIN reservations'
    /\ DOMAIN handle' \cap DOMAIN operation' = {}

\* The stage c's task is in after its call.
NextTask(c) ==
    \/ task'[c] = NoTask
    \/ /\ task'[c].stage = "operation"
       /\ task'[c].id \in DOMAIN operation' \ DOMAIN operation /\ outcome'[c] = outcome[c]
    \/ /\ task'[c].stage = "answered"
       /\ task'[c].id \in DOMAIN handle
       /\ task'[c].result \in {"settled", "released"} => task'[c].id \notin DOMAIN reservations'
       /\ task'[c].result = "resized" => task'[c].amount \in Nat

\* What c's protect said at its end.
NextOutcome(c, mine) ==
    \/ outcome'[c].id = outcome[c].id /\ outcome'[c].result = outcome[c].result
    \/ outcome'[c].id = Undefined /\ outcome'[c].result \notin Endings
    \/ /\ outcome'[c].id = mine /\ mine = task[c].id
       /\ task[c].stage \in Working /\ task'[c] = NoTask

LEMMA CommitKeeps ==
    ASSUME ClientInv, LedgerInv', LedgerEffect, NEW c \in Callers, NEW mine, Commits(c, mine),
           \/ mine \notin DOMAIN operation
           \/ /\ task[c].stage \in Working /\ task[c].id = mine
              /\ operation[mine].waived \/ mine \in DOMAIN reservations' \/ Charged(mine)',
           task' \in [Callers -> [stage : Stages, id : Optional(Ids), result : Answers,
                                  amount : Optional(Nat)]],
           outcome' \in [Callers -> [result : Answers \cup Endings, id : Optional(Ids)]],
           \A d \in Callers \ {c} : task'[d] = task[d] /\ outcome'[d] = outcome[d],
           Memory, NextTask(c), NextOutcome(c, mine), OutcomeTrue(c)',
           \A id \in DOMAIN operation' \ DOMAIN operation :
              \A key : key = operation'[id].key => CarriesKey(id, key)'
    PROVE  ClientState'
<1>1. ASSUME NEW d \in Callers \ {c}
      PROVE  /\ OutcomeTrue(d)'
             /\ task'[d].stage \in Working => task'[d].id \in DOMAIN reservations'
             /\ task'[d].stage = "answered" /\ task'[d].result \in {"settled", "released"}
                  => task'[d].id \notin DOMAIN reservations'
             /\ call'[d] = call[d]
  BY OthersKeep
<1>2. ClientType'
  BY DEF ClientInv, ClientType, Memory, Commits
<1>3. Idle(c)'
  BY DEF Commits, NoCall, Idle, ClientInv, LedgerInv, TypeOK
<1>4. CallsMatch'
  <2>1. ASSUME NEW d \in Callers, NEW stage, stage = task'[d].stage
        PROVE  /\ stage \in {"none", "operation", "cost", "answered"} => Idle(d)'
               /\ stage \in {"reserving", "reserve"} => call'[d].op = "reserve"
               /\ stage \in {"releasing", "release"} => call'[d].op = "release"
               /\ stage \in {"settling", "settle"} => call'[d].op = "settle"
               /\ stage \in {"resize", "topUp"} => call'[d].op = "resize"
               /\ stage \in {"settling", "releasing"} \cup HandleCalls => call'[d].id = task'[d].id
               /\ stage \in Working => task'[d].id \in DOMAIN operation'
               /\ stage \in HandleCalls \cup {"answered"} => task'[d].id \in DOMAIN handle'
    <3>1. CASE d = c
      BY <1>3, <2>1, <3>1 DEF NextTask, NoTask, Working, HandleCalls, Memory
    <3>2. CASE d # c
      BY <1>1, <2>1, <3>2 DEF ClientInv, CallsMatch, Idle, Memory
    <3> QED
      BY <3>1, <3>2
  <2> QED
    BY <2>1 DEF CallsMatch
<1>5. Owned'
  <2>1. ASSUME NEW d \in Callers, task'[d].stage \in Working
        PROVE  /\ task'[d].id \in DOMAIN reservations'
               /\ \/ d # c /\ task[d].stage \in Working /\ task'[d].id = task[d].id
                  \/ d = c /\ task'[d].id \notin DOMAIN admission /\ outcome'[c] = outcome[c]
    <3>1. CASE d = c
      BY <2>1, <3>1 DEF NextTask, NoTask, Working, Memory
    <3>2. CASE d # c
      BY <1>1, <2>1, <3>2
    <3> QED
      BY <3>1, <3>2
  <2>2. \A d \in Callers : task[d].stage \in Working =>
            task[d].id \in DOMAIN admission /\ task[d].id # Undefined
    BY TaskId, FirewallAssumption DEF ClientInv, CallsMatch, ClientType
  <2>3. ASSUME NEW d \in Callers, task'[d].stage \in Working, NEW e \in Callers
        PROVE  /\ outcome'[e].id # task'[d].id
               /\ e # d /\ task'[e].stage \in Working => task'[e].id # task'[d].id
    <3>1. outcome[e].id \in DOMAIN admission \cup {Undefined}
      BY DEF ClientInv, Owned, ClientType
    <3>2. task'[d].id # Undefined
      BY <2>1, <2>3, FirewallAssumption DEF LedgerInv, TypeOK
    <3>3. outcome'[e].id # task'[d].id
      <4>1. CASE e # c
        BY <2>1, <2>3, <3>1, <3>2, <4>1 DEF ClientInv, Owned
      <4>2. CASE e = c /\ outcome'[c].id = outcome[c].id
        BY <2>1, <2>3, <3>1, <3>2, <4>2 DEF ClientInv, Owned
      <4>3. CASE e = c /\ outcome'[c].id = Undefined
        BY <3>2, <4>3
      <4>4. CASE e = c /\ outcome'[c].id = task[c].id /\ task[c].stage \in Working /\ task'[c] = NoTask
        <5>1. d # c
          BY <2>3, <4>4 DEF NoTask, Working
        <5> QED
          BY <2>1, <2>3, <4>4, <5>1 DEF ClientInv, Owned
      <4> QED
        BY <4>1, <4>2, <4>3, <4>4 DEF NextOutcome
    <3>4. e # d /\ task'[e].stage \in Working => task'[e].id # task'[d].id
      BY <2>1, <2>2, <2>3 DEF ClientInv, Owned
    <3> QED
      BY <3>3, <3>4
  <2>4. ASSUME NEW d \in Callers
        PROVE  /\ outcome'[d].id \in DOMAIN operation' \cup {Undefined}
               /\ outcome'[d].result \in Endings => outcome'[d].id # Undefined
    <3>1. CASE d # c \/ (outcome'[c].id = outcome[c].id /\ outcome'[c].result = outcome[c].result)
      BY <3>1 DEF ClientInv, Owned, Memory
    <3>2. CASE d = c /\ outcome'[c].id = task[c].id /\ task[c].stage \in Working
      BY <2>2, <3>2 DEF ClientInv, CallsMatch, Memory
    <3>3. CASE d = c /\ outcome'[c].id = Undefined /\ outcome'[c].result \notin Endings
      BY <3>3
    <3> QED
      BY <3>1, <3>2, <3>3 DEF NextOutcome
  <2> QED
    BY <2>1, <2>3, <2>4 DEF Owned
<1>6. Remembered'
  <2>1. ASSUME NEW id \in DOMAIN operation', NEW key, key = operation'[id].key
        PROVE  CarriesKey(id, key)'
    <3>1. CASE id \in DOMAIN operation
      <4>1. CarriesKey(id, key) /\ id \in DOMAIN admission
        BY <2>1, <3>1 DEF ClientInv, Remembered, Memory, ClientType
      <4> QED
        BY <4>1, KeysCarried DEF ClientInv
    <3> QED
      BY <2>1, <3>1
  <2>2. ASSUME NEW d \in Callers
        PROVE  /\ task'[d].stage = "releasing" => operation'[task'[d].id].waived
               /\ task'[d].stage = "answered" /\ task'[d].result \in {"settled", "released"}
                    => task'[d].id \notin DOMAIN reservations'
               /\ task'[d].stage = "answered" /\ task'[d].result = "resized"
                    => task'[d].amount \in Nat
    <3>1. CASE d = c
      BY <3>1 DEF NextTask, NoTask
    <3>2. CASE d # c
      <4>1. task'[d].stage = "releasing" => task[d].id \in DOMAIN operation
        BY <3>2 DEF ClientInv, CallsMatch, Working
      <4> QED
        BY <1>1, <3>2, <4>1 DEF ClientInv, Remembered, Memory
    <3> QED
      BY <3>1, <3>2
  <2> QED
    BY <2>1, <2>2 DEF Remembered
<1>7. PaidWorkIsHeld'
  <2>1. ASSUME NEW id \in DOMAIN operation'
        PROVE  operation'[id].waived \/ id \in DOMAIN reservations' \/ Charged(id)'
    <3>1. CASE id \in DOMAIN operation /\ id # mine
      <4>1. Same(id) /\ operation'[id] = operation[id]
        BY <3>1 DEF Commits, ClientInv, ClientType, Memory
      <4> QED
        BY <3>1, <4>1 DEF ClientInv, PaidWorkIsHeld, Same
    <3>2. CASE id \in DOMAIN operation /\ id = mine
      BY <3>2 DEF Memory
    <3>3. CASE id \notin DOMAIN operation
      BY <3>3 DEF Memory
    <3> QED
      BY <3>1, <3>2, <3>3
  <2> QED
    BY <2>1 DEF PaidWorkIsHeld, Charged
<1>8. OutcomeIsTrue'
  <2>1. \A d \in Callers : OutcomeTrue(d)'
    BY <1>1
  <2> QED
    BY <2>1 DEF OutcomeIsTrue, OutcomeTrue, Charged
<1>9. ClosedMeansGone'
  <2>1. ASSUME NEW id \in DOMAIN handle', handle'[id].closed
        PROVE  id \notin DOMAIN reservations'
    <3>1. id \in DOMAIN handle /\ handle[id].closed
      BY <2>1 DEF Memory
    <3>2. id \in DOMAIN admission /\ id \notin DOMAIN reservations
      BY <3>1 DEF ClientInv, ClientType, ClosedMeansGone
    <3> QED
      BY <3>2 DEF Commits, Same
  <2> QED
    BY <2>1 DEF ClosedMeansGone
<1> QED
  BY <1>2, <1>4, <1>5, <1>6, <1>7, <1>8, <1>9 DEF ClientState

\* A protect ends after its call: what it tells of its reservation decides the step.
LEMMA EndKeeps ==
    ASSUME ClientInv, LedgerInv', LedgerEffect, NEW c \in Callers, NEW mine, Commits(c, mine),
           task[c].stage \in Working, task[c].id = mine,
           operation[mine].waived \/ mine \in DOMAIN reservations' \/ Charged(mine)',
           NEW result \in Answers \cup Endings, End(c, result, task[c].id),
           UNCHANGED <<handle, operation>>,
           result = "value" => Charged(mine)' /\ mine \notin DOMAIN reservations',
           result = "operation-error" => ~Charged(mine)' /\ mine \notin DOMAIN reservations',
           result \notin {"reconcile-operation", "reconcile-cost-calculation"},
           result = "reconcile-settlement" => mine \in DOMAIN reservations' \/ Charged(mine)'
    PROVE  ClientState'
<1>1. /\ mine \in DOMAIN operation /\ mine \in Optional(Ids)
      /\ DOMAIN handle' = DOMAIN handle /\ DOMAIN operation' = DOMAIN operation
  BY TaskId DEF ClientInv, CallsMatch, Optional
<1>2. /\ task' = [task EXCEPT ![c] = NoTask]
      /\ outcome' = [outcome EXCEPT ![c] = [result |-> result, id |-> mine]]
  BY DEF End, Go
<1>3. /\ task' \in [Callers -> [stage : Stages, id : Optional(Ids), result : Answers,
                                amount : Optional(Nat)]]
      /\ outcome' \in [Callers -> [result : Answers \cup Endings, id : Optional(Ids)]]
      /\ \A d \in Callers \ {c} : task'[d] = task[d] /\ outcome'[d] = outcome[d]
      /\ task'[c] = NoTask
      /\ outcome'[c] = [result |-> result, id |-> mine]
  <2>1. NoTask \in [stage : Stages, id : Optional(Ids), result : Answers, amount : Optional(Nat)]
    BY DEF NoTask, Stages, Optional, Answers
  <2>2. [result |-> result, id |-> mine] \in [result : Answers \cup Endings, id : Optional(Ids)]
    BY <1>1
  <2> QED
    BY <1>2, <2>1, <2>2 DEF ClientInv, ClientType
<1>4. Memory
  BY <1>1 DEF ClientInv, ClientType, Memory
<1>5. NextTask(c) /\ NextOutcome(c, mine)
  BY <1>3 DEF NextTask, NextOutcome
<1>6. OutcomeTrue(c)'
  BY <1>3 DEF OutcomeTrue, Charged
<1> QED
  BY <1>1, <1>3, <1>4, <1>5, <1>6, CommitKeeps

LEMMA SettledClients ==
    ASSUME ClientInv, LedgerInv', LedgerEffect, NEW c \in Callers, ProtectSettled(c)
    PROVE  ClientState'
<1>1. PICK mine : mine = task[c].id
  OBVIOUS
<1>2. /\ task[c].stage = "settling" /\ call[c].id = mine
      /\ mine \in DOMAIN operation /\ mine \in DOMAIN reservations /\ mine \in DOMAIN admission
  BY <1>1 DEF ProtectSettled, Stage, ClientInv, CallsMatch, Owned, ClientType, Working
<1>3. /\ Commits(c, mine)
      /\ mine \in DOMAIN reservations' \/ Charged(mine)'
      /\ answer' = "settled" => Charged(mine)' /\ mine \notin DOMAIN reservations'
  <2>1. CASE CommitSettle(c)
    BY <1>2, <2>1, SettleMoves DEF ClientInv, Commits
  <2>2. CASE StoreFailure(c)
    <3>1. Same(mine)
      BY <2>2, FailureMoves
    <3> QED
      BY <1>2, <2>2, <3>1, FailureMoves DEF Commits, Same
  <2> QED
    BY <2>1, <2>2 DEF ProtectSettled
<1>4. PICK result \in Answers \cup Endings :
          /\ End(c, result, task[c].id)
          /\ (result = "value" /\ answer' = "settled") \/ result = "reconcile-settlement"
  BY DEF ProtectSettled, Endings
<1> QED
  BY <1>1, <1>2, <1>3, <1>4, EndKeeps DEF ProtectSettled, Working

LEMMA ReleasedClients ==
    ASSUME ClientInv, LedgerInv', LedgerEffect, NEW c \in Callers, ProtectReleased(c)
    PROVE  ClientState'
<1>1. PICK mine : mine = task[c].id
  OBVIOUS
<1>2. /\ task[c].stage = "releasing" /\ call[c].id = mine /\ operation[mine].waived
      /\ mine \in DOMAIN operation /\ mine \in DOMAIN reservations /\ mine \in DOMAIN admission
  BY <1>1 DEF ProtectReleased, Stage, ClientInv, CallsMatch, Owned, ClientType, Working, Remembered
<1>3. ~Charged(mine)
  BY <1>2 DEF ClientInv, LedgerInv, ChargedOnce, Charged
<1>4. /\ Commits(c, mine)
      /\ answer' \in Answers
      /\ answer' = "released" => ~Charged(mine)' /\ mine \notin DOMAIN reservations'
  <2>1. CASE CommitRelease(c)
    BY <1>2, <1>3, <2>1, ReleaseMoves DEF ClientInv, Commits
  <2>2. CASE StoreFailure(c)
    <3>1. Same(mine)
      BY <2>2, FailureMoves
    <3> QED
      BY <1>2, <2>2, <3>1, FailureMoves DEF Commits, Same, Answers
  <2> QED
    BY <2>1, <2>2 DEF ProtectReleased
<1>5. PICK result \in Answers \cup Endings :
          /\ End(c, result, task[c].id)
          /\ (result = "operation-error" /\ answer' = "released") \/ result = answer'
  BY <1>4 DEF ProtectReleased, Endings
<1>6. answer' \notin Endings
  BY <1>4 DEF Endings, Answers, Refusals, Successes
<1> QED
  BY <1>1, <1>2, <1>4, <1>5, <1>6, EndKeeps DEF ProtectReleased, Working, Endings

\* A reservation is made, or the caller is told why not: nothing happens to those made before.
LEMMA ReserveCommits ==
    ASSUME ClientInv, NEW c \in Callers, CommitReserve(c) \/ StoreFailure(c)
    PROVE  /\ Commits(c, Undefined)
           /\ answer' \in Answers
           /\ \A id \in DOMAIN reservations' \ DOMAIN reservations :
                 /\ id \in Ids \ DOMAIN admission
                 /\ id \in DOMAIN admission'
                 /\ ~Charged(id)'
                 /\ reservations'[id].idempotencyKey = call[c].request.idempotencyKey
                 /\ reservations'[id].idempotencyKey \in Optional(Keys)
                 /\ reservations'[id].estimatedCostUsd \in Nat
<1>1. CASE CommitReserve(c)
  <2>1. Undefined \notin DOMAIN reservations'
    <3>1. Undefined \notin Ids /\ DOMAIN reservations \subseteq Ids
      BY FirewallAssumption DEF ClientInv, LedgerInv, TypeOK
    <3> QED
      BY <1>1, <3>1, ReserveMoves DEF ClientInv
  <2> QED
    BY <1>1, <2>1, ReserveMoves DEF ClientInv, Commits
<1>2. CASE StoreFailure(c)
  BY <1>2, FailureMoves DEF Commits, Answers
<1> QED
  BY <1>1, <1>2

LEMMA ReservedClients ==
    ASSUME ClientInv, LedgerInv', LedgerEffect, NEW c \in Callers, ProtectReserved(c)
    PROVE  ClientState'
<1>1. /\ task[c].stage = "reserving"
      /\ Commits(c, Undefined)
      /\ Undefined \notin DOMAIN operation
      /\ handle' = handle
  BY ReserveCommits, FirewallAssumption
     DEF ProtectReserved, Stage, ClientInv, ClientType, LedgerInv, TypeOK
<1>2. CASE answer' # "reserved"
  <2>1. answer' \in Answers
    BY ReserveCommits DEF ProtectReserved
  <2>2. /\ task' = [task EXCEPT ![c] = NoTask]
        /\ outcome' = [outcome EXCEPT ![c] = [result |-> answer', id |-> Undefined]]
        /\ UNCHANGED <<handle, operation>>
    BY <1>2 DEF ProtectReserved, End, Go
  <2>3. PICK result \in Answers : result = answer'
    BY <2>1
  <2>4. /\ NoTask \in [stage : Stages, id : Optional(Ids), result : Answers,
                       amount : Optional(Nat)]
        /\ [result |-> result, id |-> Undefined]
             \in [result : Answers \cup Endings, id : Optional(Ids)]
        /\ result \notin Endings
    BY DEF NoTask, Stages, Optional, Answers, Endings, Refusals, Successes
  <2>5. /\ task' \in [Callers -> [stage : Stages, id : Optional(Ids), result : Answers,
                                  amount : Optional(Nat)]]
        /\ outcome' \in [Callers -> [result : Answers \cup Endings, id : Optional(Ids)]]
        /\ \A d \in Callers \ {c} : task'[d] = task[d] /\ outcome'[d] = outcome[d]
        /\ task'[c] = NoTask
        /\ outcome'[c] = [result |-> result, id |-> Undefined]
    BY <2>2, <2>3, <2>4 DEF ClientInv, ClientType
  <2>6. Memory
    BY <2>2 DEF ClientInv, ClientType, Memory
  <2>7. NextTask(c) /\ NextOutcome(c, Undefined)
    BY <2>4, <2>5 DEF NextTask, NextOutcome
  <2>8. OutcomeTrue(c)'
    BY <2>4, <2>5 DEF OutcomeTrue, Endings
  <2> QED
    BY <1>1, <2>2, <2>5, <2>6, <2>7, <2>8, CommitKeeps
<1>3. CASE answer' = "reserved"
  <2> DEFINE entry == [key |-> call[c].request.idempotencyKey, waived |-> FALSE]
  <2>1. PICK new \in DOMAIN reservations' \ DOMAIN reservations :
            /\ task' = [task EXCEPT ![c] = Task("operation", new)]
            /\ operation' = Bind(operation, new, entry)
            /\ UNCHANGED <<outcome, handle>>
    BY <1>3 DEF ProtectReserved, Go
  <2>2. /\ new \in Ids \ DOMAIN admission
        /\ new \in DOMAIN admission'
        /\ ~Charged(new)'
        /\ reservations'[new].idempotencyKey = entry.key
        /\ entry \in [key : Optional(Keys), waived : BOOLEAN]
    BY <2>1, ReserveCommits DEF ProtectReserved
  <2>3. /\ DOMAIN operation' = DOMAIN operation \cup {new}
        /\ operation'[new] = entry
        /\ \A id \in DOMAIN operation : operation'[id] = operation[id]
        /\ new \notin DOMAIN operation /\ new \notin DOMAIN handle
    BY <2>1, <2>2 DEF Bind, ClientInv, ClientType
  <2>4. ASSUME NEW key, key = entry.key PROVE CarriesKey(new, key)'
    BY <2>2, <2>4 DEF CarriesKey, Charged
  <2>5. /\ task' \in [Callers -> [stage : Stages, id : Optional(Ids), result : Answers,
                                  amount : Optional(Nat)]]
        /\ \A d \in Callers \ {c} : task'[d] = task[d]
        /\ task'[c].stage = "operation" /\ task'[c].id = new
    <3>1. Task("operation", new) \in [stage : Stages, id : Optional(Ids), result : Answers,
                                      amount : Optional(Nat)]
      BY <2>2 DEF Task, Stages, Optional, Answers
    <3> QED
      BY <2>1, <3>1 DEF ClientInv, ClientType, Task
  <2>6. Memory
    <3>1. operation' \in [DOMAIN operation' -> [key : Optional(Keys), waived : BOOLEAN]]
      BY <2>1, <2>2 DEF Bind, ClientInv, ClientType
    <3> QED
      BY <2>1, <2>2, <2>3, <3>1 DEF ClientInv, ClientType, Memory
  <2>7. NextTask(c) /\ NextOutcome(c, Undefined)
    BY <2>1, <2>3, <2>5 DEF NextTask, NextOutcome
  <2>8. OutcomeTrue(c)'
    <3>1. PICK id : id = outcome[c].id
      OBVIOUS
    <3>2. OutcomeTrue(c) /\ outcome'[c] = outcome[c]
      BY <2>1 DEF ClientInv, OutcomeIsTrue, OutcomeTrue
    <3>3. Same(id) \/ outcome[c].result \notin Endings
      BY <1>1, <3>1 DEF ClientInv, ClientType, Owned, Commits
    <3> QED
      BY <3>1, <3>2, <3>3, OutcomeStays
  <2>9. /\ outcome' \in [Callers -> [result : Answers \cup Endings, id : Optional(Ids)]]
        /\ \A d \in Callers : outcome'[d] = outcome[d]
    BY <2>1 DEF ClientInv, ClientType
  <2>10. \A id \in DOMAIN operation' \ DOMAIN operation :
            \A key : key = operation'[id].key => CarriesKey(id, key)'
    BY <2>3, <2>4
  <2> QED
    BY <1>1, <2>5, <2>6, <2>7, <2>8, <2>9, <2>10, CommitKeeps
<1> QED
  BY <1>2, <1>3

LEMMA HandleReservedClients ==
    ASSUME ClientInv, LedgerInv', LedgerEffect, NEW c \in Callers, HandleReserved(c)
    PROVE  ClientState'
<1>1. /\ Commits(c, Undefined)
      /\ Undefined \notin DOMAIN operation
      /\ operation' = operation /\ outcome' = outcome
      /\ task' = [task EXCEPT ![c] = NoTask]
  BY ReserveCommits, FirewallAssumption
     DEF HandleReserved, Go, ClientInv, ClientType, LedgerInv, TypeOK
<1>2. /\ task' \in [Callers -> [stage : Stages, id : Optional(Ids), result : Answers,
                                amount : Optional(Nat)]]
      /\ \A d \in Callers \ {c} : task'[d] = task[d] /\ outcome'[d] = outcome[d]
      /\ outcome' \in [Callers -> [result : Answers \cup Endings, id : Optional(Ids)]]
      /\ NextTask(c) /\ NextOutcome(c, Undefined)
  <2>1. NoTask \in [stage : Stages, id : Optional(Ids), result : Answers, amount : Optional(Nat)]
    BY DEF NoTask, Stages, Optional, Answers
  <2> QED
    BY <1>1, <2>1 DEF ClientInv, ClientType, NextTask, NextOutcome
<1>3. Memory
  <2>1. CASE UNCHANGED handle
    BY <1>1, <2>1 DEF ClientInv, ClientType, Memory
  <2>2. CASE answer' = "reserved"
    <3>1. PICK new \in DOMAIN reservations' \ DOMAIN reservations :
              handle' = Bind(handle, new, [estimateUsd |-> reservations'[new].estimatedCostUsd,
                                           closed |-> FALSE])
      BY <2>2 DEF HandleReserved
    <3>2. /\ new \notin DOMAIN admission
          /\ new \in DOMAIN admission'
          /\ reservations'[new].estimatedCostUsd \in Nat
      BY <3>1, ReserveCommits DEF HandleReserved
    <3>3. /\ DOMAIN handle' = DOMAIN handle \cup {new}
          /\ handle'[new] = [estimateUsd |-> reservations'[new].estimatedCostUsd,
                             closed |-> FALSE]
          /\ \A id \in DOMAIN handle : handle'[id] = handle[id]
          /\ new \notin DOMAIN operation /\ new \notin DOMAIN handle
      BY <3>1, <3>2 DEF Bind, ClientInv, ClientType
    <3>4. handle' \in [DOMAIN handle' -> [estimateUsd : Nat, closed : BOOLEAN]]
      BY <3>1, <3>2, <3>3 DEF Bind, ClientInv, ClientType
    <3> QED
      BY <1>1, <3>2, <3>3, <3>4 DEF ClientInv, ClientType, Memory
  <2> QED
    BY <2>1, <2>2 DEF HandleReserved
<1>4. OutcomeTrue(c)'
  <2>1. PICK id : id = outcome[c].id
    OBVIOUS
  <2>2. OutcomeTrue(c) /\ outcome'[c] = outcome[c]
    BY <1>1 DEF ClientInv, OutcomeIsTrue, OutcomeTrue
  <2>3. Same(id) \/ outcome[c].result \notin Endings
    BY <1>1, <2>1 DEF ClientInv, ClientType, Owned, Commits
  <2> QED
    BY <2>1, <2>2, <2>3, OutcomeStays
<1> QED
  BY <1>1, <1>2, <1>3, <1>4, CommitKeeps

\* The store answers a call on a handle; its answer says whether the reservation is gone.
LEMMA HandleCommits ==
    ASSUME ClientInv, NEW c \in Callers, NEW mine, mine = call[c].id,
           CommitSettle(c) \/ CommitRelease(c) \/ CommitResize(c) \/ StoreFailure(c)
    PROVE  /\ Commits(c, mine)
           /\ answer' \in Answers
           /\ answer' \in {"settled", "released"} => mine \notin DOMAIN reservations'
           /\ answer' = "resized" => call[c].costUsd \in Nat
<1>1. CASE CommitSettle(c)
  BY <1>1, SettleMoves DEF ClientInv, Commits
<1>2. CASE CommitRelease(c)
  BY <1>2, ReleaseMoves DEF ClientInv, Commits
<1>3. CASE CommitResize(c)
  <2>1. call[c].costUsd \in Nat
    BY <1>3, CallArguments DEF CommitResize, Turn, ClientInv, LedgerInv
  <2>2. \A id : id \in DOMAIN reservations' => id \in DOMAIN reservations
    BY <1>3, ResizeMoves DEF ClientInv, Same
  <2> QED
    BY <1>3, <2>1, <2>2, ResizeMoves DEF ClientInv, Commits
<1>4. CASE StoreFailure(c)
  BY <1>4, FailureMoves DEF Commits, Answers
<1> QED
  BY <1>1, <1>2, <1>3, <1>4

LEMMA AnsweredClients ==
    ASSUME ClientInv, LedgerInv', LedgerEffect, NEW c \in Callers, HandleAnswered(c)
    PROVE  ClientState'
<1>1. PICK mine : mine = task[c].id
  OBVIOUS
<1>2. /\ task[c].stage \in HandleCalls /\ mine = call[c].id
      /\ mine \in DOMAIN handle /\ mine \notin DOMAIN operation /\ mine \in Ids
  BY <1>1, TaskId DEF HandleAnswered, ClientInv, CallsMatch, ClientType
<1>3. /\ Commits(c, mine)
      /\ answer' \in Answers
      /\ answer' \in {"settled", "released"} => mine \notin DOMAIN reservations'
      /\ answer' = "resized" => call[c].costUsd \in Nat
  BY <1>2, HandleCommits DEF HandleAnswered
<1>4. PICK result \in Answers, amount \in Optional(Nat) :
          result = answer' /\ amount = call[c].costUsd
  BY <1>3 DEF ClientInv, LedgerInv, TypeOK, CallType
<1>5. /\ task' = [task EXCEPT ![c] = [stage |-> "answered", id |-> mine, result |-> result,
                                      amount |-> amount]]
      /\ UNCHANGED <<handle, operation, outcome>>
  BY <1>1, <1>4 DEF HandleAnswered, Go, clientVars
<1>6. /\ task' \in [Callers -> [stage : Stages, id : Optional(Ids), result : Answers,
                                amount : Optional(Nat)]]
      /\ outcome' \in [Callers -> [result : Answers \cup Endings, id : Optional(Ids)]]
      /\ \A d \in Callers \ {c} : task'[d] = task[d] /\ outcome'[d] = outcome[d]
      /\ task'[c] = [stage |-> "answered", id |-> mine, result |-> result, amount |-> amount]
  <2>1. "answered" \in Stages /\ mine \in Optional(Ids)
    BY <1>2 DEF Stages, Optional
  <2> QED
    BY <1>5, <2>1 DEF ClientInv, ClientType
<1>7. Memory
  BY <1>5 DEF ClientInv, ClientType, Memory
<1>8. NextTask(c) /\ NextOutcome(c, mine)
  BY <1>2, <1>3, <1>4, <1>5, <1>6 DEF NextTask, NextOutcome
<1>9. OutcomeTrue(c)'
  <2>1. PICK id : id = outcome[c].id
    OBVIOUS
  <2>2. OutcomeTrue(c) /\ outcome'[c] = outcome[c]
    BY <1>5 DEF ClientInv, OutcomeIsTrue, OutcomeTrue
  <2>3. Same(id) \/ outcome[c].result \notin Endings
    BY <1>2, <1>3, <2>1 DEF ClientInv, ClientType, Owned, Commits
  <2> QED
    BY <2>1, <2>2, <2>3, OutcomeStays
<1> QED
  BY <1>2, <1>3, <1>5, <1>6, <1>7, <1>8, <1>9, CommitKeeps

-----------------------------------------------------------------------------
(***************************************************************************)
(* The inductive invariant.                                                *)
(***************************************************************************)
LEMMA InitClientInv ==
    ASSUME InitClients
    PROVE  ClientInv
<1>1. LedgerInv
  BY InitLedger DEF InitClients, LedgerInv
<1>2. ClientType
  BY DEF InitClients, ClientType, NoTask, NoOutcome, Stages, Optional, Answers
<1>3. CallsMatch
  BY DEF InitClients, Init, CallsMatch, NoTask, NoCall, Idle, Working, HandleCalls
<1>4. Owned
  BY DEF InitClients, Owned, NoTask, NoOutcome, Working, Endings
<1>5. Remembered /\ PaidWorkIsHeld /\ ClosedMeansGone
  BY DEF InitClients, Remembered, PaidWorkIsHeld, ClosedMeansGone, NoTask
<1>6. OutcomeIsTrue
  BY DEF InitClients, OutcomeIsTrue, NoOutcome
<1> QED
  BY <1>1, <1>2, <1>3, <1>4, <1>5, <1>6 DEF ClientInv

LEMMA NextClientInv ==
    ASSUME ClientInv, [NextClients]_allVars
    PROVE  ClientInv'
<1>1. CASE NextClients
  <2>1. LedgerInv' /\ LedgerEffect
    BY <1>1, ClientLedger
  <2>2. ASSUME NEW c \in Callers,
               \/ StartProtect(c) \/ OperationReturns(c) \/ OperationThrows(c)
               \/ CostThrows(c) \/ CostKnown(c) \/ StoreAnswers(c)
               \/ StartReserve(c) \/ HandleReserved(c) \/ StartHandleCall(c)
               \/ HandleAnswered(c) \/ Resume(c)
        PROVE  ClientState'
    BY <2>1, <2>2, StartClients, WorkClients, ReservedClients, ReleasedClients, SettledClients,
       HandleReservedClients, HandleClients, AnsweredClients, ResumeClients DEF StoreAnswers
  <2>3. ClientState'
    BY <1>1, <2>2, TickClients DEF NextClients
  <2> QED
    BY <2>1, <2>3 DEF ClientInv, ClientState
<1>2. CASE UNCHANGED allVars
  <2>1. LedgerInv'
    <3>1. UNCHANGED vars
      BY <1>2 DEF allVars
    <3> QED
      BY <3>1, FirewallStep DEF ClientInv
  <2>2. UNCHANGED <<reservations, charges, admission, call, task, handle, operation, outcome>>
    BY <1>2 DEF allVars, vars, clientVars
  <2>3. ClientType' /\ CallsMatch' /\ Owned'
    BY <2>2 DEF ClientInv, ClientType, CallsMatch, Owned, Idle
  <2>4. Remembered'
    BY <2>2, QuietClients DEF ClientInv, Remembered
  <2> QED
    BY <2>1, <2>2, <2>3, <2>4, QuietClients DEF ClientInv
<1> QED
  BY <1>1, <1>2

LEMMA ClientsSafe == SpecClients => []ClientInv
<1>1. InitClients => ClientInv
  BY InitClientInv
<1>2. ClientInv /\ [NextClients]_allVars => ClientInv'
  BY NextClientInv
<1> QED
  BY <1>1, <1>2, PTL DEF SpecClients

\* Paid work is never forgotten (firewall.ts protect): whatever protect ran is in the ledger,
\* as an open reservation or as a charge, unless its caller had asked for a release.
THEOREM PaidWorkIsNeverForgotten == SpecClients => []PaidWorkIsHeld
<1>1. ClientInv => PaidWorkIsHeld
  BY DEF ClientInv
<1> QED
  BY <1>1, ClientsSafe, PTL

\* Two operations never run under one idempotency key (firewall.ts reserve), for any number of
\* racing protects: the first one's record carries the key and is still there.
THEOREM NoOperationRunsTwice == SpecClients => []DuplicateExecutionBlocked
<1>1. ClientInv => DuplicateExecutionBlocked
  <2> SUFFICES ASSUME ClientInv,
                      NEW a \in DOMAIN operation, NEW b \in DOMAIN operation,
                      a # b, operation[a].key = operation[b].key, operation[a].key # Undefined,
                      ~operation[a].waived, ~operation[b].waived
               PROVE  FALSE
    BY DEF DuplicateExecutionBlocked
  <2> DEFINE key == operation[a].key
  <2>1. key \in Keys /\ key # Undefined
    BY DEF ClientInv, ClientType, Optional
  <2> HIDE DEF key
  <2>2. CarriesKey(a, key) /\ CarriesKey(b, key)
    BY DEF ClientInv, Remembered, key
  <2>3. /\ a \in Pending(key) \/ \E i \in Settled(key) : charges[i].reservationId = a
        /\ b \in Pending(key) \/ \E i \in Settled(key) : charges[i].reservationId = b
    BY <2>1, <2>2 DEF ClientInv, PaidWorkIsHeld, Charged, CarriesKey, Pending, Settled
  <2>4. /\ \A x, y \in Pending(key) : x = y
        /\ \A i, j \in Settled(key) : i = j
        /\ Pending(key) = {} \/ Settled(key) = {}
    BY <2>1 DEF ClientInv, LedgerInv, OneRecordPerKey
  <2> QED
    BY <2>3, <2>4
<1> QED
  BY <1>1, ClientsSafe, PTL

\* How a protect ends says what happened to the money (firewall.ts protect): charged, neither
\* held nor charged, or one of the two and to be reconciled.
THEOREM ProtectTellsTheTruth == SpecClients => []OutcomeIsTrue
<1>1. ClientInv => OutcomeIsTrue
  BY DEF ClientInv
<1> QED
  BY <1>1, ClientsSafe, PTL

\* A closed handle has nothing left to close (firewall.ts:71-83), however its calls overlap.
THEOREM ClosedHandleIsGone == SpecClients => []ClosedMeansGone
<1>1. ClientInv => ClosedMeansGone
  BY DEF ClientInv
<1> QED
  BY <1>1, ClientsSafe, PTL

\* The steps of clients are the firewall's, apart from the amount a topUp asks for.
LEMMA ClientRolling ==
    ASSUME OneMutex, ClientInv, RollingInv, NextClients
    PROVE  RollingInv'
<1>1. LedgerInv /\ TypeOK /\ LedgerInv' /\ TypeOK'
  BY ClientLedger DEF ClientInv, LedgerInv
<1>2. ASSUME NEW c \in Callers,
             \/ BeginReserve(c) \/ CommitReserve(c) \/ CommitSettle(c) \/ CommitRelease(c)
             \/ CommitResize(c) \/ StoreFailure(c)
      PROVE  RollingInv'
  BY <1>1, <1>2, EnqueueRolling, CommitRolling DEF BeginReserve, OperationNames
<1>3. ASSUME NEW c \in Callers, NEW op \in {"settle", "resize", "release"}, NEW id, NEW amount,
             Enqueue(c, op, Undefined, id, amount)
      PROVE  RollingInv'
  BY <1>1, <1>3, EnqueueRolling DEF OperationNames
<1>4. CASE UNCHANGED vars
  BY <1>1, <1>4, TickRolling DEF vars
<1>5. CASE Tick
  BY <1>1, <1>5, TickRolling DEF Tick
<1>6. ASSUME NEW c \in Callers, OperationThrows(c) \/ CostKnown(c) \/ StartHandleCall(c)
      PROVE  RollingInv'
  BY <1>3, <1>4, <1>6 DEF OperationThrows, CostKnown, StartHandleCall, CallHandle
<1>7. ASSUME NEW c \in Callers,
             \/ StartProtect(c) \/ OperationReturns(c) \/ CostThrows(c) \/ StoreAnswers(c)
             \/ StartReserve(c) \/ HandleReserved(c) \/ HandleAnswered(c) \/ Resume(c)
      PROVE  RollingInv'
  BY <1>2, <1>4, <1>7 DEF StartProtect, OperationReturns, CostThrows, StoreAnswers,
     ProtectReserved, ProtectReleased, ProtectSettled, StartReserve, HandleReserved,
     HandleAnswered, Resume
<1> QED
  BY <1>5, <1>6, <1>7 DEF NextClients

\* The same for programs that use protect and handles with calls that overlap (firewall.ts
\* protect, FirewallReservation): what the run clients checks on its instance.
THEOREM RollingBudgetNeverSharedByClients ==
    ASSUME OneMutex
    PROVE  SpecClients => []RollingBudgetHeld
<1>1. InitClients => RollingInv
  BY InitRolling DEF InitClients
<1>2. ClientInv /\ RollingInv /\ [NextClients]_allVars => RollingInv'
  <2> SUFFICES ASSUME ClientInv, RollingInv, [NextClients]_allVars PROVE RollingInv'
    OBVIOUS
  <2>1. CASE UNCHANGED allVars
    BY <2>1, TickRolling DEF allVars, vars, ClientInv, LedgerInv
  <2> QED
    BY <2>1, ClientRolling
<1>3. RollingInv => RollingBudgetHeld
  BY DEF RollingInv
<1> QED
  BY <1>1, <1>2, <1>3, ClientsSafe, PTL DEF SpecClients

-----------------------------------------------------------------------------
(***************************************************************************)
(* The status page.  A record belongs to one group, the group to which the *)
(* context rebuilt from it leads back, so the sums over the groups are a   *)
(* partition of the sum over all records (TotalByGroups).                  *)
(***************************************************************************)
Matching(p, records) == {k \in DOMAIN records : MatchesPolicy(p, records[k].context)}

\* The records of the policy's window, in whatever group.
InWindow(p, records) ==
    {k \in DOMAIN records : /\ InBudgetWindow(records[k].createdAt, Policy[p].window, clock)
                            /\ MatchesPolicy(p, records[k].context)}

LEMMA GroupsListed ==
    ASSUME NEW p, NEW records, IsFiniteSet(DOMAIN records)
    PROVE  IsFiniteSet({PolicyGroup(p, records[k].context) : k \in Matching(p, records)})
<1> DEFINE S == Matching(p, records)
           h == [k \in S |-> PolicyGroup(p, records[k].context)]
           T == {PolicyGroup(p, records[k].context) : k \in S}
<1>1. IsFiniteSet(S)
  BY FS_Subset DEF Matching
<1>2. h \in Surjection(S, T)
  BY DEF Surjection
<1> HIDE DEF S, h, T
<1>3. IsFiniteSet(T)
  BY <1>1, <1>2, FS_Surjection
<1> QED
  BY <1>3 DEF S, T

\* The context made from a group is in that group.
LEMMA GroupOfContext ==
    ASSUME NEW p \in PolicyIds, NEW group \in ListPolicyGroups(p)
    PROVE  PolicyGroup(p, ContextFromPolicyGroup(group)) = group
<1>1. PICK context : group = PolicyGroup(p, context)
  BY DEF ListPolicyGroups
<1>2. Policy[p].groupBy \subseteq Fields
  BY PolicyAssumption DEF PolicyType
<1> QED
  BY <1>1, <1>2 DEF PolicyGroup, ContextFromPolicyGroup

\* For amounts of one kind of record, charged or reserved.
LEMMA GroupsAddUp ==
    ASSUME TypeOK, NEW p \in PolicyIds, NEW records, NEW amount, IsFiniteSet(DOMAIN records),
           amount \in [InWindow(p, records) -> Nat],
           \A k \in Matching(p, records) :
              PolicyGroup(p, records[k].context) \in ListPolicyGroups(p),
           NEW G, G = ListPolicyGroups(p), IsFiniteSet(G), NEW w,
           w = [group \in G |->
                  Total([k \in Counted(records, p, ContextFromPolicyGroup(group), clock)
                            |-> amount[k]])]
    PROVE  w \in [G -> Nat] /\ Total(w) = Total(amount)
<1> DEFINE D == InWindow(p, records)
           h == [k \in D |-> PolicyGroup(p, records[k].context)]
<1>1. IsFiniteSet(D)
  BY FS_Subset DEF InWindow
<1>2. h \in [D -> G]
  BY DEF InWindow, Matching
<1>3. ASSUME NEW group \in G
      PROVE  Counted(records, p, ContextFromPolicyGroup(group), clock) = {j \in D : h[j] = group}
  BY GroupOfContext DEF Counted, InWindow
<1>4. ASSUME NEW group \in G
      PROVE  w[group] = Total(Share(amount, h, group)) /\ w[group] \in Nat
  <2>1. Share(amount, h, group)
          = [k \in Counted(records, p, ContextFromPolicyGroup(group), clock) |-> amount[k]]
    BY <1>3 DEF Share
  <2> HIDE DEF D, h
  <2>2. Total(Share(amount, h, group)) \in Nat
    BY <1>1, ShareType DEF D
  <2> QED
    BY <2>1, <2>2
<1>5. amount \in [D -> Nat]
  OBVIOUS
<1> HIDE DEF D, h
<1>6. w \in [G -> Nat]
  BY <1>4
<1>7. IsFiniteSet(G)
  OBVIOUS
<1>8. \A group \in G : w[group] = Total(Share(amount, h, group))
  BY <1>4
<1>9. Total(w) = Total(amount)
  BY ONLY <1>1, <1>2, <1>5, <1>6, <1>7, <1>8, TotalByGroups
<1> QED
  BY <1>6, <1>9

LEMMA StatusSum ==
    ASSUME TypeOK
    PROVE  StatusAddsUp
<1> SUFFICES ASSUME NEW p \in PolicyIds
             PROVE  Total([group \in ListPolicyGroups(p) |-> GroupUsage(p, group)]) = WholeUsage(p)
  BY DEF StatusAddsUp
<1> DEFINE G == ListPolicyGroups(p)
           Context(group) == ContextFromPolicyGroup(group)
           actual == [group \in G |-> ActualUsd(charges, p, Context(group), clock)]
           reserved == [group \in G |-> ReservedUsd(reservations, p, Context(group), clock)]
           costs == [i \in InWindow(p, charges) |-> charges[i].costUsd]
           estimates == [id \in InWindow(p, reservations) |-> reservations[id].estimatedCostUsd]
<1>1. IsFiniteSet(DOMAIN charges) /\ IsFiniteSet(DOMAIN reservations)
  BY LedgerFinite
<1>2. IsFiniteSet(G)
  <2> DEFINE A == {PolicyGroup(p, charges[i].context) : i \in Matching(p, charges)}
             B == {PolicyGroup(p, reservations[id].context) : id \in Matching(p, reservations)}
  <2>1. IsFiniteSet(A) /\ IsFiniteSet(B)
    BY <1>1, GroupsListed
  <2>2. G = A \cup B
    BY DEF ListPolicyGroups, Matching
  <2> HIDE DEF A, B, G
  <2> QED
    BY <2>1, <2>2, FS_Union
<1>3. costs \in [InWindow(p, charges) -> Nat]
  <2>1. \A i \in DOMAIN charges : charges[i] \in ChargeType
    BY DEF TypeOK
  <2> QED
    BY <2>1 DEF InWindow, ChargeType
<1>4. estimates \in [InWindow(p, reservations) -> Nat]
  BY DEF InWindow, TypeOK, ReservationType
<1>5. /\ \A i \in Matching(p, charges) : PolicyGroup(p, charges[i].context) \in G
      /\ \A id \in Matching(p, reservations) : PolicyGroup(p, reservations[id].context) \in G
  BY DEF ListPolicyGroups, Matching
<1>6. ASSUME NEW group
      PROVE  /\ Counted(charges, p, Context(group), clock) \subseteq InWindow(p, charges)
             /\ Counted(reservations, p, Context(group), clock) \subseteq InWindow(p, reservations)
  BY DEF Counted, InWindow
<1>7. actual = [group \in G |->
                  Total([i \in Counted(charges, p, Context(group), clock) |-> costs[i]])]
  BY <1>6 DEF ActualUsd
<1>8. reserved = [group \in G |->
                  Total([id \in Counted(reservations, p, Context(group), clock)
                            |-> estimates[id]])]
  BY <1>6 DEF ReservedUsd
<1>9. WholeUsage(p) = Total(costs) + Total(estimates)
  BY DEF WholeUsage, InWindow
<1>10. [group \in G |-> GroupUsage(p, group)] = [group \in G |-> actual[group] + reserved[group]]
  BY DEF GroupUsage, ProjectedUsd
<1> HIDE DEF actual, reserved, costs, estimates
<1>11. actual \in [G -> Nat] /\ Total(actual) = Total(costs)
  BY <1>1, <1>2, <1>3, <1>5, <1>7, GroupsAddUp
<1>12. reserved \in [G -> Nat] /\ Total(reserved) = Total(estimates)
  BY <1>1, <1>2, <1>4, <1>5, <1>8, GroupsAddUp
<1> HIDE DEF G
<1>13. Total([group \in G |-> actual[group] + reserved[group]]) = Total(actual) + Total(reserved)
  BY <1>2, <1>11, <1>12, TotalOfSums
<1> QED
  BY <1>9, <1>10, <1>11, <1>12, <1>13 DEF G

-----------------------------------------------------------------------------
(***************************************************************************)
(* The workflows.  What a request on a connection asks for, what its       *)
(* answer says, and whose reservation it is about.                         *)
(***************************************************************************)
Held(id) == id \in DOMAIN reservations \/ Charges(id) # {}

SidecarType ==
    /\ http \in [Callers -> [phase : {"none", "received", "calling", "answered"},
                             from : Workflows \cup {"operator", "other", Undefined},
                             route : {"none", "reserve", "settle", "release", "resize", "record"},
                             id : Optional(Ids), status : Nat]]
    /\ flow \in [Workflows -> [stage : {"reserve", "paying", "settle", "settled", "stopped"},
                               connection : Optional(Callers), id : Optional(Ids), paid : BOOLEAN]]
    /\ listing \subseteq DOMAIN admission

\* The reservation of a workflow, from the answer that gives it the id.
IdOf(w) == IF flow[w].connection = Undefined THEN flow[w].id ELSE http[flow[w].connection].id

\* The reservations that nobody pays under or has paid under: whoever has the id, or waits for the
\* answer that has it, is over and did not pay.
Over == {id \in DOMAIN admission :
            \A w \in Workflows : IdOf(w) = id => flow[w].stage = "stopped" /\ ~flow[w].paid}

\* A request until it is answered, and the call of its handler.
RequestOK(c) ==
    LET request == http[c]
    IN  /\ request.route \in {"reserve", "settle"} => request.from \in Workflows
        /\ request.route \in {"settle", "release", "resize"} => request.id \in DOMAIN admission
        /\ request.route = "reserve" /\ request.phase # "answered" => request.id = Undefined
        /\ request.route = "release" /\ request.phase # "answered" => request.id \in Over
        /\ request.phase # "none" => request.route # "none"
        /\ request.phase = "calling" =>
              /\ call[c].op = IF request.route = "record" THEN "recordActual" ELSE request.route
              /\ request.route # "record" => call[c].id = request.id
              /\ request.route = "reserve" =>
                    call[c].request.idempotencyKey = RequestOf[request.from].idempotencyKey
        /\ request.phase = "answered" /\ request.route = "reserve" =>
              /\ request.status \in {201, 400, 402, 409, 500}
              /\ IF request.status = 201 THEN request.id \in DOMAIN admission
                                         ELSE request.id = Undefined
        /\ request.phase = "answered" /\ request.route = "settle" =>
              request.status \in {200, 400, 404, 500}

FlowOK(w) ==
    LET f == flow[w]
        c == f.connection
    IN  /\ c # Undefined =>
              /\ f.stage \in Requesting
              /\ http[c].phase # "none" /\ http[c].from = w /\ http[c].route = f.stage
              /\ f.stage = "settle" => http[c].id = f.id
              /\ http[c].phase = "answered" /\ f.stage = "reserve" /\ http[c].status = 201
                    => Held(http[c].id)
              /\ http[c].phase = "answered" /\ f.stage = "settle" /\ http[c].status \in {200, 404}
                    => Charges(f.id) # {}
        /\ f.stage = "reserve" => f.id = Undefined /\ ~f.paid
        /\ f.stage \in {"settle", "settled"} => f.paid
        /\ f.stage = "paying" \/ f.paid => f.id \in DOMAIN admission /\ Held(f.id)
        /\ f.stage = "settled" => Charges(f.id) # {}
        /\ IdOf(w) \in DOMAIN admission \cup {Undefined}
        /\ IdOf(w) # Undefined => CarriesKey(IdOf(w), RequestOf[w].idempotencyKey)

\* No two workflows have one reservation.
OwnIds == \A v, w \in Workflows : IdOf(v) = IdOf(w) /\ IdOf(v) # Undefined => v = w

SidecarInv ==
    /\ LedgerInv /\ SidecarType /\ OwnIds
    /\ \A c \in Callers : RequestOK(c)
    /\ \A w \in Workflows : FlowOK(w)

\* What a step may do to the ledger under workflow w.
LedgerKeeps(w) ==
    /\ DOMAIN admission \subseteq DOMAIN admission'
    /\ \A id \in DOMAIN admission :
          /\ Charges(id) # {} => Charges(id)' # {}
          /\ \A key : CarriesKey(id, key) => CarriesKey(id, key)'
          /\ Held(id) /\ id \notin Over => Held(id)'

LEMMA QuietKeeps ==
    ASSUME UNCHANGED <<reservations, charges, admission>>
    PROVE  /\ \A id : /\ Held(id)' <=> Held(id)
                      /\ Charges(id)' = Charges(id)
                      /\ \A key : CarriesKey(id, key)' <=> CarriesKey(id, key)
           /\ \A w : LedgerKeeps(w)
<1>1. \A id : /\ Held(id)' <=> Held(id)
              /\ Charges(id)' = Charges(id)
              /\ \A key : CarriesKey(id, key)' <=> CarriesKey(id, key)
  BY DEF Held, Charges, CarriesKey
<1> QED
  BY <1>1 DEF LedgerKeeps

\* Whoever is over stays so, and no reservation has a second owner: who may be released may
\* be released for good.
LEMMA OverForGood ==
    ASSUME SidecarInv, DOMAIN admission \subseteq DOMAIN admission',
           \A w \in Workflows : flow[w].stage = "stopped" => flow'[w] = flow[w],
           NEW owner, NEW fresh, fresh \notin DOMAIN admission,
           \A w \in Workflows : \/ IdOf(w)' = IdOf(w)
                                \/ IdOf(w)' = Undefined
                                \/ w = owner /\ IdOf(w)' = fresh
    PROVE  Over \subseteq Over'
<1> SUFFICES ASSUME NEW id \in Over, NEW w \in Workflows, IdOf(w)' = id
             PROVE  flow'[w].stage = "stopped" /\ ~flow'[w].paid
  BY DEF Over
<1>1. id \in DOMAIN admission /\ id # Undefined
  BY FirewallAssumption DEF Over, SidecarInv, LedgerInv, TypeOK
<1>2. IdOf(w) = id
  BY <1>1
<1>3. flow[w].stage = "stopped" /\ ~flow[w].paid
  BY <1>2 DEF Over
<1> QED
  BY <1>3

\* The reservation of a workflow that goes on, or has paid, is not one to release.
LEMMA NotOver ==
    ASSUME SidecarInv, NEW w \in Workflows,
           flow[w].connection # Undefined \/ flow[w].stage = "paying" \/ flow[w].paid
    PROVE  IdOf(w) \notin Over
BY DEF SidecarInv, FlowOK, Over, Requesting

LEMMA RequestStays ==
    ASSUME NEW c \in Callers, RequestOK(c), http'[c] = http[c], call'[c] = call[c],
           DOMAIN admission \subseteq DOMAIN admission', Over \subseteq Over'
    PROVE  RequestOK(c)'
BY DEF RequestOK

LEMMA FlowStays ==
    ASSUME SidecarInv, NEW w \in Workflows, flow'[w] = flow[w],
           flow[w].connection = Undefined
              \/ http'[flow[w].connection] = http[flow[w].connection],
           LedgerKeeps(w)
    PROVE  FlowOK(w)' /\ IdOf(w)' = IdOf(w)
<1> DEFINE f == flow[w]
           c == f.connection
<1>1. FlowOK(w) /\ IdOf(w)' = IdOf(w)
  BY DEF SidecarInv, IdOf
<1>2. c # Undefined => c \in Callers /\ RequestOK(c)
  BY DEF SidecarInv, SidecarType, Optional
<1>3. c # Undefined /\ http[c].phase = "answered" /\ f.stage = "reserve" /\ http[c].status = 201
        => Held(http[c].id)'
  <2> SUFFICES ASSUME c # Undefined, http[c].phase = "answered", f.stage = "reserve",
                      http[c].status = 201
               PROVE  Held(http[c].id)'
    OBVIOUS
  <2>1. PICK id : id = http[c].id
    OBVIOUS
  <2>2. id \in DOMAIN admission
    BY <1>1, <1>2, <2>1 DEF RequestOK, FlowOK
  <2>3. Held(id)
    BY <1>1, <2>1 DEF FlowOK
  <2>4. id \notin Over
    BY <2>1, NotOver DEF IdOf
  <2>5. Held(id)'
    <3>1. \A k \in DOMAIN admission :
              Held(k) /\ k \notin Over => Held(k)'
      BY DEF LedgerKeeps
    <3> QED
      BY <2>2, <2>3, <2>4, <3>1
  <2> QED
    BY <2>1, <2>5 DEF Held
<1>4. ASSUME f.stage = "paying" \/ f.paid
      PROVE  f.id \in DOMAIN admission /\ Held(f.id)'
  <2>1. PICK id : id = f.id
    OBVIOUS
  <2>2. id \in DOMAIN admission /\ Held(id)
    BY <1>1, <1>4, <2>1 DEF FlowOK
  <2>3. id \notin Over
    <3>1. IdOf(w) = id
      BY <1>1, <1>4, <2>1 DEF IdOf, FlowOK, Requesting
    <3> QED
      BY <1>4, <3>1, NotOver
  <2>4. \A k \in DOMAIN admission :
            Held(k) /\ k \notin Over => Held(k)'
    BY DEF LedgerKeeps
  <2>5. Held(id)'
    BY <2>2, <2>3, <2>4
  <2> QED
    BY <2>1, <2>2, <2>5 DEF Held
<1>5. ASSUME Charges(f.id) # {}, f.id \in DOMAIN admission
      PROVE  Charges(f.id)' # {}
  <2>1. PICK id : id = f.id
    OBVIOUS
  <2>2. Charges(id)' # {}
    BY <1>5, <2>1 DEF LedgerKeeps
  <2> QED
    BY <2>1, <2>2 DEF Charges
<1>6. IdOf(w) # Undefined
        => IdOf(w) \in DOMAIN admission' /\ CarriesKey(IdOf(w), RequestOf[w].idempotencyKey)'
  <2> SUFFICES ASSUME IdOf(w) # Undefined
               PROVE  /\ IdOf(w) \in DOMAIN admission'
                      /\ CarriesKey(IdOf(w), RequestOf[w].idempotencyKey)'
    OBVIOUS
  <2>1. PICK id, key : id = IdOf(w) /\ key = RequestOf[w].idempotencyKey
    OBVIOUS
  <2>2. id \in DOMAIN admission /\ CarriesKey(id, key)
    BY <1>1, <2>1 DEF FlowOK
  <2>3. id \in DOMAIN admission' /\ CarriesKey(id, key)'
    BY <2>2 DEF LedgerKeeps
  <2>4. IdOf(w)' = id
    BY <1>1, <2>1
  <2> QED
    BY <2>1, <2>3, <2>4 DEF CarriesKey
<1>7. f.stage = "settled" \/ (c # Undefined /\ f.stage = "settle")
        => f.paid
  BY <1>1 DEF FlowOK
<1>8. f'.id = f.id /\ f'.stage = f.stage /\ c' = c /\ f'.paid = f.paid
      /\ (c # Undefined => http'[c] = http[c])
  OBVIOUS
<1>9. FlowOK(w)'
  <2> DEFINE g == flow'[w]
             d == flow'[w].connection
  <2>1. g = f /\ d = c /\ (c # Undefined => http'[c] = http[c])
    OBVIOUS
  <2>2. (IdOf(w) \in DOMAIN admission \cup {Undefined})'
        /\ (IdOf(w) # Undefined => CarriesKey(IdOf(w), RequestOf[w].idempotencyKey))'
    BY <1>1, <1>6
  <2>3. d # Undefined =>
              /\ g.stage \in Requesting
              /\ http'[d].phase # "none" /\ http'[d].from = w /\ http'[d].route = g.stage
              /\ g.stage = "settle" => http'[d].id = g.id
    BY <1>1, <2>1 DEF FlowOK
  <2>4. /\ g.stage = "reserve" => g.id = Undefined /\ ~g.paid
        /\ g.stage \in {"settle", "settled"} => g.paid
    BY <1>1, <2>1 DEF FlowOK
  <2>5. d # Undefined /\ http'[d].phase = "answered" /\ g.stage = "reserve"
            /\ http'[d].status = 201
          => (Held(http[flow[w].connection].id))'
    BY <1>3, <2>1 DEF Held
  <2>6. d # Undefined /\ http'[d].phase = "answered" /\ g.stage = "settle"
            /\ http'[d].status \in {200, 404}
          => (Charges(flow[w].id) # {})'
    BY <1>1, <1>4, <1>5, <1>7, <2>1 DEF FlowOK, Charges
  <2>7. g.stage = "paying" \/ g.paid => g.id \in DOMAIN admission' /\ (Held(flow[w].id))'
    BY <1>4, <2>1 DEF Held, LedgerKeeps
  <2>8. g.stage = "settled" => (Charges(flow[w].id) # {})'
    BY <1>1, <1>4, <1>5, <1>7, <2>1 DEF FlowOK, Charges
  <2> HIDE DEF f, c
  <2> QED
    BY <2>2, <2>3, <2>4, <2>5, <2>6, <2>7, <2>8 DEF FlowOK
<1> QED
  BY <1>1, <1>9

LEMMA OwnIdsStay ==
    ASSUME SidecarInv, NEW owner, NEW fresh, fresh \notin DOMAIN admission,
           \A w \in Workflows : \/ IdOf(w)' = IdOf(w)
                                \/ IdOf(w)' = Undefined
                                \/ w = owner /\ IdOf(w)' = fresh
    PROVE  OwnIds'
<1> SUFFICES ASSUME NEW v \in Workflows, NEW w \in Workflows, IdOf(v)' = IdOf(w)',
                    IdOf(v)' # Undefined
             PROVE  v = w
  BY DEF OwnIds
<1>1. IdOf(v) \in DOMAIN admission \cup {Undefined} /\ IdOf(w) \in DOMAIN admission \cup {Undefined}
  BY DEF SidecarInv, FlowOK
<1>2. IdOf(v) = IdOf(w) /\ IdOf(v) # Undefined => v = w
  BY DEF SidecarInv, OwnIds
<1> QED
  BY <1>1, <1>2

LEMMA SidecarStays ==
    ASSUME SidecarInv, LedgerInv', SidecarType', DOMAIN admission \subseteq DOMAIN admission',
           \A w \in Workflows : flow[w].stage = "stopped" => flow'[w] = flow[w],
           \A c \in Callers : RequestOK(c)' \/ (http'[c] = http[c] /\ call'[c] = call[c]),
           NEW owner, NEW fresh, fresh \notin DOMAIN admission,
           \A w \in Workflows :
              \/ /\ FlowOK(w)'
                 /\ \/ IdOf(w)' = IdOf(w)
                    \/ IdOf(w)' = Undefined
                    \/ w = owner /\ IdOf(w)' = fresh
              \/ /\ flow'[w] = flow[w]
                 /\ \/ flow[w].connection = Undefined
                    \/ http'[flow[w].connection] = http[flow[w].connection]
                 /\ LedgerKeeps(w)
    PROVE  SidecarInv'
<1>1. ASSUME NEW w \in Workflows
      PROVE  /\ FlowOK(w)'
             /\ \/ IdOf(w)' = IdOf(w)
                \/ IdOf(w)' = Undefined
                \/ w = owner /\ IdOf(w)' = fresh
  BY FlowStays
<1>2. OwnIds'
  BY <1>1, OwnIdsStay
<1>3. Over \subseteq Over'
  BY <1>1, OverForGood
<1>4. ASSUME NEW c \in Callers PROVE RequestOK(c)'
  <2>1. RequestOK(c)
    BY DEF SidecarInv
  <2> QED
    BY <1>3, <2>1, RequestStays
<1> QED
  BY <1>1, <1>2, <1>4 DEF SidecarInv

\* A step beside the firewall.
LEMMA BesideFirewall ==
    ASSUME SidecarInv, UNCHANGED vars, SidecarType',
           \A w \in Workflows : flow[w].stage = "stopped" => flow'[w] = flow[w],
           \A c \in Callers : RequestOK(c)' \/ http'[c] = http[c],
           \A w \in Workflows :
              \/ FlowOK(w)' /\ (IdOf(w)' = IdOf(w) \/ IdOf(w)' = Undefined)
              \/ /\ flow'[w] = flow[w]
                 /\ \/ flow[w].connection = Undefined
                    \/ http'[flow[w].connection] = http[flow[w].connection]
    PROVE  SidecarInv'
<1>1. LedgerInv'
  BY FirewallStep DEF SidecarInv
<1>2. UNCHANGED <<reservations, charges, admission, call>>
  BY DEF vars
<1>3. \A w : LedgerKeeps(w)
  BY <1>2, QuietKeeps
<1>4. Undefined \notin DOMAIN admission
  BY FirewallAssumption DEF SidecarInv, LedgerInv, TypeOK
<1>5. \A c \in Callers : RequestOK(c)' \/ (http'[c] = http[c] /\ call'[c] = call[c])
  BY <1>2
<1>6. \A w \in Workflows :
              \/ /\ FlowOK(w)'
                 /\ \/ IdOf(w)' = IdOf(w)
                    \/ IdOf(w)' = Undefined
                    \/ w = Undefined /\ IdOf(w)' = Undefined
              \/ /\ flow'[w] = flow[w]
                 /\ \/ flow[w].connection = Undefined
                    \/ http'[flow[w].connection] = http[flow[w].connection]
                 /\ LedgerKeeps(w)
  BY <1>3
<1>7. DOMAIN admission \subseteq DOMAIN admission'
  BY <1>2
<1> QED
  BY <1>1, <1>4, <1>5, <1>6, <1>7, SidecarStays

\* A new request on a connection that had none.
LEMMA ReceiveStep ==
    ASSUME SidecarInv, NEW c \in Callers,
           NEW from \in Workflows \cup {"operator", "other"},
           NEW route \in {"reserve", "settle", "release", "resize", "record"},
           NEW id \in Optional(Ids), Receive(c, from, route, id)
    PROVE  /\ http' \in [Callers -> [phase : {"none", "received", "calling", "answered"},
                             from : Workflows \cup {"operator", "other", Undefined},
                             route : {"none", "reserve", "settle", "release", "resize", "record"},
                             id : Optional(Ids), status : Nat]]
           /\ http'[c] = [phase |-> "received", from |-> from, route |-> route, id |-> id,
                          status |-> 0]
           /\ \A d \in Callers \ {c} : http'[d] = http[d]
           /\ \A w \in Workflows : flow[w].connection # c
<1> DEFINE new == [phase |-> "received", from |-> from, route |-> route, id |-> id, status |-> 0]
<1>1. http' = [http EXCEPT ![c] = new]
  BY DEF Receive, HttpRequest
<1>2. new \in [phase : {"none", "received", "calling", "answered"},
               from : Workflows \cup {"operator", "other", Undefined},
               route : {"none", "reserve", "settle", "release", "resize", "record"},
               id : Optional(Ids), status : Nat]
  OBVIOUS
<1> HIDE DEF new
<1>3. ASSUME NEW w \in Workflows, flow[w].connection = c PROVE FALSE
  <2>1. http[c].phase # "none"
    BY <1>3, SidecarAssumption DEF SidecarInv, FlowOK
  <2> QED
    BY <2>1 DEF Receive, Connection
<1>4. c \in DOMAIN http
  BY DEF SidecarInv, SidecarType
<1>5. http'[c] = new /\ \A d \in Callers \ {c} : http'[d] = http[d]
  BY <1>1, <1>4 DEF SidecarInv, SidecarType
<1> QED
  BY <1>1, <1>2, <1>3, <1>5 DEF SidecarInv, SidecarType, new

\* What the operator verifies is enough.
LEMMA AbandonedIsOver ==
    ASSUME SidecarInv, NEW id \in DOMAIN admission, Abandoned(id)
    PROVE  id \in Over
<1> SUFFICES ASSUME NEW w \in Workflows, IdOf(w) = id
             PROVE  flow[w].stage = "stopped" /\ ~flow[w].paid
  BY DEF Over
<1>1. FlowOK(w)
  BY DEF SidecarInv
<1>2. CASE flow[w].connection = Undefined
  BY <1>2 DEF IdOf, Abandoned
<1>3. CASE flow[w].connection # Undefined
  <2>1. PICK c \in Callers : c = flow[w].connection
    BY <1>3 DEF SidecarInv, SidecarType, Optional
  <2>2. /\ http[c].from = w /\ http[c].id = id /\ http[c].route \in Requesting
        /\ http[c].route = flow[w].stage /\ (flow[w].stage = "settle" => flow[w].id = id)
    BY <1>1, <1>3, <2>1 DEF FlowOK, IdOf
  <2>3. http[c].route # "reserve"
    BY <2>1, <2>2 DEF Abandoned, Waits
  <2> QED
    BY <2>2, <2>3 DEF Abandoned, Requesting
<1> QED
  BY <1>2, <1>3

LEMMA OthersKeepSidecar ==
    ASSUME SidecarInv, NEW c \in Callers, OperatorReleases(c) \/ OtherClient(c)
    PROVE  SidecarInv'
<1>1. UNCHANGED vars /\ UNCHANGED <<flow, listing>>
  BY DEF OperatorReleases, OtherClient
<1>2. PICK from \in {"operator", "other"}, route \in {"release", "resize", "record"},
           id \in Optional(Ids) :
        /\ Receive(c, from, route, id)
        /\ route \in {"release", "resize"} => id \in DOMAIN admission
        /\ route = "release" => id \in Over
  <2>1. DOMAIN admission \subseteq Ids /\ DOMAIN reservations \subseteq DOMAIN admission
        /\ listing \subseteq DOMAIN admission
    BY DEF SidecarInv, LedgerInv, TypeOK, SidecarType
  <2>2. CASE OperatorReleases(c)
    <3>1. PICK id \in listing : Abandoned(id) /\ Receive(c, "operator", "release", id)
      BY <2>2 DEF OperatorReleases
    <3>2. id \in Over
      BY <2>1, <3>1, AbandonedIsOver
    <3> QED
      BY <2>1, <3>1, <3>2 DEF Optional
  <2>3. CASE OtherClient(c)
    BY <2>1, <2>3 DEF OtherClient, Optional
  <2> QED
    BY <2>2, <2>3
<1>3. /\ http' \in [Callers -> [phase : {"none", "received", "calling", "answered"},
                             from : Workflows \cup {"operator", "other", Undefined},
                             route : {"none", "reserve", "settle", "release", "resize", "record"},
                             id : Optional(Ids), status : Nat]]
      /\ http'[c] = [phase |-> "received", from |-> from, route |-> route, id |-> id,
                          status |-> 0]
      /\ \A d \in Callers \ {c} : http'[d] = http[d]
      /\ \A w \in Workflows : flow[w].connection # c
  BY <1>2, ReceiveStep
<1>4. UNCHANGED <<admission, call>>
  BY <1>1 DEF vars
<1>5. SidecarType'
  BY <1>1, <1>3, <1>4 DEF SidecarInv, SidecarType
<1>6. RequestOK(c)'
  <2>1. Over' = Over
    BY <1>1, <1>3, <1>4 DEF Over, IdOf, SidecarInv, SidecarType, Optional
  <2> QED
    BY <1>1, <1>2, <1>3, <1>4, <2>1 DEF RequestOK
<1>7. \A d \in Callers : RequestOK(d)' \/ http'[d] = http[d]
  BY <1>3, <1>6
<1>8. \A w \in Workflows :
              /\ flow'[w] = flow[w]
              /\ \/ flow[w].connection = Undefined
                 \/ http'[flow[w].connection] = http[flow[w].connection]
  BY <1>1, <1>3 DEF SidecarInv, SidecarType, Optional
<1> QED
  BY <1>1, <1>5, <1>7, <1>8, BesideFirewall

LEMMA SendKeeps ==
    ASSUME SidecarInv, NEW w \in Workflows, NEW c \in Callers, Send(w, c)
    PROVE  SidecarInv'
<1> DEFINE f == flow[w]
<1>1. /\ UNCHANGED vars /\ listing' = listing
      /\ f.stage \in Requesting /\ f.connection = Undefined
      /\ Receive(c, w, f.stage, f.id)
      /\ flow' = [flow EXCEPT ![w].connection = c]
  BY DEF Send
<1>2. f.id \in Optional(Ids) /\ f.stage \in {"reserve", "settle"}
  BY <1>1 DEF SidecarInv, SidecarType, Requesting
<1>3. /\ http' \in [Callers -> [phase : {"none", "received", "calling", "answered"},
                             from : Workflows \cup {"operator", "other", Undefined},
                             route : {"none", "reserve", "settle", "release", "resize", "record"},
                             id : Optional(Ids), status : Nat]]
      /\ http'[c] = [phase |-> "received", from |-> w, route |-> f.stage, id |-> f.id,
                          status |-> 0]
      /\ \A d \in Callers \ {c} : http'[d] = http[d]
      /\ \A v \in Workflows : flow[v].connection # c
  BY <1>1, <1>2, ReceiveStep
<1>4. UNCHANGED <<admission, call, reservations, charges>>
  BY <1>1 DEF vars
<1>5. SidecarType'
  BY <1>1, <1>3, <1>4 DEF SidecarInv, SidecarType, Optional
<1>6. /\ flow'[w] = [f EXCEPT !.connection = c]
      /\ \A v \in Workflows \ {w} : flow'[v] = flow[v]
  BY <1>1 DEF SidecarInv, SidecarType
<1>7. FlowOK(w)
  BY DEF SidecarInv
<1>8. RequestOK(c)'
  BY <1>1, <1>2, <1>3, <1>4, <1>7 DEF RequestOK, FlowOK
<1>9. IdOf(w)' = IdOf(w)
  BY <1>1, <1>3, <1>6, SidecarAssumption DEF IdOf, SidecarInv, SidecarType
<1>10. FlowOK(w)'
  <2>1. /\ flow'[w].stage = f.stage /\ flow'[w].id = f.id /\ flow'[w].paid = f.paid
        /\ flow'[w].connection = c
    BY <1>6 DEF SidecarInv, SidecarType
  <2> QED
    BY <1>1, <1>2, <1>3, <1>4, <1>7, <1>9, <2>1 DEF FlowOK, Held, Charges, CarriesKey
<1>11. \A v \in Workflows : flow[v].stage = "stopped" => flow'[v] = flow[v]
  BY <1>1, <1>6 DEF Requesting
<1>12. \A d \in Callers : RequestOK(d)' \/ http'[d] = http[d]
  BY <1>3, <1>8
<1>13. \A v \in Workflows :
              \/ FlowOK(v)' /\ (IdOf(v)' = IdOf(v) \/ IdOf(v)' = Undefined)
              \/ /\ flow'[v] = flow[v]
                 /\ \/ flow[v].connection = Undefined
                    \/ http'[flow[v].connection] = http[flow[v].connection]
  BY <1>3, <1>6, <1>9, <1>10 DEF SidecarInv, SidecarType, Optional
<1> QED
  BY <1>1, <1>5, <1>11, <1>12, <1>13, BesideFirewall

LEMMA RejectKeeps ==
    ASSUME SidecarInv, NEW c \in Callers, Reject(c), Waits(http[c].from, c)
    PROVE  SidecarInv'
<1>0. PICK status \in {400, 500} : Handled(c, "answered", http[c].id, status)
  BY DEF Reject, Answered
<1>1. /\ UNCHANGED vars /\ UNCHANGED <<flow, listing>>
      /\ http[c].phase = "received"
      /\ Handled(c, "answered", http[c].id, status)
  BY <1>0 DEF Reject, Connection
<1>2. /\ http'[c] = [phase |-> "answered", from |-> http[c].from, route |-> http[c].route,
                     id |-> http[c].id, status |-> status]
      /\ \A d \in Callers \ {c} : http'[d] = http[d]
      /\ SidecarType'
  <2> DEFINE new == [phase |-> "answered", from |-> http[c].from, route |-> http[c].route,
                     id |-> http[c].id, status |-> status]
  <2>1. http' = [http EXCEPT ![c] = new]
    BY <1>1 DEF Handled, HttpRequest
  <2>2. http[c] \in [phase : {"none", "received", "calling", "answered"},
                     from : Workflows \cup {"operator", "other", Undefined},
                     route : {"none", "reserve", "settle", "release", "resize", "record"},
                     id : Optional(Ids), status : Nat]
    BY DEF SidecarInv, SidecarType
  <2>3. new \in [phase : {"none", "received", "calling", "answered"},
                     from : Workflows \cup {"operator", "other", Undefined},
                     route : {"none", "reserve", "settle", "release", "resize", "record"},
                     id : Optional(Ids), status : Nat]
    BY <2>2
  <2> HIDE DEF new
  <2>4. admission' = admission
    BY <1>1 DEF vars
  <2>5. SidecarType'
    BY <1>1, <2>1, <2>3, <2>4 DEF SidecarInv, SidecarType
  <2>6. http'[c] = new /\ \A d \in Callers \ {c} : http'[d] = http[d]
    BY <2>1 DEF SidecarInv, SidecarType
  <2> QED
    BY <2>5, <2>6 DEF new
<1>3. UNCHANGED <<admission, call, reservations, charges>>
  BY <1>1 DEF vars
<1>4. RequestOK(c)'
  <2>1. RequestOK(c)
    BY DEF SidecarInv
  <2> QED
    BY <1>1, <1>2, <1>3, <2>1 DEF RequestOK
<1>5. ASSUME NEW w \in Workflows, flow[w].connection = c
      PROVE  FlowOK(w)' /\ IdOf(w)' = IdOf(w)
  <2>1. FlowOK(w) /\ flow'[w] = flow[w]
    BY <1>1 DEF SidecarInv
  <2>2. IdOf(w)' = IdOf(w)
    BY <1>2, <1>5, <2>1, SidecarAssumption DEF IdOf
  <2> QED
    BY <1>1, <1>2, <1>3, <1>5, <2>1, <2>2 DEF FlowOK, Held, Charges, CarriesKey
<1>6. \A d \in Callers : RequestOK(d)' \/ http'[d] = http[d]
  BY <1>2, <1>4
<1>7. \A v \in Workflows :
              \/ FlowOK(v)' /\ (IdOf(v)' = IdOf(v) \/ IdOf(v)' = Undefined)
              \/ /\ flow'[v] = flow[v]
                 /\ \/ flow[v].connection = Undefined
                    \/ http'[flow[v].connection] = http[flow[v].connection]
  BY <1>1, <1>2, <1>5 DEF SidecarInv, SidecarType, Optional
<1> QED
  BY <1>1, <1>2, <1>6, <1>7, BesideFirewall

\* Steps that only move a workflow, on a connection of its own or on none.
LEMMA FlowKeeps ==
    ASSUME SidecarInv, NEW w \in Workflows, GiveUp(w) \/ Pay(w) \/ CrashWorkflow(w)
    PROVE  SidecarInv'
<1>1. /\ UNCHANGED vars /\ UNCHANGED <<http, listing>>
      /\ \A v \in Workflows \ {w} : flow'[v] = flow[v]
      /\ flow'[w].id = flow[w].id
      /\ flow'[w].connection = Undefined
      /\ flow[w].stage # "stopped"
      /\ SidecarType'
  <2>1. UNCHANGED vars /\ UNCHANGED <<http, listing>>
    BY DEF GiveUp, Pay, CrashWorkflow
  <2>2. admission' = admission
    BY <2>1 DEF vars
  <2>3. FlowOK(w)
    BY DEF SidecarInv
  <2>4. flow[w].stage = "paying" => flow[w].connection = Undefined
    BY <2>3 DEF FlowOK, Requesting
  <2>5. CASE GiveUp(w)
    BY <2>1, <2>2, <2>3, <2>5 DEF GiveUp, SidecarInv, SidecarType, Optional, FlowOK, Requesting
  <2>6. CASE Pay(w)
    BY <2>1, <2>2, <2>4, <2>6 DEF Pay, SidecarInv, SidecarType
  <2>7. CASE CrashWorkflow(w)
    BY <2>1, <2>2, <2>7 DEF CrashWorkflow, SidecarInv, SidecarType, Optional, Requesting
  <2> QED
    BY <2>5, <2>6, <2>7
<1>2. UNCHANGED <<admission, call, reservations, charges>>
  BY <1>1 DEF vars
<1>3. FlowOK(w)
  BY DEF SidecarInv
<1>4. IdOf(w)' = flow[w].id
  BY <1>1 DEF IdOf
<1>5. flow[w].id = IdOf(w) \/ flow[w].id = Undefined
  BY <1>3 DEF FlowOK, IdOf, Requesting
<1>6. /\ flow'[w].stage \in {"settle", "settled"} => flow'[w].paid
      /\ flow'[w].stage = "reserve" => flow[w].id = Undefined /\ ~flow'[w].paid
      /\ flow'[w].paid \/ flow'[w].stage = "paying" => flow[w].paid \/ flow[w].stage = "paying"
      /\ flow'[w].stage = "settled" =>
            flow[w].stage = "settled"
  BY <1>3 DEF GiveUp, Pay, CrashWorkflow, SidecarInv, SidecarType, FlowOK
<1>7. FlowOK(w)'
  <2>1. (IdOf(w) \in DOMAIN admission \cup {Undefined})'
        /\ (IdOf(w) # Undefined => CarriesKey(IdOf(w), RequestOf[w].idempotencyKey))'
    BY <1>2, <1>3, <1>4, <1>5 DEF FlowOK, CarriesKey
  <2> QED
    BY <1>1, <1>2, <1>3, <1>6, <2>1 DEF FlowOK, Held, Charges
<1>8. \A d \in Callers : RequestOK(d)' \/ http'[d] = http[d]
  BY <1>1
<1>9. \A v \in Workflows :
              \/ FlowOK(v)' /\ (IdOf(v)' = IdOf(v) \/ IdOf(v)' = Undefined)
              \/ /\ flow'[v] = flow[v]
                 /\ \/ flow[v].connection = Undefined
                    \/ http'[flow[v].connection] = http[flow[v].connection]
  BY <1>1, <1>4, <1>5, <1>7
<1>10. \A v \in Workflows : flow[v].stage = "stopped" => flow'[v] = flow[v]
  BY <1>1
<1> QED
  BY <1>1, <1>8, <1>9, <1>10, BesideFirewall

\* A quiet step of the firewall: the ledger is as it was.
LEMMA QuietLedger ==
    ASSUME LedgerInv, TypeOK', UNCHANGED <<reservations, charges, admission, told>>
    PROVE  LedgerInv' /\ LedgerEffect
<1>1. \A key \in Keys : Pending(key)' = Pending(key) /\ Settled(key)' = Settled(key)
  BY DEF Pending, Settled
<1>2. HistoryOK' /\ ChargedOnce' /\ OneRecordPerKey'
  BY <1>1 DEF LedgerInv, HistoryOK, ChargedOnce, OneRecordPerKey
<1> QED
  BY <1>2 DEF LedgerInv, LedgerEffect

\* The handler goes on with the request on c.
LEMMA HandledStep ==
    ASSUME SidecarInv, NEW c \in Callers, NEW phase \in {"none", "received", "calling", "answered"},
           NEW id \in Optional(Ids), NEW status \in Nat, Handled(c, phase, id, status)
    PROVE  /\ http' \in [Callers -> [phase : {"none", "received", "calling", "answered"},
                             from : Workflows \cup {"operator", "other", Undefined},
                             route : {"none", "reserve", "settle", "release", "resize", "record"},
                             id : Optional(Ids), status : Nat]]
           /\ http'[c] = [phase |-> phase, from |-> http[c].from, route |-> http[c].route,
                          id |-> id, status |-> status]
           /\ \A d \in Callers \ {c} : http'[d] = http[d]
<1> DEFINE new == [phase |-> phase, from |-> http[c].from, route |-> http[c].route,
                   id |-> id, status |-> status]
<1>1. http' = [http EXCEPT ![c] = new]
  BY DEF Handled, HttpRequest
<1>2. http[c] \in [phase : {"none", "received", "calling", "answered"},
                   from : Workflows \cup {"operator", "other", Undefined},
                   route : {"none", "reserve", "settle", "release", "resize", "record"},
                   id : Optional(Ids), status : Nat]
  BY DEF SidecarInv, SidecarType
<1>3. new \in [phase : {"none", "received", "calling", "answered"},
               from : Workflows \cup {"operator", "other", Undefined},
               route : {"none", "reserve", "settle", "release", "resize", "record"},
               id : Optional(Ids), status : Nat]
  BY <1>2
<1> HIDE DEF new
<1>4. http'[c] = new /\ \A d \in Callers \ {c} : http'[d] = http[d]
  BY <1>1 DEF SidecarInv, SidecarType
<1> QED
  BY <1>1, <1>3, <1>4 DEF SidecarInv, SidecarType, new

LEMMA DispatchCalls ==
    ASSUME SidecarInv, NEW c \in Callers, Dispatch(c)
    PROVE  /\ LedgerInv'
           /\ UNCHANGED <<reservations, charges, admission>>
           /\ \A d \in Callers \ {c} : call'[d] = call[d]
           /\ call'[c].op = IF http[c].route = "record" THEN "recordActual" ELSE http[c].route
           /\ http[c].route # "record" => call'[c].id = http[c].id
           /\ http[c].route = "reserve" =>
                call'[c].request.idempotencyKey = RequestOf[http[c].from].idempotencyKey
<1>1. /\ LedgerInv /\ TypeOK /\ RequestOK(c) /\ http[c].phase = "received"
      /\ call \in [Callers -> CallType] /\ DOMAIN admission \subseteq Ids
  BY DEF SidecarInv, LedgerInv, TypeOK, Dispatch, Connection
<1>2. CASE http[c].route = "reserve"
  <2> DEFINE request == Normalize(RequestOf[http[c].from])
  <2>1. RequestOf[http[c].from] \in RequestType /\ http[c].id = Undefined
    BY <1>1, <1>2, SidecarAssumption DEF RequestOK
  <2>2. /\ Accepted(RequestOf[http[c].from])
        /\ Enqueue(c, "reserve", request, Undefined, Undefined)
    BY <1>2 DEF Dispatch
  <2>3. /\ request \in NormalRequestType /\ request # Undefined
        /\ request.idempotencyKey = RequestOf[http[c].from].idempotencyKey
    <3>1. request \in NormalRequestType /\ request # Undefined
      BY <2>1, <2>2, NormalizeType DEF Accepted
    <3> QED
      BY <3>1, <2>1 DEF Normalize, RequestType
  <2> HIDE DEF request
  <2>4. TypeOK'
    BY <1>1, <2>2, <2>3, EnqueueType DEF Optional, OperationNames
  <2>5. UNCHANGED <<reservations, charges, admission, told>>
    BY <2>2 DEF Enqueue
  <2>6. LedgerInv'
    BY <1>1, <2>4, <2>5, QuietLedger
  <2> QED
    BY <1>1, <1>2, <2>1, <2>2, <2>3, <2>5, <2>6 DEF Enqueue
<1>3. CASE http[c].route \in {"settle", "release", "resize"}
  <2>1. http[c].id \in Ids
    BY <1>1, <1>3 DEF RequestOK
  <2>2. PICK costUsd \in Optional(Nat) :
            /\ Enqueue(c, http[c].route, Undefined, http[c].id, costUsd)
            /\ http[c].route \in {"settle", "resize"} => costUsd # Undefined
    <3>1. \A n \in Nat : n \in Optional(Nat) /\ n # Undefined
      BY PolicyAssumption DEF Optional
    <3>2. CASE http[c].route = "settle"
      <4>1. CostOf[http[c].from] \in Nat
        BY <1>1, <3>2, SidecarAssumption DEF RequestOK
      <4> QED
        BY <3>1, <3>2, <4>1 DEF Dispatch
    <3>3. CASE http[c].route = "release"
      BY <3>3 DEF Dispatch, Optional
    <3>4. CASE http[c].route = "resize"
      <4>1. PICK estimate \in Amounts : Enqueue(c, "resize", Undefined, http[c].id, estimate)
        BY <3>4 DEF Dispatch
      <4>2. estimate \in Nat
        BY FirewallAssumption
      <4> QED
        BY <3>1, <3>4, <4>1, <4>2
    <3> QED
      BY <1>3, <3>2, <3>3, <3>4
  <2>3. LedgerInv'
    BY <1>1, <1>3, <2>1, <2>2, EnqueuePreserves DEF OperationNames
  <2> QED
    BY <1>1, <1>3, <2>2, <2>3 DEF Enqueue
<1>4. CASE http[c].route = "record"
  <2>1. BeginRecordActual(c)
    BY <1>4 DEF Dispatch
  <2>2. LedgerInv'
    BY <1>1, <2>1, NextLedger DEF Next
  <2> QED
    BY <1>1, <1>4, <2>1, <2>2 DEF BeginRecordActual, Enqueue
<1> QED
  BY <1>2, <1>3, <1>4 DEF Dispatch

LEMMA DispatchKeeps ==
    ASSUME SidecarInv, NEW c \in Callers, Dispatch(c)
    PROVE  SidecarInv'
<1>1. /\ UNCHANGED <<flow, listing>> /\ http[c].phase = "received"
      /\ Handled(c, "calling", http[c].id, 0)
      /\ http[c].id \in Optional(Ids)
  BY DEF Dispatch, Connection, SidecarInv, SidecarType
<1>2. /\ LedgerInv'
      /\ UNCHANGED <<reservations, charges, admission>>
      /\ \A d \in Callers \ {c} : call'[d] = call[d]
      /\ call'[c].op = IF http[c].route = "record" THEN "recordActual" ELSE http[c].route
      /\ http[c].route # "record" => call'[c].id = http[c].id
      /\ http[c].route = "reserve" =>
           call'[c].request.idempotencyKey = RequestOf[http[c].from].idempotencyKey
  BY DispatchCalls
<1>3. /\ http' \in [Callers -> [phase : {"none", "received", "calling", "answered"},
                             from : Workflows \cup {"operator", "other", Undefined},
                             route : {"none", "reserve", "settle", "release", "resize", "record"},
                             id : Optional(Ids), status : Nat]]
      /\ http'[c] = [phase |-> "calling", from |-> http[c].from, route |-> http[c].route,
                     id |-> http[c].id, status |-> 0]
      /\ \A d \in Callers \ {c} : http'[d] = http[d]
  BY <1>1, HandledStep
<1>4. SidecarType'
  BY <1>1, <1>2, <1>3 DEF SidecarInv, SidecarType
<1>5. RequestOK(c)'
  <2>1. RequestOK(c)
    BY DEF SidecarInv
  <2>2. Over' = Over
    BY <1>1, <1>2, <1>3 DEF Over, IdOf, SidecarInv, SidecarType, Optional
  <2> QED
    BY <1>1, <1>2, <1>3, <2>1, <2>2 DEF RequestOK
<1>6. \A d \in Callers : RequestOK(d)' \/ (http'[d] = http[d] /\ call'[d] = call[d])
  BY <1>2, <1>3, <1>5
<1>7. \A w : LedgerKeeps(w)
  BY <1>2, QuietKeeps
<1>8. ASSUME NEW w \in Workflows, flow[w].connection = c
      PROVE  FlowOK(w)' /\ IdOf(w)' = IdOf(w)
  <2>1. FlowOK(w) /\ flow'[w] = flow[w]
    BY <1>1 DEF SidecarInv
  <2>2. IdOf(w)' = IdOf(w)
    BY <1>3, <1>8, <2>1, SidecarAssumption DEF IdOf
  <2> QED
    BY <1>1, <1>2, <1>3, <1>8, <2>1, <2>2 DEF FlowOK, Held, Charges, CarriesKey
<1>9. \A w \in Workflows :
              \/ /\ FlowOK(w)'
                 /\ \/ IdOf(w)' = IdOf(w)
                    \/ IdOf(w)' = Undefined
                    \/ w = Undefined /\ IdOf(w)' = Undefined
              \/ /\ flow'[w] = flow[w]
                 /\ \/ flow[w].connection = Undefined
                    \/ http'[flow[w].connection] = http[flow[w].connection]
                 /\ LedgerKeeps(w)
  BY <1>1, <1>3, <1>7, <1>8 DEF SidecarInv, SidecarType, Optional
<1>10. Undefined \notin DOMAIN admission
  BY FirewallAssumption DEF SidecarInv, LedgerInv, TypeOK
<1> QED
  BY <1>1, <1>2, <1>4, <1>6, <1>9, <1>10, SidecarStays

\* What each commit may answer.
LEMMA AnswersOfCommits ==
    ASSUME NEW c \in Callers
    PROVE  /\ CommitReserve(c) =>
                answer' \in {"duplicate", "conflict", "denied", "reserved", "store-error"}
           /\ CommitSettle(c) => answer' \in {"not-found", "settled", "store-error"}
           /\ CommitRelease(c) => answer' \in {"not-found", "released", "store-error"}
           /\ CommitResize(c) => answer' \in {"not-found", "resized", "denied", "store-error"}
           /\ CommitRecordActual(c) =>
                answer' \in {"duplicate", "conflict", "recorded", "store-error"}
<1>1. CommitReserve(c) => answer' \in {"duplicate", "conflict", "denied", "reserved", "store-error"}
  BY DEF CommitReserve, RefuseKey, Refuse, Answer
<1>2. CommitSettle(c) => answer' \in {"not-found", "settled", "store-error"}
  BY DEF CommitSettle, Refuse, Answer
<1>3. CommitRelease(c) => answer' \in {"not-found", "released", "store-error"}
  BY DEF CommitRelease, Refuse, Answer
<1>4. CommitResize(c) => answer' \in {"not-found", "resized", "denied", "store-error"}
  BY DEF CommitResize, Refuse, Answer
<1>5. CommitRecordActual(c) => answer' \in {"duplicate", "conflict", "recorded", "store-error"}
  BY DEF CommitRecordActual, RefuseKey, Refuse, Answer
<1> QED
  BY <1>1, <1>2, <1>3, <1>4, <1>5

\* The id in the answer of a reserve is that of the reservation it made.
LEMMA NewIdIsNew ==
    ASSUME LedgerInv, NEW c \in Callers, CommitReserve(c), answer' = "reserved"
    PROVE  /\ NewId \in Ids \ DOMAIN admission
           /\ NewId \in DOMAIN admission'
           /\ NewId \in DOMAIN reservations'
           /\ reservations'[NewId].idempotencyKey = call[c].request.idempotencyKey
           /\ \A i \in DOMAIN charges' : charges'[i].reservationId # NewId
<1>1. /\ DOMAIN reservations' \ DOMAIN reservations # {}
      /\ charges' = charges
  <2>1. PICK id \in Ids \ DOMAIN admission :
              \E record : reservations' = Bind(reservations, id, record)
    BY DEF CommitReserve, RefuseKey, Refuse
  <2>2. id \notin DOMAIN reservations /\ id \in DOMAIN reservations'
    BY <2>1 DEF Bind, LedgerInv, TypeOK
  <2> QED
    BY <2>2 DEF CommitReserve, RefuseKey, Refuse
<1>2. NewId \in DOMAIN reservations' \ DOMAIN reservations
  BY <1>1 DEF NewId
<1>3. \A id \in DOMAIN reservations' \ DOMAIN reservations :
                 /\ id \in Ids \ DOMAIN admission
                 /\ id \in DOMAIN admission'
                 /\ ~Charged(id)'
                 /\ reservations'[id].idempotencyKey = call[c].request.idempotencyKey
  BY ReserveMoves
<1>4. PICK id : id = NewId
  OBVIOUS
<1>5. ~Charged(id)'
  BY <1>2, <1>3, <1>4
<1>6. \A i \in DOMAIN charges' : charges'[i].reservationId # id
  BY <1>5 DEF Charged
<1> QED
  BY <1>2, <1>3, <1>4, <1>6

\* The ledger under the workflows while an answer is made.
LEMMA RespondLedger ==
    ASSUME SidecarInv, NEW c \in Callers, Respond(c)
    PROVE  /\ LedgerInv'
           /\ call' = [call EXCEPT ![c] = NoCall]
           /\ DOMAIN admission \subseteq DOMAIN admission'
           /\ \A w \in Workflows : LedgerKeeps(w)
<1>1. LedgerInv /\ LedgerInv' /\ LedgerEffect
  <2>1. Next
    BY DEF Respond, Next
  <2> QED
    BY <2>1, FirewallStep DEF SidecarInv
<1>2. RequestOK(c) /\ http[c].phase = "calling"
  BY DEF SidecarInv, Respond, Connection
<1>3. \A id : Charged(id) <=> Charges(id) # {}
  BY DEF Charged, Charges
<1>4. \A id : Charged(id)' <=> Charges(id)' # {}
  BY DEF Charged, Charges
<1>5. \A id \in DOMAIN admission : \A key : CarriesKey(id, key) => CarriesKey(id, key)'
  BY <1>1, KeysCarried
<1>6. /\ call' = [call EXCEPT ![c] = NoCall]
      /\ DOMAIN admission \subseteq DOMAIN admission'
      /\ \A id \in DOMAIN admission :
            \/ Same(id)
            \/ call[c].op = "settle" /\ id = call[c].id /\ (Charged(id) => Charged(id)')
                   /\ (Held(id) => Charged(id)')
            \/ call[c].op = "release" /\ id = call[c].id /\ (Charged(id) => Charged(id)')
  <2>1. CASE CommitReserve(c)
    BY <1>1, <2>1, ReserveMoves
  <2>2. CASE CommitSettle(c)
    <3>1. /\ call' = [call EXCEPT ![c] = NoCall]
          /\ admission' = admission
          /\ \A id \in DOMAIN admission \ {call[c].id} : Same(id)
          /\ \A id : id = call[c].id => (id \in DOMAIN reservations => Charged(id)')
      BY <1>1, <2>2, SettleMoves
    <3>2. call[c].op = "settle"
      BY <2>2 DEF CommitSettle, Turn
    <3>3. ASSUME NEW id PROVE Charged(id) => Charged(id)'
      <4>1. CASE UNCHANGED charges
        BY <4>1 DEF Charged
      <4>2. CASE \E charge \in ChargeType : charges' = Append(charges, charge)
        BY <1>1, <4>2, AppendFacts DEF Charged, LedgerInv
      <4>3. call[c].id \in DOMAIN reservations =>
              SettledCharge(call[c].id, call[c].costUsd, call[c].now) \in ChargeType
        <5>1. call[c].costUsd \in Nat /\ call[c].now \in Nat /\ call[c].id \in Ids
          BY <1>1, <3>2, CallArguments DEF LedgerInv
        <5> QED
          BY <1>1, <5>1, SettledChargeType DEF LedgerInv
      <4> QED
        BY <2>2, <4>1, <4>2, <4>3 DEF CommitSettle, Refuse
    <3>4. ASSUME NEW id \in DOMAIN admission, id = call[c].id
          PROVE  (Charged(id) => Charged(id)') /\ (Held(id) => Charged(id)')
      BY <1>3, <3>1, <3>3, <3>4 DEF Held
    <3> QED
      BY <3>1, <3>2, <3>4
  <2>3. CASE CommitRelease(c)
    <3>1. call[c].op = "release"
      BY <2>3 DEF CommitRelease, Turn
    <3> QED
      BY <1>1, <2>3, <3>1, ReleaseMoves
  <2>4. CASE CommitResize(c)
    BY <1>1, <2>4, ResizeMoves
  <2>5. CASE CommitRecordActual(c)
    <3>1. call' = [call EXCEPT ![c] = NoCall] /\ UNCHANGED <<reservations, admission>>
      BY <2>5 DEF CommitRecordActual, RefuseKey, Refuse, Answer, Dequeue
    <3>2. \A id \in DOMAIN admission : Charged(id)' <=> Charged(id)
      <4>1. CASE UNCHANGED charges
        BY <4>1 DEF Charged
      <4>2. CASE \E charge \in ChargeType : RecordEffect(charge)
        <5>1. PICK charge \in ChargeType : RecordEffect(charge)
          BY <4>2
        <5>2. /\ DOMAIN charges' = DOMAIN charges \cup {Len(charges) + 1}
              /\ \A i \in DOMAIN charges : charges'[i] = charges[i]
              /\ charges'[Len(charges) + 1].reservationId = Undefined
          BY <1>1, <5>1, AppendFacts DEF RecordEffect, LedgerInv
        <5>3. Undefined \notin DOMAIN admission
          BY <1>1, FirewallAssumption DEF LedgerInv, TypeOK
        <5> QED
          BY <5>2, <5>3 DEF Charged
      <4> QED
        BY <1>1, <2>5, <4>1, <4>2, RecordCommits DEF LedgerInv, LedgerEffect
    <3> QED
      BY <3>1, <3>2 DEF Same
  <2>6. CASE StoreFailure(c)
    BY <2>6, FailureMoves
  <2> QED
    BY <2>1, <2>2, <2>3, <2>4, <2>5, <2>6 DEF Respond
<1>7. ASSUME NEW w \in Workflows PROVE LedgerKeeps(w)
  <2>1. ASSUME NEW id \in DOMAIN admission
        PROVE  /\ Charges(id) # {} => Charges(id)' # {}
               /\ Held(id) /\ id \notin Over => Held(id)'
    <3>1. Held(id) <=> id \in DOMAIN reservations \/ Charged(id)
      BY <1>3 DEF Held
    <3>2. Held(id)' <=> id \in DOMAIN reservations' \/ Charged(id)'
      BY <1>4 DEF Held
    <3>3. call[c].op = "release" /\ id = call[c].id => id \in Over
      BY <1>2 DEF RequestOK
    <3> QED
      BY <1>3, <1>4, <1>6, <3>1, <3>2, <3>3 DEF Same
  <2> QED
    BY <1>5, <1>6, <2>1 DEF LedgerKeeps
<1> QED
  BY <1>1, <1>6, <1>7

LEMMA RespondReserve ==
    ASSUME SidecarInv, NEW c \in Callers, Respond(c), http[c].route = "reserve",
           Waits(http[c].from, c)
    PROVE  SidecarInv'
<1> DEFINE new == IF answer' = "reserved" THEN NewId ELSE http[c].id
           key == RequestOf[http[c].from].idempotencyKey
<1>1. /\ UNCHANGED <<flow, listing>> /\ http[c].phase = "calling"
      /\ Handled(c, "answered", new, Status(answer'))
      /\ RequestOK(c) /\ LedgerInv /\ DOMAIN admission \subseteq Ids
  BY DEF Respond, Answered, Connection, SidecarInv, LedgerInv, TypeOK
<1>2. CommitReserve(c) \/ StoreFailure(c)
  BY <1>1 DEF Respond, RequestOK, CommitSettle, CommitRelease, CommitResize, CommitRecordActual, Turn
<1>3. answer' \in {"duplicate", "conflict", "denied", "reserved", "store-error"}
  BY <1>2, AnswersOfCommits, FailureMoves
<1>4. /\ Status(answer') \in {201, 400, 402, 409, 500}
      /\ Status(answer') = 201 <=> answer' = "reserved"
  BY <1>3 DEF Status
<1>5. /\ LedgerInv'
      /\ call' = [call EXCEPT ![c] = NoCall]
      /\ \A w \in Workflows : LedgerKeeps(w)
  BY RespondLedger
<1>6. PICK id : id = new
  OBVIOUS
<1>7. /\ id \in Optional(Ids) /\ id \notin DOMAIN admission
      /\ IF Status(answer') = 201
         THEN /\ id \in DOMAIN admission' /\ id \in DOMAIN reservations'
              /\ reservations'[id].idempotencyKey = key
              /\ \A i \in DOMAIN charges' : charges'[i].reservationId # id
         ELSE id = Undefined
  <2>1. CASE answer' = "reserved"
    <3>1. call[c].request.idempotencyKey = key
      BY <1>1 DEF RequestOK
    <3>2. CommitReserve(c)
      BY <1>2, <2>1, FailureMoves
    <3> QED
      BY <1>1, <1>4, <1>6, <2>1, <3>1, <3>2, NewIdIsNew DEF Optional
  <2>2. CASE answer' # "reserved"
    <3>1. id = Undefined
      BY <1>1, <1>6, <2>2 DEF RequestOK
    <3>2. Undefined \notin DOMAIN admission
      BY <1>1, FirewallAssumption
    <3> QED
      BY <1>4, <2>2, <3>1, <3>2 DEF Optional
  <2> QED
    BY <2>1, <2>2
<1>8. /\ http' \in [Callers -> [phase : {"none", "received", "calling", "answered"},
                             from : Workflows \cup {"operator", "other", Undefined},
                             route : {"none", "reserve", "settle", "release", "resize", "record"},
                             id : Optional(Ids), status : Nat]]
      /\ http'[c] = [phase |-> "answered", from |-> http[c].from, route |-> http[c].route,
                     id |-> id, status |-> Status(answer')]
      /\ \A d \in Callers \ {c} : http'[d] = http[d]
  <2>1. Handled(c, "answered", id, Status(answer')) /\ Status(answer') \in Nat
    BY <1>1, <1>4, <1>6
  <2> HIDE DEF new
  <2> QED
    BY <1>7, <2>1, HandledStep
<1>9. DOMAIN admission \subseteq DOMAIN admission'
  <2>1. CASE CommitReserve(c)
    BY <1>1, <2>1, ReserveMoves
  <2>2. CASE StoreFailure(c)
    BY <2>2, FailureMoves
  <2> QED
    BY <1>2, <2>1, <2>2
<1> HIDE DEF new
<1>10. SidecarType'
  BY <1>1, <1>8, <1>9 DEF SidecarInv, SidecarType
<1>11. RequestOK(c)'
  <2>1. http[c].from \in Workflows
    BY <1>1 DEF RequestOK
  <2> QED
    BY <1>4, <1>7, <1>8, <2>1 DEF RequestOK
<1>12. \A d \in Callers : RequestOK(d)' \/ (http'[d] = http[d] /\ call'[d] = call[d])
  BY <1>5, <1>8, <1>11 DEF SidecarInv, LedgerInv, TypeOK
<1>13. ASSUME NEW w \in Workflows, flow[w].connection = c
       PROVE  FlowOK(w)' /\ IdOf(w)' = id /\ w = http[c].from
  <2>1. FlowOK(w) /\ flow'[w] = flow[w]
    BY <1>1 DEF SidecarInv
  <2>2. /\ flow[w].stage = "reserve" /\ http[c].from = w
        /\ flow[w].id = Undefined /\ ~flow[w].paid
    BY <1>13, <2>1, SidecarAssumption DEF FlowOK
  <2>3. IdOf(w)' = id
    BY <1>8, <1>13, <2>1, SidecarAssumption DEF IdOf
  <2>4. id # Undefined => Status(answer') = 201
    BY <1>7
  <2>5. Status(answer') = 201 => id \in DOMAIN reservations'
    BY <1>7
  <2>6. IdOf(w)' # Undefined => CarriesKey(IdOf(w), RequestOf[w].idempotencyKey)'
    BY <1>7, <2>2, <2>3 DEF CarriesKey
  <2>7. IdOf(w)' \in DOMAIN admission' \cup {Undefined}
    BY <1>7, <2>3
  <2>8. Status(answer') = 201 => Held(http[c].id)'
    BY <1>8, <2>5 DEF Held
  <2> QED
    BY <1>4, <1>8, <1>13, <2>1, <2>2, <2>3, <2>6, <2>7, <2>8, SidecarAssumption
    DEF FlowOK, Requesting
<1>14. \A w \in Workflows :
              \/ /\ FlowOK(w)'
                 /\ \/ IdOf(w)' = IdOf(w)
                    \/ IdOf(w)' = Undefined
                    \/ w = http[c].from /\ IdOf(w)' = id
              \/ /\ flow'[w] = flow[w]
                 /\ \/ flow[w].connection = Undefined
                    \/ http'[flow[w].connection] = http[flow[w].connection]
                 /\ LedgerKeeps(w)
  BY <1>1, <1>5, <1>8, <1>13 DEF SidecarInv, SidecarType, Optional
<1>15. PICK owner : owner = http[c].from
  OBVIOUS
<1>16. \A w \in Workflows : flow[w].stage = "stopped" => flow'[w] = flow[w]
  BY <1>1
<1>17. id \notin DOMAIN admission
  BY <1>7
<1> QED
  BY <1>5, <1>9, <1>10, <1>12, <1>14, <1>15, <1>16, <1>17, SidecarStays

LEMMA RespondOther ==
    ASSUME SidecarInv, NEW c \in Callers, Respond(c), http[c].route # "reserve",
           Waits(http[c].from, c)
    PROVE  SidecarInv'
<1>1. /\ UNCHANGED <<flow, listing>> /\ http[c].phase = "calling"
      /\ Handled(c, "answered", IF answer' = "reserved" THEN NewId ELSE http[c].id, Status(answer'))
      /\ RequestOK(c) /\ LedgerInv /\ DOMAIN admission \subseteq Ids
      /\ http[c].id \in Optional(Ids)
  BY DEF Respond, Answered, Connection, SidecarInv, SidecarType, LedgerInv, TypeOK
<1>2. /\ call[c].op # "reserve"
      /\ http[c].route = "settle" => call[c].op = "settle" /\ call[c].id = http[c].id
  BY <1>1 DEF RequestOK
<1>3. /\ answer' \in {"not-found", "settled", "released", "resized", "denied", "duplicate",
                     "conflict", "recorded", "store-error"}
      /\ http[c].route = "settle" => CommitSettle(c) \/ StoreFailure(c)
      /\ http[c].route = "settle" => answer' \in {"not-found", "settled", "store-error"}
      /\ DOMAIN admission \subseteq DOMAIN admission'
  <2>1. ~CommitReserve(c)
    BY <1>2 DEF CommitReserve, Turn
  <2>2. CASE CommitSettle(c)
    BY <1>1, <2>2, SettleMoves, AnswersOfCommits
  <2>3. CASE CommitRelease(c)
    <3>1. http[c].route # "settle"
      BY <1>2, <2>3 DEF CommitRelease, Turn
    <3> QED
      BY <1>1, <2>3, <3>1, ReleaseMoves, AnswersOfCommits
  <2>4. CASE CommitResize(c)
    <3>1. http[c].route # "settle"
      BY <1>2, <2>4 DEF CommitResize, Turn
    <3> QED
      BY <1>1, <2>4, <3>1, ResizeMoves, AnswersOfCommits
  <2>5. CASE CommitRecordActual(c)
    <3>1. http[c].route # "settle"
      BY <1>2, <2>5 DEF CommitRecordActual, Turn
    <3>2. admission' = admission
      BY <2>5 DEF CommitRecordActual, RefuseKey, Refuse
    <3> QED
      BY <2>5, <3>1, <3>2, AnswersOfCommits
  <2>6. CASE StoreFailure(c)
    BY <2>6, FailureMoves
  <2> QED
    BY <2>1, <2>2, <2>3, <2>4, <2>5, <2>6 DEF Respond
<1>4. /\ Status(answer') \in Nat
      /\ http[c].route = "settle" => Status(answer') \in {200, 404, 500}
      /\ Status(answer') = 200 /\ http[c].route = "settle" => answer' = "settled"
      /\ Status(answer') = 404 /\ http[c].route = "settle" => answer' = "not-found"
  BY <1>3 DEF Status
<1>5. /\ LedgerInv'
      /\ call' = [call EXCEPT ![c] = NoCall]
      /\ \A w \in Workflows : LedgerKeeps(w)
  BY RespondLedger
<1>6. /\ http' \in [Callers -> [phase : {"none", "received", "calling", "answered"},
                             from : Workflows \cup {"operator", "other", Undefined},
                             route : {"none", "reserve", "settle", "release", "resize", "record"},
                             id : Optional(Ids), status : Nat]]
      /\ http'[c] = [phase |-> "answered", from |-> http[c].from, route |-> http[c].route,
                     id |-> http[c].id, status |-> Status(answer')]
      /\ \A d \in Callers \ {c} : http'[d] = http[d]
  <2>1. Handled(c, "answered", http[c].id, Status(answer'))
    BY <1>1, <1>3
  <2> QED
    BY <1>1, <1>4, <2>1, HandledStep
<1>7. SidecarType'
  BY <1>1, <1>3, <1>6 DEF SidecarInv, SidecarType
<1>8. RequestOK(c)'
  BY <1>1, <1>3, <1>4, <1>6 DEF RequestOK
<1>9. \A d \in Callers : RequestOK(d)' \/ (http'[d] = http[d] /\ call'[d] = call[d])
  BY <1>5, <1>6, <1>8 DEF SidecarInv, LedgerInv, TypeOK
<1>10. ASSUME NEW w \in Workflows, flow[w].connection = c
       PROVE  FlowOK(w)' /\ IdOf(w)' = IdOf(w)
  <2>1. FlowOK(w) /\ flow'[w] = flow[w] /\ LedgerKeeps(w)
    BY <1>1, <1>5 DEF SidecarInv
  <2>2. PICK id : id = flow[w].id
    OBVIOUS
  <2>3. /\ flow[w].stage = "settle" /\ http[c].route = "settle" /\ http[c].id = id
        /\ flow[w].paid /\ id \in DOMAIN admission /\ Held(id)
    BY <1>10, <2>1, <2>2, SidecarAssumption DEF FlowOK, Requesting
  <2>4. IdOf(w)' = id /\ IdOf(w) = id
    BY <1>6, <1>10, <2>1, <2>3, SidecarAssumption DEF IdOf
  <2>5. Held(id)'
    <3>1. id \notin Over
      BY <1>10, <2>4, NotOver, SidecarAssumption
    <3> QED
      BY <2>1, <2>2, <2>3, <3>1 DEF LedgerKeeps
  <2>6. id # Undefined /\ id \in DOMAIN admission'
    BY <1>1, <1>3, <2>3, FirewallAssumption
  <2>7. PICK key : key = RequestOf[w].idempotencyKey
    OBVIOUS
  <2>8. CarriesKey(id, key)'
    <3>1. CarriesKey(id, key)
      BY <2>1, <2>4, <2>6, <2>7 DEF FlowOK
    <3> QED
      BY <2>1, <2>3, <3>1 DEF LedgerKeeps
  <2>9. (IdOf(w) # Undefined => CarriesKey(IdOf(w), RequestOf[w].idempotencyKey))'
    BY <2>4, <2>7, <2>8 DEF CarriesKey
  <2>10. Status(answer') \in {200, 404} => Charges(id)' # {}
    <3>1. Status(answer') \in {200, 404} => CommitSettle(c)
      BY <1>3, <2>3, FailureMoves DEF Status
    <3>2. CommitSettle(c) /\ id \in DOMAIN reservations => Charges(id)' # {}
      <4>1. CommitSettle(c) => (id \in DOMAIN reservations => Charged(id)')
        BY <1>1, <1>2, <2>3, SettleMoves
      <4> QED
        BY <4>1 DEF Charged, Charges
    <3>3. id \notin DOMAIN reservations => Charges(id)' # {}
      BY <2>1, <2>3 DEF Held, LedgerKeeps
    <3> QED
      BY <3>1, <3>2, <3>3
  <2>11. Held(flow[w].id)' /\ (Status(answer') \in {200, 404} => Charges(flow[w].id)' # {})
    BY <2>1, <2>2, <2>5, <2>10 DEF Held, Charges
  <2> QED
    BY <1>6, <1>10, <2>1, <2>2, <2>3, <2>4, <2>6, <2>9, <2>11, SidecarAssumption
    DEF FlowOK, Requesting
<1>11. \A w \in Workflows :
              \/ /\ FlowOK(w)'
                 /\ \/ IdOf(w)' = IdOf(w)
                    \/ IdOf(w)' = Undefined
                    \/ w = Undefined /\ IdOf(w)' = Undefined
              \/ /\ flow'[w] = flow[w]
                 /\ \/ flow[w].connection = Undefined
                    \/ http'[flow[w].connection] = http[flow[w].connection]
                 /\ LedgerKeeps(w)
  BY <1>1, <1>5, <1>6, <1>10 DEF SidecarInv, SidecarType, Optional
<1>12. Undefined \notin DOMAIN admission
  BY <1>1, FirewallAssumption
<1>13. \A w \in Workflows : flow[w].stage = "stopped" => flow'[w] = flow[w]
  BY <1>1
<1> QED
  BY <1>3, <1>5, <1>7, <1>9, <1>11, <1>12, <1>13, SidecarStays

\* An answer nobody waits for is dropped: it is no workflow's.
LEMMA DroppedKeeps ==
    ASSUME SidecarInv, NEW c \in Callers, Reject(c) \/ Respond(c), ~Waits(http[c].from, c)
    PROVE  SidecarInv'
<1>1. UNCHANGED <<flow, listing>> /\ http' = [http EXCEPT ![c] = NoRequest]
  BY DEF Reject, Respond, Answered
<1>2. /\ LedgerInv'
      /\ \A d \in Callers \ {c} : call'[d] = call[d]
      /\ DOMAIN admission \subseteq DOMAIN admission'
      /\ \A w \in Workflows : LedgerKeeps(w)
  <2>1. CASE Respond(c)
    BY <2>1, RespondLedger DEF SidecarInv, LedgerInv, TypeOK
  <2>2. CASE Reject(c)
    <3>1. UNCHANGED vars
      BY <2>2 DEF Reject
    <3>2. LedgerInv'
      BY <3>1, FirewallStep DEF SidecarInv
    <3>3. UNCHANGED <<reservations, charges, admission, call>>
      BY <3>1 DEF vars
    <3> QED
      BY <3>2, <3>3, QuietKeeps
  <2> QED
    BY <2>1, <2>2
<1>3. /\ SidecarType'
      /\ http'[c] = NoRequest
      /\ \A d \in Callers \ {c} : http'[d] = http[d]
  <2>1. NoRequest \in [phase : {"none", "received", "calling", "answered"},
                       from : Workflows \cup {"operator", "other", Undefined},
                       route : {"none", "reserve", "settle", "release", "resize", "record"},
                       id : Optional(Ids), status : Nat]
    BY DEF NoRequest, HttpRequest, Optional
  <2> QED
    BY <1>1, <1>2, <2>1 DEF SidecarInv, SidecarType
<1>4. RequestOK(c)'
  BY <1>3 DEF RequestOK, NoRequest, HttpRequest
<1>5. \A d \in Callers : RequestOK(d)' \/ (http'[d] = http[d] /\ call'[d] = call[d])
  BY <1>2, <1>3, <1>4
<1>6. \A w \in Workflows : flow[w].connection # c
  BY SidecarAssumption DEF SidecarInv, FlowOK, Waits
<1>7. \A w \in Workflows :
          /\ flow'[w] = flow[w]
          /\ \/ flow[w].connection = Undefined
             \/ http'[flow[w].connection] = http[flow[w].connection]
          /\ LedgerKeeps(w)
  BY <1>1, <1>2, <1>3, <1>6 DEF SidecarInv, SidecarType, Optional
<1>8. Undefined \notin DOMAIN admission
  BY FirewallAssumption DEF SidecarInv, LedgerInv, TypeOK
<1>9. \A w \in Workflows :
          \/ /\ FlowOK(w)'
             /\ \/ IdOf(w)' = IdOf(w)
                \/ IdOf(w)' = Undefined
                \/ w = Undefined /\ IdOf(w)' = Undefined
          \/ /\ flow'[w] = flow[w]
             /\ \/ flow[w].connection = Undefined
                \/ http'[flow[w].connection] = http[flow[w].connection]
             /\ LedgerKeeps(w)
  BY <1>7
<1>10. \A w \in Workflows : flow[w].stage = "stopped" => flow'[w] = flow[w]
  BY <1>7
<1> QED
  BY <1>2, <1>3, <1>5, <1>8, <1>9, <1>10, SidecarStays

\* The answer reaches the workflow, unless it gave the request up.
LEMMA DeliverKeeps ==
    ASSUME SidecarInv, NEW c \in Callers, Deliver(c)
    PROVE  SidecarInv'
<1>0. PICK w : w = http[c].from
  OBVIOUS
<1>1. /\ UNCHANGED vars /\ listing' = listing
      /\ http[c].phase = "answered"
      /\ http' = [http EXCEPT ![c] = NoRequest]
      /\ RequestOK(c)
  BY DEF Deliver, Connection, SidecarInv
<1>2. UNCHANGED <<reservations, charges, admission, call>>
  BY <1>1 DEF vars
<1>3. /\ http' \in [Callers -> [phase : {"none", "received", "calling", "answered"},
                             from : Workflows \cup {"operator", "other", Undefined},
                             route : {"none", "reserve", "settle", "release", "resize", "record"},
                             id : Optional(Ids), status : Nat]]
      /\ http'[c] = NoRequest
      /\ \A d \in Callers \ {c} : http'[d] = http[d]
  <2>1. NoRequest \in [phase : {"none", "received", "calling", "answered"},
                       from : Workflows \cup {"operator", "other", Undefined},
                       route : {"none", "reserve", "settle", "release", "resize", "record"},
                       id : Optional(Ids), status : Nat]
    BY DEF NoRequest, HttpRequest, Optional
  <2> QED
    BY <1>1, <2>1 DEF SidecarInv, SidecarType
<1>4. RequestOK(c)'
  BY <1>3 DEF RequestOK, NoRequest, HttpRequest
<1>5. \A d \in Callers : RequestOK(d)' \/ http'[d] = http[d]
  BY <1>3, <1>4
<1>6. \A v \in Workflows : flow[v].connection = c => v = w
  BY <1>0, SidecarAssumption DEF SidecarInv, FlowOK
<1>7. CASE ~(w \in Workflows /\ flow[w].connection = c)
  <2>1. flow' = flow
    BY <1>0, <1>7 DEF Deliver, Waits
  <2>2. SidecarType'
    BY <1>1, <1>2, <1>3, <2>1 DEF SidecarInv, SidecarType
  <2>3. \A v \in Workflows :
              /\ flow'[v] = flow[v]
              /\ \/ flow[v].connection = Undefined
                 \/ http'[flow[v].connection] = http[flow[v].connection]
    BY <1>3, <1>6, <1>7, <2>1 DEF SidecarInv, SidecarType, Optional
  <2> QED
    BY <1>1, <1>5, <2>1, <2>2, <2>3, BesideFirewall
<1>8. CASE w \in Workflows /\ flow[w].connection = c
  <2>1. /\ FlowOK(w) /\ flow[w].stage \in {"reserve", "settle"} /\ http[c].route = flow[w].stage
        /\ http[c].id \in Optional(Ids) /\ IdOf(w) = http[c].id
    BY <1>8, SidecarAssumption DEF SidecarInv, SidecarType, FlowOK, Requesting, IdOf
  <2> DEFINE stage == After(flow[w].stage, http[c].status)
             new == [stage |-> stage, connection |-> Undefined, id |-> http[c].id,
                     paid |-> flow[w].paid]
  <2>2. flow' = [flow EXCEPT ![w] = new]
    BY <1>0, <1>8 DEF Deliver, Waits
  <2>3. /\ stage \in {"reserve", "paying", "settle", "settled", "stopped"}
        /\ flow[w].stage = "reserve" =>
              \/ http[c].status = 201 /\ stage = "paying"
              \/ http[c].status # 201 /\ stage \in {"reserve", "stopped"}
        /\ flow[w].stage = "settle" =>
              \/ http[c].status \in {200, 404} /\ stage = "settled"
              \/ stage \in {"settle", "stopped"}
    BY <1>1, <2>1 DEF After, RequestOK
  <2>4. new \in [stage : {"reserve", "paying", "settle", "settled", "stopped"},
                 connection : Optional(Callers), id : Optional(Ids), paid : BOOLEAN]
    BY <1>8, <2>1, <2>3 DEF SidecarInv, SidecarType, Optional
  <2>5. /\ flow'[w].stage = stage /\ flow'[w].connection = Undefined
        /\ flow'[w].id = http[c].id /\ flow'[w].paid = flow[w].paid
        /\ \A v \in Workflows \ {w} : flow'[v] = flow[v]
    BY <1>8, <2>2 DEF SidecarInv, SidecarType
  <2> HIDE DEF stage, new
  <2>6. SidecarType'
    BY <1>1, <1>2, <1>3, <2>2, <2>4 DEF SidecarInv, SidecarType
  <2>7. IdOf(w)' = IdOf(w)
    BY <2>1, <2>5 DEF IdOf
  <2>8. PICK id, key : id = IdOf(w) /\ key = RequestOf[w].idempotencyKey
    OBVIOUS
  <2>9. /\ id \in DOMAIN admission' \cup {Undefined}
        /\ id # Undefined => CarriesKey(id, key)'
    BY <1>2, <2>1, <2>8 DEF FlowOK, CarriesKey
  <2>10. (IdOf(w) # Undefined => CarriesKey(IdOf(w), RequestOf[w].idempotencyKey))'
    BY <2>7, <2>8, <2>9 DEF CarriesKey
  <2>11. Held(id)' <=> Held(id)
    BY <1>2 DEF Held, Charges
  <2>12. Charges(id)' = Charges(id)
    BY <1>2 DEF Charges
  <2>13. /\ Held(flow[w].id)' <=> Held(id)
         /\ Charges(flow[w].id)' = Charges(id)
    BY <2>1, <2>5, <2>8, <2>11, <2>12 DEF Held, Charges
  <2>14. ASSUME flow[w].stage = "reserve" PROVE FlowOK(w)'
    <3>1. /\ http[c].status = 201 => Held(id) /\ id \in DOMAIN admission
          /\ http[c].status # 201 => id = Undefined
          /\ flow[w].id = Undefined /\ ~flow[w].paid
      BY <1>1, <1>8, <2>1, <2>8, <2>14, SidecarAssumption DEF FlowOK, RequestOK
    <3> QED
      BY <1>2, <2>1, <2>3, <2>5, <2>7, <2>8, <2>9, <2>10, <2>13, <2>14, <3>1 DEF FlowOK
  <2>15. ASSUME flow[w].stage = "settle" PROVE FlowOK(w)'
    <3>1. /\ flow[w].paid /\ flow[w].id = id /\ id \in DOMAIN admission /\ Held(id)
          /\ http[c].status \in {200, 404} => Charges(id) # {}
      BY <1>1, <1>8, <2>1, <2>8, <2>15, SidecarAssumption DEF FlowOK
    <3> QED
      BY <1>2, <2>1, <2>3, <2>5, <2>7, <2>8, <2>9, <2>10, <2>13, <2>15, <3>1 DEF FlowOK
  <2>16. FlowOK(w)'
    BY <2>1, <2>14, <2>15
  <2>17. \A v \in Workflows : flow[v].stage = "stopped" => flow'[v] = flow[v]
    BY <2>1, <2>5
  <2>18. \A v \in Workflows :
              \/ FlowOK(v)' /\ (IdOf(v)' = IdOf(v) \/ IdOf(v)' = Undefined)
              \/ /\ flow'[v] = flow[v]
                 /\ \/ flow[v].connection = Undefined
                    \/ http'[flow[v].connection] = http[flow[v].connection]
    BY <1>3, <1>6, <2>5, <2>7, <2>16 DEF SidecarInv, SidecarType, Optional
  <2> QED
    BY <1>1, <1>5, <2>6, <2>17, <2>18, BesideFirewall
<1> QED
  BY <1>7, <1>8

\* The listing, the clock, and steps that change nothing.
LEMMA QuietSidecar ==
    ASSUME SidecarInv,
           \/ ListReservations
           \/ Tick /\ UNCHANGED sidecarVars
           \/ UNCHANGED <<vars, sidecarVars>>
    PROVE  SidecarInv'
<1>1. /\ [Next]_vars /\ UNCHANGED <<http, flow>>
      /\ UNCHANGED <<reservations, charges, admission, call>>
      /\ listing' = listing \/ listing' = Listed(clock)
  BY DEF ListReservations, Tick, Next, vars, sidecarVars
<1>2. LedgerInv'
  BY <1>1, FirewallStep DEF SidecarInv
<1>3. SidecarType'
  <2>1. Listed(clock) \subseteq DOMAIN admission
    BY DEF Listed, SidecarInv, LedgerInv, TypeOK
  <2> QED
    BY <1>1, <2>1 DEF SidecarInv, SidecarType
<1>4. \A c \in Callers : http'[c] = http[c] /\ call'[c] = call[c]
  BY <1>1
<1>5. \A w : LedgerKeeps(w)
  BY <1>1, QuietKeeps
<1>6. \A w \in Workflows :
              /\ flow'[w] = flow[w]
              /\ \/ flow[w].connection = Undefined
                 \/ http'[flow[w].connection] = http[flow[w].connection]
              /\ LedgerKeeps(w)
  BY <1>1, <1>5
<1>7. Undefined \notin DOMAIN admission
  BY FirewallAssumption DEF SidecarInv, LedgerInv, TypeOK
<1> QED
  BY <1>1, <1>2, <1>3, <1>4, <1>6, <1>7, SidecarStays

LEMMA InitSidecarInv == InitSidecar => SidecarInv
<1> SUFFICES ASSUME InitSidecar PROVE SidecarInv
  OBVIOUS
<1>1. LedgerInv
  BY InitLedger DEF InitSidecar
<1>2. /\ \A c \in Callers : http[c] = NoRequest
      /\ \A w \in Workflows :
            flow[w] = [stage |-> "reserve", connection |-> Undefined, id |-> Undefined,
                       paid |-> FALSE]
  BY DEF InitSidecar
<1>3. SidecarType
  BY DEF InitSidecar, SidecarType, NoRequest, HttpRequest, Optional
<1>4. \A c \in Callers : RequestOK(c)
  BY <1>2 DEF RequestOK, NoRequest, HttpRequest
<1>5. \A w \in Workflows : IdOf(w) = Undefined
  BY <1>2 DEF IdOf
<1>6. \A w \in Workflows : FlowOK(w)
  BY <1>2, <1>5 DEF FlowOK
<1> QED
  BY <1>1, <1>3, <1>4, <1>5, <1>6 DEF SidecarInv, OwnIds

LEMMA NextSidecarInv == SidecarInv /\ [NextSidecar]_<<vars, sidecarVars>> => SidecarInv'
<1> SUFFICES ASSUME SidecarInv, [NextSidecar]_<<vars, sidecarVars>> PROVE SidecarInv'
  OBVIOUS
<1>1. ASSUME NEW c \in Callers,
             \/ Reject(c) \/ Dispatch(c) \/ Respond(c) \/ Deliver(c) \/ OperatorReleases(c)
             \/ OtherClient(c)
      PROVE  SidecarInv'
  BY <1>1, RejectKeeps, DispatchKeeps, RespondReserve, RespondOther, DroppedKeeps, DeliverKeeps,
     OthersKeepSidecar
<1>2. ASSUME NEW w \in Workflows,
             (\E c \in Callers : Send(w, c)) \/ GiveUp(w) \/ Pay(w) \/ CrashWorkflow(w)
      PROVE  SidecarInv'
  BY <1>2, SendKeeps, FlowKeeps
<1> QED
  BY <1>1, <1>2, QuietSidecar DEF NextSidecar

LEMMA SidecarSafe == SpecSidecar => []SidecarInv
BY InitSidecarInv, NextSidecarInv, PTL DEF SpecSidecar

\* Whatever requests are lost, repeated or given up, the status page of the sidecar adds up
\* (firewall.ts status, policy.ts listPolicyGroups).
THEOREM StatusPageAddsUp == SpecSidecar => []StatusAddsUp
<1>1. SidecarInv => StatusAddsUp
  BY StatusSum DEF SidecarInv, LedgerInv
<1> QED
  BY <1>1, SidecarSafe, PTL

\* Whoever pays is accounted for, and a settle that ends with 200 or 404 was charged exactly once
\* (server.ts settle, mapError).
THEOREM PaidStepsAreAccounted == SpecSidecar => []PaidIsAccounted
<1>1. ASSUME SidecarInv PROVE PaidIsAccounted
  <2> SUFFICES ASSUME NEW w \in Workflows
               PROVE  /\ flow[w].paid => Held(flow[w].id)
                      /\ flow[w].stage = "settled"
                            => Cardinality(Charges(flow[w].id)) = 1
    BY DEF PaidIsAccounted, Held
  <2>1. FlowOK(w) /\ LedgerInv
    BY <1>1 DEF SidecarInv
  <2>2. flow[w].paid => Held(flow[w].id)
    BY <2>1 DEF FlowOK
  <2>3. ASSUME flow[w].stage = "settled"
        PROVE  Cardinality(Charges(flow[w].id)) = 1
    <3>1. Charges(flow[w].id) # {} /\ flow[w].id \in DOMAIN admission
      BY <2>1, <2>3 DEF FlowOK
    <3>2. flow[w].id # Undefined
      BY <2>1, <3>1, FirewallAssumption DEF LedgerInv, TypeOK
    <3>3. PICK i : Charges(flow[w].id) = {i}
      BY <2>1, <3>1, <3>2 DEF Charges, LedgerInv, ChargedOnce
    <3> QED
      BY <3>3, FS_Singleton
  <2> QED
    BY <2>2, <2>3
<1> QED
  BY <1>1, SidecarSafe, PTL

\* Of the workflows run under one idempotency key, at most one ever pays, whatever is lost,
\* repeated, crashed or released in between (docs/n8n.md, step 3).
THEOREM OneWorkflowPays == SpecSidecar => []PaidOnce
<1>1. ASSUME SidecarInv PROVE PaidOnce
  <2> SUFFICES ASSUME NEW v \in Workflows, NEW w \in Workflows, v # w, flow[v].paid, flow[w].paid,
                      RequestOf[v].idempotencyKey # Undefined,
                      RequestOf[v].idempotencyKey = RequestOf[w].idempotencyKey
               PROVE  FALSE
    BY DEF PaidOnce
  <2> DEFINE key == RequestOf[v].idempotencyKey
  <2>1. LedgerInv /\ OwnIds
    BY <1>1 DEF SidecarInv
  <2>2. key \in Keys
    BY SidecarAssumption DEF RequestType, Optional
  <2>3. ASSUME NEW x \in {v, w}
        PROVE  /\ IdOf(x) = flow[x].id /\ flow[x].id # Undefined
               /\ Held(flow[x].id) /\ CarriesKey(flow[x].id, key)
    <3>1. FlowOK(x) /\ flow[x].paid
      BY <1>1, <2>3 DEF SidecarInv
    <3>2. flow[x].id \in DOMAIN admission /\ Held(flow[x].id)
      BY <3>1 DEF FlowOK
    <3>3. flow[x].id # Undefined
      BY <2>1, <3>2, FirewallAssumption DEF LedgerInv, TypeOK
    <3>4. IdOf(x) = flow[x].id
      BY <3>1 DEF IdOf, FlowOK, Requesting
    <3> QED
      BY <3>1, <3>2, <3>3, <3>4 DEF FlowOK
  <2> HIDE DEF key
  <2>4. ASSUME NEW x \in {v, w}
        PROVE  \/ flow[x].id \in Pending(key)
               \/ \E i \in Settled(key) : charges[i].reservationId = flow[x].id
    BY <2>2, <2>3, <2>4, FirewallAssumption DEF Held, Charges, CarriesKey, Pending, Settled
  <2>5. flow[v].id = flow[w].id
    BY <2>1, <2>2, <2>4 DEF LedgerInv, OneRecordPerKey
  <2> QED
    BY <2>1, <2>3, <2>5 DEF OwnIds
<1> QED
  BY <1>1, SidecarSafe, PTL

-----------------------------------------------------------------------------
(***************************************************************************)
(* The workload of a plan.  Its runs are among those that were announced,  *)
(* what they hold and spend is bounded by the announced totals, and what   *)
(* the others left in the ledger at the check counts for no more later.    *)
(***************************************************************************)
PlanType ==
    /\ plan \in Plans /\ verdict \in {"none", "invalid", "blocked", "passed"}
    /\ left \in [Names -> Nat] /\ worker \in [Callers -> Names \cup {Undefined}]
    /\ DOMAIN started \subseteq DOMAIN admission /\ started \in [DOMAIN started -> Names]

\* Nothing is stamped later than the clock.
StampsOK ==
    /\ \A id \in DOMAIN reservations : reservations[id].createdAt <= clock
    /\ \A i \in DOMAIN charges : charges[i].createdAt <= clock
    /\ \A c \in Callers : call[c].now <= clock

WorkerCallOK(c) ==
    /\ call[c].op \in {"none", "reserve", "settle"}
    /\ worker[c] # Undefined <=> call[c].op = "reserve"
    /\ worker[c] # Undefined =>
          /\ call[c].request.context = PlanContext(worker[c])
          /\ call[c].request.estimatedCostUsd = Estimate(worker[c])
          /\ call[c].request.idempotencyKey = Undefined
    /\ call[c].op = "settle" =>
          /\ call[c].id \in DOMAIN started /\ call[c].costUsd <= Estimate(started[call[c].id])

OtherCallOK(c) ==
    /\ worker[c] = Undefined
    /\ call[c].op = "settle" => call[c].id \in DOMAIN admission \ DOMAIN started

PlanCalls ==
    /\ \A c \in Workers : WorkerCallOK(c)
    /\ \A c \in Callers \ Workers : OtherCallOK(c)

\* The records of the plan's runs are as announced.
PlanRecords ==
    /\ \A id \in DOMAIN started \cap DOMAIN reservations :
          /\ reservations[id].context = PlanContext(started[id])
          /\ reservations[id].estimatedCostUsd = Estimate(started[id])
    /\ \A i \in DOMAIN charges : charges[i].reservationId \in DOMAIN started =>
          /\ charges[i].context = PlanContext(started[charges[i].reservationId])
          /\ charges[i].costUsd <= Estimate(started[charges[i].reservationId])

Reserving(o) == {c \in Workers : worker[c] = o}
RunsOf(o) == {id \in DOMAIN started : started[id] = o}
OpenRuns(o) == {id \in DOMAIN started : started[id] = o /\ id \in DOMAIN reservations}

RunsIn(S, o) == {id \in S : started[id] = o}

RunsAnnounced(o) ==
    /\ left[o] + Cardinality(Reserving(o)) + Cardinality(RunsOf(o)) <= Count(o)
    /\ Cardinality(Reserving(o)) + Cardinality(OpenRuns(o)) <= ConcurrentRuns(o)

\* Nothing runs unless the plan passed.
NothingRuns ==
    /\ \A o \in Names : left[o] = 0
    /\ \A c \in Callers : worker[c] = Undefined
    /\ DOMAIN started = {} /\ ~denied

\* The others' part of the usage that the policy counts.
OthersCharged(p, context, t) ==
    {i \in Counted(charges, p, context, t) : charges[i].reservationId \notin DOMAIN started}
OthersOpen(p, context, t) == Counted(reservations, p, context, t) \ DOMAIN started
OthersUsd(p, context, t) ==
    Total([i \in OthersCharged(p, context, t) |-> charges[i].costUsd])
    + Total([id \in OthersOpen(p, context, t) |-> reservations[id].estimatedCostUsd])

GroupOf(p, o) ==
    {q \in Names : /\ MatchesPolicy(p, PlanContext(q))
                   /\ PolicyGroup(p, PlanContext(q)) = PolicyGroup(p, PlanContext(o))}

\* On top of the others' usage at time T the operations in o's group fit under p.
Fits(p, o, T) ==
    /\ ~Exceeds(OthersUsd(p, PlanContext(o), T)
                + Total([q \in GroupOf(p, o) |-> Estimate(q) * Count(q)]), Policy[p].limitUsd)
    /\ ~Exceeds(Cardinality(OthersCharged(p, PlanContext(o), T))
                + Cardinality(OthersOpen(p, PlanContext(o), T))
                + Total([q \in GroupOf(p, o) |-> Count(q)]), Policy[p].limitCalls)
    /\ ~Exceeds(Estimate(o), Policy[p].maxOperationUsd)
    /\ ~Exceeds(Cardinality(OthersOpen(p, PlanContext(o), T))
                + Total([q \in GroupOf(p, o) |-> ConcurrentRuns(q)]), Policy[p].maxConcurrent)

OthersReservations == DOMAIN reservations \ DOMAIN started
OthersCharges == {i \in DOMAIN charges : charges[i].reservationId \notin DOMAIN started}

OthersBefore(T) ==
    /\ \A id \in OthersReservations : reservations[id].createdAt <= T
    /\ \A i \in OthersCharges : charges[i].createdAt <= T

\* T is the time of the check.
FitsSince(T) ==
    /\ \A c \in Workers : worker[c] # Undefined => T <= call[c].now
    /\ OthersBefore(T)
    /\ \A p \in PolicyIds, o \in Names :
          Enforced(p) /\ MatchesPolicy(p, PlanContext(o)) => Fits(p, o, T)

PlanInv ==
    /\ LedgerInv /\ PlanType /\ StampsOK /\ PlanCalls /\ PlanRecords
    /\ \A o \in Names : RunsAnnounced(o)
    /\ verdict # "passed" => NothingRuns
    /\ verdict = "passed" => ~TooLarge
    /\ verdict = "passed" /\ ~stale => ~denied /\ \E T \in 0..clock : FitsSince(T)

-----------------------------------------------------------------------------
LEMMA PlanFacts ==
    ASSUME PlanInv
    PROVE  /\ IsFiniteSet(Names) /\ Undefined \notin Names
           /\ \A o \in Names : /\ Estimate(o) \in Nat /\ Count(o) \in Nat
                               /\ ConcurrentRuns(o) \in Nat
                               /\ plan.operations[o].context \in Contexts
           /\ plan.maxTotalUsd \in Optional(Nat)
           /\ IsFiniteSet(DOMAIN started) /\ Undefined \notin DOMAIN started
           /\ IsFiniteSet(DOMAIN reservations) /\ IsFiniteSet(DOMAIN charges)
           /\ \A i \in DOMAIN charges : charges[i] \in ChargeType
           /\ \A id \in DOMAIN reservations : reservations[id] \in ReservationType
           /\ TypeOK /\ Workers \subseteq Callers
<1>1. plan \in Plans /\ TypeOK
  BY DEF PlanInv, PlanType, LedgerInv
<1>2. /\ IsFiniteSet(Names) /\ Undefined \notin Names
      /\ \A o \in Names : plan.operations[o] \in PlannedOperation
      /\ plan.maxTotalUsd \in Optional(Nat)
  BY <1>1, PlanAssumption DEF Names
<1>3. \A o \in Names : /\ Estimate(o) \in Nat /\ Count(o) \in Nat
                       /\ ConcurrentRuns(o) \in Nat
                       /\ plan.operations[o].context \in Contexts
  BY <1>2 DEF PlannedOperation, Estimate, Count, ConcurrentRuns, OrOne, Optional
<1>4. DOMAIN started \subseteq Ids
  BY <1>1 DEF PlanInv, PlanType, TypeOK
<1>5. IsFiniteSet(DOMAIN started) /\ Undefined \notin DOMAIN started
  BY <1>4, FirewallAssumption, FS_Subset
<1>6. /\ \A i \in DOMAIN charges : charges[i] \in ChargeType
      /\ \A id \in DOMAIN reservations : reservations[id] \in ReservationType
  BY <1>1 DEF TypeOK
<1> QED
  BY <1>1, <1>2, <1>3, <1>5, <1>6, LedgerFinite, PlanAssumption

LEMMA RunsFinite ==
    ASSUME PlanInv, NEW o
    PROVE  /\ IsFiniteSet(Reserving(o)) /\ Cardinality(Reserving(o)) \in Nat
           /\ IsFiniteSet(RunsOf(o)) /\ Cardinality(RunsOf(o)) \in Nat
           /\ IsFiniteSet(OpenRuns(o)) /\ Cardinality(OpenRuns(o)) \in Nat
<1>1. Reserving(o) \subseteq Workers /\ RunsOf(o) \subseteq DOMAIN started
      /\ OpenRuns(o) \subseteq DOMAIN started
  BY DEF Reserving, RunsOf, OpenRuns
<1>2. IsFiniteSet(Workers) /\ IsFiniteSet(DOMAIN started)
  BY PlanFacts, PlanAssumption
<1>3. IsFiniteSet(Reserving(o)) /\ IsFiniteSet(RunsOf(o)) /\ IsFiniteSet(OpenRuns(o))
  BY <1>1, <1>2, FS_Subset
<1> QED
  BY <1>3, FS_CardinalityType

LEMMA DivMonotone ==
    ASSUME NEW a \in Nat, NEW b \in Nat, NEW d \in Nat \ {0}, a <= b
    PROVE  a \div d <= b \div d
<1> DEFINE x == a \div d
           y == b \div d
<1>1. /\ x \in Nat /\ y \in Nat
      /\ d * x <= a /\ b < d * (y + 1)
  OBVIOUS
<1> HIDE DEF x, y
<1>2. ASSUME y + 1 <= x PROVE FALSE
  <2>1. d * (y + 1) <= d * x
    BY <1>1, <1>2
  <2> QED
    BY <1>1, <2>1
<1>3. x <= y
  BY <1>1, <1>2
<1> QED
  BY <1>3 DEF x, y

\* A record that counts at t counted at any time T between its stamp and t.
LEMMA CountedBefore ==
    ASSUME NEW p \in PolicyIds, NEW createdAt \in Nat, NEW T \in Nat, NEW t \in Nat,
           createdAt <= T, T <= t, InBudgetWindow(createdAt, Policy[p].window, t)
    PROVE  InBudgetWindow(createdAt, Policy[p].window, T)
<1>1. /\ createdAt \div DayLength <= T \div DayLength /\ T \div DayLength <= t \div DayLength
      /\ createdAt \div MonthLength <= T \div MonthLength
      /\ T \div MonthLength <= t \div MonthLength
  BY DivMonotone, PolicyAssumption
<1>2. /\ createdAt \div DayLength \in Nat /\ T \div DayLength \in Nat
      /\ t \div DayLength \in Nat /\ createdAt \div MonthLength \in Nat
      /\ T \div MonthLength \in Nat /\ t \div MonthLength \in Nat
  BY PolicyAssumption
<1>3. Policy[p].window.rolling \in Nat
  BY PolicyAssumption DEF PolicyType
<1> QED
  BY <1>1, <1>2, <1>3 DEF InBudgetWindow

\* A bound of the whole from one on a part and one on what is left.
LEMMA TotalInTwo ==
    ASSUME NEW D, IsFiniteSet(D), NEW f \in [D -> Nat], NEW A \in SUBSET D,
           NEW g \in [A -> Nat], \A k \in A : g[k] = f[k],
           NEW E, IsFiniteSet(E), D \ A \subseteq E, NEW e \in [E -> Nat],
           \A k \in D \ A : f[k] = e[k]
    PROVE  Total(f) <= Total(g) + Total(e) /\ Total(f) \in Nat /\ Total(g) \in Nat /\ Total(e) \in Nat
<1> DEFINE B == D \ A
           rest == [k \in B |-> f[k]]
<1>1. /\ B \in SUBSET D /\ A \cup B = D /\ A \cap B = {} /\ B \subseteq E
      /\ rest \in [B -> Nat] /\ \A k \in B : rest[k] = f[k] /\ f[k] = e[k]
  OBVIOUS
<1> HIDE DEF rest, B
<1>2. Total(f) = Total(g) + Total(rest)
  BY <1>1, TotalDisjoint
<1>3. \A k \in B : rest[k] <= e[k]
  BY <1>1
<1>4. Total(rest) <= Total(e)
  BY <1>1, <1>3, TotalMonotone
<1>5. IsFiniteSet(A) /\ IsFiniteSet(B)
  BY <1>1, FS_Subset
<1>6. Total(f) \in Nat /\ Total(g) \in Nat /\ Total(e) \in Nat /\ Total(rest) \in Nat
  BY <1>1, <1>5, TotalType
<1> QED
  BY <1>2, <1>4, <1>6

\* What the plan's charges C and open reservations R weigh, when each weighs no more than its run
\* and they are of the runs S.
LEMMA RunsWeigh ==
    ASSUME PlanInv, NEW S \in SUBSET DOMAIN started, NEW w \in [S -> Nat],
           NEW C \in SUBSET DOMAIN charges, \A i \in C : charges[i].reservationId \in S,
           NEW R \in SUBSET DOMAIN reservations, R \subseteq S,
           NEW a \in [C -> Nat], \A i \in C : a[i] <= w[charges[i].reservationId],
           NEW b \in [R -> Nat], \A id \in R : b[id] <= w[id]
    PROVE  Total(a) + Total(b) <= Total(w)
<1> DEFINE Q == S \ R
           open == [id \in R |-> w[id]]
           closed == [id \in Q |-> w[id]]
           h == [i \in C |-> charges[i].reservationId]
<1>1. IsFiniteSet(S) /\ IsFiniteSet(R) /\ IsFiniteSet(Q) /\ IsFiniteSet(C)
  BY PlanFacts, FS_Subset
<1>2. /\ open \in [R -> Nat] /\ closed \in [Q -> Nat] /\ Q \in SUBSET S
      /\ R \in SUBSET S /\ R \cup Q = S /\ R \cap Q = {}
      /\ \A id \in R : open[id] = w[id]
      /\ \A id \in R : b[id] <= open[id]
      /\ \A id \in Q : closed[id] = w[id]
  OBVIOUS
<1>3. h \in [C -> Q] /\ \A i, j \in C : h[i] = h[j] => i = j
  <2>1. Undefined \notin S
    BY PlanFacts
  <2>2. \A i \in C : charges[i].reservationId \notin R /\ charges[i].reservationId # Undefined
    BY <2>1 DEF PlanInv, LedgerInv, ChargedOnce
  <2>3. \A i, j \in C : charges[i].reservationId = charges[j].reservationId => i = j
    BY <2>2 DEF PlanInv, LedgerInv, ChargedOnce
  <2> QED
    BY <2>2, <2>3
<1>4. \A i \in C : a[i] <= closed[h[i]]
  BY <1>3
<1> HIDE DEF open, closed, h, Q
<1>5. Total(w) = Total(open) + Total(closed)
  <2>1. w \in [S -> Nat] /\ IsFiniteSet(S)
    BY <1>1
  <2>2. R \in SUBSET S /\ Q \in SUBSET S
    BY <1>2
  <2>3. R \cup Q = S /\ R \cap Q = {}
    BY <1>2
  <2>4. open \in [R -> Nat] /\ \A id \in R : open[id] = w[id]
    BY <1>2
  <2>5. closed \in [Q -> Nat] /\ \A id \in Q : closed[id] = w[id]
    BY <1>2
  <2> QED
    BY ONLY <2>1, <2>2, <2>3, <2>4, <2>5, TotalDisjoint
<1>6. Total(b) <= Total(open)
  BY <1>1, <1>2, TotalMonotone
<1>7. Total(a) <= Total(closed)
  BY <1>1, <1>2, <1>3, <1>4, TotalInjection
<1>8. Total(w) \in Nat /\ Total(open) \in Nat /\ Total(closed) \in Nat /\ Total(a) \in Nat
      /\ Total(b) \in Nat
  BY <1>1, <1>2, TotalType
<1> QED
  BY <1>5, <1>6, <1>7, <1>8

\* The runs S of the operations ops leave room for one more of o.
RoomForRun(ops, o, amount, count, S) ==
    /\ ops \in SUBSET Names /\ o \in ops /\ S \in SUBSET DOMAIN started
    /\ amount \in [ops -> Nat] /\ count \in [ops -> Nat]
    /\ \A id \in S : started[id] \in ops
    /\ \A q \in ops : Cardinality(RunsIn(S, q)) <= count[q]
    /\ Cardinality(RunsIn(S, o)) + 1 <= count[o]

\* What is charged is of the runs S, or an other's in all that was charged.
ChargesOf(S, amount, a, all) ==
    /\ DOMAIN a \in SUBSET DOMAIN charges /\ a \in [DOMAIN a -> Nat]
    /\ DOMAIN all \in SUBSET DOMAIN charges /\ all \in [DOMAIN all -> Nat]
    /\ \A i \in DOMAIN a : charges[i].reservationId \in S
          => a[i] <= amount[started[charges[i].reservationId]]
    /\ \A i \in DOMAIN a : charges[i].reservationId \notin S
          => i \in DOMAIN all /\ a[i] = all[i]

OpenOf(S, amount, b, all) ==
    /\ DOMAIN b \in SUBSET DOMAIN reservations /\ b \in [DOMAIN b -> Nat]
    /\ DOMAIN all \in SUBSET DOMAIN reservations /\ all \in [DOMAIN all -> Nat]
    /\ \A id \in DOMAIN b : id \in S => b[id] <= amount[started[id]]
    /\ \A id \in DOMAIN b : id \notin S => id \in DOMAIN all /\ b[id] = all[id]

\* One more run of o, when its announced number is not reached, still fits the announced total.
LEMMA OneMoreRun ==
    ASSUME PlanInv, NEW ops, NEW o, NEW amount, NEW count, NEW S,
           RoomForRun(ops, o, amount, count, S),
           NEW w \in [S -> Nat], \A id \in S : w[id] = amount[started[id]],
           NEW all \in [ops -> Nat], \A q \in ops : all[q] = amount[q] * count[q]
    PROVE  Total(w) + amount[o] <= Total(all)
<1> USE DEF RoomForRun
<1> DEFINE E == S \cup {Undefined}
           h == [s \in E |-> IF s = Undefined THEN o ELSE started[s]]
           f == [s \in E |-> IF s = Undefined THEN amount[o] ELSE w[s]]
<1>1. /\ IsFiniteSet(ops) /\ IsFiniteSet(S) /\ Undefined \notin S /\ IsFiniteSet(E)
      /\ amount[o] \in Nat /\ count[o] \in Nat
  BY PlanFacts, FS_Subset, FS_AddElement
<1>2. h \in [E -> ops] /\ f \in [E -> Nat] /\ \A s \in E : f[s] = amount[h[s]]
  BY <1>1
<1>3. Total(f) = amount[o] + Total(w)
  <2>1. Total([s \in S \cup {Undefined} |-> IF s = Undefined THEN amount[o] ELSE w[s]])
          = amount[o] + Total(w)
    BY ONLY <1>1, w \in [S -> Nat], TotalAdd
  <2> QED
    BY ONLY <2>1 DEF f, E
<1>4. ASSUME NEW q \in ops PROVE Cardinality(Fiber(h, q)) <= count[q]
  <2> DEFINE A == RunsIn(S, q)
  <2>1. CASE q = o
    <3>1. Fiber(h, q) = A \cup {Undefined} /\ Undefined \notin A
      BY <1>1, <2>1 DEF RunsIn, Fiber
    <3>2. IsFiniteSet(A) /\ Cardinality(A) \in Nat
      BY <1>1, FS_Subset, FS_CardinalityType DEF RunsIn
    <3>3. Cardinality(A \cup {Undefined}) = Cardinality(A) + 1
      BY <3>1, <3>2, FS_AddElement
    <3>4. Cardinality(A) + 1 <= count[q]
      BY <2>1
    <3> QED
      BY <3>1, <3>3, <3>4
  <2>2. CASE q # o
    <3>1. Fiber(h, q) = A
      BY <1>1, <2>2 DEF RunsIn, Fiber
    <3> QED
      BY <3>1
  <2> QED
    BY <2>1, <2>2
<1>5. Total(w) \in Nat
  BY <1>1, TotalType
<1> HIDE DEF E, h, f
<1>6. Total(f) <= Total(all)
  BY <1>1, <1>2, <1>4, TotalOfRuns
<1>7. Total(w) + amount[o] = Total(f)
  BY <1>1, <1>3, <1>5
<1> QED
  BY <1>6, <1>7

\* The usage of the plan's and the others' records, for what each weighs, with one more run of o:
\* no more than the others' at the check and the announced total.
LEMMA UsageFits ==
    ASSUME PlanInv, NEW ops, NEW o, NEW amount, NEW count, NEW S,
           RoomForRun(ops, o, amount, count, S),
           NEW all \in [ops -> Nat], \A q \in ops : all[q] = amount[q] * count[q],
           NEW a, NEW aE, ChargesOf(S, amount, a, aE),
           NEW b, NEW bE, OpenOf(S, amount, b, bE)
    PROVE  /\ Total(a) + Total(b) + amount[o] <= Total(aE) + Total(bE) + Total(all)
           /\ Total(a) + Total(b) + amount[o] \in Nat
           /\ Total(aE) + Total(bE) + Total(all) \in Nat
<1> USE DEF RoomForRun, ChargesOf, OpenOf
<1> DEFINE C == DOMAIN a
           R == DOMAIN b
           EC == DOMAIN aE
           ER == DOMAIN bE
           CS == {i \in C : charges[i].reservationId \in S}
           RS == R \cap S
           aS == [i \in CS |-> a[i]]
           bS == [id \in RS |-> b[id]]
           w == [id \in S |-> amount[started[id]]]
<1>1. /\ IsFiniteSet(C) /\ IsFiniteSet(R) /\ IsFiniteSet(EC) /\ IsFiniteSet(ER)
  BY PlanFacts, FS_Subset
<1>2. /\ aS \in [CS -> Nat]
      /\ CS \in SUBSET C /\ CS \in SUBSET DOMAIN charges /\ C \ CS \subseteq EC
      /\ \A i \in CS : aS[i] = a[i]
      /\ \A i \in C \ CS : a[i] = aE[i]
  OBVIOUS
<1>3. /\ bS \in [RS -> Nat]
      /\ RS \in SUBSET R /\ RS \in SUBSET DOMAIN reservations /\ RS \subseteq S
      /\ R \ RS \subseteq ER
      /\ \A id \in RS : bS[id] = b[id]
      /\ \A id \in R \ RS : b[id] = bE[id]
  OBVIOUS
<1>4. w \in [S -> Nat] /\ \A id \in S : w[id] = amount[started[id]]
  OBVIOUS
<1>5. /\ \A i \in CS : charges[i].reservationId \in S
      /\ \A i \in CS : aS[i] <= w[charges[i].reservationId]
      /\ \A id \in RS : bS[id] <= w[id]
  OBVIOUS
<1> HIDE DEF CS, RS, aS, bS, w
<1>6. /\ Total(a) <= Total(aS) + Total(aE)
      /\ Total(a) \in Nat /\ Total(aS) \in Nat /\ Total(aE) \in Nat
  <2>1. a \in [C -> Nat] /\ aE \in [EC -> Nat] /\ aS \in [CS -> Nat] /\ CS \in SUBSET C
    BY <1>2
  <2>2. IsFiniteSet(C) /\ IsFiniteSet(EC)
    BY <1>1
  <2>3. /\ C \ CS \subseteq EC
        /\ \A i \in CS : aS[i] = a[i]
        /\ \A i \in C \ CS : a[i] = aE[i]
    BY <1>2
  <2> QED
    BY ONLY <2>1, <2>2, <2>3, TotalInTwo
<1>7. /\ Total(b) <= Total(bS) + Total(bE)
      /\ Total(b) \in Nat /\ Total(bS) \in Nat /\ Total(bE) \in Nat
  <2>1. b \in [R -> Nat] /\ bE \in [ER -> Nat] /\ bS \in [RS -> Nat] /\ RS \in SUBSET R
    BY <1>3
  <2>2. IsFiniteSet(R) /\ IsFiniteSet(ER)
    BY <1>1
  <2>3. /\ R \ RS \subseteq ER
        /\ \A id \in RS : bS[id] = b[id]
        /\ \A id \in R \ RS : b[id] = bE[id]
    BY <1>3
  <2> QED
    BY ONLY <2>1, <2>2, <2>3, TotalInTwo
<1>8. Total(aS) + Total(bS) <= Total(w)
  <2>1. w \in [S -> Nat] /\ S \in SUBSET DOMAIN started
    BY <1>4
  <2>2. aS \in [CS -> Nat] /\ CS \in SUBSET DOMAIN charges
    BY <1>2
  <2>3. bS \in [RS -> Nat] /\ RS \in SUBSET DOMAIN reservations /\ RS \subseteq S
    BY <1>3
  <2> QED
    BY ONLY PlanInv, <1>5, <2>1, <2>2, <2>3, RunsWeigh
<1>9. Total(w) + amount[o] <= Total(all)
  BY <1>4, OneMoreRun
<1>10. Total(w) \in Nat /\ Total(all) \in Nat /\ amount[o] \in Nat
  <2>1. IsFiniteSet(S) /\ IsFiniteSet(ops)
    BY PlanFacts, FS_Subset
  <2> QED
    BY <1>4, <2>1, TotalType
<1>11. /\ Total(a) + Total(b) + amount[o] <= Total(aE) + Total(bE) + Total(all)
       /\ Total(a) + Total(b) + amount[o] \in Nat
       /\ Total(aE) + Total(bE) + Total(all) \in Nat
  BY <1>6, <1>7, <1>8, <1>9, <1>10
<1> QED
  BY <1>11

-----------------------------------------------------------------------------
GroupRuns(p, o) == {id \in DOMAIN started : started[id] \in GroupOf(p, o)}

\* What counts under p for o is of a run of o's group, or counted at T already.
LEMMA CountedRuns ==
    ASSUME PlanInv, NEW p \in PolicyIds, NEW o \in Names, NEW T \in Nat, NEW t \in Nat, T <= t,
           OthersBefore(T)
    PROVE  /\ \A i \in Counted(charges, p, PlanContext(o), t) :
                 \/ charges[i].reservationId \in GroupRuns(p, o)
                 \/ /\ charges[i].reservationId \notin DOMAIN started
                    /\ i \in OthersCharged(p, PlanContext(o), T)
           /\ \A id \in Counted(reservations, p, PlanContext(o), t) :
                 \/ id \in GroupRuns(p, o)
                 \/ id \notin DOMAIN started /\ id \in OthersOpen(p, PlanContext(o), T)
<1>1. ASSUME NEW i \in Counted(charges, p, PlanContext(o), t)
      PROVE  \/ charges[i].reservationId \in GroupRuns(p, o)
             \/ /\ charges[i].reservationId \notin DOMAIN started
                /\ i \in OthersCharged(p, PlanContext(o), T)
  <2>1. /\ i \in DOMAIN charges
        /\ InBudgetWindow(charges[i].createdAt, Policy[p].window, t)
        /\ MatchesPolicy(p, charges[i].context)
        /\ PolicyGroup(p, charges[i].context) = PolicyGroup(p, PlanContext(o))
    BY <1>1 DEF Counted
  <2>2. charges[i].createdAt \in Nat
    BY <2>1, PlanFacts DEF ChargeType
  <2>3. CASE charges[i].reservationId \in DOMAIN started
    <3>1. charges[i].context = PlanContext(started[charges[i].reservationId])
      BY <2>1, <2>3 DEF PlanInv, PlanRecords
    <3>2. started[charges[i].reservationId] \in Names
      BY <2>3 DEF PlanInv, PlanType
    <3> QED
      BY <2>1, <2>3, <3>1, <3>2 DEF GroupRuns, GroupOf
  <2>4. CASE charges[i].reservationId \notin DOMAIN started
    <3>1. charges[i].createdAt <= T
      BY <2>1, <2>4 DEF OthersBefore, OthersReservations, OthersCharges
    <3>2. InBudgetWindow(charges[i].createdAt, Policy[p].window, T)
      BY <2>1, <2>2, <3>1, CountedBefore
    <3> QED
      BY <2>1, <2>4, <3>2 DEF OthersCharged, Counted
  <2> QED
    BY <2>3, <2>4
<1>2. ASSUME NEW id \in Counted(reservations, p, PlanContext(o), t)
      PROVE  \/ id \in GroupRuns(p, o)
             \/ id \notin DOMAIN started /\ id \in OthersOpen(p, PlanContext(o), T)
  <2>1. /\ id \in DOMAIN reservations
        /\ InBudgetWindow(reservations[id].createdAt, Policy[p].window, t)
        /\ MatchesPolicy(p, reservations[id].context)
        /\ PolicyGroup(p, reservations[id].context) = PolicyGroup(p, PlanContext(o))
    BY <1>2 DEF Counted
  <2>2. reservations[id].createdAt \in Nat
    BY <2>1, PlanFacts DEF ReservationType
  <2>3. CASE id \in DOMAIN started
    <3>1. reservations[id].context = PlanContext(started[id])
      BY <2>1, <2>3 DEF PlanInv, PlanRecords
    <3>2. started[id] \in Names
      BY <2>3 DEF PlanInv, PlanType
    <3> QED
      BY <2>1, <2>3, <3>1, <3>2 DEF GroupRuns, GroupOf
  <2>4. CASE id \notin DOMAIN started
    <3>1. reservations[id].createdAt <= T
      BY <2>1, <2>4 DEF OthersBefore, OthersReservations, OthersCharges
    <3>2. InBudgetWindow(reservations[id].createdAt, Policy[p].window, T)
      BY <2>1, <2>2, <3>1, CountedBefore
    <3> QED
      BY <2>1, <2>4, <3>2 DEF OthersOpen, Counted
  <2> QED
    BY <2>3, <2>4
<1> QED
  BY <1>1, <1>2

\* The run a worker reserves for is announced and not among those that were reserved.
LEMMA OneMoreAnnounced ==
    ASSUME PlanInv, NEW c \in Workers, worker[c] # Undefined,
           NEW ops \in SUBSET Names, worker[c] \in ops,
           NEW S, S = {id \in DOMAIN started : started[id] \in ops},
           NEW open, open = {id \in S : id \in DOMAIN reservations}
    PROVE  /\ \A q \in ops : Cardinality(RunsIn(S, q)) <= Count(q)
           /\ Cardinality(RunsIn(S, worker[c])) + 1 <= Count(worker[c])
           /\ \A q \in ops : Cardinality(RunsIn(open, q)) <= ConcurrentRuns(q)
           /\ Cardinality(RunsIn(open, worker[c])) + 1 <= ConcurrentRuns(worker[c])
<1>1. ASSUME NEW q \in ops
      PROVE  /\ Cardinality(RunsIn(S, q)) <= Count(q)
             /\ Cardinality(RunsIn(open, q)) <= ConcurrentRuns(q)
             /\ Cardinality(Reserving(q)) # 0
                  => /\ Cardinality(RunsIn(S, q)) + 1 <= Count(q)
                     /\ Cardinality(RunsIn(open, q)) + 1 <= ConcurrentRuns(q)
  <2>1. RunsIn(S, q) = RunsOf(q) /\ RunsIn(open, q) = OpenRuns(q)
    BY DEF RunsIn, RunsOf, OpenRuns
  <2>2. RunsAnnounced(q) /\ left[q] \in Nat
    BY DEF PlanInv, PlanType
  <2>3. Count(q) \in Nat /\ ConcurrentRuns(q) \in Nat
    BY PlanFacts
  <2> QED
    BY <2>1, <2>2, <2>3, RunsFinite DEF RunsAnnounced
<1>2. Cardinality(Reserving(worker[c])) # 0
  <2>1. c \in Reserving(worker[c])
    BY DEF Reserving
  <2> QED
    BY <2>1, RunsFinite, FS_EmptySet
<1> QED
  BY <1>1, <1>2

\* A worker reserves for c's operation, which started when T was past.
Reserves(c, T) ==
    worker[c] # Undefined /\ T \in Nat /\ T <= call[c].now /\ OthersBefore(T)

LEMMA ReservesFacts ==
    ASSUME PlanInv, NEW c \in Workers, NEW T, Reserves(c, T), NEW p \in PolicyIds,
           MatchesPolicy(p, PlanContext(worker[c]))
    PROVE  /\ worker[c] \in Names /\ call[c].now \in Nat
           /\ GroupOf(p, worker[c]) \in SUBSET Names /\ worker[c] \in GroupOf(p, worker[c])
           /\ GroupRuns(p, worker[c]) \in SUBSET DOMAIN started
           /\ \A id \in GroupRuns(p, worker[c]) : started[id] \in GroupOf(p, worker[c])
<1>1. c \in Callers
  BY PlanAssumption
<1>2. worker[c] \in Names
  BY <1>1 DEF PlanInv, PlanType, Reserves
<1>3. call[c].now \in Nat
  BY <1>1, PlanFacts DEF TypeOK, CallType
<1> QED
  BY <1>2, <1>3 DEF GroupOf, GroupRuns

LEMMA UsdFits ==
    ASSUME PlanInv, NEW c \in Workers, NEW T, Reserves(c, T), NEW p \in PolicyIds,
           MatchesPolicy(p, PlanContext(worker[c])),
           NEW usd, usd = OthersUsd(p, PlanContext(worker[c]), T)
                          + Total([q \in GroupOf(p, worker[c]) |-> Estimate(q) * Count(q)]),
           NEW used, used = ProjectedUsd(reservations, charges, p, PlanContext(worker[c]), call[c].now)
                            + Estimate(worker[c])
    PROVE  used \in Nat /\ usd \in Nat /\ used <= usd
<1> DEFINE o == worker[c]
           context == PlanContext(o)
           t == call[c].now
           ops == GroupOf(p, o)
           S == GroupRuns(p, o)
           open == {id \in S : id \in DOMAIN reservations}
           amount == [q \in ops |-> Estimate(q)]
           count == [q \in ops |-> Count(q)]
           all == [q \in ops |-> Estimate(q) * Count(q)]
           C == Counted(charges, p, context, t)
           R == Counted(reservations, p, context, t)
           EC == OthersCharged(p, context, T)
           ER == OthersOpen(p, context, T)
           a == [i \in C |-> charges[i].costUsd]
           b == [id \in R |-> reservations[id].estimatedCostUsd]
           aE == [i \in EC |-> charges[i].costUsd]
           bE == [id \in ER |-> reservations[id].estimatedCostUsd]
<1>1. /\ o \in Names /\ t \in Nat /\ ops \in SUBSET Names /\ o \in ops
      /\ S \in SUBSET DOMAIN started /\ \A id \in S : started[id] \in ops
      /\ T \in Nat /\ T <= t /\ OthersBefore(T)
  BY ReservesFacts DEF Reserves
<1>2. \A q \in ops : Estimate(q) \in Nat /\ Count(q) \in Nat
  BY <1>1, PlanFacts
<1>3. \A m, n \in Nat : m * n \in Nat
  OBVIOUS
<1>4. /\ amount \in [ops -> Nat] /\ count \in [ops -> Nat] /\ all \in [ops -> Nat]
      /\ \A q \in ops : all[q] = amount[q] * count[q]
      /\ amount[o] = Estimate(o) /\ count[o] = Count(o)
  BY <1>1, <1>2, <1>3
<1>5. RoomForRun(ops, o, amount, count, S)
  <2>1. S = {id \in DOMAIN started : started[id] \in ops}
    BY DEF GroupRuns
  <2>2. /\ \A q \in ops : Cardinality(RunsIn(S, q)) <= Count(q)
        /\ Cardinality(RunsIn(S, o)) + 1 <= Count(o)
    BY <1>1, <2>1, OneMoreAnnounced DEF Reserves
  <2>3. /\ \A q \in ops : Cardinality(RunsIn(S, q)) <= count[q]
        /\ Cardinality(RunsIn(S, o)) + 1 <= count[o]
    BY <1>4, <2>2
  <2> QED
    BY <1>1, <1>4, <2>3 DEF RoomForRun
<1>6. /\ C \in SUBSET DOMAIN charges /\ R \in SUBSET DOMAIN reservations
      /\ EC \in SUBSET DOMAIN charges /\ ER \in SUBSET DOMAIN reservations
  BY DEF Counted, OthersCharged, OthersOpen
<1>7. /\ a \in [C -> Nat] /\ b \in [R -> Nat] /\ aE \in [EC -> Nat] /\ bE \in [ER -> Nat]
      /\ \A i \in C : i \in EC => a[i] = aE[i]
      /\ \A id \in R : id \in ER => b[id] = bE[id]
  BY <1>6, PlanFacts DEF ChargeType, ReservationType
<1>8. ChargesOf(S, amount, a, aE)
  <2>1. ASSUME NEW i \in C, charges[i].reservationId \in S
        PROVE  a[i] <= amount[started[charges[i].reservationId]]
    BY <1>1, <1>6, <2>1 DEF PlanInv, PlanRecords
  <2>2. ASSUME NEW i \in C, charges[i].reservationId \notin S
        PROVE  i \in EC /\ a[i] = aE[i]
    BY <1>1, <1>7, <2>2, CountedRuns
  <2> QED
    BY <1>6, <1>7, <2>1, <2>2 DEF ChargesOf
<1>9. OpenOf(S, amount, b, bE)
  <2>1. ASSUME NEW id \in R, id \in S PROVE b[id] <= amount[started[id]]
    <3>1. /\ id \in DOMAIN reservations /\ id \in DOMAIN started /\ started[id] \in ops
          /\ b[id] = reservations[id].estimatedCostUsd
      BY <1>1, <1>6, <2>1
    <3>2. b[id] = Estimate(started[id])
      BY <3>1 DEF PlanInv, PlanRecords
    <3> QED
      BY <1>2, <3>1, <3>2
  <2>2. ASSUME NEW id \in R, id \notin S PROVE id \in ER /\ b[id] = bE[id]
    BY <1>1, <1>7, <2>2, CountedRuns
  <2>3. /\ R = DOMAIN b /\ ER = DOMAIN bE
    OBVIOUS
  <2> HIDE DEF R, ER, b, bE
  <2> QED
    BY <1>6, <1>7, <2>1, <2>2, <2>3 DEF OpenOf
<1>10. used = Total(a) + Total(b) + amount[o]
  BY <1>4 DEF ProjectedUsd, ActualUsd, ReservedUsd
<1>11. usd = Total(aE) + Total(bE) + Total(all)
  BY DEF OthersUsd
<1> HIDE DEF o, context, t, ops, S, open, amount, count, all, a, b, aE, bE, C, R, EC, ER
<1>12. /\ Total(a) + Total(b) + amount[o] <= Total(aE) + Total(bE) + Total(all)
       /\ Total(a) + Total(b) + amount[o] \in Nat
       /\ Total(aE) + Total(bE) + Total(all) \in Nat
  BY ONLY PlanInv, <1>4, <1>5, <1>8, <1>9, UsageFits
<1> QED
  BY <1>10, <1>11, <1>12

LEMMA CallsFit ==
    ASSUME PlanInv, NEW c \in Workers, NEW T, Reserves(c, T), NEW p \in PolicyIds,
           MatchesPolicy(p, PlanContext(worker[c])),
           NEW calls, calls = Cardinality(OthersCharged(p, PlanContext(worker[c]), T))
                              + Cardinality(OthersOpen(p, PlanContext(worker[c]), T))
                              + Total([q \in GroupOf(p, worker[c]) |-> Count(q)]),
           NEW used, used = ProjectedCalls(reservations, charges, p, PlanContext(worker[c]), call[c].now)
                            + 1
    PROVE  used \in Nat /\ calls \in Nat /\ used <= calls
<1> DEFINE o == worker[c]
           context == PlanContext(o)
           t == call[c].now
           ops == GroupOf(p, o)
           S == GroupRuns(p, o)
           open == {id \in S : id \in DOMAIN reservations}
           amount == [q \in ops |-> 1]
           count == [q \in ops |-> Count(q)]
           all == [q \in ops |-> Count(q)]
           C == Counted(charges, p, context, t)
           R == Counted(reservations, p, context, t)
           EC == OthersCharged(p, context, T)
           ER == OthersOpen(p, context, T)
           a == [i \in C |-> 1]
           b == [id \in R |-> 1]
           aE == [i \in EC |-> 1]
           bE == [id \in ER |-> 1]
<1>1. /\ o \in Names /\ t \in Nat /\ ops \in SUBSET Names /\ o \in ops
      /\ S \in SUBSET DOMAIN started /\ \A id \in S : started[id] \in ops
      /\ T \in Nat /\ T <= t /\ OthersBefore(T)
  BY ReservesFacts DEF Reserves
<1>2. \A q \in ops : Count(q) \in Nat
  BY <1>1, PlanFacts
<1>3. \A n \in Nat : 1 * n = n
  OBVIOUS
<1>4. /\ amount \in [ops -> Nat] /\ count \in [ops -> Nat] /\ all \in [ops -> Nat]
      /\ \A q \in ops : all[q] = amount[q] * count[q]
      /\ amount[o] = 1 /\ count[o] = Count(o)
  BY <1>1, <1>2, <1>3
<1>5. RoomForRun(ops, o, amount, count, S)
  <2>1. S = {id \in DOMAIN started : started[id] \in ops}
    BY DEF GroupRuns
  <2>2. /\ \A q \in ops : Cardinality(RunsIn(S, q)) <= Count(q)
        /\ Cardinality(RunsIn(S, o)) + 1 <= Count(o)
    BY <1>1, <2>1, OneMoreAnnounced DEF Reserves
  <2>3. /\ \A q \in ops : Cardinality(RunsIn(S, q)) <= count[q]
        /\ Cardinality(RunsIn(S, o)) + 1 <= count[o]
    BY <1>4, <2>2
  <2> QED
    BY <1>1, <1>4, <2>3 DEF RoomForRun
<1>6. /\ C \in SUBSET DOMAIN charges /\ R \in SUBSET DOMAIN reservations
      /\ EC \in SUBSET DOMAIN charges /\ ER \in SUBSET DOMAIN reservations
  BY DEF Counted, OthersCharged, OthersOpen
<1>7. /\ a \in [C -> Nat] /\ b \in [R -> Nat] /\ aE \in [EC -> Nat] /\ bE \in [ER -> Nat]
      /\ \A i \in C : i \in EC => a[i] = aE[i]
      /\ \A id \in R : id \in ER => b[id] = bE[id]
  OBVIOUS
<1>8. ChargesOf(S, amount, a, aE)
  <2>1. ASSUME NEW i \in C, charges[i].reservationId \in S
        PROVE  a[i] <= amount[started[charges[i].reservationId]]
    BY <1>1, <1>6, <2>1
  <2>2. ASSUME NEW i \in C, charges[i].reservationId \notin S
        PROVE  i \in EC /\ a[i] = aE[i]
    BY <1>1, <1>7, <2>2, CountedRuns
  <2> QED
    BY <1>6, <1>7, <2>1, <2>2 DEF ChargesOf
<1>9. OpenOf(S, amount, b, bE)
  <2>1. ASSUME NEW id \in R, id \in S PROVE b[id] <= amount[started[id]]
    BY <1>1, <1>6, <2>1
  <2>2. ASSUME NEW id \in R, id \notin S PROVE id \in ER /\ b[id] = bE[id]
    BY <1>1, <1>7, <2>2, CountedRuns
  <2>3. /\ R = DOMAIN b /\ ER = DOMAIN bE
    OBVIOUS
  <2> HIDE DEF R, ER, b, bE
  <2> QED
    BY <1>6, <1>7, <2>1, <2>2, <2>3 DEF OpenOf
<1>10. /\ IsFiniteSet(C) /\ IsFiniteSet(R) /\ IsFiniteSet(EC) /\ IsFiniteSet(ER)
  BY <1>6, PlanFacts, FS_Subset
<1>11. /\ Total(a) = 1 * Cardinality(C) /\ Total(b) = 1 * Cardinality(R)
       /\ Total(aE) = 1 * Cardinality(EC) /\ Total(bE) = 1 * Cardinality(ER)
  BY <1>10, TotalConstant
<1>12. /\ Total(a) = Cardinality(C) /\ Total(b) = Cardinality(R)
       /\ Total(aE) = Cardinality(EC) /\ Total(bE) = Cardinality(ER)
  BY <1>3, <1>10, <1>11, FS_CardinalityType
<1>13. used = Total(a) + Total(b) + amount[o]
  BY <1>4, <1>12 DEF ProjectedCalls, Concurrent
<1>14. calls = Total(aE) + Total(bE) + Total(all)
  BY <1>12
<1> HIDE DEF o, context, t, ops, S, open, amount, count, all, a, b, aE, bE, C, R, EC, ER
<1>15. /\ Total(a) + Total(b) + amount[o] <= Total(aE) + Total(bE) + Total(all)
       /\ Total(a) + Total(b) + amount[o] \in Nat
       /\ Total(aE) + Total(bE) + Total(all) \in Nat
  BY ONLY PlanInv, <1>4, <1>5, <1>8, <1>9, UsageFits
<1> QED
  BY <1>13, <1>14, <1>15

LEMMA ConcurrencyFits ==
    ASSUME PlanInv, NEW c \in Workers, NEW T, Reserves(c, T), NEW p \in PolicyIds,
           MatchesPolicy(p, PlanContext(worker[c])),
           NEW runs, runs = Cardinality(OthersOpen(p, PlanContext(worker[c]), T))
                            + Total([q \in GroupOf(p, worker[c]) |-> ConcurrentRuns(q)]),
           NEW used, used = Concurrent(reservations, p, PlanContext(worker[c]), call[c].now) + 1
    PROVE  used \in Nat /\ runs \in Nat /\ used <= runs
<1> DEFINE o == worker[c]
           context == PlanContext(o)
           t == call[c].now
           ops == GroupOf(p, o)
           S == {id \in GroupRuns(p, o) : id \in DOMAIN reservations}
           amount == [q \in ops |-> 1]
           count == [q \in ops |-> ConcurrentRuns(q)]
           all == [q \in ops |-> ConcurrentRuns(q)]
           C == {}
           R == Counted(reservations, p, context, t)
           EC == {}
           ER == OthersOpen(p, context, T)
           a == [i \in C |-> 1]
           b == [id \in R |-> 1]
           aE == [i \in EC |-> 1]
           bE == [id \in ER |-> 1]
<1>1. /\ o \in Names /\ t \in Nat /\ ops \in SUBSET Names /\ o \in ops
      /\ S \in SUBSET DOMAIN started /\ \A id \in S : started[id] \in ops
      /\ T \in Nat /\ T <= t /\ OthersBefore(T)
  BY ReservesFacts DEF Reserves
<1>2. \A q \in ops : ConcurrentRuns(q) \in Nat
  BY <1>1, PlanFacts
<1>3. \A n \in Nat : 1 * n = n
  OBVIOUS
<1>4. /\ amount \in [ops -> Nat] /\ count \in [ops -> Nat] /\ all \in [ops -> Nat]
      /\ \A q \in ops : all[q] = amount[q] * count[q]
      /\ amount[o] = 1 /\ count[o] = ConcurrentRuns(o)
  BY <1>1, <1>2, <1>3
<1>5. RoomForRun(ops, o, amount, count, S)
  <2>1. GroupRuns(p, o) = {id \in DOMAIN started : started[id] \in ops}
    BY DEF GroupRuns
  <2>2. /\ \A q \in ops : Cardinality(RunsIn(S, q)) <= ConcurrentRuns(q)
        /\ Cardinality(RunsIn(S, o)) + 1 <= ConcurrentRuns(o)
    BY <1>1, <2>1, OneMoreAnnounced DEF Reserves
  <2>3. /\ \A q \in ops : Cardinality(RunsIn(S, q)) <= count[q]
        /\ Cardinality(RunsIn(S, o)) + 1 <= count[o]
    BY <1>4, <2>2
  <2> QED
    BY <1>1, <1>4, <2>3 DEF RoomForRun
<1>6. /\ C \in SUBSET DOMAIN charges /\ R \in SUBSET DOMAIN reservations
      /\ EC \in SUBSET DOMAIN charges /\ ER \in SUBSET DOMAIN reservations
  BY DEF Counted, OthersCharged, OthersOpen
<1>7. /\ a \in [C -> Nat] /\ b \in [R -> Nat] /\ aE \in [EC -> Nat] /\ bE \in [ER -> Nat]
      /\ \A i \in C : i \in EC => a[i] = aE[i]
      /\ \A id \in R : id \in ER => b[id] = bE[id]
  OBVIOUS
<1>8. ChargesOf(S, amount, a, aE)
  BY <1>6, <1>7 DEF ChargesOf
<1>9. OpenOf(S, amount, b, bE)
  <2>1. ASSUME NEW id \in R, id \in S PROVE b[id] <= amount[started[id]]
    BY <1>1, <1>6, <2>1
  <2>2. ASSUME NEW id \in R, id \notin S PROVE id \in ER /\ b[id] = bE[id]
    BY <1>1, <1>6, <1>7, <2>2, CountedRuns
  <2>3. /\ R = DOMAIN b /\ ER = DOMAIN bE
    OBVIOUS
  <2> HIDE DEF R, ER, b, bE
  <2> QED
    BY <1>6, <1>7, <2>1, <2>2, <2>3 DEF OpenOf
<1>10. /\ IsFiniteSet(C) /\ IsFiniteSet(R) /\ IsFiniteSet(EC) /\ IsFiniteSet(ER)
  BY <1>6, PlanFacts, FS_Subset
<1>11. /\ Total(a) = 1 * Cardinality(C) /\ Total(b) = 1 * Cardinality(R)
       /\ Total(aE) = 1 * Cardinality(EC) /\ Total(bE) = 1 * Cardinality(ER)
  BY <1>10, TotalConstant
<1>12. /\ Total(a) = Cardinality(C) /\ Total(b) = Cardinality(R)
       /\ Total(aE) = Cardinality(EC) /\ Total(bE) = Cardinality(ER)
  BY <1>3, <1>10, <1>11, FS_CardinalityType
<1>13. used = Total(a) + Total(b) + amount[o]
  BY <1>4, <1>10, <1>12, FS_EmptySet, FS_CardinalityType DEF Concurrent
<1>14. runs = Total(aE) + Total(bE) + Total(all)
  BY <1>10, <1>12, FS_EmptySet, FS_CardinalityType
<1> HIDE DEF o, context, t, ops, S, amount, count, all, a, b, aE, bE, C, R, EC, ER
<1>15. /\ Total(a) + Total(b) + amount[o] <= Total(aE) + Total(bE) + Total(all)
       /\ Total(a) + Total(b) + amount[o] \in Nat
       /\ Total(aE) + Total(bE) + Total(all) \in Nat
  BY ONLY PlanInv, <1>4, <1>5, <1>8, <1>9, UsageFits
<1> QED
  BY <1>13, <1>14, <1>15

\* What a passed plan reserves is allowed.
LEMMA NotDenied ==
    ASSUME PlanInv, verdict = "passed", ~stale, NEW c \in Workers, worker[c] # Undefined
    PROVE  Allowed(reservations, charges, call[c].request.context,
                   call[c].request.estimatedCostUsd, call[c].now)
<1> DEFINE o == worker[c]
           context == PlanContext(o)
           t == call[c].now
<1>1. PICK T \in 0..clock : FitsSince(T)
  BY DEF PlanInv
<1>2. Reserves(c, T) /\ c \in Callers
  BY <1>1, PlanFacts DEF FitsSince, Reserves, TypeOK
<1>3. call[c].request.context = context /\ call[c].request.estimatedCostUsd = Estimate(o)
  BY DEF PlanInv, PlanCalls, WorkerCallOK
<1>4. o \in Names
  BY <1>2 DEF PlanInv, PlanType
<1> HIDE DEF o, context, t
<1>5. ASSUME NEW p \in PolicyIds, MatchesPolicy(p, context), Policy[p].mode = "enforce"
      PROVE  ~Violates(reservations, charges, p, context, Estimate(o), t)
  <2>1. Fits(p, o, T) /\ MatchesPolicy(p, PlanContext(o))
    BY <1>1, <1>4, <1>5 DEF FitsSince, Enforced, context
  <2> DEFINE usd == OthersUsd(p, context, T)
                    + Total([q \in GroupOf(p, o) |-> Estimate(q) * Count(q)])
             calls == Cardinality(OthersCharged(p, context, T))
                      + Cardinality(OthersOpen(p, context, T))
                      + Total([q \in GroupOf(p, o) |-> Count(q)])
             runs == Cardinality(OthersOpen(p, context, T))
                     + Total([q \in GroupOf(p, o) |-> ConcurrentRuns(q)])
             usedUsd == ProjectedUsd(reservations, charges, p, context, t) + Estimate(o)
             usedCalls == ProjectedCalls(reservations, charges, p, context, t) + 1
             usedRuns == Concurrent(reservations, p, context, t) + 1
  <2>2. /\ ~Exceeds(usd, Policy[p].limitUsd) /\ ~Exceeds(calls, Policy[p].limitCalls)
        /\ ~Exceeds(runs, Policy[p].maxConcurrent)
        /\ ~Exceeds(Estimate(o), Policy[p].maxOperationUsd)
    BY <2>1 DEF Fits, context
  <2>3. usedUsd \in Nat /\ usd \in Nat /\ usedUsd <= usd
    BY <1>2, <2>1, UsdFits DEF o, context, t
  <2>4. usedCalls \in Nat /\ calls \in Nat /\ usedCalls <= calls
    BY <1>2, <2>1, CallsFit DEF o, context, t
  <2>5. usedRuns \in Nat /\ runs \in Nat /\ usedRuns <= runs
    BY <1>2, <2>1, ConcurrencyFits DEF o, context, t
  <2>6. /\ Policy[p].limitUsd \in Optional(Nat) /\ Policy[p].limitCalls \in Optional(Nat)
        /\ Policy[p].maxConcurrent \in Optional(Nat)
    BY PolicyAssumption DEF PolicyType
  <2> HIDE DEF usd, calls, runs, usedUsd, usedCalls, usedRuns
  <2>7. /\ ~Exceeds(usedUsd, Policy[p].limitUsd) /\ ~Exceeds(usedCalls, Policy[p].limitCalls)
        /\ ~Exceeds(usedRuns, Policy[p].maxConcurrent)
    BY <2>2, <2>3, <2>4, <2>5, <2>6 DEF Exceeds, Optional
  <2> QED
    BY <2>2, <2>7 DEF Violates, usedUsd, usedCalls, usedRuns
<1> QED
  BY <1>3, <1>5 DEF Allowed, t

-----------------------------------------------------------------------------
(***************************************************************************)
(* The steps of the workload.                                              *)
(***************************************************************************)
\* The step leaves what the others have in the ledger.
OthersKept ==
    /\ UNCHANGED plan
    /\ OthersReservations' = OthersReservations
    /\ \A id \in OthersReservations : reservations'[id] = reservations[id]
    /\ OthersCharges' = OthersCharges
    /\ \A i \in OthersCharges : charges'[i] = charges[i]

LEMMA OthersFit ==
    ASSUME OthersKept, NEW T
    PROVE  /\ OthersBefore(T) => OthersBefore(T)'
           /\ Names' = Names /\ \A o : PlanContext(o)' = PlanContext(o)
           /\ \A p, o : Fits(p, o, T) => Fits(p, o, T)'
<1>1. OthersBefore(T) => OthersBefore(T)'
  BY DEF OthersKept, OthersBefore
<1>2. /\ Names' = Names
      /\ \A o : /\ PlanContext(o)' = PlanContext(o) /\ Estimate(o)' = Estimate(o)
                /\ Count(o)' = Count(o) /\ ConcurrentRuns(o)' = ConcurrentRuns(o)
  BY DEF OthersKept, Names, PlanContext, Estimate, Count, ConcurrentRuns
<1>3. ASSUME NEW p, NEW o PROVE GroupOf(p, o)' = GroupOf(p, o)
  BY <1>2 DEF GroupOf
<1>4. ASSUME NEW p, NEW context
      PROVE  /\ OthersCharged(p, context, T)' = OthersCharged(p, context, T)
             /\ OthersOpen(p, context, T)' = OthersOpen(p, context, T)
             /\ OthersUsd(p, context, T)' = OthersUsd(p, context, T)
  <2>1. /\ OthersCharged(p, context, T)
             = {i \in OthersCharges : i \in Counted(charges, p, context, T)}
        /\ OthersCharged(p, context, T)'
             = {i \in OthersCharges : i \in Counted(charges', p, context, T)}
    BY DEF OthersKept, OthersCharged, OthersCharges, Counted
  <2>2. \A i \in OthersCharges :
          i \in Counted(charges', p, context, T) <=> i \in Counted(charges, p, context, T)
    BY DEF OthersKept, OthersCharges, Counted
  <2>3. OthersCharged(p, context, T)' = OthersCharged(p, context, T)
    BY <2>1, <2>2
  <2>4. /\ OthersOpen(p, context, T)
             = {id \in OthersReservations : id \in Counted(reservations, p, context, T)}
        /\ OthersOpen(p, context, T)'
             = {id \in OthersReservations : id \in Counted(reservations', p, context, T)}
    BY DEF OthersKept, OthersOpen, OthersReservations, Counted
  <2>5. \A id \in OthersReservations :
          id \in Counted(reservations', p, context, T) <=> id \in Counted(reservations, p, context, T)
    BY DEF OthersKept, OthersReservations, Counted
  <2>6. OthersOpen(p, context, T)' = OthersOpen(p, context, T)
    BY <2>4, <2>5
  <2>7. [i \in OthersCharged(p, context, T) |-> charges'[i].costUsd]
          = [i \in OthersCharged(p, context, T) |-> charges[i].costUsd]
    BY <2>1 DEF OthersKept
  <2>8. [id \in OthersOpen(p, context, T) |-> reservations'[id].estimatedCostUsd]
          = [id \in OthersOpen(p, context, T) |-> reservations[id].estimatedCostUsd]
    BY <2>4 DEF OthersKept
  <2> QED
    BY <2>3, <2>6, <2>7, <2>8 DEF OthersUsd
<1>5. ASSUME NEW p, NEW o, Fits(p, o, T) PROVE Fits(p, o, T)'
  <2>1. PICK context : context = PlanContext(o)
    OBVIOUS
  <2>2. /\ [q \in GroupOf(p, o)' |-> (Estimate(q) * Count(q))']
             = [q \in GroupOf(p, o) |-> Estimate(q) * Count(q)]
        /\ [q \in GroupOf(p, o)' |-> Count(q)'] = [q \in GroupOf(p, o) |-> Count(q)]
        /\ [q \in GroupOf(p, o)' |-> ConcurrentRuns(q)']
             = [q \in GroupOf(p, o) |-> ConcurrentRuns(q)]
    BY <1>2, <1>3
  <2>3. PlanContext(o)' = context
    BY <1>2, <2>1
  <2> QED
    BY <1>2, <1>4, <1>5, <2>1, <2>2, <2>3 DEF Fits
<1> QED
  BY <1>1, <1>2, <1>5

\* The workers' calls are stamped after the check, and what was not denied still is not.
LEMMA StaysFit ==
    ASSUME PlanInv, OthersKept, UNCHANGED verdict, verdict = "passed", ~stale, ~denied',
           clock \in Nat, clock' \in Nat, clock <= clock',
           \A c \in Workers : worker'[c] # Undefined =>
               \/ worker[c] # Undefined /\ call'[c].now = call[c].now
               \/ call'[c].now = clock
    PROVE  ~denied' /\ \E T \in 0..clock' : FitsSince(T)'
<1>1. PICK T \in 0..clock : FitsSince(T)
  BY DEF PlanInv
<1>2. T \in 0..clock' /\ T <= clock
  BY <1>1
<1>3. ASSUME NEW c \in Workers, worker'[c] # Undefined PROVE T <= call'[c].now
  BY <1>1, <1>2, <1>3 DEF FitsSince
<1>4. /\ OthersBefore(T)'
      /\ \A o : PlanContext(o)' = PlanContext(o)
      /\ \A p \in PolicyIds, o \in Names' :
            Enforced(p) /\ MatchesPolicy(p, PlanContext(o)) => Fits(p, o, T)'
  BY <1>1, OthersFit DEF FitsSince
<1>5. ASSUME NEW p \in PolicyIds, NEW o \in Names', Enforced(p), MatchesPolicy(p, PlanContext(o)')
      PROVE  Fits(p, o, T)'
  BY <1>4, <1>5
<1>6. FitsSince(T)'
  BY <1>3, <1>4, <1>5 DEF FitsSince, Enforced
<1> QED
  BY <1>2, <1>6

LEMMA SameRuns ==
    ASSUME PlanInv, UNCHANGED <<plan, left, started>>,
           \A c \in Workers : worker'[c] # Undefined => worker'[c] = worker[c],
           DOMAIN started \cap DOMAIN reservations' \subseteq DOMAIN started \cap DOMAIN reservations
    PROVE  \A o \in Names' : RunsAnnounced(o)'
<1> SUFFICES ASSUME NEW o \in Names' PROVE RunsAnnounced(o)'
  OBVIOUS
<1>1. /\ o \in Names /\ RunsAnnounced(o)
      /\ Count(o)' = Count(o) /\ ConcurrentRuns(o)' = ConcurrentRuns(o)
  BY DEF PlanInv, Names, Count, ConcurrentRuns
<1>2. /\ Reserving(o)' \subseteq Reserving(o)
      /\ RunsOf(o)' = RunsOf(o) /\ OpenRuns(o)' \subseteq OpenRuns(o)
  BY <1>1, PlanFacts DEF Reserving, RunsOf, OpenRuns
<1>3. /\ Cardinality(OpenRuns(o)') <= Cardinality(OpenRuns(o)) /\ Cardinality(OpenRuns(o)') \in Nat
      /\ Cardinality(Reserving(o)') <= Cardinality(Reserving(o)) /\ Cardinality(Reserving(o)') \in Nat
  BY <1>2, RunsFinite, FS_Subset, FS_CardinalityType
<1>4. /\ Cardinality(Reserving(o)) \in Nat /\ Cardinality(OpenRuns(o)) \in Nat
      /\ Cardinality(RunsOf(o)) \in Nat /\ left[o] \in Nat
      /\ Count(o) \in Nat /\ ConcurrentRuns(o) \in Nat
  BY <1>1, RunsFinite, PlanFacts DEF PlanInv, PlanType
<1>5. /\ left[o] + Cardinality(Reserving(o)') + Cardinality(RunsOf(o)) <= Count(o)
      /\ Cardinality(Reserving(o)') + Cardinality(OpenRuns(o)') <= ConcurrentRuns(o)
  BY <1>1, <1>3, <1>4 DEF RunsAnnounced
<1> QED
  BY <1>1, <1>2, <1>5 DEF RunsAnnounced

\* Time passes, or nothing happens.
LEMMA TickPlan ==
    ASSUME PlanInv, (Tick /\ UNCHANGED planVars) \/ UNCHANGED <<vars, planVars>>
    PROVE  PlanInv'
<1>1. LedgerInv'
  BY NextLedger DEF PlanInv, Next, vars
<1>2. /\ UNCHANGED <<reservations, charges, call, admission>> /\ UNCHANGED planVars
      /\ clock \in Nat /\ clock' \in Nat /\ clock <= clock'
  BY PlanFacts DEF Tick, vars, TypeOK
<1>3. PlanType'
  BY <1>2 DEF PlanInv, PlanType, planVars, Names
<1>4. StampsOK'
  <2>1. /\ \A id \in DOMAIN reservations : reservations[id].createdAt \in Nat
        /\ \A i \in DOMAIN charges : charges[i].createdAt \in Nat
        /\ \A c \in Callers : call[c].now \in Nat
    BY PlanFacts, CallArguments DEF ReservationType, ChargeType
  <2> QED
    BY <1>2, <2>1 DEF PlanInv, StampsOK
<1>5. PlanCalls' /\ PlanRecords'
  BY <1>2 DEF PlanInv, PlanCalls, PlanRecords, WorkerCallOK, OtherCallOK, PlanContext, Estimate, planVars
<1>6. \A o \in Names' : RunsAnnounced(o)'
  BY <1>2, SameRuns DEF planVars
<1>7. (verdict # "passed" => NothingRuns)' /\ (verdict = "passed" => ~TooLarge)'
  BY <1>2 DEF PlanInv, NothingRuns, TooLarge, PlanTotal, Names, Estimate, Count, planVars
<1>8. (verdict = "passed" /\ ~stale => ~denied /\ \E T \in 0..clock : FitsSince(T))'
  <2>1. OthersKept
    BY <1>2 DEF OthersKept, OthersReservations, OthersCharges, planVars
  <2> QED
    BY <1>2, <2>1, StaysFit DEF planVars, PlanInv
<1> QED
  BY <1>1, <1>3, <1>4, <1>5, <1>6, <1>7, <1>8 DEF PlanInv

\* A check that finds no violation on the ledger of the moment: the plan fits on top of it.
LEMMA PassedFits ==
    ASSUME PlanInv, DOMAIN started = {}, ~PlanBlocked(reservations, charges),
           \A c \in Callers : worker[c] = Undefined
    PROVE  FitsSince(clock)
<1>1. OthersBefore(clock)
  BY DEF PlanInv, StampsOK, OthersBefore, OthersReservations, OthersCharges
<1>2. ASSUME NEW p \in PolicyIds, NEW o \in Names, Enforced(p), MatchesPolicy(p, PlanContext(o))
      PROVE  Fits(p, o, clock)
  <2> DEFINE context == PlanContext(o)
             ops == GroupOf(p, o)
  <2>1. ops = {q \in {r \in Names : MatchesPolicy(p, PlanContext(r))} :
                 PolicyGroup(p, PlanContext(q)) = PolicyGroup(p, context)}
    BY DEF GroupOf
  <2>2. ~PlanViolates(p, ops, context, reservations, charges)
    BY <1>2, <2>1 DEF PlanBlocked
  <2>3. /\ OthersCharged(p, context, clock) = Counted(charges, p, context, clock)
        /\ OthersOpen(p, context, clock) = Counted(reservations, p, context, clock)
    BY DEF OthersCharged, OthersOpen
  <2>4. /\ OthersUsd(p, context, clock) = ProjectedUsd(reservations, charges, p, context, clock)
        /\ Cardinality(OthersCharged(p, context, clock)) + Cardinality(OthersOpen(p, context, clock))
             = ProjectedCalls(reservations, charges, p, context, clock)
        /\ Cardinality(OthersOpen(p, context, clock)) = Concurrent(reservations, p, context, clock)
    BY <2>3 DEF OthersUsd, ProjectedUsd, ActualUsd, ReservedUsd, ProjectedCalls, Concurrent
  <2>5. o \in ops
    BY <1>2 DEF GroupOf
  <2> QED
    BY <2>2, <2>4, <2>5 DEF PlanViolates, Fits
<1>3. \A c \in Workers : worker[c] = Undefined
  BY PlanAssumption
<1> QED
  BY <1>1, <1>2, <1>3 DEF FitsSince

LEMMA CheckKeeps ==
    ASSUME PlanInv, NEW check \in Checks, CheckPlan(check)
    PROVE  PlanInv'
<1>1. /\ UNCHANGED <<vars, plan, worker, started, denied>>
      /\ verdict = "none" /\ verdict' \in {"none", "invalid", "blocked", "passed"}
      /\ left' = [o \in Names |-> IF verdict' = "passed" THEN Count(o) ELSE 0]
  BY DEF CheckPlan
<1>2. LedgerInv' /\ UNCHANGED <<reservations, charges, clock, call, admission>>
  BY <1>1, NextLedger DEF PlanInv, vars
<1>3. NothingRuns /\ DOMAIN started = {} /\ (\A c \in Callers : worker[c] = Undefined) /\ ~denied
  BY <1>1 DEF PlanInv, NothingRuns
<1>4. /\ Names' = Names
      /\ \A o : /\ PlanContext(o)' = PlanContext(o) /\ Estimate(o)' = Estimate(o)
                /\ Count(o)' = Count(o) /\ ConcurrentRuns(o)' = ConcurrentRuns(o)
  BY <1>1 DEF Names, PlanContext, Estimate, Count, ConcurrentRuns
<1>5. PlanType'
  <2>1. \A o \in Names : Count(o) \in Nat
    BY PlanFacts
  <2>2. left' \in [Names' -> Nat]
    BY <1>1, <1>4, <2>1
  <2> QED
    BY <1>1, <1>2, <1>4, <2>2 DEF PlanInv, PlanType
<1>6. StampsOK' /\ PlanCalls' /\ PlanRecords'
  BY <1>1, <1>2, <1>4 DEF PlanInv, StampsOK, PlanCalls, PlanRecords, WorkerCallOK, OtherCallOK
<1>7. ASSUME NEW o \in Names' PROVE RunsAnnounced(o)'
  <2>1. /\ Reserving(o)' = {} /\ RunsOf(o)' = {} /\ OpenRuns(o)' = {}
    <3>1. Undefined # o
      BY <1>4, PlanFacts
    <3> QED
      BY <1>1, <1>3, <3>1, PlanAssumption DEF Reserving, RunsOf, OpenRuns
  <2>2. Cardinality({}) = 0
    BY FS_EmptySet
  <2>3. /\ Count(o) \in Nat /\ ConcurrentRuns(o) \in Nat
        /\ left'[o] \in Nat /\ left'[o] <= Count(o)
    BY <1>1, <1>4, PlanFacts
  <2> QED
    BY <1>4, <2>1, <2>2, <2>3 DEF RunsAnnounced
<1>8. (verdict # "passed" => NothingRuns)'
  BY <1>1, <1>3, <1>4 DEF NothingRuns
<1>9. ASSUME verdict' = "passed"
      PROVE  /\ ~TooLarge'
             /\ ~stale' => ~denied' /\ \E T \in 0..clock' : FitsSince(T)'
  <2> DEFINE open == IF check = "simulate" THEN reservations ELSE [id \in {} |-> Undefined]
             spent == IF check = "simulate" THEN charges ELSE <<>>
  <2>1. ~TooLarge /\ ~PlanBlocked(open, spent)
    BY <1>9 DEF CheckPlan
  <2>2. ~TooLarge'
    BY <1>1, <2>1 DEF TooLarge, PlanTotal, Names, Estimate, Count
  <2>3. ASSUME ~stale' PROVE FitsSince(clock)
    <3>1. open = reservations /\ spent = charges
      BY <2>3 DEF CheckPlan
    <3> QED
      BY <1>3, <2>1, <3>1, PassedFits
  <2>4. ASSUME ~stale' PROVE \E T \in 0..clock' : FitsSince(T)'
    <3>1. PICK T : T = clock
      OBVIOUS
    <3>2. T \in 0..clock' /\ FitsSince(T)
      BY <1>2, <2>3, <2>4, <3>1, PlanFacts DEF TypeOK
    <3>3. OthersKept
      BY <1>1, <1>2 DEF OthersKept, OthersReservations, OthersCharges
    <3>4. \A c \in Workers : worker'[c] = Undefined
      BY <1>1, <1>3, PlanAssumption
    <3>5. \A p \in PolicyIds, o \in Names :
             Enforced(p) /\ MatchesPolicy(p, PlanContext(o)) => Fits(p, o, T)'
      BY <3>2, <3>3, OthersFit DEF FitsSince
    <3>6. OthersBefore(T)'
      BY <3>2, <3>3, OthersFit DEF FitsSince
    <3>7. ASSUME NEW p \in PolicyIds, NEW o \in Names', Enforced(p), MatchesPolicy(p, PlanContext(o)')
          PROVE  Fits(p, o, T)'
      BY <1>4, <3>5, <3>7
    <3>8. FitsSince(T)'
      BY <3>4, <3>6, <3>7 DEF FitsSince, Enforced
    <3> QED
      BY <3>2, <3>8
  <2> QED
    BY <1>1, <1>3, <2>2, <2>4
<1> QED
  BY <1>2, <1>5, <1>6, <1>7, <1>8, <1>9 DEF PlanInv

\* A call goes out: nothing happens to the ledger yet.
LEMMA EnqueueCalls ==
    ASSUME PlanInv, NEW c \in Callers, NEW op \in OperationNames, NEW request, NEW id, NEW costUsd,
           Enqueue(c, op, request, id, costUsd)
    PROVE  /\ call[c].op = "none" /\ call'[c].op = op /\ call'[c].request = request
           /\ call'[c].id = id /\ call'[c].costUsd = costUsd /\ call'[c].now = clock
           /\ \A d \in Callers \ {c} : call'[d] = call[d]
           /\ UNCHANGED <<reservations, charges, clock, admission>>
           /\ StampsOK'
<1>1. /\ call[c].op = "none" /\ call'[c].op = op /\ call'[c].request = request
      /\ call'[c].id = id /\ call'[c].costUsd = costUsd /\ call'[c].now = clock
      /\ \A d \in Callers \ {c} : call'[d] = call[d]
      /\ UNCHANGED <<reservations, charges, clock, admission>>
  BY PlanFacts DEF Enqueue, Idle, TypeOK
<1>2. StampsOK'
  <2>1. clock <= clock
    BY PlanFacts DEF TypeOK
  <2> QED
    BY <1>1, <2>1 DEF PlanInv, StampsOK
<1> QED
  BY <1>1, <1>2

LEMMA StartKeeps ==
    ASSUME PlanInv, NEW c \in Workers, StartOperation(c)
    PROVE  PlanInv'
<1> DEFINE Request(o) == [context |-> plan.operations[o].context, estimatedCostUsd |-> Estimate(o),
                          requestId |-> Undefined, idempotencyKey |-> Undefined]
<1>1. PICK o \in Names :
        /\ left[o] > 0
        /\ InFlightRuns(o) < ConcurrentRuns(o)
        /\ Enqueue(c, "reserve", Normalize(Request(o)), Undefined, Undefined)
        /\ left' = [left EXCEPT ![o] = @ - 1]
        /\ worker' = [worker EXCEPT ![c] = o]
        /\ UNCHANGED <<plan, verdict, started, stale, denied>>
  BY DEF StartOperation
<1>2. /\ c \in Callers /\ Undefined \notin Names
      /\ plan.operations[o].context \in Contexts /\ Estimate(o) \in Nat
      /\ Count(o) \in Nat /\ ConcurrentRuns(o) \in Nat
      /\ left[o] \in Nat
  BY PlanFacts, PlanAssumption DEF PlanInv, PlanType
<1>3. /\ Normalize(Request(o)) \in NormalRequestType /\ Normalize(Request(o)) # Undefined
      /\ Normalize(Request(o)).context = PlanContext(o)
      /\ Normalize(Request(o)).estimatedCostUsd = Estimate(o)
      /\ Normalize(Request(o)).idempotencyKey = Undefined
  <2>1. Estimate(o) # Undefined
    BY <1>2, PolicyAssumption
  <2>2. Request(o) \in RequestType
    BY <1>2 DEF RequestType, Optional
  <2>3. NormalizeEstimate(Request(o).estimatedCostUsd) = Estimate(o)
    BY <2>1 DEF NormalizeEstimate
  <2>4. Normalize(Request(o)) \in NormalRequestType /\ Normalize(Request(o)) # Undefined
    BY <2>1, <2>2, <2>3, NormalizeType
  <2>5. /\ Normalize(Request(o)).context = NormalizeContext(Request(o).context)
        /\ Normalize(Request(o)).estimatedCostUsd
             = NormalizeEstimate(Request(o).estimatedCostUsd)
        /\ Normalize(Request(o)).idempotencyKey = Request(o).idempotencyKey
    BY DEF Normalize
  <2> QED
    BY <2>3, <2>4, <2>5 DEF PlanContext
<1> HIDE DEF Request
<1>4. /\ call[c].op = "none" /\ call'[c].op = "reserve"
      /\ call'[c].request = Normalize(Request(o)) /\ call'[c].now = clock
      /\ \A d \in Callers \ {c} : call'[d] = call[d]
      /\ UNCHANGED <<reservations, charges, clock, admission>>
      /\ StampsOK'
  BY <1>1, <1>2, EnqueueCalls DEF OperationNames
<1>5. LedgerInv'
  <2>1. TypeOK'
    BY <1>1, <1>2, <1>3, PlanFacts, EnqueueType DEF OperationNames, Optional
  <2>2. told' = told
    BY <1>1 DEF Enqueue
  <2> QED
    BY <1>4, <2>1, <2>2, QuietLedger DEF PlanInv
<1>6. /\ worker[c] = Undefined /\ worker'[c] = o
      /\ \A d \in Callers \ {c} : worker'[d] = worker[d]
  BY <1>1, <1>2, <1>4 DEF PlanInv, PlanCalls, WorkerCallOK, PlanType
<1>7. /\ Names' = Names
      /\ \A q : /\ PlanContext(q)' = PlanContext(q) /\ Estimate(q)' = Estimate(q)
                /\ Count(q)' = Count(q) /\ ConcurrentRuns(q)' = ConcurrentRuns(q)
  BY <1>1 DEF Names, PlanContext, Estimate, Count, ConcurrentRuns
<1>8. PlanType'
  <2>1. left' \in [Names -> Nat] /\ worker' \in [Callers -> Names \cup {Undefined}]
    BY <1>1, <1>2 DEF PlanInv, PlanType
  <2> QED
    BY <1>1, <1>4, <1>7, <2>1 DEF PlanInv, PlanType
<1>9. PlanCalls' /\ PlanRecords'
  <2>1. ASSUME NEW d \in Workers PROVE WorkerCallOK(d)'
    <3>1. CASE d = c
      BY <1>2, <1>3, <1>4, <1>6, <1>7, <3>1 DEF WorkerCallOK
    <3>2. CASE d # c
      <4>1. call'[d] = call[d] /\ worker'[d] = worker[d] /\ WorkerCallOK(d)
        BY <1>4, <1>6, <3>2, PlanAssumption DEF PlanInv, PlanCalls
      <4> QED
        BY <1>1, <1>7, <4>1 DEF WorkerCallOK
    <3> QED
      BY <3>1, <3>2
  <2>2. ASSUME NEW d \in Callers \ Workers PROVE OtherCallOK(d)'
    BY <1>1, <1>4, <1>6 DEF PlanInv, PlanCalls, OtherCallOK
  <2> QED
    BY <1>1, <1>4, <1>7, <2>1, <2>2 DEF PlanInv, PlanCalls, PlanRecords
<1>10. ASSUME NEW q \in Names' PROVE RunsAnnounced(q)'
  <2>1. RunsAnnounced(q) /\ q \in Names /\ left[q] \in Nat
    BY <1>7 DEF PlanInv, PlanType
  <2>2. RunsOf(q)' = RunsOf(q) /\ OpenRuns(q)' = OpenRuns(q)
    BY <1>1, <1>4 DEF RunsOf, OpenRuns
  <2>3. /\ Cardinality(Reserving(q)) \in Nat /\ Cardinality(RunsOf(q)) \in Nat
        /\ Cardinality(OpenRuns(q)) \in Nat /\ IsFiniteSet(Reserving(q))
        /\ Count(q) \in Nat /\ ConcurrentRuns(q) \in Nat
    BY <2>1, RunsFinite, PlanFacts
  <2>4. CASE q = o
    <3>1. Reserving(q)' = Reserving(q) \cup {c} /\ c \notin Reserving(q)
      BY <1>2, <1>6, <2>4, PlanAssumption DEF Reserving
    <3>2. Cardinality(Reserving(q)') = Cardinality(Reserving(q)) + 1
      BY <2>3, <3>1, FS_AddElement
    <3>3. left'[q] = left[q] - 1
      BY <1>1, <2>4 DEF PlanInv, PlanType
    <3>4. Cardinality(Reserving(q)) + Cardinality(OpenRuns(q)) < ConcurrentRuns(q)
      BY <1>1, <2>4 DEF InFlightRuns, Reserving, OpenRuns
    <3> QED
      BY <1>7, <2>1, <2>2, <2>3, <3>2, <3>3, <3>4 DEF RunsAnnounced
  <2>5. CASE q # o
    <3>1. Reserving(q)' = Reserving(q)
      BY <1>2, <1>6, <2>1, <2>5, PlanAssumption DEF Reserving
    <3>2. left'[q] = left[q]
      BY <1>1, <2>1, <2>5 DEF PlanInv, PlanType
    <3> QED
      BY <1>7, <2>1, <2>2, <3>1, <3>2 DEF RunsAnnounced
  <2> QED
    BY <2>4, <2>5
<1>11. verdict = "passed"
  BY <1>1, <1>2 DEF PlanInv, NothingRuns
<1>12. ~TooLarge'
  BY <1>1, <1>11 DEF PlanInv, TooLarge, PlanTotal, Names, Estimate, Count
<1>13. ASSUME ~stale' PROVE ~denied' /\ \E T \in 0..clock' : FitsSince(T)'
  <2>1. OthersKept
    BY <1>1, <1>4 DEF OthersKept, OthersReservations, OthersCharges
  <2>2. clock \in Nat /\ clock <= clock'
    BY <1>4, PlanFacts DEF TypeOK
  <2>3. \A d \in Workers : worker'[d] # Undefined =>
            \/ worker[d] # Undefined /\ call'[d].now = call[d].now
            \/ call'[d].now = clock
    BY <1>4, <1>6, PlanAssumption
  <2> QED
    BY <1>1, <1>4, <1>11, <1>13, <2>1, <2>2, <2>3, StaysFit DEF PlanInv
<1> QED
  BY <1>1, <1>4, <1>5, <1>8, <1>9, <1>10, <1>11, <1>12, <1>13 DEF PlanInv

\* The workload stays as it is, but for the call that c begins.
LEMMA QuietPlan ==
    ASSUME PlanInv, LedgerInv', StampsOK', PlanCalls', UNCHANGED workload,
           UNCHANGED <<reservations, charges, clock, admission>>,
           stale => stale', \A c \in Workers : call'[c].now = call[c].now \/ worker[c] = Undefined
    PROVE  PlanInv'
<1>1. /\ Names' = Names
      /\ \A q : PlanContext(q)' = PlanContext(q) /\ Estimate(q)' = Estimate(q)
  BY DEF workload, Names, PlanContext, Estimate
<1>2. PlanType' /\ PlanRecords'
  BY <1>1 DEF PlanInv, PlanType, PlanRecords, workload
<1>3. \A o \in Names' : RunsAnnounced(o)'
  BY SameRuns DEF workload
<1>4. (verdict # "passed" => NothingRuns)' /\ (verdict = "passed" => ~TooLarge)'
  BY DEF PlanInv, NothingRuns, TooLarge, PlanTotal, Names, Estimate, Count, workload
<1>5. (verdict = "passed" /\ ~stale => ~denied /\ \E T \in 0..clock : FitsSince(T))'
  <2>1. OthersKept
    BY DEF OthersKept, OthersReservations, OthersCharges, workload
  <2>2. clock \in Nat /\ clock' \in Nat /\ clock <= clock'
    BY PlanFacts DEF TypeOK
  <2> QED
    BY <2>1, <2>2, StaysFit DEF PlanInv, workload
<1> QED
  BY <1>2, <1>3, <1>4, <1>5 DEF PlanInv

LEMMA FinishKeeps ==
    ASSUME PlanInv, NEW c \in Workers, FinishOperation(c)
    PROVE  PlanInv'
<1>1. PICK id \in DOMAIN started \cap DOMAIN reservations, actual \in Amounts :
        /\ actual <= Estimate(started[id])
        /\ Enqueue(c, "settle", Undefined, id, actual)
        /\ UNCHANGED planVars
  BY DEF FinishOperation
<1>2. c \in Callers /\ id \in Ids /\ actual \in Nat
  BY <1>1, PlanFacts, PlanAssumption, FirewallAssumption DEF TypeOK
<1>3. /\ call[c].op = "none" /\ call'[c].op = "settle" /\ call'[c].id = id
      /\ call'[c].costUsd = actual
      /\ \A d \in Callers \ {c} : call'[d] = call[d]
      /\ UNCHANGED <<reservations, charges, clock, admission>>
      /\ StampsOK'
  BY <1>1, <1>2, EnqueueCalls DEF OperationNames
<1>4. LedgerInv'
  <2>1. actual \in Optional(Nat) /\ actual # Undefined
    BY <1>2, PolicyAssumption DEF Optional
  <2> QED
    BY <1>1, <1>2, <2>1, EnqueuePreserves DEF PlanInv, OperationNames
<1>5. worker[c] = Undefined
  BY <1>3 DEF PlanInv, PlanCalls, WorkerCallOK
<1>6. PlanCalls'
  <2>1. ASSUME NEW d \in Workers PROVE WorkerCallOK(d)'
    <3>1. CASE d = c
      BY <1>1, <1>3, <1>5, <3>1 DEF WorkerCallOK, Estimate, planVars
    <3>2. CASE d # c
      <4>1. call'[d] = call[d] /\ WorkerCallOK(d)
        BY <1>3, <3>2, PlanAssumption DEF PlanInv, PlanCalls
      <4> QED
        BY <1>1, <4>1 DEF WorkerCallOK, PlanContext, Estimate, planVars
    <3> QED
      BY <3>1, <3>2
  <2>2. ASSUME NEW d \in Callers \ Workers PROVE OtherCallOK(d)'
    BY <1>1, <1>3 DEF PlanInv, PlanCalls, OtherCallOK, planVars
  <2> QED
    BY <2>1, <2>2 DEF PlanCalls
<1>7. \A d \in Workers : call'[d].now = call[d].now \/ worker[d] = Undefined
  BY <1>3, <1>5, PlanAssumption
<1>8. UNCHANGED workload /\ (stale => stale')
  BY <1>1 DEF planVars, workload
<1> QED
  BY <1>3, <1>4, <1>6, <1>7, <1>8, QuietPlan

-----------------------------------------------------------------------------
(***************************************************************************)
(* What a commit of c does to the ledger.                                  *)
(***************************************************************************)
LEMMA ReservedOrNot ==
    ASSUME LedgerInv, NEW c \in Callers, CommitReserve(c)
    PROVE  /\ call' = [call EXCEPT ![c] = NoCall] /\ clock' = clock
           /\ call[c].op = "reserve" /\ charges' = charges
           /\ \/ /\ UNCHANGED <<reservations, admission>>
                 /\ answer' # "reserved"
                 /\ answer' = "denied" =>
                       ~Allowed(reservations, charges, call[c].request.context,
                                call[c].request.estimatedCostUsd, call[c].now)
              \/ /\ answer' \in {"reserved", "store-error"}
                 /\ \E id \in Ids \ DOMAIN admission, record \in ReservationType :
                       /\ reservations' = Bind(reservations, id, record)
                       /\ DOMAIN admission' = DOMAIN admission \cup {id}
                       /\ record.context = call[c].request.context
                       /\ record.estimatedCostUsd = call[c].request.estimatedCostUsd
                       /\ record.createdAt = call[c].now
<1> DEFINE request == call[c].request
           now == call[c].now
           allowed == Allowed(reservations, charges, request.context,
                              request.estimatedCostUsd, now)
           record == [context |-> request.context,
                      estimatedCostUsd |-> request.estimatedCostUsd,
                      createdAt |-> now,
                      idempotencyKey |-> request.idempotencyKey,
                      fingerprint |-> RequestFingerprint(request)]
<1>1. /\ call' = [call EXCEPT ![c] = NoCall] /\ clock' = clock
      /\ call[c].op = "reserve" /\ charges' = charges
  BY DEF CommitReserve, RefuseKey, Refuse, Answer, Dequeue, Turn
<1>2. CASE \/ RefuseKey(c, request.idempotencyKey, RequestFingerprint(request))
           \/ KeyFree(request.idempotencyKey) /\ ~allowed /\ Refuse(c, "denied")
  <2>1. UNCHANGED <<reservations, admission>> /\ answer' # "reserved"
    BY <1>2 DEF RefuseKey, Refuse
  <2>2. answer' = "denied" => ~allowed
    BY <1>2 DEF RefuseKey, Refuse
  <2> QED
    BY <1>1, <2>1, <2>2
<1>3. CASE /\ \E id \in Ids \ DOMAIN admission :
                 /\ reservations' = Bind(reservations, id, record)
                 /\ admission' = Bind(admission, id, [createdAt |-> now, approvedAt |-> now])
           /\ Answer(c, "reserved")
  <2>1. PICK id \in Ids \ DOMAIN admission :
            /\ reservations' = Bind(reservations, id, record)
            /\ admission' = Bind(admission, id, [createdAt |-> now, approvedAt |-> now])
    BY <1>3
  <2>2. request \in NormalRequestType /\ now \in Nat
    BY CallArguments DEF CommitReserve, Turn, LedgerInv
  <2>3. record \in ReservationType
    BY <2>2 DEF ReservationType, NormalRequestType, RequestFingerprint, Fingerprint, Fingerprints
  <2>4. DOMAIN admission' = DOMAIN admission \cup {id}
    BY <2>1 DEF Bind
  <2>5. answer' \in {"reserved", "store-error"}
    BY <1>3 DEF Answer
  <2> QED
    BY <1>1, <2>1, <2>3, <2>4, <2>5
<1> QED
  BY <1>2, <1>3 DEF CommitReserve

LEMMA SettledOrNot ==
    ASSUME LedgerInv, NEW c \in Callers, CommitSettle(c)
    PROVE  /\ call' = [call EXCEPT ![c] = NoCall] /\ clock' = clock
           /\ call[c].op = "settle" /\ admission' = admission
           /\ \/ UNCHANGED <<reservations, charges>>
              \/ \E id \in DOMAIN reservations, charge \in ChargeType :
                    /\ id = call[c].id
                    /\ reservations' = Unbind(reservations, id)
                    /\ charges' = Append(charges, charge)
                    /\ charge.reservationId = id
                    /\ charge.context = reservations[id].context
                    /\ charge.costUsd = call[c].costUsd
                    /\ charge.createdAt = call[c].now
<1> DEFINE id == call[c].id
           remaining == Unbind(reservations, id)
           charge == SettledCharge(id, call[c].costUsd, call[c].now)
<1>1. /\ call' = [call EXCEPT ![c] = NoCall] /\ clock' = clock
      /\ call[c].op = "settle" /\ admission' = admission
  BY DEF CommitSettle, Refuse, Answer, Dequeue, Turn
<1>2. CASE /\ id \in DOMAIN reservations
           /\ reservations' = remaining
           /\ charges' = Append(charges, charge)
  <2>1. call[c].costUsd \in Nat /\ call[c].now \in Nat
    BY CallArguments DEF CommitSettle, Turn, LedgerInv
  <2>2. charge \in ChargeType
    BY <1>2, <2>1, SettledChargeType DEF LedgerInv
  <2>3. /\ charge.reservationId = id /\ charge.context = reservations[id].context
        /\ charge.costUsd = call[c].costUsd /\ charge.createdAt = call[c].now
    BY DEF SettledCharge
  <2> HIDE DEF charge
  <2> QED
    BY <1>1, <1>2, <2>2, <2>3
<1>3. CASE UNCHANGED <<reservations, charges>>
  BY <1>1, <1>3
<1> QED
  BY <1>2, <1>3 DEF CommitSettle, Refuse

\* The call of c is over.
LEMMA DequeueCalls ==
    ASSUME PlanInv, NEW c \in Callers, call' = [call EXCEPT ![c] = NoCall], clock' = clock
    PROVE  /\ call'[c] = NoCall /\ \A d \in Callers \ {c} : call'[d] = call[d]
           /\ \A d \in Callers : call'[d].now <= clock'
<1>1. call'[c] = NoCall /\ \A d \in Callers \ {c} : call'[d] = call[d]
  BY PlanFacts DEF TypeOK
<1>2. NoCall.now <= clock'
  BY PlanFacts DEF TypeOK, NoCall
<1> QED
  BY <1>1, <1>2 DEF PlanInv, StampsOK

LEMMA ReservedKeeps ==
    ASSUME PlanInv, NEW c \in Workers, OperationReserved(c)
    PROVE  PlanInv'
<1> DEFINE o == worker[c]
<1>1. c \in Callers /\ LedgerInv
  BY PlanAssumption DEF PlanInv
<1>2. LedgerInv'
  BY <1>1, NextLedger DEF OperationReserved, Next
<1>3. /\ call' = [call EXCEPT ![c] = NoCall] /\ clock' = clock
      /\ call[c].op = "reserve" /\ charges' = charges
  BY <1>1, ReservedOrNot DEF OperationReserved
<1>4. /\ call'[c] = NoCall /\ \A d \in Callers \ {c} : call'[d] = call[d]
      /\ \A d \in Callers : call'[d].now <= clock'
  BY <1>1, <1>3, DequeueCalls
<1>5. /\ o # Undefined /\ o \in Names
      /\ call[c].request.context = PlanContext(o)
      /\ call[c].request.estimatedCostUsd = Estimate(o)
  BY <1>1, <1>3 DEF PlanInv, PlanType, PlanCalls, WorkerCallOK
<1>6. verdict = "passed" /\ Undefined \notin Names
  BY <1>1, <1>5, PlanFacts DEF PlanInv, NothingRuns
<1>7. /\ worker'[c] = Undefined /\ \A d \in Callers \ {c} : worker'[d] = worker[d]
      /\ UNCHANGED <<plan, verdict, left, stale>>
      /\ denied' = (denied \/ answer' = "denied")
      /\ answer' # "store-error"
  BY <1>1 DEF OperationReserved, PlanInv, PlanType
<1>8. /\ Names' = Names
      /\ \A q : /\ PlanContext(q)' = PlanContext(q) /\ Estimate(q)' = Estimate(q)
                /\ Count(q)' = Count(q) /\ ConcurrentRuns(q)' = ConcurrentRuns(q)
  BY <1>7 DEF Names, PlanContext, Estimate, Count, ConcurrentRuns
<1>9. ASSUME UNCHANGED <<reservations, admission>>, answer' # "reserved",
             answer' = "denied" =>
                 ~Allowed(reservations, charges, call[c].request.context,
                          call[c].request.estimatedCostUsd, call[c].now)
      PROVE  /\ started' = started
             /\ ~stale => ~denied'
  <2>1. started' = started
    BY <1>9 DEF OperationReserved
  <2>2. ~stale => ~denied'
    BY <1>5, <1>6, <1>7, <1>9, NotDenied DEF PlanInv
  <2> QED
    BY <2>1, <2>2
<1>10. CASE started' = started /\ UNCHANGED <<reservations, admission>> /\ (~stale => ~denied')
  <2>1. PlanType' /\ PlanRecords'
    <3>1. worker' \in [Callers -> Names \cup {Undefined}]
      BY <1>1 DEF OperationReserved, PlanInv, PlanType
    <3> QED
      BY <1>3, <1>7, <1>8, <1>10, <3>1 DEF PlanInv, PlanType, PlanRecords
  <2>2. StampsOK'
    BY <1>3, <1>4, <1>10 DEF PlanInv, StampsOK
  <2>3. PlanCalls'
    <3>1. ASSUME NEW d \in Workers PROVE WorkerCallOK(d)'
      <4>1. CASE d = c
        BY <1>4, <1>7, <4>1 DEF WorkerCallOK, NoCall
      <4>2. CASE d # c
        <5>1. call'[d] = call[d] /\ worker'[d] = worker[d] /\ WorkerCallOK(d)
          BY <1>4, <1>7, <4>2, PlanAssumption DEF PlanInv, PlanCalls
        <5> QED
          BY <1>8, <1>10, <5>1 DEF WorkerCallOK
      <4> QED
        BY <4>1, <4>2
    <3>2. ASSUME NEW d \in Callers \ Workers PROVE OtherCallOK(d)'
      BY <1>4, <1>7, <1>10 DEF PlanInv, PlanCalls, OtherCallOK
    <3> QED
      BY <3>1, <3>2 DEF PlanCalls
  <2>4. \A q \in Names' : RunsAnnounced(q)'
    <3>1. \A d \in Workers : worker'[d] # Undefined => worker'[d] = worker[d]
      BY <1>7, PlanAssumption
    <3> QED
      BY <1>7, <1>10, <3>1, SameRuns
  <2>5. ~TooLarge'
    BY <1>6, <1>7 DEF PlanInv, TooLarge, PlanTotal, Names, Estimate, Count
  <2>6. ASSUME ~stale' PROVE ~denied' /\ \E T \in 0..clock' : FitsSince(T)'
    <3>1. OthersKept
      BY <1>3, <1>7, <1>10 DEF OthersKept, OthersReservations, OthersCharges
    <3>2. clock \in Nat /\ clock' \in Nat /\ clock <= clock'
      BY <1>3, PlanFacts DEF TypeOK
    <3>3. \A d \in Workers : worker'[d] # Undefined
             => worker[d] # Undefined /\ call'[d].now = call[d].now
      BY <1>4, <1>7, PlanAssumption
    <3> QED
      BY <1>6, <1>7, <1>10, <2>6, <3>1, <3>2, <3>3, StaysFit
  <2> QED
    BY <1>2, <1>6, <1>7, <2>1, <2>2, <2>3, <2>4, <2>5, <2>6 DEF PlanInv
<1>11. ASSUME answer' \in {"reserved", "store-error"},
              NEW id \in Ids \ DOMAIN admission, NEW record \in ReservationType,
              reservations' = Bind(reservations, id, record),
              DOMAIN admission' = DOMAIN admission \cup {id},
              record.context = call[c].request.context,
              record.estimatedCostUsd = call[c].request.estimatedCostUsd,
              record.createdAt = call[c].now
       PROVE  PlanInv'
  <2>1. /\ id \notin DOMAIN reservations /\ id \notin DOMAIN started
        /\ DOMAIN reservations' = DOMAIN reservations \cup {id}
        /\ reservations'[id] = record
        /\ \A k \in DOMAIN reservations : reservations'[k] = reservations[k]
    BY <1>11, PlanFacts DEF Bind, TypeOK, PlanInv, PlanType
  <2>2. /\ DOMAIN started' = DOMAIN started \cup {id} /\ started'[id] = o
        /\ \A k \in DOMAIN started : started'[k] = started[k]
        /\ started' \in [DOMAIN started' -> Names]
    <3>1. DOMAIN reservations' \ DOMAIN reservations = {id}
      BY <2>1
    <3>2. started' = Bind(started, id, o)
      BY <1>7, <1>11, <3>1 DEF OperationReserved
    <3> QED
      BY <1>5, <2>1, <3>2 DEF Bind, PlanInv, PlanType
  <2>3. \A i \in DOMAIN charges : charges[i].reservationId # id
    BY <1>1, <1>11, FirewallAssumption DEF LedgerInv, HistoryOK
  <2>4. PlanType'
    <3>1. worker' \in [Callers -> Names \cup {Undefined}]
      BY <1>1 DEF OperationReserved, PlanInv, PlanType
    <3> QED
      BY <1>7, <1>8, <1>11, <2>2, <3>1 DEF PlanInv, PlanType
  <2>5. StampsOK'
    <3>1. \A k \in DOMAIN reservations' : reservations'[k].createdAt <= clock'
      BY <1>1, <1>3, <1>11, <2>1 DEF PlanInv, StampsOK
    <3> QED
      BY <1>3, <1>4, <3>1 DEF PlanInv, StampsOK
  <2>6. PlanCalls'
    <3>1. ASSUME NEW d \in Workers PROVE WorkerCallOK(d)'
      <4>1. CASE d = c
        BY <1>4, <1>7, <4>1 DEF WorkerCallOK, NoCall
      <4>2. CASE d # c
        <5>1. call'[d] = call[d] /\ worker'[d] = worker[d] /\ WorkerCallOK(d)
          BY <1>4, <1>7, <4>2, PlanAssumption DEF PlanInv, PlanCalls
        <5> QED
          BY <1>8, <2>2, <5>1 DEF WorkerCallOK
      <4> QED
        BY <4>1, <4>2
    <3>2. ASSUME NEW d \in Callers \ Workers PROVE OtherCallOK(d)'
      BY <1>4, <1>7, <1>11, <2>2 DEF PlanInv, PlanCalls, OtherCallOK
    <3> QED
      BY <3>1, <3>2 DEF PlanCalls
  <2>7. PlanRecords'
    <3>1. ASSUME NEW k \in DOMAIN started' \cap DOMAIN reservations'
          PROVE  /\ reservations'[k].context = PlanContext(started'[k])
                 /\ reservations'[k].estimatedCostUsd = Estimate(started'[k])
      <4>1. CASE k = id
        BY <1>5, <1>11, <2>1, <2>2, <4>1
      <4>2. CASE k # id
        BY <2>1, <2>2, <4>2 DEF PlanInv, PlanRecords
      <4> QED
        BY <4>1, <4>2
    <3>2. ASSUME NEW i \in DOMAIN charges, charges[i].reservationId \in DOMAIN started'
          PROVE  /\ charges[i].context = PlanContext(started'[charges[i].reservationId])
                 /\ charges[i].costUsd <= Estimate(started'[charges[i].reservationId])
      BY <2>2, <2>3, <3>2 DEF PlanInv, PlanRecords
    <3> QED
      BY <1>3, <1>8, <3>1, <3>2 DEF PlanRecords
  <2>8. ASSUME NEW q \in Names' PROVE RunsAnnounced(q)'
    <3>1. RunsAnnounced(q) /\ q \in Names /\ left[q] \in Nat /\ left'[q] = left[q]
      BY <1>7, <1>8 DEF PlanInv, PlanType
    <3>2. /\ Cardinality(Reserving(q)) \in Nat /\ Cardinality(RunsOf(q)) \in Nat
          /\ Cardinality(OpenRuns(q)) \in Nat /\ IsFiniteSet(Reserving(q))
          /\ IsFiniteSet(RunsOf(q)) /\ IsFiniteSet(OpenRuns(q))
          /\ Count(q) \in Nat /\ ConcurrentRuns(q) \in Nat
      BY <3>1, RunsFinite, PlanFacts
    <3>3. CASE q = o
      <4>1. /\ Reserving(q)' = Reserving(q) \ {c} /\ c \in Reserving(q)
            /\ RunsOf(q)' = RunsOf(q) \cup {id} /\ id \notin RunsOf(q)
            /\ OpenRuns(q)' = OpenRuns(q) \cup {id} /\ id \notin OpenRuns(q)
        <5>1. Reserving(q)' = Reserving(q) \ {c} /\ c \in Reserving(q)
          BY <1>5, <1>7, <3>3, PlanAssumption DEF Reserving
        <5>2. RunsOf(q)' = RunsOf(q) \cup {id} /\ id \notin RunsOf(q)
          BY <2>1, <2>2, <3>3 DEF RunsOf
        <5>3. OpenRuns(q)' = OpenRuns(q) \cup {id} /\ id \notin OpenRuns(q)
          BY <2>1, <2>2, <3>3 DEF OpenRuns
        <5> QED
          BY <5>1, <5>2, <5>3
      <4>2. /\ Cardinality(Reserving(q)') = Cardinality(Reserving(q)) - 1
            /\ Cardinality(RunsOf(q)') = Cardinality(RunsOf(q)) + 1
            /\ Cardinality(OpenRuns(q)') = Cardinality(OpenRuns(q)) + 1
        <5>1. Cardinality(Reserving(q)') = Cardinality(Reserving(q)) - 1
          BY <3>2, <4>1, FS_RemoveElement
        <5>2. Cardinality(RunsOf(q)') = Cardinality(RunsOf(q)) + 1
          BY <3>2, <4>1, FS_AddElement
        <5>3. Cardinality(OpenRuns(q)') = Cardinality(OpenRuns(q)) + 1
          BY <3>2, <4>1, FS_AddElement
        <5> QED
          BY <5>1, <5>2, <5>3
      <4> QED
        BY <1>8, <3>1, <3>2, <4>2 DEF RunsAnnounced
    <3>4. CASE q # o
      <4>1. Reserving(q)' = Reserving(q)
        BY <1>6, <1>7, <3>1, <3>4, PlanAssumption DEF Reserving
      <4>2. RunsOf(q)' = RunsOf(q) /\ OpenRuns(q)' = OpenRuns(q)
        BY <2>1, <2>2, <3>4 DEF RunsOf, OpenRuns
      <4> QED
        BY <1>8, <3>1, <4>1, <4>2 DEF RunsAnnounced
    <3> QED
      BY <3>3, <3>4
  <2>9. ~TooLarge'
    BY <1>6, <1>7 DEF PlanInv, TooLarge, PlanTotal, Names, Estimate, Count
  <2>10. ASSUME ~stale' PROVE ~denied' /\ \E T \in 0..clock' : FitsSince(T)'
    <3>1. OthersKept
      <4>1. OthersReservations' = OthersReservations
        BY <2>1, <2>2 DEF OthersReservations
      <4>2. OthersCharges' = OthersCharges
        BY <1>3, <2>2, <2>3 DEF OthersCharges
      <4> QED
        BY <1>3, <1>7, <2>1, <4>1, <4>2 DEF OthersKept, OthersReservations
    <3>2. clock \in Nat /\ clock' \in Nat /\ clock <= clock'
      BY <1>3, PlanFacts DEF TypeOK
    <3>3. \A d \in Workers : worker'[d] # Undefined
             => worker[d] # Undefined /\ call'[d].now = call[d].now
      BY <1>4, <1>7, PlanAssumption
    <3>4. ~denied'
      BY <1>6, <1>7, <1>11, <2>10 DEF PlanInv
    <3> QED
      BY <1>6, <1>7, <2>10, <3>1, <3>2, <3>3, <3>4, StaysFit
  <2> QED
    BY <1>2, <1>6, <1>7, <2>4, <2>5, <2>6, <2>7, <2>8, <2>9, <2>10 DEF PlanInv
<1> QED
  BY <1>1, <1>9, <1>10, <1>11, ReservedOrNot DEF OperationReserved

LEMMA SettledKeeps ==
    ASSUME PlanInv, NEW c \in Workers, OperationSettled(c)
    PROVE  PlanInv'
<1>1. c \in Callers /\ LedgerInv /\ CommitSettle(c) /\ UNCHANGED planVars
  BY PlanAssumption DEF PlanInv, OperationSettled
<1>2. LedgerInv'
  BY <1>1, NextLedger DEF Next
<1>3. /\ call' = [call EXCEPT ![c] = NoCall] /\ clock' = clock
      /\ call[c].op = "settle" /\ admission' = admission
  BY <1>1, SettledOrNot
<1>4. /\ call'[c] = NoCall /\ \A d \in Callers \ {c} : call'[d] = call[d]
      /\ \A d \in Callers : call'[d].now <= clock'
  BY <1>1, <1>3, DequeueCalls
<1>5. /\ worker[c] = Undefined /\ call[c].id \in DOMAIN started
      /\ call[c].costUsd <= Estimate(started[call[c].id])
  BY <1>3 DEF PlanInv, PlanCalls, WorkerCallOK
<1>6. /\ Names' = Names
      /\ \A q : PlanContext(q)' = PlanContext(q) /\ Estimate(q)' = Estimate(q)
  BY <1>1 DEF planVars, Names, PlanContext, Estimate
<1>7. PlanCalls'
  <2>1. ASSUME NEW d \in Workers PROVE WorkerCallOK(d)'
    <3>1. CASE d = c
      BY <1>1, <1>4, <1>5, <3>1 DEF WorkerCallOK, NoCall, planVars
    <3>2. CASE d # c
      <4>1. call'[d] = call[d] /\ WorkerCallOK(d)
        BY <1>4, <3>2, PlanAssumption DEF PlanInv, PlanCalls
      <4> QED
        BY <1>1, <1>6, <4>1 DEF WorkerCallOK, planVars
    <3> QED
      BY <3>1, <3>2
  <2>2. ASSUME NEW d \in Callers \ Workers PROVE OtherCallOK(d)'
    BY <1>1, <1>3, <1>4 DEF PlanInv, PlanCalls, OtherCallOK, planVars
  <2> QED
    BY <2>1, <2>2 DEF PlanCalls
<1>8. CASE UNCHANGED <<reservations, charges>>
  <2>1. StampsOK'
    BY <1>3, <1>4, <1>8 DEF PlanInv, StampsOK
  <2>2. \A d \in Workers : call'[d].now = call[d].now \/ worker[d] = Undefined
    BY <1>4, <1>5, PlanAssumption
  <2> QED
    BY <1>1, <1>2, <1>3, <1>7, <1>8, <2>1, <2>2, QuietPlan DEF planVars, workload
<1>9. ASSUME NEW id \in DOMAIN reservations, NEW charge \in ChargeType,
             id = call[c].id,
             reservations' = Unbind(reservations, id),
             charges' = Append(charges, charge),
             charge.reservationId = id,
             charge.context = reservations[id].context,
             charge.costUsd = call[c].costUsd,
             charge.createdAt = call[c].now
      PROVE  PlanInv'
  <2>1. /\ DOMAIN reservations' = DOMAIN reservations \ {id}
        /\ \A k \in DOMAIN reservations' : reservations'[k] = reservations[k]
    BY <1>9 DEF Unbind
  <2>2. PICK new : /\ DOMAIN charges' = DOMAIN charges \cup {new}
                   /\ new \notin DOMAIN charges
                   /\ \A i \in DOMAIN charges : charges'[i] = charges[i]
                   /\ charges'[new] = charge
    BY <1>9, PlanFacts, AppendFacts
  <2>3. PlanType'
    BY <1>1, <1>3, <1>6 DEF PlanInv, PlanType, planVars
  <2>4. StampsOK'
    <3>1. \A k \in DOMAIN reservations' : reservations'[k].createdAt <= clock'
      BY <1>3, <2>1 DEF PlanInv, StampsOK
    <3>2. \A i \in DOMAIN charges' : charges'[i].createdAt <= clock'
      BY <1>1, <1>3, <1>9, <2>2 DEF PlanInv, StampsOK
    <3> QED
      BY <1>4, <3>1, <3>2 DEF StampsOK
  <2>5. PlanRecords'
    <3>1. ASSUME NEW k \in DOMAIN started \cap DOMAIN reservations'
          PROVE  /\ reservations'[k].context = PlanContext(started[k])
                 /\ reservations'[k].estimatedCostUsd = Estimate(started[k])
      BY <2>1 DEF PlanInv, PlanRecords
    <3>2. ASSUME NEW i \in DOMAIN charges', charges'[i].reservationId \in DOMAIN started
          PROVE  /\ charges'[i].context = PlanContext(started[charges'[i].reservationId])
                 /\ charges'[i].costUsd <= Estimate(started[charges'[i].reservationId])
      <4>1. CASE i = new
        <5>1. reservations[id].context = PlanContext(started[id])
          BY <1>5, <1>9 DEF PlanInv, PlanRecords
        <5> QED
          BY <1>5, <1>9, <2>2, <4>1, <5>1
      <4>2. CASE i # new
        BY <2>2, <3>2, <4>2 DEF PlanInv, PlanRecords
      <4> QED
        BY <4>1, <4>2
    <3> QED
      BY <1>1, <1>6, <3>1, <3>2 DEF PlanRecords, planVars
  <2>6. \A q \in Names' : RunsAnnounced(q)'
    BY <1>1, <2>1, SameRuns DEF planVars
  <2>7. (verdict # "passed" => NothingRuns)' /\ (verdict = "passed" => ~TooLarge)'
    BY <1>1 DEF PlanInv, NothingRuns, TooLarge, PlanTotal, Names, Estimate, Count, planVars
  <2>8. (verdict = "passed" /\ ~stale => ~denied /\ \E T \in 0..clock : FitsSince(T))'
    <3>1. OthersKept
      <4>1. OthersReservations' = OthersReservations
        BY <1>1, <1>5, <1>9, <2>1 DEF OthersReservations, planVars
      <4>2. OthersCharges' = OthersCharges
        BY <1>1, <1>5, <1>9, <2>2 DEF OthersCharges, planVars
      <4>3. \A k \in OthersReservations : reservations'[k] = reservations[k]
        BY <1>5, <1>9, <2>1 DEF OthersReservations
      <4>4. \A i \in OthersCharges : charges'[i] = charges[i]
        BY <2>2 DEF OthersCharges
      <4> QED
        BY <1>1, <4>1, <4>2, <4>3, <4>4 DEF OthersKept, planVars
    <3>2. clock \in Nat /\ clock' \in Nat /\ clock <= clock'
      BY <1>3, PlanFacts DEF TypeOK
    <3>3. \A d \in Workers : worker'[d] # Undefined
             => worker[d] # Undefined /\ call'[d].now = call[d].now
      BY <1>1, <1>4, <1>5, PlanAssumption DEF planVars
    <3> QED
      BY <1>1, <3>1, <3>2, <3>3, StaysFit DEF planVars, PlanInv
  <2> QED
    BY <1>2, <1>7, <2>3, <2>4, <2>5, <2>6, <2>7, <2>8 DEF PlanInv
<1> QED
  BY <1>1, <1>8, <1>9, SettledOrNot

-----------------------------------------------------------------------------
\* The others do not touch the records of the plan's runs.
RunsKept ==
    /\ \A id \in DOMAIN started : /\ id \in DOMAIN reservations' <=> id \in DOMAIN reservations
                                  /\ id \in DOMAIN reservations => reservations'[id] = reservations[id]
    /\ \A i \in DOMAIN charges' : charges'[i].reservationId \in DOMAIN started
          => i \in DOMAIN charges /\ charges'[i] = charges[i]

LEMMA OthersCommit ==
    ASSUME PlanInv, NEW c \in Callers \ Workers,
           CommitReserve(c) \/ CommitSettle(c) \/ CommitRecordActual(c)
    PROVE  /\ call' = [call EXCEPT ![c] = NoCall] /\ clock' = clock
           /\ DOMAIN admission \subseteq DOMAIN admission'
           /\ RunsKept
           /\ \A id \in DOMAIN reservations' : reservations'[id].createdAt <= clock
           /\ \A i \in DOMAIN charges' : charges'[i].createdAt <= clock
<1> DEFINE Stamped == /\ \A id \in DOMAIN reservations' : reservations'[id].createdAt <= clock
                      /\ \A i \in DOMAIN charges' : charges'[i].createdAt <= clock
<1>1. LedgerInv /\ call[c].now <= clock
  BY DEF PlanInv, StampsOK
<1>2. /\ \A id \in DOMAIN reservations : reservations[id].createdAt <= clock
      /\ \A i \in DOMAIN charges : charges[i].createdAt <= clock
  BY DEF PlanInv, StampsOK
<1>3. ASSUME UNCHANGED <<reservations, charges>> PROVE RunsKept /\ Stamped
  BY <1>2, <1>3 DEF RunsKept
<1>4. CASE CommitReserve(c)
  <2>1. /\ call' = [call EXCEPT ![c] = NoCall] /\ clock' = clock /\ charges' = charges
        /\ \/ UNCHANGED <<reservations, admission>>
           \/ \E id \in Ids \ DOMAIN admission, record \in ReservationType :
                 /\ reservations' = Bind(reservations, id, record)
                 /\ DOMAIN admission' = DOMAIN admission \cup {id}
                 /\ record.createdAt = call[c].now
    BY <1>1, <1>4, ReservedOrNot
  <2>2. ASSUME UNCHANGED <<reservations, admission>>
        PROVE  DOMAIN admission \subseteq DOMAIN admission' /\ RunsKept /\ Stamped
    BY <1>3, <2>1, <2>2
  <2>3. ASSUME NEW id \in Ids \ DOMAIN admission, NEW record \in ReservationType,
               reservations' = Bind(reservations, id, record),
               DOMAIN admission' = DOMAIN admission \cup {id},
               record.createdAt = call[c].now
        PROVE  DOMAIN admission \subseteq DOMAIN admission' /\ RunsKept /\ Stamped
    <3>1. /\ id \notin DOMAIN reservations /\ id \notin DOMAIN started
          /\ DOMAIN reservations' = DOMAIN reservations \cup {id}
          /\ reservations'[id] = record
          /\ \A k \in DOMAIN reservations : reservations'[k] = reservations[k]
      BY <2>3, PlanFacts DEF Bind, TypeOK, PlanInv, PlanType
    <3>2. RunsKept
      BY <2>1, <3>1 DEF RunsKept
    <3>3. \A k \in DOMAIN reservations' : reservations'[k].createdAt <= clock
      BY <1>1, <1>2, <2>3, <3>1
    <3> QED
      BY <1>2, <2>1, <2>3, <3>2, <3>3
  <2> HIDE DEF Stamped
  <2>4. DOMAIN admission \subseteq DOMAIN admission' /\ RunsKept /\ Stamped
    BY <2>1, <2>2, <2>3, <1>3 DEF Stamped
  <2> QED
    BY <2>1, <2>4 DEF Stamped
<1>5. CASE CommitSettle(c)
  <2>1. /\ call' = [call EXCEPT ![c] = NoCall] /\ clock' = clock /\ admission' = admission
        /\ call[c].op = "settle"
        /\ \/ UNCHANGED <<reservations, charges>>
           \/ \E id \in DOMAIN reservations, charge \in ChargeType :
                 /\ id = call[c].id
                 /\ reservations' = Unbind(reservations, id)
                 /\ charges' = Append(charges, charge)
                 /\ charge.reservationId = id
                 /\ charge.createdAt = call[c].now
    BY <1>1, <1>5, SettledOrNot
  <2>2. call[c].id \notin DOMAIN started
    BY <2>1 DEF PlanInv, PlanCalls, OtherCallOK
  <2>3. ASSUME NEW id \in DOMAIN reservations, NEW charge \in ChargeType,
               id = call[c].id,
               reservations' = Unbind(reservations, id),
               charges' = Append(charges, charge),
               charge.reservationId = id,
               charge.createdAt = call[c].now
        PROVE  RunsKept /\ Stamped
    <3>1. /\ DOMAIN reservations' = DOMAIN reservations \ {id}
          /\ \A k \in DOMAIN reservations' : reservations'[k] = reservations[k]
      BY <2>3 DEF Unbind
    <3>2. PICK new : /\ DOMAIN charges' = DOMAIN charges \cup {new}
                     /\ \A i \in DOMAIN charges : charges'[i] = charges[i]
                     /\ charges'[new] = charge
      BY <2>3, PlanFacts, AppendFacts
    <3>3. RunsKept
      BY <2>2, <2>3, <3>1, <3>2 DEF RunsKept
    <3>4. \A k \in DOMAIN reservations' : reservations'[k].createdAt <= clock
      BY <1>2, <3>1
    <3>5. \A i \in DOMAIN charges' : charges'[i].createdAt <= clock
      BY <1>1, <1>2, <2>3, <3>2
    <3> QED
      BY <3>3, <3>4, <3>5
  <2> HIDE DEF Stamped
  <2>4. RunsKept /\ Stamped
    BY <2>1, <2>3, <1>3 DEF Stamped
  <2> QED
    BY <2>1, <2>4 DEF Stamped
<1>6. CASE CommitRecordActual(c)
  <2>1. call' = [call EXCEPT ![c] = NoCall] /\ clock' = clock
    BY <1>6 DEF CommitRecordActual, RefuseKey, Refuse, Answer, Dequeue
  <2>2. \/ UNCHANGED <<reservations, charges, admission>>
        \/ \E charge \in ChargeType : RecordEffect(charge) /\ charge.createdAt = call[c].now
    BY <1>1, <1>6, RecordCommits DEF LedgerInv
  <2>3. ASSUME NEW charge \in ChargeType, RecordEffect(charge), charge.createdAt = call[c].now
        PROVE  admission' = admission /\ RunsKept /\ Stamped
    <3>1. /\ UNCHANGED <<reservations, admission>> /\ charge.reservationId = Undefined
          /\ charges' = Append(charges, charge)
      BY <2>3 DEF RecordEffect
    <3>2. PICK new : /\ DOMAIN charges' = DOMAIN charges \cup {new}
                     /\ \A i \in DOMAIN charges : charges'[i] = charges[i]
                     /\ charges'[new] = charge
      BY <2>3, <3>1, PlanFacts, AppendFacts
    <3>3. RunsKept
      BY <3>1, <3>2, PlanFacts DEF RunsKept
    <3>4. \A i \in DOMAIN charges' : charges'[i].createdAt <= clock
      BY <1>1, <1>2, <2>3, <3>2
    <3> QED
      BY <1>2, <3>1, <3>3, <3>4
  <2> HIDE DEF Stamped
  <2>4. DOMAIN admission \subseteq DOMAIN admission' /\ RunsKept /\ Stamped
    BY <2>2, <2>3, <1>3 DEF Stamped
  <2> QED
    BY <2>1, <2>4 DEF Stamped
<1> QED
  BY <1>4, <1>5, <1>6

\* A call of an other is over.
LEMMA OthersCommitKeeps ==
    ASSUME PlanInv, LedgerInv', NEW c \in Callers \ Workers,
           CommitReserve(c) \/ CommitSettle(c) \/ CommitRecordActual(c),
           UNCHANGED workload, stale => stale',
           verdict # "none" /\ <<reservations, charges>>' # <<reservations, charges>> => stale'
    PROVE  PlanInv'
<1>1. /\ call' = [call EXCEPT ![c] = NoCall] /\ clock' = clock
      /\ DOMAIN admission \subseteq DOMAIN admission'
      /\ RunsKept
      /\ \A id \in DOMAIN reservations' : reservations'[id].createdAt <= clock
      /\ \A i \in DOMAIN charges' : charges'[i].createdAt <= clock
  BY OthersCommit
<1>2. /\ call'[c] = NoCall /\ \A d \in Callers \ {c} : call'[d] = call[d]
      /\ \A d \in Callers : call'[d].now <= clock'
  BY <1>1, DequeueCalls
<1>3. StampsOK'
  BY <1>1, <1>2 DEF StampsOK
<1>4. /\ Names' = Names
      /\ \A q : PlanContext(q)' = PlanContext(q) /\ Estimate(q)' = Estimate(q)
  BY DEF workload, Names, PlanContext, Estimate
<1>5. PlanType'
  BY <1>1, <1>4 DEF PlanInv, PlanType, workload
<1>6. PlanCalls'
  <2>1. ASSUME NEW d \in Workers PROVE WorkerCallOK(d)'
    <3>1. call'[d] = call[d] /\ WorkerCallOK(d)
      BY <1>2, PlanAssumption DEF PlanInv, PlanCalls
    <3> QED
      BY <1>4, <3>1 DEF WorkerCallOK, workload
  <2>2. ASSUME NEW d \in Callers \ Workers PROVE OtherCallOK(d)'
    <3>1. CASE d = c
      BY <1>2, <3>1 DEF PlanInv, PlanCalls, OtherCallOK, NoCall, workload
    <3>2. CASE d # c
      BY <1>1, <1>2, <3>2 DEF PlanInv, PlanCalls, OtherCallOK, workload
    <3> QED
      BY <3>1, <3>2
  <2> QED
    BY <2>1, <2>2 DEF PlanCalls
<1>7. PlanRecords'
  <2>1. ASSUME NEW k \in DOMAIN started \cap DOMAIN reservations'
        PROVE  /\ reservations'[k].context = PlanContext(started[k])
               /\ reservations'[k].estimatedCostUsd = Estimate(started[k])
    BY <1>1 DEF RunsKept, PlanInv, PlanRecords
  <2>2. ASSUME NEW i \in DOMAIN charges', charges'[i].reservationId \in DOMAIN started
        PROVE  /\ charges'[i].context = PlanContext(started[charges'[i].reservationId])
               /\ charges'[i].costUsd <= Estimate(started[charges'[i].reservationId])
    BY <1>1, <2>2 DEF RunsKept, PlanInv, PlanRecords
  <2> QED
    BY <1>4, <2>1, <2>2 DEF PlanRecords, workload
<1>8. \A q \in Names' : RunsAnnounced(q)'
  <2>1. DOMAIN started \cap DOMAIN reservations' \subseteq DOMAIN started \cap DOMAIN reservations
    BY <1>1 DEF RunsKept
  <2> QED
    BY <2>1, SameRuns DEF workload
<1>9. (verdict # "passed" => NothingRuns)' /\ (verdict = "passed" => ~TooLarge)'
  BY DEF PlanInv, NothingRuns, TooLarge, PlanTotal, Names, Estimate, Count, workload
<1>10. (verdict = "passed" /\ ~stale => ~denied /\ \E T \in 0..clock : FitsSince(T))'
  <2> SUFFICES ASSUME verdict' = "passed", ~stale'
               PROVE  ~denied' /\ \E T \in 0..clock' : FitsSince(T)'
    OBVIOUS
  <2>1. verdict = "passed" /\ ~stale /\ reservations' = reservations /\ charges' = charges
    BY DEF workload
  <2>2. OthersKept
    BY <2>1 DEF OthersKept, OthersReservations, OthersCharges, workload
  <2>3. clock \in Nat /\ clock' \in Nat /\ clock <= clock'
    BY <1>1, PlanFacts DEF TypeOK
  <2>4. \A d \in Workers : worker'[d] # Undefined
           => worker[d] # Undefined /\ call'[d].now = call[d].now
    BY <1>2, PlanAssumption DEF workload
  <2> QED
    BY <2>1, <2>2, <2>3, <2>4, StaysFit DEF PlanInv, workload
<1> QED
  BY <1>3, <1>5, <1>6, <1>7, <1>8, <1>9, <1>10 DEF PlanInv

LEMMA OthersBeginKeeps ==
    ASSUME PlanInv, LedgerInv', NEW c \in Callers \ Workers, UNCHANGED workload, stale => stale',
           NEW op \in OperationNames, NEW request, NEW id, NEW costUsd,
           Enqueue(c, op, request, id, costUsd),
           op = "settle" => id \in DOMAIN reservations \ DOMAIN started
    PROVE  PlanInv'
<1>1. /\ call'[c].op = op /\ call'[c].id = id
      /\ \A d \in Callers \ {c} : call'[d] = call[d]
      /\ UNCHANGED <<reservations, charges, clock, admission>>
      /\ StampsOK'
  BY EnqueueCalls
<1>2. op = "settle" => id \in DOMAIN admission \ DOMAIN started
  BY PlanFacts DEF TypeOK
<1>3. PlanCalls'
  <2>1. ASSUME NEW d \in Workers PROVE WorkerCallOK(d)'
    <3>1. call'[d] = call[d] /\ WorkerCallOK(d)
      BY <1>1, PlanAssumption DEF PlanInv, PlanCalls
    <3> QED
      BY <3>1 DEF WorkerCallOK, PlanContext, Estimate, workload
  <2>2. ASSUME NEW d \in Callers \ Workers PROVE OtherCallOK(d)'
    BY <1>1, <1>2 DEF PlanInv, PlanCalls, OtherCallOK, workload
  <2> QED
    BY <2>1, <2>2 DEF PlanCalls
<1>4. \A d \in Workers : call'[d].now = call[d].now \/ worker[d] = Undefined
  BY <1>1, PlanAssumption
<1> QED
  BY <1>1, <1>3, <1>4, QuietPlan

LEMMA OtherKeeps ==
    ASSUME PlanInv, NEW c \in Callers \ Workers, Other(c)
    PROVE  PlanInv'
<1>1. /\ UNCHANGED workload /\ (stale => stale')
      /\ verdict # "none" /\ <<reservations, charges>>' # <<reservations, charges>> => stale'
  BY DEF Other
<1>2. CASE BeginReserve(c)
  <2>1. LedgerInv'
    BY <1>2, NextLedger DEF PlanInv, Next
  <2>2. PICK request : Enqueue(c, "reserve", request, Undefined, Undefined)
    BY <1>2 DEF BeginReserve
  <2> QED
    BY <1>1, <2>1, <2>2, OthersBeginKeeps DEF OperationNames
<1>3. CASE BeginRecordActual(c)
  <2>1. LedgerInv'
    BY <1>3, NextLedger DEF PlanInv, Next
  <2>2. PICK request, costUsd : Enqueue(c, "recordActual", request, Undefined, costUsd)
    BY <1>3 DEF BeginRecordActual
  <2> QED
    BY <1>1, <2>1, <2>2, OthersBeginKeeps DEF OperationNames
<1>4. CASE \E id \in DOMAIN reservations \ DOMAIN started, actual \in Amounts :
               RoomForCharge /\ Enqueue(c, "settle", Undefined, id, actual)
  <2>1. PICK id \in DOMAIN reservations \ DOMAIN started, actual \in Amounts :
            RoomForCharge /\ Enqueue(c, "settle", Undefined, id, actual)
    BY <1>4
  <2>2. id \in DOMAIN admission
    BY PlanFacts DEF TypeOK
  <2>3. LedgerInv'
    BY <2>1, <2>2, NextLedger DEF PlanInv, Next, BeginSettle
  <2> QED
    BY <1>1, <2>1, <2>3, OthersBeginKeeps DEF OperationNames
<1>5. CASE CommitReserve(c) \/ CommitSettle(c) \/ CommitRecordActual(c)
  <2>1. LedgerInv'
    BY <1>5, NextLedger DEF PlanInv, Next
  <2> QED
    BY <1>1, <1>5, <2>1, OthersCommitKeeps
<1> QED
  BY <1>2, <1>3, <1>4, <1>5 DEF Other

LEMMA InitPlanInv == InitPlan => PlanInv
<1> SUFFICES ASSUME InitPlan PROVE PlanInv
  OBVIOUS
<1>1. LedgerInv
  BY InitLedger DEF InitPlan
<1>2. /\ DOMAIN reservations = {} /\ DOMAIN charges = {} /\ DOMAIN admission = {} /\ clock = 0
      /\ call = [c \in Callers |-> NoCall]
      /\ plan \in Plans /\ verdict = "none" /\ left = [o \in Names |-> 0]
      /\ worker = [c \in Callers |-> Undefined]
      /\ DOMAIN started = {} /\ started = [id \in {} |-> Undefined] /\ ~denied
  BY DEF InitPlan, Init
<1>3. PlanType
  BY <1>2 DEF PlanType
<1>4. StampsOK
  BY <1>2 DEF StampsOK, NoCall
<1>5. PlanCalls /\ PlanRecords
  BY <1>2, PlanAssumption DEF PlanCalls, PlanRecords, WorkerCallOK, OtherCallOK, NoCall
<1>6. ASSUME NEW o \in Names PROVE RunsAnnounced(o)
  <2>1. /\ plan.operations[o] \in PlannedOperation /\ Undefined # o
    BY <1>2, <1>6, PlanAssumption DEF Names
  <2>2. Count(o) \in Nat /\ ConcurrentRuns(o) \in Nat
    BY <2>1 DEF PlannedOperation, Count, ConcurrentRuns, OrOne, Optional
  <2>3. Reserving(o) = {} /\ RunsOf(o) = {} /\ OpenRuns(o) = {}
    BY <1>2, <2>1, PlanAssumption DEF Reserving, RunsOf, OpenRuns
  <2>4. Cardinality({}) = 0 /\ left[o] = 0
    BY <1>2, FS_EmptySet
  <2> QED
    BY <2>2, <2>3, <2>4 DEF RunsAnnounced
<1>7. NothingRuns
  BY <1>2 DEF NothingRuns
<1> QED
  BY <1>1, <1>2, <1>3, <1>4, <1>5, <1>6, <1>7 DEF PlanInv

LEMMA NextPlanInv == PlanInv /\ [NextPlan]_<<vars, planVars>> => PlanInv'
<1> SUFFICES ASSUME PlanInv, [NextPlan]_<<vars, planVars>> PROVE PlanInv'
  OBVIOUS
<1>1. CASE \E check \in Checks : CheckPlan(check)
  BY <1>1, CheckKeeps
<1>2. CASE \E c \in Workers :
              StartOperation(c) \/ OperationReserved(c) \/ FinishOperation(c) \/ OperationSettled(c)
  BY <1>2, StartKeeps, ReservedKeeps, FinishKeeps, SettledKeeps
<1>3. CASE \E c \in Callers \ Workers : Other(c)
  BY <1>3, OtherKeeps
<1>4. CASE (Tick /\ UNCHANGED planVars) \/ UNCHANGED <<vars, planVars>>
  BY <1>4, TickPlan
<1> QED
  BY <1>1, <1>2, <1>3, <1>4 DEF NextPlan

LEMMA PlanSafe == SpecPlan => []PlanInv
<1> QED
  BY InitPlanInv, NextPlanInv, PTL DEF SpecPlan

\* A plan that passes runs (plan.ts, contract.ts): no operation of it is denied, in any order and
\* overlap the plan allows and over any change of window, unless the others used the ledger after
\* the check or the check was made on another ledger.
THEOREM PassedPlansRun == SpecPlan => []PassedPlanRuns
<1>1. PlanInv => PassedPlanRuns
  BY DEF PlanInv, PassedPlanRuns, NothingRuns
<1> QED
  BY <1>1, PlanSafe, PTL

\* The runs hold and spend no more than was announced for all of them.
LEMMA RunsWithinTotal ==
    ASSUME PlanInv,
           NEW held, held = [id \in DOMAIN started \cap DOMAIN reservations |->
                                reservations[id].estimatedCostUsd],
           NEW spent, spent = [i \in {j \in DOMAIN charges : charges[j].reservationId \in DOMAIN started}
                                 |-> charges[i].costUsd]
    PROVE  /\ Total(held) + Total(spent) <= PlanTotal
           /\ Total(held) \in Nat /\ Total(spent) \in Nat /\ PlanTotal \in Nat
<1> DEFINE S == DOMAIN started
           R == S \cap DOMAIN reservations
           C == {j \in DOMAIN charges : charges[j].reservationId \in S}
           amount == [o \in Names |-> Estimate(o)]
           count == [o \in Names |-> Count(o)]
           all == [o \in Names |-> Estimate(o) * Count(o)]
           w == [id \in S |-> Estimate(started[id])]
<1>1. /\ IsFiniteSet(Names) /\ IsFiniteSet(S) /\ IsFiniteSet(R) /\ IsFiniteSet(C)
      /\ \A o \in Names : Estimate(o) \in Nat /\ Count(o) \in Nat
      /\ started \in [S -> Names]
  BY PlanFacts, FS_Subset DEF PlanInv, PlanType
<1>2. \A m, n \in Nat : m * n \in Nat
  OBVIOUS
<1>3. /\ amount \in [Names -> Nat] /\ count \in [Names -> Nat] /\ all \in [Names -> Nat]
      /\ \A o \in Names : all[o] = amount[o] * count[o]
      /\ w \in [S -> Nat] /\ \A id \in S : w[id] = amount[started[id]]
  BY <1>1, <1>2
<1>4. held \in [R -> Nat] /\ spent \in [C -> Nat]
  BY PlanFacts DEF ReservationType, ChargeType
<1>5. /\ \A i \in C : charges[i].reservationId \in S
      /\ \A i \in C : spent[i] <= w[charges[i].reservationId]
  BY DEF PlanInv, PlanRecords
<1>6. \A id \in R : held[id] <= w[id]
  <2>1. ASSUME NEW id \in R PROVE held[id] <= w[id]
    <3>1. held[id] = Estimate(started[id]) /\ w[id] = Estimate(started[id]) /\ w[id] \in Nat
      BY <1>3 DEF PlanInv, PlanRecords
    <3> QED
      BY <3>1
  <2> QED
    BY <2>1
<1>7. \A o \in Names : Cardinality(Fiber(started, o)) <= count[o]
  <2>1. ASSUME NEW o \in Names PROVE Cardinality(Fiber(started, o)) <= count[o]
    <3>1. Fiber(started, o) = RunsOf(o)
      BY DEF Fiber, RunsOf
    <3>2. RunsAnnounced(o) /\ left[o] \in Nat
      BY DEF PlanInv, PlanType
    <3>3. /\ Cardinality(RunsOf(o)) \in Nat /\ Cardinality(Reserving(o)) \in Nat
          /\ Count(o) \in Nat
      BY <1>1, RunsFinite
    <3>4. Cardinality(RunsOf(o)) <= Count(o)
      BY <3>2, <3>3 DEF RunsAnnounced
    <3> QED
      BY <3>1, <3>4
  <2> QED
    BY <2>1
<1>8. R \in SUBSET DOMAIN reservations /\ R \subseteq S /\ C \in SUBSET DOMAIN charges
      /\ S \in SUBSET DOMAIN started
  OBVIOUS
<1>9. PlanTotal = Total(all)
  BY DEF PlanTotal
<1> HIDE DEF S, R, C, amount, count, all, w
<1>10. Total(spent) + Total(held) <= Total(w)
  BY ONLY PlanInv, <1>3, <1>4, <1>5, <1>6, <1>8, RunsWeigh
<1>11. Total(w) <= Total(all)
  BY ONLY <1>1, <1>3, <1>7, TotalOfRuns
<1>12. /\ Total(w) \in Nat /\ Total(all) \in Nat /\ Total(held) \in Nat /\ Total(spent) \in Nat
  BY <1>1, <1>3, <1>4, TotalType
<1> QED
  BY <1>9, <1>10, <1>11, <1>12

\* The workload of a plan that passes never holds and spends more than maxTotalUsd (contract.ts,
\* maxTotalExceeded).
THEOREM PassedPlansStayWithinTotal == SpecPlan => []TotalHeld
<1> DEFINE held == [id \in DOMAIN started \cap DOMAIN reservations |->
                       reservations[id].estimatedCostUsd]
           spent == [i \in {j \in DOMAIN charges : charges[j].reservationId \in DOMAIN started}
                       |-> charges[i].costUsd]
<1>1. ASSUME PlanInv PROVE TotalHeld
  <2> SUFFICES ASSUME plan.maxTotalUsd # Undefined
               PROVE  Total(held) + Total(spent) <= plan.maxTotalUsd
    BY DEF TotalHeld
  <2>1. plan.maxTotalUsd \in Nat
    BY <1>1, PlanFacts DEF Optional
  <2>2. /\ Total(held) + Total(spent) <= PlanTotal
        /\ Total(held) \in Nat /\ Total(spent) \in Nat /\ PlanTotal \in Nat
    BY <1>1, RunsWithinTotal
  <2>3. CASE verdict = "passed"
    <3>1. PlanTotal <= plan.maxTotalUsd
      BY <1>1, <2>1, <2>2, <2>3 DEF PlanInv, TooLarge, Exceeds
    <3> HIDE DEF held, spent
    <3> QED
      BY <2>1, <2>2, <3>1
  <2>4. CASE verdict # "passed"
    <3>1. DOMAIN started = {}
      BY <1>1, <2>4 DEF PlanInv, NothingRuns
    <3>2. DOMAIN held = {} /\ DOMAIN spent = {}
      BY <3>1
    <3> HIDE DEF held, spent
    <3>3. Total(held) = 0 /\ Total(spent) = 0
      BY <3>2, TotalEmpty
    <3> QED
      BY <2>1, <3>3
  <2> QED
    BY <2>3, <2>4
<1> QED
  BY <1>1, PlanSafe, PTL
=============================================================================
