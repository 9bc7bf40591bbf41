------------------------------ MODULE GuardProofs ------------------------------
(***************************************************************************)
(* AiSpendGuard for every configuration and any number of callers: the     *)
(* inductive invariant of its calls, from which one charge per             *)
(* reservation, paid work held and true outcomes follow, and the hard stop *)
(* of its daily and monthly limits.                                        *)
(***************************************************************************)
EXTENDS AiSpendGuard, TotalsTheorems

-----------------------------------------------------------------------------
(***************************************************************************)
(* The ledger.                                                             *)
(***************************************************************************)
ReservationType == [provider : Providers, estimatedCostUsd : Nat, createdAt : Nat]

ChargeType == [provider : Providers, costUsd : Nat, createdAt : Nat,
               reservationId : Ids \cup {Undefined}, estimateUsd : Nat \cup {Undefined}]

LedgerType ==
    /\ IsFiniteSet(DOMAIN reservations) /\ DOMAIN reservations \subseteq DOMAIN admitted
    /\ DOMAIN admitted \subseteq Ids
    /\ reservations \in [DOMAIN reservations -> ReservationType]
    /\ admitted \in [DOMAIN admitted -> Nat] /\ charges \in Seq(ChargeType)

\* The history agrees with the ledger.
History ==
    /\ \A id \in DOMAIN reservations : reservations[id].createdAt = admitted[id]
    /\ \A i \in DOMAIN charges :
          charges[i].reservationId # Undefined
              => charges[i].reservationId \in DOMAIN admitted /\ charges[i].estimateUsd \in Nat

LedgerInv == LedgerType /\ History /\ ChargedOnce

-----------------------------------------------------------------------------
(***************************************************************************)
(* The callers.                                                            *)
(***************************************************************************)
CallNames == {"none", "protect", "reserve", "settle", "release", "record"}

StageNames == {"none", "reserving", "reserved", "operation", "cost", "settling", "settled",
               "releasing", "released", "recording", "recorded"}

ResultNames == {"none", "denied", "reserved", "store-error", "warning-error", "not-found",
                "reconcile-operation", "reconcile-cost-calculation", "reconcile-settlement",
                "operation-error", "value", "settled", "released", "recorded"}

TaskType ==
    [use : CallNames, stage : StageNames, provider : Providers \cup {Undefined},
     id : Ids \cup {Undefined}, amount : Nat \cup {Undefined}, now : Nat, warned : BOOLEAN]

Results == [result : ResultNames, id : Ids \cup {Undefined}]

\* Where a call may be, and what then holds of the reservation it is about.  That of a protect
\* has never had a handle, so nobody else settles or releases it.
TaskOK(t) ==
    /\ t \in TaskType
    /\ \/ t = NoTask
       \/ /\ t.use \in {"protect", "reserve"} /\ t.stage = "reserving"
          /\ t.id = Undefined /\ t.provider \in Providers /\ t.amount \in Nat
       \/ /\ t.use \in {"protect", "reserve"} /\ t.stage = "reserved"
          /\ t.id \in DOMAIN reservations
          /\ t.id \notin DOMAIN closed /\ t.id \notin DOMAIN operation
       \/ /\ t.use = "protect"
          /\ t.id \in DOMAIN operation
          /\ \/ t.stage \in {"operation", "cost"} /\ t.id \in DOMAIN reservations
             \/ t.stage = "settling" /\ t.id \in DOMAIN reservations /\ t.amount \in Nat
             \/ t.stage = "settled" /\ Charged(t.id)
             \/ t.stage = "releasing" /\ t.id \in DOMAIN reservations /\ operation[t.id]
             \/ t.stage = "released" /\ t.id \notin DOMAIN reservations /\ ~Charged(t.id)
       \/ /\ t.use = "settle"
          /\ t.id \in DOMAIN closed
          /\ \/ t.stage = "settling" /\ t.amount \in Nat
             \/ t.stage = "settled"
       \/ t.use = "release" /\ t.id \in DOMAIN closed /\ t.stage \in {"releasing", "released"}
       \/ /\ t.use = "record" /\ t.id = Undefined
          /\ \/ t.stage = "recording" /\ t.provider \in Providers /\ t.amount \in Nat
             \/ t.stage = "recorded"

\* What an answer says about its reservation, which has never had a handle either.
OutcomeOK(o) ==
    /\ o \in Results /\ o.id \in DOMAIN admitted \cup {Undefined}
    /\ o.id \notin DOMAIN closed
    /\ o.result \in {"reconcile-operation", "reconcile-cost-calculation"} =>
          o.id \in DOMAIN operation /\ o.id \in DOMAIN reservations
    /\ o.result = "value" => o.id # Undefined /\ Charged(o.id) /\ o.id \notin DOMAIN reservations
    /\ o.result = "operation-error" =>
          o.id # Undefined /\ ~Charged(o.id) /\ o.id \notin DOMAIN reservations
    /\ o.result = "reconcile-settlement" =>
          /\ o.id \in DOMAIN operation
          /\ o.id \in DOMAIN reservations \/ Charged(o.id)

\* A reservation is either handled or protected, if anyone holds it at all.
TablesOK ==
    /\ closed \in [DOMAIN closed -> BOOLEAN] /\ operation \in [DOMAIN operation -> BOOLEAN]
    /\ DOMAIN closed \subseteq DOMAIN admitted /\ DOMAIN operation \subseteq DOMAIN admitted
    /\ DOMAIN closed \cap DOMAIN operation = {}

\* The call that made a reservation, while it runs, is the only one to have it, and no answer
\* has been given about it.
Owns(t) == t.use \in {"protect", "reserve"} /\ t.id # Undefined

Owned ==
    \A c \in Callers : Owns(task[c]) =>
        \A d \in Callers :
            /\ outcome[d].id # task[c].id
            /\ d # c /\ Owns(task[d]) => task[d].id # task[c].id

ClientInv ==
    /\ clock \in Nat
    /\ task \in [Callers -> TaskType]
    /\ outcome \in [Callers -> Results]
    /\ \A c \in Callers : TaskOK(task[c]) /\ OutcomeOK(outcome[c])
    /\ TablesOK /\ Owned
    /\ PaidWorkIsHeld

GuardInv == LedgerInv /\ ClientInv

-----------------------------------------------------------------------------
(***************************************************************************)
(* What a step does to the ledger.                                         *)
(***************************************************************************)
ReserveEffect(id, provider, amount, now) ==
    /\ id \in Ids \ DOMAIN admitted
    /\ provider \in Providers /\ amount \in Nat /\ now \in Nat
    /\ Allowed(provider, amount, now)
    /\ reservations' = Bind(reservations, id, [provider |-> provider, estimatedCostUsd |-> amount,
                                               createdAt |-> now])
    /\ admitted' = Bind(admitted, id, now)
    /\ charges' = charges

SettleEffect(id, actual, now) ==
    /\ id \in DOMAIN reservations /\ actual \in Nat /\ now \in Nat
    /\ reservations' = Unbind(reservations, id)
    /\ charges' = Append(charges,
                         [provider |-> reservations[id].provider, costUsd |-> actual,
                          createdAt |-> now, reservationId |-> id,
                          estimateUsd |-> reservations[id].estimatedCostUsd])
    /\ admitted' = admitted

ReleaseEffect(id) ==
    /\ id \in DOMAIN reservations
    /\ reservations' = Unbind(reservations, id)
    /\ charges' = charges /\ admitted' = admitted

RecordEffect(provider, cost, now) ==
    /\ provider \in Providers /\ cost \in Nat /\ now \in Nat
    /\ reservations' = reservations
    /\ charges' = Append(charges, [provider |-> provider, costUsd |-> cost, createdAt |-> now,
                                   reservationId |-> Undefined, estimateUsd |-> Undefined])
    /\ admitted' = admitted

LedgerEffect ==
    \/ UNCHANGED <<ledger, admitted>>
    \/ \E id \in Ids, provider \in Providers, amount, now \in Nat :
          ReserveEffect(id, provider, amount, now)
    \/ \E id \in Ids, actual, now \in Nat : SettleEffect(id, actual, now)
    \/ \E id \in Ids : ReleaseEffect(id)
    \/ \E provider \in Providers, cost, now \in Nat : RecordEffect(provider, cost, now)

LEMMA StepHasEffect ==
    ASSUME GuardInv, [Next]_vars
    PROVE  LedgerEffect
<1>1. \A c \in Callers : task[c] \in TaskType /\ TaskOK(task[c])
  BY DEF GuardInv, ClientInv
<1>2. DOMAIN reservations \subseteq Ids
  BY DEF GuardInv, LedgerInv, LedgerType
<1>3. ASSUME NEW c \in Callers, Reserve(c)
      PROVE  LedgerEffect
  <2>1. At(c, "reserving") /\ task[c] \in TaskType /\ TaskOK(task[c])
    BY <1>1, <1>3 DEF Reserve
  <2>2. /\ task[c].provider \in Providers /\ task[c].amount \in Nat /\ task[c].now \in Nat
    BY <2>1 DEF TaskOK, TaskType, At, NoTask, Task
  <2>3. CASE UNCHANGED <<reservations, admitted>>
    BY <1>3, <2>3 DEF Reserve, LedgerEffect, ledger
  <2>4. CASE \E id \in Ids \ DOMAIN admitted :
               ReserveEffect(id, task[c].provider, task[c].amount, task[c].now)
    BY <2>2, <2>4 DEF LedgerEffect
  <2> QED
    BY <1>3, <2>2, <2>3, <2>4 DEF Reserve, ReserveEffect
<1>4. ASSUME NEW c \in Callers, Settle(c)
      PROVE  LedgerEffect
  <2>1. At(c, "settling") /\ task[c] \in TaskType /\ TaskOK(task[c])
    BY <1>1, <1>4 DEF Settle
  <2>2. task[c].amount \in Nat /\ task[c].now \in Nat
    BY <2>1 DEF TaskOK, TaskType, At, NoTask, Task
  <2>3. CASE UNCHANGED ledger
    BY <1>4, <2>3 DEF Settle, LedgerEffect
  <2>4. CASE SettleEffect(task[c].id, task[c].amount, task[c].now)
    BY <1>2, <2>2, <2>4 DEF LedgerEffect, SettleEffect
  <2> QED
    BY <1>4, <2>2, <2>3, <2>4 DEF Settle, SettleEffect, SettledCharge
<1>5. ASSUME NEW c \in Callers, Release(c)
      PROVE  LedgerEffect
  <2>1. CASE UNCHANGED reservations
    BY <1>5, <2>1 DEF Release, LedgerEffect, ledger
  <2>2. CASE ReleaseEffect(task[c].id)
    BY <1>2, <2>2 DEF LedgerEffect, ReleaseEffect
  <2> QED
    BY <1>5, <2>1, <2>2 DEF Release, ReleaseEffect
<1>6. ASSUME NEW c \in Callers, Record(c)
      PROVE  LedgerEffect
  <2>1. At(c, "recording") /\ task[c] \in TaskType /\ TaskOK(task[c])
    BY <1>1, <1>6 DEF Record
  <2>2. /\ task[c].provider \in Providers /\ task[c].amount \in Nat /\ task[c].now \in Nat
    BY <2>1 DEF TaskOK, TaskType, At, NoTask, Task
  <2>3. RecordEffect(task[c].provider, task[c].amount, task[c].now)
    BY <1>6, <2>2 DEF Record, RecordEffect
  <2> QED
    BY <2>2, <2>3 DEF LedgerEffect
<1>7. ASSUME NEW c \in Callers,
             \/ StartReserve(c) \/ Reserved(c) \/ ThrowsAfterCommit(c)
             \/ OperationReturns(c) \/ OperationThrows(c) \/ CostThrows(c) \/ CostKnown(c)
             \/ StartSettle(c) \/ Settled(c) \/ StartRelease(c) \/ Released(c)
             \/ StartRecord(c) \/ Recorded(c) \/ StoreFailure(c)
      PROVE  UNCHANGED <<ledger, admitted>>
  BY <1>7 DEF StartReserve, Reserved, ThrowsAfterCommit, OperationReturns, OperationThrows,
     CostThrows, CostKnown, StartSettle, Settled, StartRelease, Released, StartRecord, Recorded,
     StoreFailure, Start
<1>8. CASE Tick \/ UNCHANGED vars
  BY <1>8 DEF Tick, vars, LedgerEffect
<1> QED
  BY <1>3, <1>4, <1>5, <1>6, <1>7, <1>8 DEF Next, LedgerEffect

-----------------------------------------------------------------------------
(***************************************************************************)
(* The ledger part of the invariant.                                       *)
(***************************************************************************)
\* The charges after a push.
LEMMA AppendFacts ==
    ASSUME LedgerType, NEW charge \in ChargeType, charges' = Append(charges, charge)
    PROVE  /\ Len(charges) \in Nat
           /\ DOMAIN charges = 1..Len(charges)
           /\ DOMAIN charges' = DOMAIN charges \cup {Len(charges) + 1}
           /\ Len(charges) + 1 \notin DOMAIN charges
           /\ \A i \in DOMAIN charges : charges'[i] = charges[i]
           /\ charges'[Len(charges) + 1] = charge
           /\ charges' \in Seq(ChargeType)
BY DEF LedgerType

\* A table without one of its reservations.
LEMMA UnbindFacts ==
    ASSUME LedgerInv, NEW id \in DOMAIN reservations, reservations' = Unbind(reservations, id)
    PROVE  /\ DOMAIN reservations' = DOMAIN reservations \ {id}
           /\ \A k \in DOMAIN reservations' : reservations'[k] = reservations[k]
           /\ reservations' \in [DOMAIN reservations' -> ReservationType]
           /\ IsFiniteSet(DOMAIN reservations')
           /\ reservations[id] \in ReservationType
<1>1. DOMAIN reservations' = DOMAIN reservations \ {id}
  BY DEF Unbind
<1>2. IsFiniteSet(DOMAIN reservations \ {id})
  BY FS_RemoveElement DEF LedgerInv, LedgerType
<1> QED
  BY <1>1, <1>2 DEF Unbind, LedgerInv, LedgerType

LEMMA ReservePreserves ==
    ASSUME LedgerInv, NEW id \in Ids, NEW provider, NEW amount, NEW now,
           ReserveEffect(id, provider, amount, now)
    PROVE  LedgerInv'
<1>1. /\ DOMAIN reservations' = DOMAIN reservations \cup {id}
      /\ \A k \in DOMAIN reservations : reservations'[k] = reservations[k]
      /\ reservations'[id].createdAt = now
      /\ DOMAIN admitted' = DOMAIN admitted \cup {id}
      /\ id \notin DOMAIN admitted
      /\ admitted'[id] = now
      /\ \A k \in DOMAIN admitted : admitted'[k] = admitted[k]
      /\ charges' = charges
      /\ reservations' \in [DOMAIN reservations' -> ReservationType]
      /\ admitted' \in [DOMAIN admitted' -> Nat]
  <2>1. reservations'[id] = [provider |-> provider, estimatedCostUsd |-> amount,
                             createdAt |-> now]
    BY DEF ReserveEffect, Bind
  <2> QED
    BY <2>1 DEF ReserveEffect, Bind, LedgerInv, LedgerType, ReservationType
<1>2. IsFiniteSet(DOMAIN reservations')
  BY <1>1, FS_AddElement DEF LedgerInv, LedgerType
<1>3. LedgerType'
  BY <1>1, <1>2 DEF LedgerInv, LedgerType
<1>4. History'
  BY <1>1 DEF LedgerInv, LedgerType, History
<1>5. ChargedOnce'
  BY <1>1, GuardAssumption DEF LedgerInv, LedgerType, History, ChargedOnce
<1> QED
  BY <1>3, <1>4, <1>5 DEF LedgerInv

LEMMA SettlePreserves ==
    ASSUME LedgerInv, NEW id \in Ids, NEW actual, NEW now, SettleEffect(id, actual, now)
    PROVE  LedgerInv'
<1> DEFINE charge == [provider |-> reservations[id].provider, costUsd |-> actual,
                      createdAt |-> now, reservationId |-> id,
                      estimateUsd |-> reservations[id].estimatedCostUsd]
           new == Len(charges) + 1
<1>1. charge \in ChargeType
  BY DEF SettleEffect, ChargeType, ReservationType, LedgerInv, LedgerType
<1>2. charges' = Append(charges, charge) /\ admitted' = admitted
  BY DEF SettleEffect
<1>3. charge.reservationId = id /\ charge.estimateUsd \in Nat
  BY DEF SettleEffect, ReservationType, LedgerInv, LedgerType
<1> HIDE DEF charge
<1>4. /\ DOMAIN charges' = DOMAIN charges \cup {new}
      /\ new \notin DOMAIN charges
      /\ \A i \in DOMAIN charges : charges'[i] = charges[i]
      /\ charges'[new] = charge
      /\ charges' \in Seq(ChargeType)
  BY <1>1, <1>2, AppendFacts DEF LedgerInv
<1>5. /\ DOMAIN reservations' = DOMAIN reservations \ {id}
      /\ \A k \in DOMAIN reservations' : reservations'[k] = reservations[k]
      /\ reservations' \in [DOMAIN reservations' -> ReservationType]
      /\ IsFiniteSet(DOMAIN reservations')
      /\ id \in DOMAIN reservations
  BY UnbindFacts DEF SettleEffect
<1> HIDE DEF new
<1>6. LedgerType'
  BY <1>2, <1>4, <1>5 DEF LedgerInv, LedgerType
<1>7. History'
  BY <1>2, <1>3, <1>4, <1>5 DEF LedgerInv, LedgerType, History
<1>8. ChargedOnce'
  BY <1>3, <1>4, <1>5 DEF LedgerInv, ChargedOnce
<1> QED
  BY <1>6, <1>7, <1>8 DEF LedgerInv

LEMMA RecordPreserves ==
    ASSUME LedgerInv, NEW provider, NEW cost, NEW now, RecordEffect(provider, cost, now)
    PROVE  LedgerInv'
<1> DEFINE charge == [provider |-> provider, costUsd |-> cost, createdAt |-> now,
                      reservationId |-> Undefined, estimateUsd |-> Undefined]
           new == Len(charges) + 1
<1>1. charge \in ChargeType /\ charge.reservationId = Undefined
  BY DEF RecordEffect, ChargeType
<1>2. charges' = Append(charges, charge) /\ admitted' = admitted /\ reservations' = reservations
  BY DEF RecordEffect
<1> HIDE DEF charge
<1>3. /\ DOMAIN charges' = DOMAIN charges \cup {new}
      /\ new \notin DOMAIN charges
      /\ \A i \in DOMAIN charges : charges'[i] = charges[i]
      /\ charges'[new] = charge
      /\ charges' \in Seq(ChargeType)
  BY <1>1, <1>2, AppendFacts DEF LedgerInv
<1> HIDE DEF new
<1>4. LedgerType'
  BY <1>2, <1>3 DEF LedgerInv, LedgerType
<1>5. History'
  BY <1>1, <1>2, <1>3 DEF LedgerInv, History
<1>6. Undefined \notin DOMAIN reservations
  BY GuardAssumption DEF LedgerInv, LedgerType
<1>7. ChargedOnce'
  BY <1>1, <1>2, <1>3, <1>6 DEF LedgerInv, ChargedOnce
<1> QED
  BY <1>4, <1>5, <1>7 DEF LedgerInv

LEMMA NextLedger ==
    ASSUME LedgerInv, LedgerEffect
    PROVE  LedgerInv'
<1>1. CASE UNCHANGED <<ledger, admitted>>
  BY <1>1 DEF ledger, LedgerInv, LedgerType, History, ChargedOnce
<1>2. ASSUME NEW id \in Ids, ReleaseEffect(id)
      PROVE  LedgerInv'
  <2>1. /\ DOMAIN reservations' = DOMAIN reservations \ {id}
        /\ \A k \in DOMAIN reservations' : reservations'[k] = reservations[k]
        /\ reservations' \in [DOMAIN reservations' -> ReservationType]
        /\ IsFiniteSet(DOMAIN reservations')
        /\ charges' = charges /\ admitted' = admitted
    BY <1>2, UnbindFacts DEF ReleaseEffect
  <2> QED
    BY <2>1 DEF LedgerInv, LedgerType, History, ChargedOnce
<1> QED
  BY <1>1, <1>2, ReservePreserves, SettlePreserves, RecordPreserves DEF LedgerEffect

-----------------------------------------------------------------------------
(***************************************************************************)
(* The part of the invariant about the callers.  A step of c is about one  *)
(* reservation x, or none (Undefined), and leaves what anybody knows of    *)
(* the others alone.                                                       *)
(***************************************************************************)
Frame(x) ==
    /\ \A i \in Ids \ {x} :
          /\ i \in DOMAIN reservations' <=> i \in DOMAIN reservations
          /\ i \in DOMAIN admitted' <=> i \in DOMAIN admitted
          /\ i \in DOMAIN closed' <=> i \in DOMAIN closed
          /\ i \in DOMAIN operation' <=> i \in DOMAIN operation
          /\ i \in DOMAIN operation => operation'[i] = operation[i]
          /\ Charged(i)' <=> Charged(i)
    /\ DOMAIN closed \subseteq DOMAIN closed' /\ DOMAIN admitted \subseteq DOMAIN admitted'

\* The calls and answers of others are about other reservations.
Apart(c, x) ==
    /\ \A d \in Callers : outcome[d].id = x => x = Undefined
    /\ \A d \in Callers \ {c} : Owns(task[d]) => task[d].id # x

LEMMA FrameTask ==
    ASSUME NEW x, NEW t, TaskOK(t), Frame(x), Owns(t) => t.id # x,
           DOMAIN operation \subseteq Ids, DOMAIN reservations \subseteq Ids
    PROVE  TaskOK(t)'
<1>1. CASE t.id = Undefined \/ t.id = x
  BY <1>1, GuardAssumption DEF TaskOK, Frame, Owns, NoTask, Task, TaskType
<1>2. CASE t.id \in Ids \ {x}
  BY <1>2 DEF TaskOK, Frame
<1> QED
  BY <1>1, <1>2 DEF TaskOK, TaskType

LEMMA FrameOutcome ==
    ASSUME NEW x, NEW o, OutcomeOK(o), Frame(x), o.id = x => x = Undefined,
           TablesOK, TablesOK', LedgerType, LedgerType'
    PROVE  OutcomeOK(o)'
<1>0. /\ DOMAIN operation \subseteq Ids /\ DOMAIN reservations \subseteq Ids
      /\ DOMAIN closed' \subseteq Ids
  BY DEF TablesOK, LedgerType
<1>1. CASE o.id = Undefined
  BY <1>0, <1>1, GuardAssumption DEF OutcomeOK
<1>2. CASE o.id \in Ids \ {x}
  BY <1>2 DEF OutcomeOK, Frame
<1> QED
  BY <1>1, <1>2 DEF OutcomeOK, Results

LEMMA ClientStep ==
    ASSUME GuardInv, LedgerInv', TablesOK', clock' \in Nat,
           NEW c \in Callers, NEW x \in Ids \cup {Undefined}, Frame(x), Apart(c, x),
           NEW t, task' = [task EXCEPT ![c] = t], TaskOK(t)', Owns(t) => t.id = x,
           NEW o, outcome' = [outcome EXCEPT ![c] = o], OutcomeOK(o)',
           o = outcome[c] \/ (o.id \in {x, Undefined} /\ ~Owns(t)),
           x \in DOMAIN operation' =>
               operation'[x] \/ x \in DOMAIN reservations' \/ Charged(x)'
    PROVE  ClientInv'
<1>1. /\ \A d \in Callers : TaskOK(task[d]) /\ OutcomeOK(outcome[d])
      /\ TablesOK /\ Owned /\ PaidWorkIsHeld /\ LedgerType
      /\ task \in [Callers -> TaskType] /\ outcome \in [Callers -> Results]
  BY DEF GuardInv, ClientInv, LedgerInv
<1>2. LedgerType'
  BY DEF LedgerInv
<1>3. /\ DOMAIN operation \subseteq Ids /\ DOMAIN reservations \subseteq Ids
      /\ DOMAIN operation' \subseteq Ids
  BY <1>1, <1>2 DEF LedgerType, TablesOK
<1>4. t \in TaskType /\ o \in Results
  BY DEF TaskOK, OutcomeOK
<1>5. /\ task' \in [Callers -> TaskType] /\ outcome' \in [Callers -> Results]
      /\ task'[c] = t /\ outcome'[c] = o
      /\ \A d \in Callers \ {c} : task'[d] = task[d] /\ outcome'[d] = outcome[d]
  BY <1>1, <1>4
<1>6. ASSUME NEW d \in Callers
      PROVE  TaskOK(task[d])' /\ OutcomeOK(outcome[d])'
  <2>1. CASE d = c
    BY <1>5, <2>1
  <2>2. ASSUME NEW u, u = task[d], NEW p, p = outcome[d], d # c
        PROVE  TaskOK(u)' /\ OutcomeOK(p)'
    <3>1. TaskOK(u) /\ OutcomeOK(p)
      BY <1>1, <2>2
    <3>2. (Owns(u) => u.id # x) /\ (p.id = x => x = Undefined)
      BY <2>2 DEF Apart
    <3> QED
      BY <1>1, <1>2, <1>3, <3>1, <3>2, FrameTask, FrameOutcome
  <2> QED
    BY <1>5, <2>1, <2>2
<1>7. Owned'
  <2> SUFFICES ASSUME NEW b \in Callers, Owns(task'[b]), NEW d \in Callers
               PROVE  /\ outcome'[d].id # task'[b].id
                      /\ d # b /\ Owns(task'[d]) => task'[d].id # task'[b].id
    BY DEF Owned, Owns
  <2>1. CASE b = c
    <3>1. task'[b] = t /\ t.id = x /\ x # Undefined /\ o = outcome[c]
      BY <1>5, <2>1 DEF Owns
    <3>2. outcome'[d].id # x
      BY <1>5, <3>1 DEF Apart
    <3>3. ASSUME d # b, Owns(task'[d])
          PROVE  task'[d].id # x
      BY <1>5, <2>1, <3>3 DEF Apart, Owns
    <3> QED
      BY <3>1, <3>2, <3>3
  <2>2. CASE b # c
    <3>1. task'[b] = task[b] /\ Owns(task[b]) /\ task[b].id # x /\ task[b].id # Undefined
      BY <1>5, <2>2 DEF Apart, Owns
    <3>2. outcome'[d].id # task[b].id
      BY <1>1, <1>5, <3>1 DEF Owned
    <3>3. ASSUME d # b, Owns(task'[d])
          PROVE  task'[d].id # task[b].id
      <4>1. CASE d = c
        BY <1>5, <3>1, <3>3, <4>1
      <4>2. CASE d # c
        BY <1>1, <1>5, <3>1, <3>3, <4>2 DEF Owned
      <4> QED
        BY <4>1, <4>2
    <3> QED
      BY <3>1, <3>2, <3>3
  <2> QED
    BY <2>1, <2>2
<1>8. PaidWorkIsHeld'
  <2> SUFFICES ASSUME NEW i \in DOMAIN operation'
               PROVE  operation'[i] \/ i \in DOMAIN reservations' \/ Charged(i)'
    BY DEF PaidWorkIsHeld
  <2>1. CASE i # x
    BY <1>1, <1>3, <2>1 DEF Frame, PaidWorkIsHeld
  <2> QED
    BY <2>1
<1> QED
  BY <1>5, <1>6, <1>7, <1>8 DEF ClientInv

LEMMA OwnApart ==
    ASSUME GuardInv, NEW c \in Callers
    PROVE  Apart(c, task[c].id) /\ task[c].id \in Ids \cup {Undefined}
<1>1. /\ \A d \in Callers : TaskOK(task[d]) /\ OutcomeOK(outcome[d])
      /\ Owned /\ TablesOK
  BY DEF GuardInv, ClientInv
<1>2. task[c].id \in Ids \cup {Undefined}
  BY <1>1 DEF TaskOK, TaskType
<1>3. CASE Owns(task[c])
  BY <1>1, <1>2, <1>3 DEF Owned, Apart
<1>4. CASE ~Owns(task[c]) /\ task[c].id # Undefined
  <2>1. task[c].id \in DOMAIN closed
    BY <1>1, <1>4 DEF TaskOK, Owns, NoTask, Task
  <2>2. \A d \in Callers : outcome[d].id # task[c].id
    BY <1>1, <2>1 DEF OutcomeOK
  <2>3. \A d \in Callers : Owns(task[d]) => task[d].id # task[c].id
    BY <1>1, <2>1 DEF TaskOK, Owns, NoTask, Task, TablesOK
  <2> QED
    BY <1>2, <2>2, <2>3 DEF Apart
<1>5. CASE task[c].id = Undefined
  BY <1>5 DEF Apart, Owns
<1> QED
  BY <1>2, <1>3, <1>4, <1>5

LEMMA IdleTask == TaskOK(NoTask)' /\ ~Owns(NoTask) /\ NoTask.id = Undefined
<1>1. NoTask \in TaskType
  BY DEF NoTask, Task, TaskType, CallNames, StageNames
<1> QED
  BY <1>1 DEF TaskOK, Owns, NoTask, Task

\* A call that ends: its answer only has to be true.
LEMMA EndStep ==
    ASSUME GuardInv, LedgerInv', TablesOK', clock' \in Nat, NEW c \in Callers,
           NEW x, x = task[c].id, Frame(x), NEW result, End(c, result),
           task[c].use = "protect" => OutcomeOK([result |-> result, id |-> x])',
           x \in DOMAIN operation' =>
               operation'[x] \/ x \in DOMAIN reservations' \/ Charged(x)'
    PROVE  ClientInv'
<1>1. /\ OutcomeOK(outcome[c]) /\ outcome \in [Callers -> Results]
      /\ TablesOK /\ LedgerType
  BY DEF GuardInv, ClientInv, LedgerInv
<1>2. Apart(c, x) /\ x \in Ids \cup {Undefined}
  BY OwnApart
<1>3. PICK o : /\ outcome' = [outcome EXCEPT ![c] = o]
               /\ IF task[c].use = "protect" THEN o = [result |-> result, id |-> x]
                                            ELSE o = outcome[c]
  BY <1>1 DEF End
<1>4. /\ task' = [task EXCEPT ![c] = NoTask]
      /\ o = outcome[c] \/ o.id \in {x, Undefined}
  BY <1>3 DEF End
<1>5. OutcomeOK(o)'
  <2>1. CASE task[c].use = "protect"
    BY <1>3, <2>1
  <2>2. CASE task[c].use # "protect"
    <3>1. OutcomeOK(o) /\ (o.id = x => x = Undefined)
      BY <1>1, <1>2, <1>3, <2>2 DEF Apart
    <3> QED
      BY <1>1, <3>1, FrameOutcome DEF LedgerInv
  <2> QED
    BY <2>1, <2>2
<1>6. Owns(NoTask) => NoTask.id = x
  BY IdleTask
<1> QED
  BY <1>2, <1>3, <1>4, <1>5, <1>6, IdleTask, ClientStep

-----------------------------------------------------------------------------
(***************************************************************************)
(* Steps that change no reservation: calls that start, go on or end.       *)
(***************************************************************************)
Quiet ==
    /\ UNCHANGED <<reservations, admitted, closed, operation>>
    /\ \A i \in Ids : Charged(i)' <=> Charged(i)

LEMMA QuietKeeps ==
    ASSUME GuardInv, LedgerInv', Quiet
    PROVE  /\ TablesOK'
           /\ \A x : Frame(x)
           /\ \A t : TaskOK(t) => TaskOK(t)'
           /\ \A o : OutcomeOK(o) => OutcomeOK(o)'
           /\ \A i \in DOMAIN operation' :
                 operation'[i] \/ i \in DOMAIN reservations' \/ Charged(i)'
<1>1. TablesOK /\ LedgerType /\ PaidWorkIsHeld /\ LedgerType'
  BY DEF GuardInv, ClientInv, LedgerInv
<1>2. /\ DOMAIN operation \subseteq Ids /\ DOMAIN reservations \subseteq Ids
      /\ DOMAIN closed \subseteq Ids
  BY <1>1 DEF LedgerType, TablesOK
<1>3. TablesOK'
  BY <1>1 DEF Quiet, TablesOK
<1>4. \A x : Frame(x)
  BY DEF Quiet, Frame
<1>5. ASSUME NEW t, TaskOK(t)
      PROVE  TaskOK(t)'
  BY <1>2, <1>4, <1>5, FrameTask DEF Owns
<1>6. ASSUME NEW o, OutcomeOK(o)
      PROVE  OutcomeOK(o)'
  BY <1>1, <1>3, <1>4, <1>6, FrameOutcome
<1>7. \A i \in DOMAIN operation' :
         operation'[i] \/ i \in DOMAIN reservations' \/ Charged(i)'
  BY <1>1, <1>2 DEF Quiet, PaidWorkIsHeld
<1> QED
  BY <1>3, <1>4, <1>5, <1>6, <1>7

LEMMA MoveStep ==
    ASSUME GuardInv, LedgerInv', Quiet, clock' \in Nat, NEW c \in Callers,
           NEW t, TaskOK(t), task' = [task EXCEPT ![c] = t], outcome' = outcome,
           Owns(t) => t.id = task[c].id
    PROVE  ClientInv'
<1>1. PICK x : x = task[c].id
  OBVIOUS
<1>2. PICK o : o = outcome[c]
  OBVIOUS
<1>3. /\ OutcomeOK(outcome[c]) /\ outcome \in [Callers -> Results]
  BY DEF GuardInv, ClientInv
<1>4. outcome' = [outcome EXCEPT ![c] = o]
  BY <1>2, <1>3
<1>5. Apart(c, x) /\ x \in Ids \cup {Undefined}
  BY <1>1, OwnApart
<1>6. TaskOK(t)' /\ OutcomeOK(o)' /\ Frame(x) /\ TablesOK'
  BY <1>2, <1>3, QuietKeeps
<1>7. x \in DOMAIN operation' => operation'[x] \/ x \in DOMAIN reservations' \/ Charged(x)'
  BY QuietKeeps
<1> QED
  BY <1>1, <1>2, <1>4, <1>5, <1>6, <1>7, ClientStep

LEMMA QuietEnd ==
    ASSUME GuardInv, LedgerInv', Quiet, clock' \in Nat, NEW c \in Callers,
           NEW result, End(c, result),
           task[c].use = "protect" => OutcomeOK([result |-> result, id |-> task[c].id])
    PROVE  ClientInv'
<1>1. PICK x : x = task[c].id
  OBVIOUS
<1>2. Frame(x) /\ TablesOK'
  BY QuietKeeps
<1>3. task[c].use = "protect" => OutcomeOK([result |-> result, id |-> x])'
  BY <1>1, QuietKeeps
<1>4. x \in DOMAIN operation' => operation'[x] \/ x \in DOMAIN reservations' \/ Charged(x)'
  BY QuietKeeps
<1> QED
  BY <1>1, <1>2, <1>3, <1>4, EndStep

\* The answers of protect that say nothing about its reservation, and the one that says it is
\* open or charged.
PlainResults == {"denied", "store-error", "warning-error", "not-found"}

LEMMA ThrowOutcome ==
    ASSUME LedgerInv, TablesOK, NEW t, TaskOK(t), t.use = "protect", NEW error \in PlainResults
    PROVE  OutcomeOK([result |-> IF t.stage \in {"settling", "settled"}
                                 THEN "reconcile-settlement" ELSE error,
                      id |-> t.id])
<1> DEFINE o == [result |-> IF t.stage \in {"settling", "settled"}
                            THEN "reconcile-settlement" ELSE error,
                 id |-> t.id]
<1>1. /\ t.id \in DOMAIN admitted \cup {Undefined}
      /\ t.id \notin DOMAIN closed
      /\ t.id \in Ids \cup {Undefined}
  BY GuardAssumption DEF TaskOK, TaskType, TablesOK, LedgerInv, LedgerType, NoTask, Task
<1>2. o.id = t.id /\ o \in Results
  BY <1>1 DEF Results, ResultNames, PlainResults
<1>3. CASE t.stage \in {"settling", "settled"}
  <2>1. o.result = "reconcile-settlement"
    BY <1>3
  <2>2. t.id \in DOMAIN operation /\ (t.id \in DOMAIN reservations \/ Charged(t.id))
    BY <1>3 DEF TaskOK, NoTask, Task
  <2>3. OutcomeOK(o)
    <3> HIDE DEF o
    <3> QED
      BY <1>1, <1>2, <2>1, <2>2 DEF OutcomeOK
  <2> QED
    BY <2>3
<1>4. CASE t.stage \notin {"settling", "settled"}
  <2>1. o.result \in PlainResults
    BY <1>4
  <2>2. OutcomeOK(o)
    <3> HIDE DEF o
    <3> QED
      BY <1>1, <1>2, <2>1 DEF OutcomeOK, PlainResults
  <2> QED
    BY <2>2
<1> QED
  BY <1>3, <1>4

LEMMA ThrowStep ==
    ASSUME GuardInv, LedgerInv', Quiet, clock' \in Nat, NEW c \in Callers,
           NEW error \in PlainResults, Throw(c, error)
    PROVE  ClientInv'
<1>1. PICK t : t = task[c]
  OBVIOUS
<1>2. PICK result : result = IF t.use = "protect" /\ t.stage \in {"settling", "settled"}
                             THEN "reconcile-settlement" ELSE error
  OBVIOUS
<1>3. End(c, result)
  BY <1>1, <1>2 DEF Throw
<1>4. TaskOK(t) /\ TablesOK /\ LedgerInv
  BY <1>1 DEF GuardInv, ClientInv
<1>5. task[c].use = "protect" => OutcomeOK([result |-> result, id |-> task[c].id])
  BY <1>1, <1>2, <1>4, ThrowOutcome
<1> QED
  BY <1>3, <1>5, QuietEnd

\* The steps that change nothing but the caller's own state.
LEMMA NothingChanges ==
    ASSUME GuardInv, UNCHANGED <<ledger, admitted, closed, operation>>
    PROVE  Quiet /\ LedgerInv'
<1>1. LedgerInv'
  BY NextLedger DEF LedgerEffect, GuardInv
<1>2. Quiet
  BY DEF Quiet, Charged, ledger
<1> QED
  BY <1>1, <1>2

LEMMA CallerFacts ==
    ASSUME GuardInv, NEW c \in Callers
    PROVE  /\ task[c] \in TaskType /\ TaskOK(task[c])
           /\ clock \in Nat /\ TablesOK /\ LedgerType
           /\ DOMAIN task = Callers
BY DEF GuardInv, ClientInv, LedgerInv

LEMMA StartStep ==
    ASSUME GuardInv, NEW c \in Callers, NEW t, TaskOK(t), Start(c, t), ~Owns(t)
    PROVE  ClientInv'
<1>1. /\ task' = [task EXCEPT ![c] = t] /\ outcome' = outcome /\ clock' = clock
      /\ UNCHANGED <<ledger, admitted, closed, operation>>
  BY DEF Start, clientVars
<1> QED
  BY <1>1, CallerFacts, NothingChanges, MoveStep

LEMMA StartReserveStep ==
    ASSUME GuardInv, NEW c \in Callers, StartReserve(c)
    PROVE  ClientInv'
<1>1. PICK use \in Uses \cap {"protect", "reserve"}, provider \in Providers, given \in Estimates :
         LET estimate == IF given = Undefined /\ UnknownEstimate = "allow" THEN 0 ELSE given
         IN  /\ estimate # Undefined
             /\ Start(c, Task(use, "reserving", provider, Undefined, estimate, clock))
  BY DEF StartReserve
<1>2. PICK estimate \in Nat : Start(c, Task(use, "reserving", provider, Undefined, estimate, clock))
  BY <1>1, GuardAssumption
<1>3. PICK t : t = Task(use, "reserving", provider, Undefined, estimate, clock)
  OBVIOUS
<1>4. TaskOK(t) /\ ~Owns(t)
  BY <1>3, CallerFacts DEF Task, TaskOK, TaskType, CallNames, StageNames, Owns
<1> QED
  BY <1>2, <1>3, <1>4, StartStep

LEMMA StartSettleStep ==
    ASSUME GuardInv, NEW c \in Callers, StartSettle(c)
    PROVE  ClientInv'
<1>1. PICK id \in DOMAIN closed, actual \in Costs :
         Start(c, Task("settle", "settling", Undefined, id, actual, clock))
  BY DEF StartSettle
<1>2. actual \in Nat /\ id \in Ids
  BY GuardAssumption, CallerFacts DEF TablesOK, LedgerType
<1>3. PICK t : t = Task("settle", "settling", Undefined, id, actual, clock)
  OBVIOUS
<1>4. TaskOK(t) /\ ~Owns(t)
  BY <1>2, <1>3, CallerFacts DEF Task, TaskOK, TaskType, CallNames, StageNames, Owns
<1> QED
  BY <1>1, <1>3, <1>4, StartStep

LEMMA StartReleaseStep ==
    ASSUME GuardInv, NEW c \in Callers, StartRelease(c)
    PROVE  ClientInv'
<1>1. PICK id \in DOMAIN closed :
         Start(c, Task("release", "releasing", Undefined, id, Undefined, 0))
  BY DEF StartRelease
<1>2. id \in Ids
  BY CallerFacts DEF TablesOK, LedgerType
<1>3. PICK t : t = Task("release", "releasing", Undefined, id, Undefined, 0)
  OBVIOUS
<1>4. TaskOK(t) /\ ~Owns(t)
  BY <1>2, <1>3 DEF Task, TaskOK, TaskType, CallNames, StageNames, Owns
<1> QED
  BY <1>1, <1>3, <1>4, StartStep

LEMMA StartRecordStep ==
    ASSUME GuardInv, NEW c \in Callers, StartRecord(c)
    PROVE  ClientInv'
<1>1. PICK provider \in Providers, cost \in Costs :
         Start(c, Task("record", "recording", provider, Undefined, cost, clock))
  BY DEF StartRecord
<1>2. cost \in Nat
  BY GuardAssumption
<1>3. PICK t : t = Task("record", "recording", provider, Undefined, cost, clock)
  OBVIOUS
<1>4. TaskOK(t) /\ ~Owns(t)
  BY <1>2, <1>3, CallerFacts DEF Task, TaskOK, TaskType, CallNames, StageNames, Owns
<1> QED
  BY <1>1, <1>3, <1>4, StartStep

LEMMA OperationReturnsStep ==
    ASSUME GuardInv, NEW c \in Callers, OperationReturns(c)
    PROVE  ClientInv'
<1>1. PICK t : t = [task[c] EXCEPT !.stage = "cost"]
  OBVIOUS
<1>2. /\ task' = [task EXCEPT ![c] = t] /\ outcome' = outcome /\ clock' = clock
      /\ UNCHANGED <<ledger, admitted, closed, operation>>
  BY <1>1 DEF OperationReturns, Go, clientVars
<1>3. task[c].stage = "operation"
  BY DEF OperationReturns, At
<1>4. TaskOK(t) /\ t.id = task[c].id
  BY <1>1, <1>3, CallerFacts DEF TaskOK, TaskType, StageNames, NoTask, Task
<1> QED
  BY <1>2, <1>4, CallerFacts, NothingChanges, MoveStep

LEMMA CostKnownStep ==
    ASSUME GuardInv, NEW c \in Callers, CostKnown(c)
    PROVE  ClientInv'
<1>1. PICK actual \in Costs :
         task' = [task EXCEPT ![c] =
                     Task(task[c].use, "settling", task[c].provider, task[c].id, actual, clock)]
  BY DEF CostKnown
<1>2. PICK t : t = Task(task[c].use, "settling", task[c].provider, task[c].id, actual, clock)
  OBVIOUS
<1>3. /\ outcome' = outcome /\ clock' = clock
      /\ UNCHANGED <<ledger, admitted, closed, operation>>
      /\ task[c].stage = "cost"
      /\ actual \in Nat
  BY GuardAssumption DEF CostKnown, clientVars, At
<1>4. TaskOK(t) /\ t.id = task[c].id
  BY <1>2, <1>3, CallerFacts DEF TaskOK, TaskType, StageNames, NoTask, Task
<1> QED
  BY <1>1, <1>2, <1>3, <1>4, CallerFacts, NothingChanges, MoveStep

LEMMA CostThrowsStep ==
    ASSUME GuardInv, NEW c \in Callers, CostThrows(c)
    PROVE  ClientInv'
<1>1. PICK t : t = task[c]
  OBVIOUS
<1>2. /\ End(c, "reconcile-cost-calculation") /\ clock' = clock
      /\ UNCHANGED <<ledger, admitted, closed, operation>>
      /\ t.stage = "cost"
  BY <1>1 DEF CostThrows, At
<1>3. t.id \in DOMAIN operation /\ t.id \in DOMAIN reservations /\ t.id \in Ids
  BY <1>1, <1>2, CallerFacts DEF TaskOK, NoTask, Task, TablesOK, LedgerType
<1>4. OutcomeOK([result |-> "reconcile-cost-calculation", id |-> t.id])
  BY <1>3, CallerFacts DEF OutcomeOK, Results, ResultNames, TablesOK, LedgerType
<1> QED
  BY <1>1, <1>2, <1>4, CallerFacts, NothingChanges, QuietEnd

LEMMA QuietThrows ==
    ASSUME GuardInv, NEW c \in Callers, ThrowsAfterCommit(c) \/ StoreFailure(c)
    PROVE  ClientInv'
<1>1. /\ Throw(c, "store-error") \/ Throw(c, "warning-error")
      /\ clock' = clock /\ UNCHANGED <<ledger, admitted, closed, operation>>
  BY DEF ThrowsAfterCommit, StoreFailure
<1> QED
  BY <1>1, CallerFacts, NothingChanges, ThrowStep DEF PlainResults

LEMMA RecordedStep ==
    ASSUME GuardInv, NEW c \in Callers, Recorded(c)
    PROVE  ClientInv'
<1>1. /\ End(c, "recorded") /\ clock' = clock
      /\ UNCHANGED <<ledger, admitted, closed, operation>>
      /\ task[c].stage = "recorded"
  BY DEF Recorded, At
<1>2. task[c].use # "protect"
  BY <1>1, CallerFacts DEF TaskOK, NoTask, Task
<1> QED
  BY <1>1, <1>2, CallerFacts, NothingChanges, QuietEnd

-----------------------------------------------------------------------------
(***************************************************************************)
(* Steps that change a reservation or what is known of it.                 *)
(***************************************************************************)
LEMMA ChargedAfter ==
    ASSUME LedgerType, NEW charge \in ChargeType, charges' = Append(charges, charge)
    PROVE  \A i : Charged(i)' <=> Charged(i) \/ i = charge.reservationId
<1>1. /\ DOMAIN charges' = DOMAIN charges \cup {Len(charges) + 1}
      /\ \A i \in DOMAIN charges : charges'[i] = charges[i]
      /\ charges'[Len(charges) + 1] = charge
  BY AppendFacts
<1> QED
  BY <1>1 DEF Charged

\* Where a caller is after a commit.
After(c, stage, id, warned) ==
    [use |-> task[c].use, stage |-> stage, provider |-> task[c].provider, id |-> id,
     amount |-> task[c].amount, now |-> task[c].now, warned |-> warned]

LEMMA RecordStep ==
    ASSUME GuardInv, LedgerInv', NEW c \in Callers, Record(c)
    PROVE  ClientInv'
<1>1. PICK charge : charge = [provider |-> task[c].provider, costUsd |-> task[c].amount,
                              createdAt |-> task[c].now, reservationId |-> Undefined,
                              estimateUsd |-> Undefined]
  OBVIOUS
<1>2. /\ charges' = Append(charges, charge)
      /\ UNCHANGED <<reservations, admitted, closed, operation>> /\ clock' = clock
      /\ task[c].stage = "recording"
  BY <1>1 DEF Record, At
<1>3. /\ task[c].provider \in Providers /\ task[c].amount \in Nat /\ task[c].now \in Nat
      /\ task[c].use = "record" /\ task[c].id = Undefined
  BY <1>2, CallerFacts DEF TaskOK, TaskType, NoTask, Task
<1>4. charge \in ChargeType /\ charge.reservationId = Undefined
  BY <1>1, <1>3 DEF ChargeType
<1>5. Quiet
  BY <1>2, <1>4, GuardAssumption, CallerFacts, ChargedAfter DEF Quiet
<1>6. CASE Throw(c, "store-error")
  BY <1>2, <1>5, <1>6, CallerFacts, ThrowStep DEF PlainResults
<1>7. PICK w : w = Warns(reservations, charges', task[c].provider, task[c].now)
  OBVIOUS
<1>8. w \in BOOLEAN
  BY <1>7 DEF Warns
<1>9. CASE task' = [task EXCEPT ![c] = After(c, "recorded", Undefined, w)] /\ outcome' = outcome
  <2>1. PICK t : t = After(c, "recorded", Undefined, w)
    OBVIOUS
  <2>2. TaskOK(t) /\ t.id = task[c].id
    BY <1>3, <1>8, <2>1, CallerFacts DEF After, TaskOK, TaskType, StageNames, CallNames
  <2> QED
    BY <1>2, <1>5, <1>9, <2>1, <2>2, CallerFacts, MoveStep
<1> QED
  BY <1>6, <1>7, <1>9 DEF Record, Committed, After

LEMMA ReservedStep ==
    ASSUME GuardInv, NEW c \in Callers, Reserved(c)
    PROVE  ClientInv'
<1>1. PICK x : x = task[c].id
  OBVIOUS
<1>2. /\ task[c].stage = "reserved" /\ TaskOK(task[c]) /\ task[c] \in TaskType
      /\ TablesOK /\ LedgerType
      /\ UNCHANGED <<ledger, admitted>> /\ clock' = clock /\ clock \in Nat
  BY CallerFacts DEF Reserved, At
<1>3. /\ x \in DOMAIN reservations /\ x \in Ids /\ x \in DOMAIN admitted
      /\ x \notin DOMAIN closed /\ x \notin DOMAIN operation
  BY <1>1, <1>2 DEF TaskOK, LedgerType, NoTask, Task
<1>4. LedgerInv' /\ \A i : Charged(i)' <=> Charged(i)
  BY <1>2, NextLedger DEF LedgerEffect, GuardInv, ledger, Charged
<1>5. CASE task[c].use = "reserve"
  <2>1. /\ closed' = Bind(closed, x, FALSE) /\ operation' = operation
        /\ End(c, "reserved")
    BY <1>1, <1>5 DEF Reserved
  <2>2. TablesOK' /\ Frame(x)
    BY <1>2, <1>3, <1>4, <2>1 DEF Bind, TablesOK, Frame, ledger
  <2>3. x \notin DOMAIN operation'
    BY <1>3, <2>1
  <2> QED
    BY <1>1, <1>2, <1>4, <1>5, <2>1, <2>2, <2>3, EndStep
<1>6. CASE task[c].use = "protect"
  <2>1. PICK t : t = [task[c] EXCEPT !.stage = "operation"]
    OBVIOUS
  <2>2. /\ operation' = Bind(operation, x, FALSE) /\ closed' = closed
        /\ task' = [task EXCEPT ![c] = t] /\ outcome' = outcome
    BY <1>1, <1>6, <2>1 DEF Reserved, Go
  <2>3. TablesOK' /\ Frame(x)
    BY <1>2, <1>3, <1>4, <2>2 DEF Bind, TablesOK, Frame, ledger
  <2>4. x \in DOMAIN operation' /\ x \in DOMAIN reservations'
    BY <1>2, <1>3, <2>2 DEF Bind, ledger
  <2>5. t \in TaskType /\ t.use = "protect" /\ t.stage = "operation" /\ t.id = x
    BY <1>1, <1>2, <1>6, <2>1 DEF TaskType, StageNames
  <2>6. TaskOK(t)'
    BY <2>4, <2>5 DEF TaskOK
  <2>7. PICK o : o = outcome[c]
    OBVIOUS
  <2>8. Apart(c, x)
    BY <1>1, OwnApart
  <2>9. OutcomeOK(o) /\ (o.id = x => x = Undefined) /\ outcome' = [outcome EXCEPT ![c] = o]
    BY <2>2, <2>7, <2>8 DEF GuardInv, ClientInv, Apart
  <2>10. OutcomeOK(o)'
    BY <1>2, <1>4, <2>3, <2>9, FrameOutcome DEF LedgerInv
  <2> QED
    BY <1>2, <1>3, <1>4, <2>2, <2>3, <2>4, <2>5, <2>6, <2>7, <2>8, <2>9, <2>10, ClientStep
<1> QED
  BY <1>5, <1>6 DEF Reserved

LEMMA OperationThrowsStep ==
    ASSUME GuardInv, NEW c \in Callers, OperationThrows(c)
    PROVE  ClientInv'
<1>1. PICK x : x = task[c].id
  OBVIOUS
<1>2. /\ task[c].stage = "operation" /\ TaskOK(task[c]) /\ task[c] \in TaskType
      /\ TablesOK /\ LedgerType
      /\ UNCHANGED <<ledger, admitted, closed>> /\ clock' = clock /\ clock \in Nat
  BY CallerFacts DEF OperationThrows, At
<1>3. /\ x \in DOMAIN reservations /\ x \in Ids /\ x \in DOMAIN operation
      /\ task[c].use = "protect"
  BY <1>1, <1>2 DEF TaskOK, LedgerType, NoTask, Task
<1>4. LedgerInv' /\ \A i : Charged(i)' <=> Charged(i)
  BY <1>2, NextLedger DEF LedgerEffect, GuardInv, ledger, Charged
<1>5. CASE End(c, "reconcile-operation") /\ UNCHANGED operation
  <2>1. OutcomeOK([result |-> "reconcile-operation", id |-> x])
    BY <1>2, <1>3 DEF OutcomeOK, Results, ResultNames, TablesOK
  <2> QED
    BY <1>1, <1>2, <1>5, <2>1, NothingChanges, QuietEnd
<1>6. CASE /\ Go(c, "releasing") /\ operation' = [operation EXCEPT ![x] = TRUE]
           /\ UNCHANGED outcome
  <2>1. PICK t : t = [task[c] EXCEPT !.stage = "releasing"]
    OBVIOUS
  <2>2. task' = [task EXCEPT ![c] = t] /\ outcome' = outcome
    BY <1>6, <2>1 DEF Go
  <2>3. TablesOK' /\ Frame(x)
    BY <1>2, <1>3, <1>4, <1>6 DEF TablesOK, Frame, ledger
  <2>4. x \in DOMAIN operation' /\ operation'[x] /\ x \in DOMAIN reservations'
    BY <1>2, <1>3, <1>6 DEF ledger, TablesOK
  <2>5. t \in TaskType /\ t.use = "protect" /\ t.stage = "releasing" /\ t.id = x
    BY <1>1, <1>2, <1>3, <2>1 DEF TaskType, StageNames
  <2>6. TaskOK(t)'
    BY <2>4, <2>5 DEF TaskOK
  <2>7. PICK o : o = outcome[c]
    OBVIOUS
  <2>8. Apart(c, x)
    BY <1>1, OwnApart
  <2>9. OutcomeOK(o) /\ (o.id = x => x = Undefined) /\ outcome' = [outcome EXCEPT ![c] = o]
    BY <2>2, <2>7, <2>8 DEF GuardInv, ClientInv, Apart
  <2>10. OutcomeOK(o)'
    BY <1>2, <1>4, <2>3, <2>9, FrameOutcome DEF LedgerInv
  <2> QED
    BY <1>2, <1>3, <1>4, <2>2, <2>3, <2>4, <2>5, <2>6, <2>7, <2>8, <2>9, <2>10, ClientStep
<1> QED
  BY <1>1, <1>5, <1>6 DEF OperationThrows

\* The answers of a call that has committed: the handle closes, the table of handles keeps its
\* keys.
LEMMA ClosedKeeps ==
    ASSUME GuardInv, LedgerInv', NEW x, closed' = CloseHandle(x),
           UNCHANGED <<ledger, admitted, operation>>
    PROVE  /\ DOMAIN closed' = DOMAIN closed
           /\ TablesOK' /\ Frame(x)
           /\ \A i : Charged(i)' <=> Charged(i)
           /\ \A i \in DOMAIN operation' :
                 operation'[i] \/ i \in DOMAIN reservations' \/ Charged(i)'
<1>1. TablesOK /\ PaidWorkIsHeld
  BY DEF GuardInv, ClientInv
<1>2. \A i : Charged(i)' <=> Charged(i)
  BY DEF Charged, ledger
<1>3. DOMAIN closed' = DOMAIN closed /\ closed' \in [DOMAIN closed -> BOOLEAN]
  BY <1>1 DEF CloseHandle, TablesOK
<1>4. TablesOK'
  BY <1>1, <1>3 DEF TablesOK
<1>5. Frame(x)
  BY <1>2, <1>3 DEF Frame, ledger
<1>6. \A i \in DOMAIN operation' :
         operation'[i] \/ i \in DOMAIN reservations' \/ Charged(i)'
  BY <1>1, <1>2 DEF PaidWorkIsHeld, ledger
<1> QED
  BY <1>2, <1>3, <1>4, <1>5, <1>6

LEMMA SettledStep ==
    ASSUME GuardInv, NEW c \in Callers, Settled(c)
    PROVE  ClientInv'
<1>1. PICK x : x = task[c].id
  OBVIOUS
<1>2. /\ task[c].stage = "settled" /\ TaskOK(task[c]) /\ TablesOK /\ LedgerType
      /\ UNCHANGED <<ledger, admitted, operation>> /\ clock' = clock /\ clock \in Nat
      /\ closed' = CloseHandle(x)
  BY <1>1, CallerFacts DEF Settled, At
<1>3. LedgerInv'
  BY <1>2, NextLedger DEF LedgerEffect, GuardInv
<1>4. /\ DOMAIN closed' = DOMAIN closed /\ TablesOK' /\ Frame(x)
      /\ \A i : Charged(i)' <=> Charged(i)
      /\ x \in DOMAIN operation' =>
            operation'[x] \/ x \in DOMAIN reservations' \/ Charged(x)'
  BY <1>2, <1>3, ClosedKeeps
<1>5. CASE task[c].use = "protect"
  <2>1. End(c, "value")
    BY <1>5 DEF Settled
  <2>2. x \in DOMAIN operation /\ Charged(x) /\ x \in Ids /\ x # Undefined
    BY <1>1, <1>2, <1>5, GuardAssumption DEF TaskOK, TablesOK, LedgerType, NoTask, Task
  <2>3. x \notin DOMAIN reservations
    BY <2>2 DEF Charged, GuardInv, LedgerInv, ChargedOnce
  <2>4. OutcomeOK([result |-> "value", id |-> x])'
    BY <1>2, <1>4, <2>2, <2>3 DEF OutcomeOK, Results, ResultNames, TablesOK, ledger
  <2> QED
    BY <1>1, <1>2, <1>3, <1>4, <2>1, <2>4, EndStep
<1>6. CASE task[c].use # "protect"
  <2>1. End(c, "settled")
    BY <1>6 DEF Settled
  <2> QED
    BY <1>1, <1>2, <1>3, <1>4, <1>6, <2>1, EndStep
<1> QED
  BY <1>5, <1>6

LEMMA ReleasedStep ==
    ASSUME GuardInv, NEW c \in Callers, Released(c)
    PROVE  ClientInv'
<1>1. PICK x : x = task[c].id
  OBVIOUS
<1>2. /\ task[c].stage = "released" /\ TaskOK(task[c]) /\ TablesOK /\ LedgerType
      /\ UNCHANGED <<ledger, admitted, operation>> /\ clock' = clock /\ clock \in Nat
      /\ closed' = CloseHandle(x)
  BY <1>1, CallerFacts DEF Released, At
<1>3. LedgerInv'
  BY <1>2, NextLedger DEF LedgerEffect, GuardInv
<1>4. /\ DOMAIN closed' = DOMAIN closed /\ TablesOK' /\ Frame(x)
      /\ \A i : Charged(i)' <=> Charged(i)
      /\ x \in DOMAIN operation' =>
            operation'[x] \/ x \in DOMAIN reservations' \/ Charged(x)'
  BY <1>2, <1>3, ClosedKeeps
<1>5. CASE task[c].use = "protect"
  <2>1. End(c, "operation-error")
    BY <1>5 DEF Released
  <2>2. /\ x \in DOMAIN operation /\ ~Charged(x) /\ x \in Ids /\ x # Undefined
        /\ x \notin DOMAIN reservations
    BY <1>1, <1>2, <1>5, GuardAssumption DEF TaskOK, TablesOK, LedgerType, NoTask, Task
  <2>3. OutcomeOK([result |-> "operation-error", id |-> x])'
    BY <1>2, <1>4, <2>2 DEF OutcomeOK, Results, ResultNames, TablesOK, ledger
  <2> QED
    BY <1>1, <1>2, <1>3, <1>4, <2>1, <2>3, EndStep
<1>6. CASE task[c].use # "protect"
  <2>1. End(c, "released")
    BY <1>6 DEF Released
  <2> QED
    BY <1>1, <1>2, <1>3, <1>4, <1>6, <2>1, EndStep
<1> QED
  BY <1>5, <1>6

LEMMA ReserveStep ==
    ASSUME GuardInv, LedgerInv', NEW c \in Callers, Reserve(c)
    PROVE  ClientInv'
<1>1. /\ task[c].stage = "reserving" /\ TaskOK(task[c]) /\ task[c] \in TaskType
      /\ TablesOK /\ LedgerType
      /\ UNCHANGED <<charges, closed, operation>> /\ clock' = clock /\ clock \in Nat
  BY CallerFacts DEF Reserve, At
<1>2. task[c].id = Undefined /\ task[c].use \in {"protect", "reserve"}
  BY <1>1 DEF TaskOK, NoTask, Task
<1>3. CASE UNCHANGED <<reservations, admitted>> /\ End(c, "denied")
  <2>1. Quiet
    BY <1>1, <1>3 DEF Quiet, Charged
  <2>2. Throw(c, "denied")
    BY <1>1, <1>3 DEF Throw
  <2> QED
    BY <1>1, <2>1, <2>2, ThrowStep DEF PlainResults
<1>4. ASSUME NEW id \in Ids \ DOMAIN admitted, NEW record, NEW w \in BOOLEAN,
             reservations' = Bind(reservations, id, record),
             admitted' = Bind(admitted, id, task[c].now),
             Committed(c, "reserved", id, w)
      PROVE  ClientInv'
  <2>1. /\ DOMAIN reservations' = DOMAIN reservations \cup {id}
        /\ DOMAIN admitted' = DOMAIN admitted \cup {id}
        /\ id \notin DOMAIN closed /\ id \notin DOMAIN operation /\ id # Undefined
        /\ id \notin DOMAIN reservations
    BY <1>1, <1>4, GuardAssumption DEF Bind, TablesOK, LedgerType
  <2>2. TablesOK'
    BY <1>1, <2>1 DEF TablesOK
  <2>3. Frame(id)
    BY <1>1, <2>1 DEF Frame, Charged
  <2>4. \A d \in Callers : OutcomeOK(outcome[d]) /\ TaskOK(task[d])
    BY DEF GuardInv, ClientInv
  <2>5. Apart(c, id)
    <3>1. \A d \in Callers : outcome[d].id # id
      BY <1>4, <2>1, <2>4 DEF OutcomeOK
    <3>2. ASSUME NEW d \in Callers, Owns(task[d])
          PROVE  task[d].id # id
      <4>1. task[d].id \in DOMAIN reservations \/ task[d].id \in DOMAIN operation
        BY <2>4, <3>2 DEF TaskOK, Owns, NoTask, Task
      <4> QED
        BY <2>1, <4>1
    <3> QED
      BY <3>1, <3>2 DEF Apart
  <2>6. CASE task' = [task EXCEPT ![c] = After(c, "reserved", id, w)] /\ UNCHANGED outcome
    <3>1. PICK t : t = After(c, "reserved", id, w)
      OBVIOUS
    <3>2. PICK o : o = outcome[c]
      OBVIOUS
    <3>3. OutcomeOK(o) /\ (o.id = id => id = Undefined)
          /\ outcome' = [outcome EXCEPT ![c] = o]
      BY <2>4, <2>5, <2>6, <3>2 DEF Apart, GuardInv, ClientInv
    <3>4. OutcomeOK(o)'
      BY <1>1, <2>2, <2>3, <3>3, FrameOutcome DEF LedgerInv
    <3>5. /\ t \in TaskType /\ t.use \in {"protect", "reserve"} /\ t.stage = "reserved"
          /\ t.id = id
      BY <1>1, <1>2, <1>4, <3>1 DEF After, TaskType, StageNames
    <3>6. TaskOK(t)'
      BY <1>1, <2>1, <3>5 DEF TaskOK
    <3>7. id \in DOMAIN operation' => FALSE
      BY <1>1, <2>1
    <3> QED
      BY <1>1, <2>2, <2>3, <2>5, <2>6, <3>1, <3>2, <3>3, <3>4, <3>5, <3>6, <3>7, ClientStep
  <2>7. CASE Throw(c, "store-error")
    <3>1. PICK o : /\ outcome' = [outcome EXCEPT ![c] = o]
                   /\ \/ o = outcome[c]
                      \/ o = [result |-> "store-error", id |-> Undefined]
      BY <1>1, <1>2, <2>7 DEF Throw, End, GuardInv, ClientInv
    <3>2. task' = [task EXCEPT ![c] = NoTask]
      BY <2>7 DEF Throw, End
    <3>3. OutcomeOK([result |-> "store-error", id |-> Undefined])
      BY <1>1, GuardAssumption DEF OutcomeOK, Results, ResultNames, TablesOK, LedgerType
    <3>4. OutcomeOK(o) /\ (o.id = id => id = Undefined)
      BY <2>1, <2>4, <2>5, <3>1, <3>3 DEF Apart
    <3>5. OutcomeOK(o)'
      BY <1>1, <2>2, <2>3, <3>4, FrameOutcome DEF LedgerInv
    <3>6. id \in DOMAIN operation' => FALSE
      BY <1>1, <2>1
    <3>7. o = outcome[c] \/ (o.id \in {id, Undefined} /\ ~Owns(NoTask))
      BY <3>1, IdleTask
    <3> QED
      BY <1>1, <2>2, <2>3, <2>5, <3>1, <3>2, <3>5, <3>6, <3>7, IdleTask, ClientStep
  <2> QED
    BY <1>4, <2>6, <2>7 DEF Committed, After
<1>5. \A open : Warns(open, charges, task[c].provider, task[c].now) \in BOOLEAN
  BY DEF Warns
<1> QED
  BY <1>3, <1>4, <1>5 DEF Reserve

LEMMA SettleStep ==
    ASSUME GuardInv, LedgerInv', NEW c \in Callers, Settle(c)
    PROVE  ClientInv'
<1>1. PICK x : x = task[c].id
  OBVIOUS
<1>2. /\ task[c].stage = "settling" /\ TaskOK(task[c]) /\ task[c] \in TaskType
      /\ TablesOK /\ LedgerType
      /\ UNCHANGED <<admitted, closed, operation>> /\ clock' = clock /\ clock \in Nat
  BY CallerFacts DEF Settle, At
<1>3. /\ task[c].amount \in Nat
      /\ \/ task[c].use = "protect" /\ x \in DOMAIN operation
         \/ task[c].use = "settle" /\ x \in DOMAIN closed
  BY <1>1, <1>2 DEF TaskOK, NoTask, Task
<1>4. CASE Throw(c, "not-found") /\ UNCHANGED ledger
  BY <1>2, <1>4, NothingChanges, ThrowStep DEF PlainResults
<1>5. ASSUME NEW w \in BOOLEAN, x \in DOMAIN reservations,
             reservations' = Unbind(reservations, x),
             charges' = Append(charges, SettledCharge(task[c])),
             Committed(c, "settled", x, w)
      PROVE  ClientInv'
  <2>1. PICK charge : charge = SettledCharge(task[c])
    OBVIOUS
  <2>2. charge \in ChargeType /\ charge.reservationId = x
    BY <1>1, <1>2, <1>3, <1>5, <2>1 DEF SettledCharge, ChargeType, TaskType, LedgerType,
       ReservationType
  <2>3. \A i : Charged(i)' <=> Charged(i) \/ i = x
    BY <1>2, <1>5, <2>1, <2>2, ChargedAfter
  <2>4. /\ DOMAIN reservations' = DOMAIN reservations \ {x}
        /\ x \in Ids /\ x # Undefined
    BY <1>2, <1>5, GuardAssumption DEF Unbind, LedgerType
  <2>5. TablesOK' /\ Frame(x)
    BY <1>2, <2>3, <2>4 DEF TablesOK, Frame
  <2>6. CASE task' = [task EXCEPT ![c] = After(c, "settled", x, w)] /\ UNCHANGED outcome
    <3>1. PICK t : t = After(c, "settled", x, w)
      OBVIOUS
    <3>2. PICK o : o = outcome[c]
      OBVIOUS
    <3>3. Apart(c, x)
      BY <1>1, OwnApart
    <3>4. OutcomeOK(o) /\ (o.id = x => x = Undefined) /\ outcome' = [outcome EXCEPT ![c] = o]
      BY <2>6, <3>2, <3>3 DEF GuardInv, ClientInv, Apart
    <3>5. OutcomeOK(o)'
      BY <1>2, <2>5, <3>4, FrameOutcome DEF LedgerInv
    <3>6. /\ t \in TaskType /\ t.use = task[c].use /\ t.stage = "settled" /\ t.id = x
          /\ Owns(t) => t.id = x
      BY <1>2, <1>5, <2>4, <3>1 DEF After, TaskType, StageNames
    <3>7. TaskOK(t)'
      BY <1>2, <1>3, <2>3, <3>6 DEF TaskOK
    <3> QED
      BY <1>2, <2>3, <2>4, <2>5, <2>6, <3>1, <3>2, <3>3, <3>4, <3>5, <3>6, <3>7, ClientStep
  <2>7. CASE Throw(c, "store-error")
    <3>1. PICK result : result = IF task[c].use = "protect" THEN "reconcile-settlement"
                                 ELSE "store-error"
      OBVIOUS
    <3>2. End(c, result)
      BY <1>2, <2>7, <3>1 DEF Throw
    <3>3. ASSUME task[c].use = "protect"
          PROVE  OutcomeOK([result |-> result, id |-> x])'
      <4>1. x \in DOMAIN operation' /\ x \in DOMAIN admitted' /\ x \notin DOMAIN closed'
        BY <1>2, <1>3, <3>3 DEF TablesOK
      <4> QED
        BY <2>3, <2>4, <3>1, <3>3, <4>1 DEF OutcomeOK, Results, ResultNames
    <3> QED
      BY <1>1, <1>2, <2>3, <2>5, <3>2, <3>3, EndStep
  <2> QED
    BY <1>5, <2>6, <2>7 DEF Committed, After
<1>6. \A provider : Warns(reservations', charges', provider, task[c].now) \in BOOLEAN
  BY DEF Warns
<1> QED
  BY <1>1, <1>4, <1>5, <1>6 DEF Settle

LEMMA ReleaseStep ==
    ASSUME GuardInv, LedgerInv', NEW c \in Callers, Release(c)
    PROVE  ClientInv'
<1>1. PICK x : x = task[c].id
  OBVIOUS
<1>2. /\ task[c].stage = "releasing" /\ TaskOK(task[c]) /\ task[c] \in TaskType
      /\ TablesOK /\ LedgerType
      /\ UNCHANGED <<charges, admitted, closed, operation>> /\ clock' = clock /\ clock \in Nat
  BY CallerFacts DEF Release, At
<1>3. \/ task[c].use = "protect" /\ x \in DOMAIN operation /\ operation[x]
      \/ task[c].use = "release" /\ x \in DOMAIN closed
  BY <1>1, <1>2 DEF TaskOK, NoTask, Task
<1>4. CASE Throw(c, "not-found") /\ UNCHANGED reservations
  BY <1>2, <1>4, NothingChanges, ThrowStep DEF PlainResults, ledger
<1>5. CASE /\ x \in DOMAIN reservations
           /\ reservations' = Unbind(reservations, x)
           /\ Committed(c, "released", x, FALSE)
  <2>1. \A i : Charged(i)' <=> Charged(i)
    BY <1>2 DEF Charged
  <2>2. /\ DOMAIN reservations' = DOMAIN reservations \ {x}
        /\ x \in Ids /\ x # Undefined
    BY <1>2, <1>5, GuardAssumption DEF Unbind, LedgerType
  <2>3. TablesOK' /\ Frame(x)
    BY <1>2, <2>1, <2>2 DEF TablesOK, Frame
  <2>4. ~Charged(x)
    BY <1>5 DEF Charged, GuardInv, LedgerInv, ChargedOnce
  <2>5. x \in DOMAIN operation' => operation'[x]
    BY <1>2, <1>3 DEF TablesOK
  <2>6. CASE task' = [task EXCEPT ![c] = After(c, "released", x, FALSE)] /\ UNCHANGED outcome
    <3>1. PICK t : t = After(c, "released", x, FALSE)
      OBVIOUS
    <3>2. PICK o : o = outcome[c]
      OBVIOUS
    <3>3. Apart(c, x)
      BY <1>1, OwnApart
    <3>4. OutcomeOK(o) /\ (o.id = x => x = Undefined) /\ outcome' = [outcome EXCEPT ![c] = o]
      BY <2>6, <3>2, <3>3 DEF GuardInv, ClientInv, Apart
    <3>5. OutcomeOK(o)'
      BY <1>2, <2>3, <3>4, FrameOutcome DEF LedgerInv
    <3>6. /\ t \in TaskType /\ t.use = task[c].use /\ t.stage = "released" /\ t.id = x
          /\ Owns(t) => t.id = x
      BY <1>2, <2>2, <3>1 DEF After, TaskType, StageNames
    <3>7. TaskOK(t)'
      BY <1>2, <1>3, <2>1, <2>2, <2>4, <3>6 DEF TaskOK
    <3> QED
      BY <1>2, <2>2, <2>3, <2>5, <2>6, <3>1, <3>2, <3>3, <3>4, <3>5, <3>6, <3>7, ClientStep
  <2>7. CASE Throw(c, "store-error")
    <3>1. End(c, "store-error")
      BY <1>2, <2>7 DEF Throw
    <3>2. ASSUME task[c].use = "protect"
          PROVE  OutcomeOK([result |-> "store-error", id |-> x])'
      <4>1. x \in DOMAIN admitted' /\ x \notin DOMAIN closed'
        BY <1>2, <1>3, <3>2 DEF TablesOK
      <4> QED
        BY <2>2, <4>1 DEF OutcomeOK, Results, ResultNames
    <3> QED
      BY <1>1, <1>2, <2>3, <2>5, <3>1, <3>2, EndStep
  <2> QED
    BY <1>5, <2>6, <2>7 DEF Committed, After
<1> QED
  BY <1>1, <1>4, <1>5 DEF Release

-----------------------------------------------------------------------------
(***************************************************************************)
(* The invariant and what follows from it.                                 *)
(***************************************************************************)
LEMMA IdleStep ==
    ASSUME GuardInv, clock' \in Nat, UNCHANGED <<ledger, admitted, task, clientVars>>
    PROVE  GuardInv'
<1>1. /\ task' = task /\ outcome' = outcome
      /\ UNCHANGED <<ledger, admitted, closed, operation>>
  BY DEF clientVars
<1>2. Quiet /\ LedgerInv'
  BY <1>1, NothingChanges
<1>3. /\ task' \in [Callers -> TaskType] /\ outcome' \in [Callers -> Results]
      /\ Owned'
  BY <1>1 DEF GuardInv, ClientInv, Owned
<1>4. ASSUME NEW d \in Callers, NEW t, t = task[d], NEW o, o = outcome[d]
      PROVE  TaskOK(t)' /\ OutcomeOK(o)'
  BY <1>2, <1>4, QuietKeeps DEF GuardInv, ClientInv
<1>5. ASSUME NEW d \in Callers
      PROVE  TaskOK(task[d])' /\ OutcomeOK(outcome[d])'
  BY <1>1, <1>4
<1>6. TablesOK' /\ PaidWorkIsHeld'
  BY <1>2, QuietKeeps DEF PaidWorkIsHeld
<1> QED
  BY <1>2, <1>3, <1>5, <1>6 DEF GuardInv, ClientInv

LEMMA NextGuard == GuardInv /\ [Next]_vars => GuardInv'
<1> SUFFICES ASSUME GuardInv, [Next]_vars
             PROVE  GuardInv'
  OBVIOUS
<1>1. LedgerInv'
  BY StepHasEffect, NextLedger DEF GuardInv
<1>2. ASSUME NEW c \in Callers,
             \/ StartReserve(c) \/ Reserve(c) \/ Reserved(c) \/ ThrowsAfterCommit(c)
             \/ OperationReturns(c) \/ OperationThrows(c) \/ CostThrows(c) \/ CostKnown(c)
             \/ StartSettle(c) \/ Settle(c) \/ Settled(c)
             \/ StartRelease(c) \/ Release(c) \/ Released(c)
             \/ StartRecord(c) \/ Record(c) \/ Recorded(c) \/ StoreFailure(c)
      PROVE  ClientInv'
  BY <1>1, <1>2, StartReserveStep, ReserveStep, ReservedStep, QuietThrows, OperationReturnsStep,
     OperationThrowsStep, CostThrowsStep, CostKnownStep, StartSettleStep, SettleStep, SettledStep,
     StartReleaseStep, ReleaseStep, ReleasedStep, StartRecordStep, RecordStep, RecordedStep
<1>3. CASE Tick \/ UNCHANGED vars
  <2>1. clock' \in Nat /\ UNCHANGED <<ledger, admitted, task, clientVars>>
    BY <1>3 DEF Tick, vars, GuardInv, ClientInv
  <2> QED
    BY <2>1, IdleStep
<1> QED
  BY <1>1, <1>2, <1>3 DEF Next, GuardInv

LEMMA InitGuard == Init => GuardInv
<1> SUFFICES ASSUME Init
             PROVE  GuardInv
  OBVIOUS
<1>1. IsFiniteSet(DOMAIN reservations)
  BY FS_EmptySet DEF Init
<1>2. LedgerInv
  BY <1>1 DEF Init, LedgerInv, LedgerType, History, ChargedOnce
<1>3. NoTask \in TaskType /\ TaskOK(NoTask) /\ ~Owns(NoTask)
  <2>1. NoTask \in TaskType
    BY DEF NoTask, Task, TaskType, CallNames, StageNames
  <2> QED
    BY <2>1 DEF TaskOK, Owns, NoTask, Task
<1>4. \A c \in Callers : outcome[c] \in Results /\ OutcomeOK(outcome[c])
  BY DEF Init, Results, ResultNames, OutcomeOK
<1>5. TablesOK /\ PaidWorkIsHeld
  BY DEF Init, TablesOK, PaidWorkIsHeld
<1>6. /\ clock \in Nat
      /\ task \in [Callers -> TaskType] /\ outcome \in [Callers -> Results]
      /\ \A c \in Callers : TaskOK(task[c]) /\ ~Owns(task[c])
  BY <1>3 DEF Init, Results, ResultNames
<1> QED
  BY <1>2, <1>4, <1>5, <1>6 DEF GuardInv, ClientInv, Owned

LEMMA GuardCorrect == Spec => []GuardInv
<1>1. Init => GuardInv
  BY InitGuard
<1>2. GuardInv /\ [Next]_vars => GuardInv'
  BY NextGuard
<1> QED
  BY <1>1, <1>2, PTL DEF Spec

\* A reservation is charged at most once and is not open once charged, whatever races, fails
\* after its commit or is tried again (guard.ts settle, release).
THEOREM NeverChargedTwice == Spec => []ChargedOnce
<1>1. GuardInv => ChargedOnce
  BY DEF GuardInv, LedgerInv
<1> QED
  BY <1>1, GuardCorrect, PTL

\* Work that protect ran is in the ledger, open or charged, unless its caller waived the charge
\* (guard.ts protect).
THEOREM PaidWorkIsNeverForgotten == Spec => []PaidWorkIsHeld
<1>1. GuardInv => PaidWorkIsHeld
  BY DEF GuardInv, ClientInv
<1> QED
  BY <1>1, GuardCorrect, PTL

\* How protect ends says what happened to the money (guard.ts protect).
THEOREM ProtectTellsTheTruth == Spec => []OutcomeIsTrue
<1>1. GuardInv => OutcomeIsTrue
  BY DEF GuardInv, ClientInv, OutcomeIsTrue, OutcomeOK
<1> QED
  BY <1>1, GuardCorrect, PTL

-----------------------------------------------------------------------------
(***************************************************************************)
(* The hard stop: what a scope's open reservations and its charges, up to  *)
(* their estimates, add up to in a period.                                 *)
(***************************************************************************)
Capped(charge) ==
    IF charge.costUsd <= charge.estimateUsd THEN charge.costUsd ELSE charge.estimateUsd

OpenAmounts(scope, period, t) ==
    [id \in Counted(reservations, scope, period, t) |-> reservations[id].estimatedCostUsd]

SettledIn(scope, period, t) ==
    {j \in Counted(charges, scope, period, t) :
        /\ charges[j].reservationId # Undefined
        /\ InPeriod(admitted[charges[j].reservationId], period, t)}

SettledAmounts(scope, period, t) == [i \in SettledIn(scope, period, t) |-> Capped(charges[i])]

ActualUsd(scope, period, t) ==
    Total([k \in Counted(charges, scope, period, t) |-> charges[k].costUsd])

LEMMA AdmittedSum ==
    ASSUME NEW scope, NEW period, NEW t
    PROVE  /\ AdmittedUsd(scope, period, t)
                = Total(OpenAmounts(scope, period, t)) + Total(SettledAmounts(scope, period, t))
           /\ AdmittedUsd(scope, period, t)'
                = Total(OpenAmounts(scope, period, t)') + Total(SettledAmounts(scope, period, t)')
           /\ ProjectedUsd(reservations, charges, scope, period, t)
                = ActualUsd(scope, period, t) + Total(OpenAmounts(scope, period, t))
BY DEF AdmittedUsd, OpenAmounts, SettledAmounts, SettledIn, Capped, ActualUsd, ProjectedUsd

LEMMA AmountTypes ==
    ASSUME LedgerInv, NEW scope, NEW period, NEW t
    PROVE  /\ IsFiniteSet(Counted(reservations, scope, period, t))
           /\ OpenAmounts(scope, period, t) \in [Counted(reservations, scope, period, t) -> Nat]
           /\ Total(OpenAmounts(scope, period, t)) \in Nat
           /\ IsFiniteSet(SettledIn(scope, period, t))
           /\ SettledAmounts(scope, period, t) \in [SettledIn(scope, period, t) -> Nat]
           /\ Total(SettledAmounts(scope, period, t)) \in Nat
           /\ ActualUsd(scope, period, t) \in Nat
           /\ Total(SettledAmounts(scope, period, t)) <= ActualUsd(scope, period, t)
<1> DEFINE open == Counted(reservations, scope, period, t)
           settled == SettledIn(scope, period, t)
           counted == Counted(charges, scope, period, t)
           costs == [k \in counted |-> charges[k].costUsd]
<1>1. open \subseteq DOMAIN reservations
  BY DEF Counted
<1>2. IsFiniteSet(open)
  BY <1>1, FS_Subset DEF LedgerInv, LedgerType
<1>3. OpenAmounts(scope, period, t) \in [open -> Nat]
  BY <1>1 DEF OpenAmounts, LedgerInv, LedgerType, ReservationType
<1>4. Total(OpenAmounts(scope, period, t)) \in Nat
  <2> HIDE DEF open
  <2> QED
    BY <1>2, <1>3, TotalType
<1>5. counted \subseteq DOMAIN charges /\ settled \subseteq counted
  BY DEF Counted, SettledIn
<1>6. IsFiniteSet(counted) /\ IsFiniteSet(settled)
  <2>1. Len(charges) \in Nat /\ DOMAIN charges = 1..Len(charges)
    BY DEF LedgerInv, LedgerType
  <2>2. IsFiniteSet(1..Len(charges))
    BY <2>1, FS_Interval
  <2> QED
    BY <1>5, <2>1, <2>2, FS_Subset
<1>7. \A i \in DOMAIN charges : charges[i].costUsd \in Nat
  <2>1. \A i \in DOMAIN charges : charges[i] \in ChargeType
    BY DEF LedgerInv, LedgerType
  <2> QED
    BY <2>1 DEF ChargeType
<1>8. costs \in [counted -> Nat]
  BY <1>5, <1>7
<1>9. \A i \in settled : Capped(charges[i]) \in Nat /\ Capped(charges[i]) <= charges[i].costUsd
  <2> SUFFICES ASSUME NEW i \in settled
               PROVE  Capped(charges[i]) \in Nat /\ Capped(charges[i]) <= charges[i].costUsd
    OBVIOUS
  <2>1. charges[i].costUsd \in Nat /\ charges[i].estimateUsd \in Nat
    BY <1>5, <1>7 DEF SettledIn, LedgerInv, History
  <2> QED
    BY <2>1 DEF Capped
<1>10. SettledAmounts(scope, period, t) \in [settled -> Nat]
  BY <1>9 DEF SettledAmounts
<1>11. \A i \in settled : SettledAmounts(scope, period, t)[i] <= costs[i]
  BY <1>5, <1>9 DEF SettledAmounts
<1> HIDE DEF settled, counted, costs
<1>12. /\ Total(costs) \in Nat
       /\ Total(SettledAmounts(scope, period, t)) \in Nat
       /\ Total(SettledAmounts(scope, period, t)) <= Total(costs)
  BY <1>5, <1>6, <1>8, <1>10, <1>11, TotalType, TotalMonotone
<1>13. ActualUsd(scope, period, t) = Total(costs)
  BY DEF ActualUsd, costs, counted
<1> QED
  BY <1>2, <1>3, <1>4, <1>6, <1>10, <1>12, <1>13 DEF settled

\* A scope that is limited for a period, and what a step may then do to its admitted amount.
Capacity(scope, period) == scope \in Scopes /\ period \in Periods /\ Limit[scope][period] \in Nat

Within(scope, period, t) == AdmittedUsd(scope, period, t) <= Limit[scope][period]

LEMMA ReserveWithin ==
    ASSUME LedgerInv, NEW id \in Ids, NEW provider, NEW amount, NEW now,
           ReserveEffect(id, provider, amount, now),
           NEW scope, NEW period, NEW t, Capacity(scope, period), Within(scope, period, t)
    PROVE  Within(scope, period, t)'
<1> DEFINE open == Counted(reservations, scope, period, t)
           amounts == OpenAmounts(scope, period, t)
           settled == SettledAmounts(scope, period, t)
<1>1. /\ DOMAIN reservations' = DOMAIN reservations \cup {id}
      /\ id \notin DOMAIN reservations
      /\ reservations'[id].provider = provider
      /\ reservations'[id].estimatedCostUsd = amount
      /\ reservations'[id].createdAt = now
      /\ \A k \in DOMAIN reservations : reservations'[k] = reservations[k]
      /\ \A k \in DOMAIN admitted : admitted'[k] = admitted[k]
      /\ charges' = charges
      /\ amount \in Nat
  BY DEF ReserveEffect, Bind, LedgerInv, LedgerType
<1>2. settled' = settled
  <2>1. SettledIn(scope, period, t)' = SettledIn(scope, period, t)
    BY <1>1 DEF SettledIn, Counted, LedgerInv, History
  <2> QED
    BY <1>1, <2>1 DEF SettledAmounts
<1>3. CASE ~(InPeriod(now, period, t) /\ (scope = "global" \/ provider = scope))
  <2>1. open' = open
    BY <1>1, <1>3 DEF Counted
  <2>2. amounts' = amounts
    BY <1>1, <2>1 DEF OpenAmounts, Counted
  <2> QED
    BY <1>2, <2>2, AdmittedSum DEF Within
<1>4. CASE InPeriod(now, period, t) /\ (scope = "global" \/ provider = scope)
  <2>1. open' = open \cup {id} /\ id \notin open
    BY <1>1, <1>4 DEF Counted
  <2>2. IsFiniteSet(open) /\ amounts \in [open -> Nat] /\ Total(amounts) \in Nat
        /\ Total(settled) \in Nat /\ ActualUsd(scope, period, t) \in Nat
        /\ Total(settled) <= ActualUsd(scope, period, t)
    BY AmountTypes
  <2>3. amounts' = [k \in open \cup {id} |-> IF k = id THEN amount ELSE amounts[k]]
    BY <1>1, <2>1 DEF OpenAmounts, Counted
  <2>4. Total(amounts') = amount + Total(amounts)
    <3>1. amount \in Nat
      BY <1>1
    <3> HIDE DEF open, amounts
    <3> QED
      BY <2>1, <2>2, <2>3, <3>1, TotalAdd
  <2>5. ScopeAllows(scope, amount, now)
    BY <1>4 DEF ReserveEffect, Allowed
  <2>6. ProjectedUsd(reservations, charges, scope, period, now) + amount <= Limit[scope][period]
    BY <2>5, GuardAssumption DEF ScopeAllows, Capacity
  <2>7. /\ Counted(reservations, scope, period, now) = open
        /\ Counted(charges, scope, period, now) = Counted(charges, scope, period, t)
    BY <1>4 DEF Counted, InPeriod
  <2>8. ProjectedUsd(reservations, charges, scope, period, now)
          = ProjectedUsd(reservations, charges, scope, period, t)
    BY <2>7 DEF ProjectedUsd
  <2>9. ActualUsd(scope, period, t) + Total(amounts) + amount <= Limit[scope][period]
    BY <2>6, <2>8, AdmittedSum
  <2>10. Total(amounts') + Total(settled') <= Limit[scope][period]
    <3> HIDE DEF amounts, settled
    <3> QED
      BY <1>1, <1>2, <2>2, <2>4, <2>9 DEF Capacity
  <2> QED
    BY <2>10, AdmittedSum DEF Within
<1> QED
  BY <1>3, <1>4

\* The open amounts without one reservation.
LEMMA UnbindAmounts ==
    ASSUME LedgerInv, NEW id \in DOMAIN reservations, reservations' = Unbind(reservations, id),
           NEW scope, NEW period, NEW t
    PROVE  LET open == Counted(reservations, scope, period, t)
               before == Total(OpenAmounts(scope, period, t))
               after == Total(OpenAmounts(scope, period, t)')
           IN  /\ before \in Nat /\ after \in Nat
               /\ id \in open => before = reservations[id].estimatedCostUsd + after
               /\ id \notin open => before = after
<1> DEFINE open == Counted(reservations, scope, period, t)
           amounts == OpenAmounts(scope, period, t)
<1>1. /\ DOMAIN reservations' = DOMAIN reservations \ {id}
      /\ \A k \in DOMAIN reservations' : reservations'[k] = reservations[k]
  BY DEF Unbind
<1>2. open' = open \ {id}
  BY <1>1 DEF Counted
<1>3. IsFiniteSet(open) /\ amounts \in [open -> Nat] /\ Total(amounts) \in Nat
  BY AmountTypes
<1>4. /\ amounts' \in [open \ {id} -> Nat]
      /\ \A k \in open \ {id} : amounts'[k] = amounts[k]
  <2>1. open \ {id} \subseteq DOMAIN reservations'
    BY <1>1 DEF Counted
  <2>2. amounts' = [k \in open \ {id} |-> reservations'[k].estimatedCostUsd]
    BY <1>2 DEF OpenAmounts
  <2>3. \A k \in open \ {id} : amounts[k] = reservations[k].estimatedCostUsd
    BY DEF OpenAmounts
  <2> HIDE DEF open, amounts
  <2>4. \A k \in open \ {id} : amounts'[k] = amounts[k]
    BY <1>1, <2>1, <2>2, <2>3
  <2> QED
    BY <1>3, <2>2, <2>4
<1>5. Total(amounts') \in Nat
  <2> HIDE DEF open, amounts
  <2>1. IsFiniteSet(open \ {id})
    BY <1>3, FS_RemoveElement
  <2> QED
    BY <1>4, <2>1, TotalType
<1>6. CASE id \in open
  <2>1. amounts[id] = reservations[id].estimatedCostUsd
    BY <1>6 DEF OpenAmounts
  <2>2. Total(amounts) = amounts[id] + Total(amounts')
    <3>1. IsFiniteSet(open) /\ amounts \in [open -> Nat]
      BY <1>3
    <3>2. amounts' \in [open \ {id} -> Nat]
      BY <1>4
    <3>3. \A k \in open \ {id} : amounts'[k] = amounts[k]
      BY <1>4
    <3> HIDE DEF open, amounts
    <3> QED
      BY <1>6, <3>1, <3>2, <3>3, TotalSplit
  <2> QED
    BY <1>3, <1>5, <1>6, <2>1, <2>2
<1>7. CASE id \notin open
  <2>1. open' = open /\ \A k \in open : amounts'[k] = amounts[k]
    BY <1>2, <1>4, <1>7
  <2>2. amounts' = amounts
    BY <1>3, <1>4, <1>7, <2>1
  <2> QED
    BY <1>3, <1>7, <2>2
<1> QED
  BY <1>6, <1>7

LEMMA ReleaseWithin ==
    ASSUME LedgerInv, NEW id \in Ids, ReleaseEffect(id),
           NEW scope, NEW period, NEW t, Capacity(scope, period), Within(scope, period, t)
    PROVE  Within(scope, period, t)'
<1> DEFINE before == Total(OpenAmounts(scope, period, t))
           after == Total(OpenAmounts(scope, period, t)')
           settled == SettledAmounts(scope, period, t)
<1>1. settled' = settled
  BY DEF ReleaseEffect, SettledAmounts, SettledIn, Counted
<1>2. reservations[id] \in ReservationType
  BY DEF ReleaseEffect, LedgerInv, LedgerType
<1>3. before \in Nat /\ after \in Nat /\ after <= before
  BY <1>2, UnbindAmounts DEF ReleaseEffect, ReservationType
<1>4. Total(settled) \in Nat
  BY AmountTypes
<1>5. before + Total(settled) <= Limit[scope][period]
  BY AdmittedSum DEF Within
<1>6. after + Total(settled') <= Limit[scope][period]
  <2> HIDE DEF before, after, settled
  <2> QED
    BY <1>1, <1>3, <1>4, <1>5 DEF Capacity
<1> QED
  BY <1>6, AdmittedSum DEF Within

\* A settlement moves at most the estimate, and only where its reservation was admitted.
LEMMA SettleWithin ==
    ASSUME LedgerInv, NEW id \in Ids, NEW actual, NEW now, SettleEffect(id, actual, now),
           NEW scope, NEW period, NEW t, Capacity(scope, period), Within(scope, period, t)
    PROVE  Within(scope, period, t)'
<1> DEFINE open == Counted(reservations, scope, period, t)
           before == Total(OpenAmounts(scope, period, t))
           after == Total(OpenAmounts(scope, period, t)')
           in == SettledIn(scope, period, t)
           settled == SettledAmounts(scope, period, t)
           new == Len(charges) + 1
<1>1. PICK charge : charge = [provider |-> reservations[id].provider, costUsd |-> actual,
                              createdAt |-> now, reservationId |-> id,
                              estimateUsd |-> reservations[id].estimatedCostUsd]
  OBVIOUS
<1>2. /\ id \in DOMAIN reservations /\ reservations[id] \in ReservationType
      /\ reservations' = Unbind(reservations, id)
      /\ charges' = Append(charges, charge) /\ admitted' = admitted
      /\ actual \in Nat /\ now \in Nat
  BY <1>1 DEF SettleEffect, LedgerInv, LedgerType
<1>3. /\ charge \in ChargeType
      /\ charge.reservationId = id /\ id # Undefined
      /\ charge.provider = reservations[id].provider
      /\ charge.costUsd \in Nat
      /\ charge.estimateUsd = reservations[id].estimatedCostUsd
      /\ charge.estimateUsd \in Nat
  BY <1>1, <1>2, GuardAssumption DEF ChargeType, ReservationType
<1>4. /\ DOMAIN charges' = DOMAIN charges \cup {new}
      /\ new \notin DOMAIN charges
      /\ \A i \in DOMAIN charges : charges'[i] = charges[i]
      /\ charges'[new] = charge
  BY <1>2, <1>3, AppendFacts DEF LedgerInv
<1>5. /\ before \in Nat /\ after \in Nat
      /\ id \in open => before = charge.estimateUsd + after
      /\ id \notin open => before = after
  BY <1>2, <1>3, UnbindAmounts
<1>6. /\ IsFiniteSet(in) /\ settled \in [in -> Nat] /\ Total(settled) \in Nat
  BY AmountTypes
<1>7. before + Total(settled) <= Limit[scope][period]
  BY AdmittedSum DEF Within
<1>8. in \subseteq DOMAIN charges
  BY DEF SettledIn, Counted
<1> HIDE DEF new
<1>9. CASE new \notin in'
  <2>1. in' = in
    BY <1>2, <1>4, <1>8, <1>9 DEF SettledIn, Counted
  <2>2. settled' = settled
    BY <1>4, <1>8, <2>1 DEF SettledAmounts
  <2>3. after + Total(settled') <= Limit[scope][period]
    <3> HIDE DEF open, before, after, settled
    <3> QED
      BY <1>3, <1>5, <1>6, <1>7, <2>2 DEF Capacity
  <2> QED
    BY <2>3, AdmittedSum DEF Within
<1>10. CASE new \in in'
  <2>1. in' = in \cup {new} /\ new \notin in
    BY <1>2, <1>4, <1>8, <1>10 DEF SettledIn, Counted
  <2>2. id \in open
    <3>1. /\ scope = "global" \/ reservations[id].provider = scope
          /\ InPeriod(admitted[id], period, t)
      BY <1>2, <1>3, <1>4, <1>10 DEF SettledIn, Counted
    <3>2. reservations[id].createdAt = admitted[id]
      BY <1>2 DEF LedgerInv, History
    <3> QED
      BY <1>2, <3>1, <3>2 DEF Counted
  <2>3. Capped(charge) \in Nat /\ Capped(charge) <= charge.estimateUsd
    BY <1>3 DEF Capped
  <2>4. settled' = [i \in in \cup {new} |-> IF i = new THEN Capped(charge) ELSE settled[i]]
    BY <1>4, <1>8, <2>1 DEF SettledAmounts
  <2>5. Total(settled') = Capped(charge) + Total(settled)
    <3>1. IsFiniteSet(in) /\ settled \in [in -> Nat]
      BY <1>6
    <3>2. new \notin in /\ Capped(charge) \in Nat
      BY <2>1, <2>3
    <3> HIDE DEF in, settled
    <3> QED
      BY <2>4, <3>1, <3>2, TotalAdd
  <2>6. after + Total(settled') <= Limit[scope][period]
    <3> HIDE DEF open, before, after, settled
    <3> QED
      BY <1>3, <1>5, <1>6, <1>7, <2>2, <2>3, <2>5 DEF Capacity
  <2> QED
    BY <2>6, AdmittedSum DEF Within
<1> QED
  BY <1>9, <1>10

LEMMA RecordWithin ==
    ASSUME LedgerInv, NEW provider, NEW cost, NEW now, RecordEffect(provider, cost, now),
           NEW scope, NEW period, NEW t, Within(scope, period, t)
    PROVE  Within(scope, period, t)'
<1> DEFINE new == Len(charges) + 1
<1>1. PICK charge : charge = [provider |-> provider, costUsd |-> cost, createdAt |-> now,
                              reservationId |-> Undefined, estimateUsd |-> Undefined]
  OBVIOUS
<1>2. /\ charge \in ChargeType /\ charge.reservationId = Undefined
      /\ charges' = Append(charges, charge)
      /\ reservations' = reservations /\ admitted' = admitted
  BY <1>1 DEF RecordEffect, ChargeType
<1>3. /\ DOMAIN charges' = DOMAIN charges \cup {new}
      /\ new \notin DOMAIN charges
      /\ \A i \in DOMAIN charges : charges'[i] = charges[i]
      /\ charges'[new] = charge
  BY <1>2, AppendFacts DEF LedgerInv
<1> HIDE DEF new
<1>4. SettledIn(scope, period, t)' = SettledIn(scope, period, t)
  BY <1>2, <1>3 DEF SettledIn, Counted
<1>5. SettledIn(scope, period, t) \subseteq DOMAIN charges
  BY DEF SettledIn, Counted
<1>6. SettledAmounts(scope, period, t)' = SettledAmounts(scope, period, t)
  BY <1>3, <1>4, <1>5 DEF SettledAmounts
<1>7. OpenAmounts(scope, period, t)' = OpenAmounts(scope, period, t)
  BY <1>2 DEF OpenAmounts, Counted
<1> QED
  BY <1>6, <1>7, AdmittedSum DEF Within

LEMMA NextWithin ==
    ASSUME LedgerInv, LedgerEffect,
           NEW scope, NEW period, NEW t, Capacity(scope, period), Within(scope, period, t)
    PROVE  Within(scope, period, t)'
<1>1. CASE UNCHANGED <<ledger, admitted>>
  BY <1>1 DEF ledger, Within, AdmittedUsd, Counted
<1> QED
  BY <1>1, ReserveWithin, SettleWithin, ReleaseWithin, RecordWithin DEF LedgerEffect

LEMMA InitBudget == Init => BudgetHeld
<1> SUFFICES ASSUME Init, NEW scope \in Scopes, NEW period \in Periods, NEW t \in 0..MaxTime,
                    Limit[scope][period] # Undefined
             PROVE  AdmittedUsd(scope, period, t) <= Limit[scope][period]
  BY DEF BudgetHeld
<1>1. Limit[scope][period] \in Nat
  BY GuardAssumption DEF LimitNames
<1>2. /\ DOMAIN OpenAmounts(scope, period, t) = {}
      /\ DOMAIN SettledAmounts(scope, period, t) = {}
  BY DEF Init, OpenAmounts, SettledAmounts, SettledIn, Counted
<1>3. /\ Total(OpenAmounts(scope, period, t)) = 0
      /\ Total(SettledAmounts(scope, period, t)) = 0
  BY <1>2, TotalEmpty
<1> QED
  BY <1>1, <1>3, AdmittedSum

LEMMA NextBudget == GuardInv /\ BudgetHeld /\ [Next]_vars => BudgetHeld'
<1> SUFFICES ASSUME GuardInv, BudgetHeld, [Next]_vars,
                    NEW scope \in Scopes, NEW period \in Periods, NEW t \in 0..MaxTime,
                    Limit[scope][period] # Undefined
             PROVE  AdmittedUsd(scope, period, t)' <= Limit[scope][period]
  BY DEF BudgetHeld
<1>1. Capacity(scope, period)
  BY GuardAssumption DEF Capacity, LimitNames
<1>2. Within(scope, period, t)
  BY DEF BudgetHeld, Within
<1>3. Within(scope, period, t)'
  BY <1>1, <1>2, StepHasEffect, NextWithin DEF GuardInv
<1> QED
  BY <1>3 DEF Within

\* No day or month, of the whole or of a provider, is given more than its limit, for every
\* configuration, any number of calls that read the clock early, settle above their estimate or
\* fail after their commit, and every order of their commits (guard.ts reserve, assertScope).
THEOREM HardStop == Spec => []BudgetHeld
<1>1. Init => BudgetHeld
  BY InitBudget
<1>2. GuardInv /\ BudgetHeld /\ [Next]_vars => BudgetHeld'
  BY NextBudget
<1> QED
  BY <1>1, <1>2, GuardCorrect, PTL DEF Spec

-----------------------------------------------------------------------------
(***************************************************************************)
(* The guard decides as SpendFirewall under the policies of its limits.    *)
(***************************************************************************)
OpenRecords ==
    [id \in DOMAIN reservations |->
        [context |-> Context(reservations[id].provider),
         createdAt |-> reservations[id].createdAt,
         estimatedCostUsd |-> reservations[id].estimatedCostUsd]]

SpentRecords ==
    [i \in DOMAIN charges |->
        [context |-> Context(charges[i].provider),
         createdAt |-> charges[i].createdAt, costUsd |-> charges[i].costUsd]]

Policies == [p \in Limited |-> PolicyOf(p[1], p[2])]

\* The policy of a limit matches the providers of its scope, whose records it all counts together.
LEMMA PolicyMatches ==
    ASSUME NEW scope, NEW period, <<scope, period>> \in Limited, NEW provider
    PROVE  /\ Firewall!MatchesPolicy(<<scope, period>>, Context(provider))
                <=> scope = "global" \/ provider = scope
           /\ \A other : Firewall!PolicyGroup(<<scope, period>>, Context(other))
                = Firewall!PolicyGroup(<<scope, period>>, Context(provider))
<1>1. Policies[<<scope, period>>] = PolicyOf(scope, period)
  BY DEF Policies
<1>2. /\ PolicyOf(scope, period).groupBy = {}
      /\ PolicyOf(scope, period).match =
            IF scope = "global" THEN [f \in {} |-> {}] ELSE [f \in {"provider"} |-> {scope}]
  BY DEF PolicyOf
<1>3. \A other : Context(other)["provider"] = other
  BY DEF Context
<1> QED
  BY <1>1, <1>2, <1>3 DEF Firewall!MatchesPolicy, Firewall!PolicyGroup, Policies

LEMMA SameWindow ==
    ASSUME NEW scope, NEW period \in Periods, NEW createdAt, NEW t
    PROVE  Firewall!InBudgetWindow(createdAt, PolicyOf(scope, period).window, t)
             <=> InPeriod(createdAt, period, t)
<1>1. PolicyOf(scope, period).window.kind = IF period = "daily" THEN "utc-day" ELSE "utc-month"
  BY DEF PolicyOf
<1> QED
  BY <1>1 DEF Firewall!InBudgetWindow, InPeriod, Periods

\* So both count the same records, and the same amounts of them.
LEMMA SameRecords ==
    ASSUME NEW scope, NEW period \in Periods, <<scope, period>> \in Limited, NEW provider, NEW t
    PROVE  /\ Firewall!Counted(OpenRecords, <<scope, period>>, Context(provider), t)
                = Counted(reservations, scope, period, t)
           /\ Firewall!Counted(SpentRecords, <<scope, period>>, Context(provider), t)
                = Counted(charges, scope, period, t)
<1>1. Policies[<<scope, period>>] = PolicyOf(scope, period)
  BY DEF Policies
<1>2. \A createdAt : Firewall!InBudgetWindow(createdAt, Policies[<<scope, period>>].window, t)
                       <=> InPeriod(createdAt, period, t)
  BY <1>1, SameWindow
<1>3. \A other : Firewall!MatchesPolicy(<<scope, period>>, Context(other))
                   <=> scope = "global" \/ other = scope
  BY PolicyMatches
<1>4. \A other : Firewall!PolicyGroup(<<scope, period>>, Context(other))
                   = Firewall!PolicyGroup(<<scope, period>>, Context(provider))
  BY PolicyMatches
<1>5. /\ DOMAIN OpenRecords = DOMAIN reservations
      /\ \A id \in DOMAIN reservations :
            /\ OpenRecords[id].context = Context(reservations[id].provider)
            /\ OpenRecords[id].createdAt = reservations[id].createdAt
  BY DEF OpenRecords
<1>6. /\ DOMAIN SpentRecords = DOMAIN charges
      /\ \A i \in DOMAIN charges :
            /\ SpentRecords[i].context = Context(charges[i].provider)
            /\ SpentRecords[i].createdAt = charges[i].createdAt
  BY DEF SpentRecords
<1> HIDE DEF OpenRecords, SpentRecords
<1> QED
  BY <1>2, <1>3, <1>4, <1>5, <1>6 DEF Firewall!Counted, Counted, Policies

LEMMA SameUsage ==
    ASSUME NEW scope, NEW period \in Periods, <<scope, period>> \in Limited, NEW provider, NEW t
    PROVE  Firewall!ProjectedUsd(OpenRecords, SpentRecords, <<scope, period>>, Context(provider), t)
             = ProjectedUsd(reservations, charges, scope, period, t)
<1> DEFINE open == Counted(reservations, scope, period, t)
           spent == Counted(charges, scope, period, t)
<1>1. [k \in open |-> OpenRecords[k].estimatedCostUsd]
        = [k \in open |-> reservations[k].estimatedCostUsd]
  BY DEF OpenRecords, Counted
<1>2. [k \in spent |-> SpentRecords[k].costUsd] = [k \in spent |-> charges[k].costUsd]
  BY DEF SpentRecords, Counted
<1>3. \A weight : Firewall!Total(weight) = Total(weight)
  <2>1. \A S : Firewall!Cardinality(S) = Cardinality(S)
    BY DEF Firewall!Cardinality, Cardinality
  <2> QED
    BY <2>1 DEF Firewall!Total, Firewall!Units, Total, Units
<1>4. Firewall!ReservedUsd(OpenRecords, <<scope, period>>, Context(provider), t)
        = Total([k \in open |-> OpenRecords[k].estimatedCostUsd])
  BY <1>3, SameRecords DEF Firewall!ReservedUsd
<1>5. Firewall!ActualUsd(SpentRecords, <<scope, period>>, Context(provider), t)
        = Total([k \in spent |-> SpentRecords[k].costUsd])
  BY <1>3, SameRecords DEF Firewall!ActualUsd
<1> QED
  BY <1>1, <1>2, <1>4, <1>5 DEF Firewall!ProjectedUsd, ProjectedUsd

\* A policy is violated when its scope's largest request or its period's limit is.
LEMMA SameViolation ==
    ASSUME LedgerInv, NEW scope \in Scopes, NEW period \in Periods, <<scope, period>> \in Limited,
           NEW provider, NEW estimate \in Nat, NEW t
    PROVE  ~Firewall!Violates(OpenRecords, SpentRecords, <<scope, period>>, Context(provider),
                              estimate, t)
             <=> /\ Limit[scope]["perRequest"] # Undefined => estimate <= Limit[scope]["perRequest"]
                 /\ Limit[scope][period] # Undefined =>
                       ProjectedUsd(reservations, charges, scope, period, t) + estimate
                           <= Limit[scope][period]
<1> DEFINE usd == ProjectedUsd(reservations, charges, scope, period, t)
<1>1. usd \in Nat
  <2>1. usd = ActualUsd(scope, period, t) + Total(OpenAmounts(scope, period, t))
    BY AdmittedSum
  <2>2. ActualUsd(scope, period, t) \in Nat /\ Total(OpenAmounts(scope, period, t)) \in Nat
    BY AmountTypes
  <2> HIDE DEF usd
  <2> QED
    BY <2>1, <2>2
<1>2. /\ Limit[scope][period] \in Nat \cup {Undefined}
      /\ Limit[scope]["perRequest"] \in Nat \cup {Undefined}
  BY GuardAssumption DEF LimitNames
<1>3. /\ Policies[<<scope, period>>].limitUsd = Limit[scope][period]
      /\ Policies[<<scope, period>>].maxOperationUsd = Limit[scope]["perRequest"]
      /\ Policies[<<scope, period>>].limitCalls = Undefined
      /\ Policies[<<scope, period>>].maxConcurrent = Undefined
  BY DEF Policies, PolicyOf
<1>4. Firewall!ProjectedUsd(OpenRecords, SpentRecords, <<scope, period>>, Context(provider), t) = usd
  BY SameUsage
<1>5. Firewall!Violates(OpenRecords, SpentRecords, <<scope, period>>, Context(provider),
                        estimate, t)
        <=> \/ Limit[scope]["perRequest"] # Undefined /\ estimate > Limit[scope]["perRequest"]
            \/ Limit[scope][period] # Undefined /\ usd + estimate > Limit[scope][period]
  <2> HIDE DEF usd
  <2> QED
    BY <1>3, <1>4 DEF Firewall!Violates, Firewall!Exceeds, Policies
<1> HIDE DEF usd
<1> QED
  BY <1>1, <1>2, <1>5, GuardAssumption DEF usd

\* What a limited scope asks of a request in one of its periods.
Fits(scope, period, estimate, t) ==
    /\ Limit[scope]["perRequest"] # Undefined => estimate <= Limit[scope]["perRequest"]
    /\ Limit[scope][period] # Undefined =>
          ProjectedUsd(reservations, charges, scope, period, t) + estimate <= Limit[scope][period]

LEMMA SameDecision ==
    ASSUME LedgerInv, NEW provider \in Providers, NEW estimate \in Nat, NEW t
    PROVE  Allowed(provider, estimate, t)
             <=> Firewall!Allowed(OpenRecords, SpentRecords, Context(provider), estimate, t)
<1>1. Allowed(provider, estimate, t)
        <=> \A scope \in {"global", provider}, period \in Periods : Fits(scope, period, estimate, t)
  <2>1. ASSUME NEW scope
        PROVE  ScopeAllows(scope, estimate, t)
                 <=> \A period \in Periods : Fits(scope, period, estimate, t)
    BY DEF ScopeAllows, Fits, Periods
  <2> QED
    BY <2>1 DEF Allowed
<1>2. ASSUME NEW scope \in Scopes, NEW period \in Periods, <<scope, period>> \notin Limited
      PROVE  Fits(scope, period, estimate, t)
  BY <1>2 DEF Limited, Fits
<1>3. ASSUME NEW scope \in Scopes, NEW period \in Periods, <<scope, period>> \in Limited
      PROVE  ~Firewall!Violates(OpenRecords, SpentRecords, <<scope, period>>, Context(provider),
                                estimate, t)
               <=> Fits(scope, period, estimate, t)
  BY <1>3, SameViolation DEF Fits
<1>4. ASSUME NEW scope \in Scopes, NEW period \in Periods, <<scope, period>> \in Limited
      PROVE  /\ Policies[<<scope, period>>].mode = "enforce"
             /\ Firewall!MatchesPolicy(<<scope, period>>, Context(provider))
                  <=> scope \in {"global", provider}
  <2>1. Policies[<<scope, period>>].mode = "enforce"
    BY <1>4 DEF Policies, PolicyOf
  <2>2. Firewall!MatchesPolicy(<<scope, period>>, Context(provider))
          <=> scope = "global" \/ provider = scope
    BY <1>4, PolicyMatches
  <2> QED
    BY <2>1, <2>2
<1>5. \A p \in Limited : \E scope \in Scopes, period \in Periods : p = <<scope, period>>
  BY DEF Limited
<1>6. Firewall!Allowed(OpenRecords, SpentRecords, Context(provider), estimate, t)
        <=> \A scope \in Scopes, period \in Periods :
               <<scope, period>> \in Limited /\ scope \in {"global", provider}
                   => Fits(scope, period, estimate, t)
  BY <1>3, <1>4, <1>5 DEF Firewall!Allowed, Policies
<1>7. {"global", provider} \subseteq Scopes
  BY DEF Scopes
<1> QED
  BY <1>1, <1>2, <1>6, <1>7

\* Every decision of the guard, on every ledger it reaches, is that of SpendFirewall with one
\* policy per limit of the configuration (guard.ts assertAllowed, policy.ts
\* evaluateSpendRequest).
THEOREM GuardIsAFirewall == Spec => []DecidesAsFirewall
<1>1. GuardInv => DecidesAsFirewall
  <2> SUFFICES ASSUME LedgerInv, NEW provider \in Providers,
                      NEW estimate \in Costs \cup (Estimates \ {Undefined}), NEW t \in 0..MaxTime
               PROVE  Allowed(provider, estimate, t)
                        <=> Firewall!Allowed(OpenRecords, SpentRecords, Context(provider),
                                             estimate, t)
    BY DEF DecidesAsFirewall, GuardInv, OpenRecords, SpentRecords
  <2>1. estimate \in Nat
    BY GuardAssumption
  <2> QED
    BY <2>1, SameDecision
<1> QED
  BY <1>1, GuardCorrect, PTL
=============================================================================
