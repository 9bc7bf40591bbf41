------------------------------- MODULE Protect -------------------------------
(***************************************************************************)
(* The two ways a program uses SpendFirewall (src/src/firewall.ts): with   *)
(* protect, which reserves, runs a paid operation and settles its cost,    *)
(* and with the handle FirewallReservation that reserve returns, on which  *)
(* several parts of the program may have calls in flight at once.  Every   *)
(* call is one of SpendFirewall's calls, on the same ledger; what is added *)
(* is what the client keeps on its side of the store: the stage of each    *)
(* protect, the estimate and the closed flag cached in each handle.        *)
(***************************************************************************)
EXTENDS SpendFirewall

CONSTANTS
    Programs,         \* the programs tried: the uses each makes of the firewall, a set of
                      \* "protect", "reserve" and calls on a handle
    OnOperationError  \* the options.onOperationError callers pass: "release", "keep-open"

VARIABLES
    program,    \* which of the Programs runs
    task,       \* task[c]: the stage of what c does, the reservation it concerns, the answer
    handle,     \* handle[id] of a reservation made with reserve
    operation,  \* history: the paid operation protect ran under each reservation
    outcome     \* outcome[c]: how c's last protect ended

clientVars == <<handle, operation, outcome>>
allVars == <<vars, program, task, clientVars>>

Waiting == {"reserving", "settling", "releasing"}
HandleCalls == {"resize", "topUp", "settle", "release"}

NoTask == [stage |-> "none", id |-> Undefined, result |-> "none", amount |-> Undefined]
Task(stage, id) == [stage |-> stage, id |-> id, result |-> "none", amount |-> Undefined]
NoOutcome == [result |-> "none", id |-> Undefined]

InitClients ==
    /\ Init
    /\ program \in Programs
    /\ task = [c \in Callers |-> NoTask]
    /\ handle = [id \in {} |-> Undefined]
    /\ operation = [id \in {} |-> Undefined]
    /\ outcome = [c \in Callers |-> NoOutcome]

Stage(c, stage) == task[c].stage = stage
Go(c, next) == task' = [task EXCEPT ![c] = next]

-----------------------------------------------------------------------------
\* protect
End(c, result, id) ==
    /\ Go(c, NoTask)
    /\ outcome' = [outcome EXCEPT ![c] = [result |-> result, id |-> id]]

StartProtect(c) ==
    /\ "protect" \in program
    /\ Stage(c, "none")
    /\ BeginReserve(c)
    /\ Go(c, Task("reserving", Undefined))
    /\ UNCHANGED clientVars

\* reserve answers; an error, lost answers included, is thrown to protect's caller.
ProtectReserved(c) ==
    /\ Stage(c, "reserving")
    /\ CommitReserve(c) \/ StoreFailure(c)
    /\ \/ /\ answer' = "reserved"
          /\ \E id \in DOMAIN reservations' \ DOMAIN reservations :
                /\ Go(c, Task("operation", id))
                /\ operation' = Bind(operation, id, [key |-> call[c].request.idempotencyKey,
                                                     waived |-> FALSE])
          /\ UNCHANGED outcome
       \/ /\ answer' # "reserved"
          /\ End(c, answer', Undefined)
          /\ UNCHANGED operation
    /\ UNCHANGED handle

OperationReturns(c) ==
    /\ Stage(c, "operation")
    /\ Go(c, Task("cost", task[c].id))
    /\ UNCHANGED <<vars, clientVars>>

\* A caller who passes "release" waives the charge of an operation that throws.
OperationThrows(c) ==
    /\ Stage(c, "operation")
    /\ \/ /\ "release" \in OnOperationError
          /\ Enqueue(c, "release", Undefined, task[c].id, Undefined)
          /\ Go(c, Task("releasing", task[c].id))
          /\ operation' = [operation EXCEPT ![task[c].id].waived = TRUE]
          /\ UNCHANGED outcome
       \/ /\ "keep-open" \in OnOperationError
          /\ End(c, "reconcile-operation", task[c].id)
          /\ UNCHANGED <<vars, operation>>
    /\ UNCHANGED handle

ProtectReleasedSwallowing(c) ==
    /\ Stage(c, "releasing")
    /\ CommitRelease(c) \/ StoreFailure(c)
    /\ End(c, "operation-error", task[c].id)
    /\ UNCHANGED <<handle, operation>>

\* The operation's own error is thrown on, or that of release when it fails.
ProtectReleased(c) ==
    /\ Stage(c, "releasing")
    /\ CommitRelease(c) \/ StoreFailure(c)
    /\ End(c, IF answer' = "released" THEN "operation-error" ELSE answer', task[c].id)
    /\ UNCHANGED <<handle, operation>>

CostThrowsReleasing(c) ==
    /\ Stage(c, "cost")
    /\ Enqueue(c, "release", Undefined, task[c].id, Undefined)
    /\ Go(c, Task("releasing", task[c].id))
    /\ UNCHANGED clientVars

CostThrows(c) ==
    /\ Stage(c, "cost")
    /\ End(c, "reconcile-cost-calculation", task[c].id)
    /\ UNCHANGED <<vars, handle, operation>>

CostKnown(c) ==
    /\ Stage(c, "cost")
    /\ RoomForCharge
    /\ \E actual \in Amounts : Enqueue(c, "settle", Undefined, task[c].id, actual)
    /\ Go(c, Task("settling", task[c].id))
    /\ UNCHANGED clientVars

ProtectSettled(c) ==
    /\ Stage(c, "settling")
    /\ CommitSettle(c) \/ StoreFailure(c)
    /\ End(c, IF answer' = "settled" THEN "value" ELSE "reconcile-settlement", task[c].id)
    /\ UNCHANGED <<handle, operation>>

-----------------------------------------------------------------------------
\* FirewallReservation
StartReserve(c) ==
    /\ "reserve" \in program
    /\ Stage(c, "none")
    /\ BeginReserve(c)
    /\ Go(c, Task("reserve", Undefined))
    /\ UNCHANGED clientVars

HandleReserved(c) ==
    /\ Stage(c, "reserve")
    /\ CommitReserve(c) \/ StoreFailure(c)
    /\ \/ /\ answer' = "reserved"
          /\ \E id \in DOMAIN reservations' \ DOMAIN reservations :
                handle' = Bind(handle, id, [estimateUsd |-> reservations'[id].estimatedCostUsd,
                                            closed |-> FALSE])
       \/ answer' # "reserved" /\ UNCHANGED handle
    /\ Go(c, NoTask)
    /\ UNCHANGED <<operation, outcome>>

CloseAndCall(c, use, op, id, amount) ==
    /\ use \in program
    /\ Stage(c, "none")
    /\ ~handle[id].closed
    /\ Enqueue(c, op, Undefined, id, amount)
    /\ Go(c, Task(use, id))
    /\ handle' = [handle EXCEPT ![id].closed = op # "resize"]
    /\ UNCHANGED <<operation, outcome>>

\* settle and resize throw on a closed handle, release returns: the store is not reached.
CallHandle(c, use, op, id, amount) ==
    /\ use \in program
    /\ Stage(c, "none")
    /\ ~handle[id].closed
    /\ Enqueue(c, op, Undefined, id, amount)
    /\ Go(c, Task(use, id))
    /\ UNCHANGED clientVars

StartHandleCall(c) ==
    \E id \in DOMAIN handle :
        \/ CallHandle(c, "release", "release", id, Undefined)
        \/ \E amount \in Amounts :
            \/ RoomForCharge /\ CallHandle(c, "settle", "settle", id, amount)
            \/ CallHandle(c, "resize", "resize", id, amount)
            \/ CallHandle(c, "topUp", "resize", id, handle[id].estimateUsd + amount)

\* The store answers; the awaiting method of the handle goes on later.
HandleAnswered(c) ==
    /\ task[c].stage \in HandleCalls
    /\ CommitSettle(c) \/ CommitRelease(c) \/ CommitResize(c) \/ StoreFailure(c)
    /\ Go(c, [stage |-> "answered", id |-> task[c].id,
              result |-> answer', amount |-> call[c].costUsd])
    /\ UNCHANGED clientVars

Resume(c) ==
    LET id == task[c].id
    IN  /\ Stage(c, "answered")
        /\ handle' = CASE task[c].result = "resized" ->
                            [handle EXCEPT ![id].estimateUsd = task[c].amount]
                       [] task[c].result \in {"settled", "released"} ->
                            [handle EXCEPT ![id].closed = TRUE]
                       [] OTHER -> handle
        /\ Go(c, NoTask)
        /\ UNCHANGED <<vars, operation, outcome>>

-----------------------------------------------------------------------------
\* A step in which the store answers a protect that waits for it.
StoreAnswers(c) ==
    (ProtectReserved(c) \/ ProtectReleased(c) \/ ProtectSettled(c)) /\ UNCHANGED program

NextClients ==
    /\ \/ \E c \in Callers :
            \/ StartProtect(c) \/ OperationReturns(c) \/ OperationThrows(c)
            \/ CostThrows(c) \/ CostKnown(c) \/ StoreAnswers(c)
            \/ StartReserve(c) \/ HandleReserved(c) \/ StartHandleCall(c)
            \/ HandleAnswered(c) \/ Resume(c)
       \/ Tick /\ UNCHANGED <<task, clientVars>>
    /\ UNCHANGED program

\* The store answers whoever is first in line (JsonFileStore, CallsEnd); nothing is assumed of
\* the paid operations.
SpecClients ==
    InitClients /\ [][NextClients]_allVars /\ \A c \in Callers : WF_allVars(StoreAnswers(c))

-----------------------------------------------------------------------------
Charged(id) == \E i \in DOMAIN charges : charges[i].reservationId = id

\* Paid work is never forgotten: whatever a protect ran stays in the ledger, as an open
\* reservation or as a charge, unless it threw and its caller had chosen release for that case
\* (firewall.ts protect; errors.ts: "silently forgetting a potentially billed operation").
PaidWorkIsHeld ==
    \A id \in DOMAIN operation :
        operation[id].waived \/ id \in DOMAIN reservations \/ Charged(id)

\* Two operations never run under one idempotency key, whatever answers were lost and whichever
\* protects race, unless one threw and was waived (docs/architecture.md, Idempotency; firewall.ts reserve).
DuplicateExecutionBlocked ==
    \A a, b \in DOMAIN operation :
        a # b /\ operation[a].key = operation[b].key /\ operation[a].key # Undefined
            => operation[a].waived \/ operation[b].waived

\* How a protect ends says what happened to the money: a value means charged, the bare error
\* means neither held nor charged, and a request to reconcile means one of the two is there.
OutcomeIsTrue ==
    \A c \in Callers :
        LET id == outcome[c].id
        IN  CASE outcome[c].result = "value" -> Charged(id) /\ id \notin DOMAIN reservations
              [] outcome[c].result = "operation-error" ->
                    ~Charged(id) /\ id \notin DOMAIN reservations
              [] outcome[c].result \in {"reconcile-operation", "reconcile-cost-calculation"} ->
                    id \in DOMAIN reservations
              [] outcome[c].result = "reconcile-settlement" ->
                    id \in DOMAIN reservations \/ Charged(id)
              [] OTHER -> TRUE

\* A protect that waits for the store gets out of the queue, behind failed calls too.
WaitsEnd == \A c \in Callers : task[c].stage \in Waiting ~> task[c].stage \notin Waiting

\* A closed handle has nothing left in the ledger to close, so that its silent release and its
\* not-found are right, however calls on it overlap and answers are lost (firewall.ts:71-83).
ClosedMeansGone == \A id \in DOMAIN handle : handle[id].closed => id \notin DOMAIN reservations
=============================================================================
