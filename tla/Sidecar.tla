------------------------------- MODULE Sidecar -------------------------------
(***************************************************************************)
(* The HTTP sidecar (src/src/server.ts) in front of a SpendFirewall, and   *)
(* the clients the documentation describes (docs/http-sidecar.md,          *)
(* docs/n8n.md): workflows that reserve under an idempotency key, run a    *)
(* paid step and settle, and an operator who lists old reservations and    *)
(* releases those whose workflow is over and did not pay.  A caller of     *)
(* SpendFirewall is one connection and its handler.  A client gives a      *)
(* request up at any time and sends it again, while the first one is still *)
(* in the handler; the answer of that one is dropped.                      *)
(***************************************************************************)
EXTENDS SpendFirewall

CONSTANTS
    Workflows,
    RequestOf,  \* RequestOf[w]: the body of w's POST /api/reserve
    CostOf,     \* CostOf[w]: what w's paid step costs
    StaleAge    \* the olderThanMs of the operator's listing, in ticks

ASSUME SidecarAssumption ==
    /\ RequestOf \in [Workflows -> RequestType]
    /\ CostOf \in [Workflows -> Nat]
    /\ StaleAge \in Nat
    /\ Undefined \notin Callers

VARIABLES
    http,       \* http[c]: the request on connection c
    flow,       \* flow[w]: how far workflow w is
    listing     \* the ids the operator was last given

sidecarVars == <<http, flow, listing>>

HttpRequest(phase, from, route, id, status) ==
    [phase |-> phase, from |-> from, route |-> route, id |-> id, status |-> status]
NoRequest == HttpRequest("none", Undefined, "none", Undefined, 0)
Requesting == {"reserve", "settle"}

InitSidecar ==
    /\ Init
    /\ http = [c \in Callers |-> NoRequest]
    /\ flow = [w \in Workflows |->
                [stage |-> "reserve", connection |-> Undefined, id |-> Undefined, paid |-> FALSE]]
    /\ listing = {}

Connection(c, phase) == http[c].phase = phase

\* mapError, and the status of each route that succeeds.
NotFoundOnFailure(result) ==
    CASE result \in {"reserved", "recorded"} -> 201
      [] result \in {"settled", "released", "resized"} -> 200
      [] result = "rejected" -> 400
      [] result = "denied" -> 402
      [] result \in {"not-found", "store-error"} -> 404
      [] result \in {"duplicate", "conflict"} -> 409

Status(result) ==
    CASE result \in {"reserved", "recorded"} -> 201
      [] result \in {"settled", "released", "resized"} -> 200
      [] result = "rejected" -> 400
      [] result = "denied" -> 402
      [] result = "not-found" -> 404
      [] result \in {"duplicate", "conflict"} -> 409
      [] result = "store-error" -> 500

-----------------------------------------------------------------------------
\* The handler
Receive(c, from, route, id) ==
    /\ Connection(c, "none")
    /\ http' = [http EXCEPT ![c] = HttpRequest("received", from, route, id, 0)]

\* How far the handler is with the request on c, and the id and status of its answer.
Handled(c, phase, id, status) ==
    http' = [http EXCEPT ![c] = HttpRequest(phase, http[c].from, http[c].route, id, status)]

Waits(w, c) == w \in Workflows /\ flow[w].connection = c

\* The answer of a request that was given up, or whose client does not look at it, is dropped.
Answered(c, id, status) ==
    IF Waits(http[c].from, c)
    THEN Handled(c, "answered", id, status)
    ELSE http' = [http EXCEPT ![c] = NoRequest]

\* No token (401), too large a body (413), no JSON, no id or no amount: the firewall is not
\* called, and 400 stands for all of these answers; a body that is null ends as an error, 500.
Reject(c) ==
    /\ Connection(c, "received")
    /\ \E status \in {400, 500} : Answered(c, http[c].id, status)
    /\ UNCHANGED <<vars, flow, listing>>

Dispatch(c) ==
    LET route == http[c].route
        from == http[c].from
    IN  /\ Connection(c, "received")
        /\ \/ /\ route = "reserve"
              /\ Accepted(RequestOf[from])
              /\ RoomForReservation
              /\ Enqueue(c, "reserve", Normalize(RequestOf[from]), Undefined, Undefined)
           \/ /\ route = "settle"
              /\ RoomForCharge
              /\ Enqueue(c, "settle", Undefined, http[c].id, CostOf[from])
           \/ route = "release" /\ Enqueue(c, "release", Undefined, http[c].id, Undefined)
           \/ /\ route = "resize"
              /\ \E estimate \in Amounts : Enqueue(c, "resize", Undefined, http[c].id, estimate)
           \/ route = "record" /\ BeginRecordActual(c)
        /\ Handled(c, "calling", http[c].id, 0)
        /\ UNCHANGED <<flow, listing>>

NewId == CHOOSE id \in DOMAIN reservations' \ DOMAIN reservations : TRUE

Respond(c) ==
    /\ Connection(c, "calling")
    /\ \/ CommitReserve(c) \/ CommitSettle(c) \/ CommitRelease(c)
       \/ CommitResize(c) \/ CommitRecordActual(c) \/ StoreFailure(c)
    /\ Answered(c, IF answer' = "reserved" THEN NewId ELSE http[c].id,
                Status(answer'))
    /\ UNCHANGED <<flow, listing>>

\* GET /api/reservations?olderThanMs: listReservations reads the ledger and then the clock.
Listed(now) == {id \in DOMAIN reservations : now >= reservations[id].createdAt + StaleAge}

ListReservations ==
    /\ listing' = Listed(clock)
    /\ UNCHANGED <<vars, http, flow>>

-----------------------------------------------------------------------------
\* The workflows
Send(w, c) ==
    /\ flow[w].stage \in Requesting
    /\ flow[w].connection = Undefined
    /\ Receive(c, w, flow[w].stage, flow[w].id)
    /\ flow' = [flow EXCEPT ![w].connection = c]
    /\ UNCHANGED <<vars, listing>>

GiveUp(w) ==
    /\ flow[w].connection # Undefined
    /\ flow' = [flow EXCEPT ![w].connection = Undefined]
    /\ UNCHANGED <<vars, http, listing>>

\* What a workflow does with an answer: any other than 500 settles the matter.
After(stage, status) ==
    CASE status = 201 -> "paying"
      [] status \in {200, 404} -> "settled"
      [] status = 500 -> stage
      [] OTHER -> "stopped"

Deliver(c) ==
    LET w == http[c].from
    IN  /\ Connection(c, "answered")
        /\ http' = [http EXCEPT ![c] = NoRequest]
        /\ flow' = IF Waits(w, c)
                   THEN [flow EXCEPT ![w] =
                            [stage |-> After(flow[w].stage, http[c].status),
                             connection |-> Undefined, id |-> http[c].id, paid |-> flow[w].paid]]
                   ELSE flow
        /\ UNCHANGED <<vars, listing>>

\* The paid step runs, or is known not to have run; then the reservation is left to the operator.
Pay(w) ==
    /\ flow[w].stage = "paying"
    /\ \/ flow' = [flow EXCEPT ![w].stage = "settle", ![w].paid = TRUE]
       \/ flow' = [flow EXCEPT ![w].stage = "stopped"]
    /\ UNCHANGED <<vars, http, listing>>

CrashWorkflow(w) ==
    /\ flow[w].stage \in Requesting \cup {"paying"}
    /\ flow' = [flow EXCEPT ![w].stage = "stopped", ![w].connection = Undefined]
    /\ UNCHANGED <<vars, http, listing>>

\* The paid operation behind the reservation did not happen and is not going to: whoever was
\* given the id is over and did not pay, and nobody still waits for the answer that has it.
Abandoned(id) ==
    /\ \A w \in Workflows :
        flow[w].id = id => flow[w].stage = "stopped" /\ ~flow[w].paid
    /\ \A c \in Callers :
        http[c].route = "reserve" /\ http[c].id = id => ~Waits(http[c].from, c)

\* Release only after verifying that the paid operation did not happen.  Other workflows, also
\* under the same key, may be anywhere, and the listing may be as old as it likes.
OperatorReleases(c) ==
    \E id \in listing :
        /\ Abandoned(id)
        /\ Receive(c, "operator", "release", id)
        /\ UNCHANGED <<vars, flow, listing>>

\* Other clients change estimates and record costs nobody reserved.
OtherClient(c) ==
    /\ \/ /\ "resize" \in Operations
          /\ \E id \in DOMAIN reservations : Receive(c, "other", "resize", id)
       \/ /\ "recordActual" \in Operations
          /\ Receive(c, "other", "record", Undefined)
    /\ UNCHANGED <<vars, flow, listing>>

NextSidecar ==
    \/ \E c \in Callers :
        Reject(c) \/ Dispatch(c) \/ Respond(c) \/ Deliver(c) \/ OperatorReleases(c)
        \/ OtherClient(c)
    \/ \E w \in Workflows : (\E c \in Callers : Send(w, c)) \/ GiveUp(w) \/ Pay(w) \/ CrashWorkflow(w)
    \/ ListReservations
    \/ Tick /\ UNCHANGED sidecarVars

SpecSidecar == InitSidecar /\ [][NextSidecar]_<<vars, sidecarVars>>

-----------------------------------------------------------------------------
\* SpendFirewall.status
ChargedGroups(p) ==
    {PolicyGroup(p, charges[i].context) : i \in {j \in DOMAIN charges : MatchesPolicy(p, charges[j].context)}}

ListPolicyGroups(p) ==
    {PolicyGroup(p, charges[i].context) :
        i \in {j \in DOMAIN charges : MatchesPolicy(p, charges[j].context)}}
    \cup {PolicyGroup(p, reservations[id].context) :
        id \in {k \in DOMAIN reservations : MatchesPolicy(p, reservations[k].context)}}

ContextFromPolicyGroup(group) ==
    [field \in Fields |-> IF field \in DOMAIN group THEN group[field] ELSE Undefined]

\* policyUsage of a group, and with no group that of all records that match.
GroupUsage(p, group) ==
    ProjectedUsd(reservations, charges, p, ContextFromPolicyGroup(group), clock)

WholeUsage(p) ==
    LET Counts(record) == /\ InBudgetWindow(record.createdAt, Policy[p].window, clock)
                          /\ MatchesPolicy(p, record.context)
    IN  Total([i \in {j \in DOMAIN charges : Counts(charges[j])} |-> charges[i].costUsd])
        + Total([id \in {k \in DOMAIN reservations : Counts(reservations[k])} |->
                    reservations[id].estimatedCostUsd])

\* The status page adds up: the usage shown for a grouped policy is that of its groups together,
\* each record in one of them, callers without the field included (firewall.ts status,
\* policy.ts listPolicyGroups).
StatusAddsUp ==
    \A p \in {q \in PolicyIds : Policy[q].groupBy # {}} :
        Total([group \in ListPolicyGroups(p) |-> GroupUsage(p, group)]) = WholeUsage(p)

Charges(id) == {i \in DOMAIN charges : charges[i].reservationId = id}

\* Whoever pays is accounted for, across answers lost or given up, late duplicates, crashes and
\* the operator's releases: the reservation is open or charged; and a workflow that takes 200 or
\* 404 for the end of its settle has been charged exactly once (server.ts settle, mapError).
PaidIsAccounted ==
    \A w \in Workflows :
        /\ flow[w].paid => flow[w].id \in DOMAIN reservations \/ Charges(flow[w].id) # {}
        /\ flow[w].stage = "settled" => Cardinality(Charges(flow[w].id)) = 1

\* A workflow run again under its key, by a second trigger or after a lost answer, never pays a
\* second time: at most one execution gets past reserve (docs/n8n.md, step 3; firewall.ts reserve).
PaidOnce ==
    \A v, w \in Workflows :
        /\ v # w /\ flow[v].paid /\ flow[w].paid
        /\ RequestOf[v].idempotencyKey # Undefined
        => RequestOf[v].idempotencyKey # RequestOf[w].idempotencyKey
=============================================================================
