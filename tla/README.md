# AI Spend Guard: TLA+ models and proofs

AI Spend Guard stops paid calls before they are made: an application reserves an estimate
against its budgets, runs the call, and settles the reservation with the real cost. This
directory models the accounting core of the program, the stores under it and the clients above
it, checks the models with TLC and proves most of what TLC checks with TLAPS, for every value of
the constants.

Paths below are relative to the repository root (`src/firewall.ts`); line numbers are in
`PROJECT.json`, whose `map` names the lines every definition stands for.

## The system

| Component | State | Operations | Made correct by |
| --- | --- | --- | --- |
| Policy evaluation (`policy.ts`) | none | matching, grouping, windows, usage, `evaluateSpendRequest`, `postSettlementViolations` | all matching enforced policies must agree; open reservations count |
| `SpendFirewall` (`firewall.ts`) | the ledger of its store: open reservations and charges | `reserve`, `settle`, `resize`, `release`, `recordActual`, `protect`; reads `explain`, `status`, `simulate` | budgets hold under interleaving; nothing is charged twice or forgotten; one operation per idempotency key |
| `FirewallReservation` (`firewall.ts`) | `closed`, the last known estimate | `resize`, `topUp`, `settle`, `release` | agrees with the ledger it caches |
| Fingerprint (`fingerprint.ts`) | none | `spendFingerprint`, `normalizeContext` | equal exactly for equal intents |
| `LedgerStore` (`types.ts`) | one ledger | `read`, `transact` | atomicity |
| `MemoryStore`, `JsonFileStore` (`store.ts`), `Mutex` (`mutex.ts`) | ledger object or file, lock file, promise chain | the same | mutual exclusion, a ledger that is always old or new, release after failure, fail closed |
| `NodeSqliteStore`, `PostgresStore` | a row of a database, a mutex per path | the same | transaction and rollback on every path |
| `AiSpendGuard` (`guard.ts`, `windows.ts`) | the ledger of its store | `reserve`, `settle`, `release`, `record`, `protect`, `status` | the limits of its scopes; errors that describe the ledger |
| Vercel middleware (`vercel-ai.ts`) | per stream: `finalized`, `reconciliationNotified` | `wrapGenerate`, `wrapStream` (pull, cancel) | a stream settles or asks for reconciliation, not both |
| Plans, contracts, policy tests (`plan.ts`, `contract.ts`, `policy-tests.ts`) | none | verdicts on a copied ledger | a safe plan runs without denial |
| HTTP sidecar, command line (`server.ts`, `cli.ts`) | none beyond the firewall | one firewall operation per request or invocation | the same ledger, ids named by clients |
| Doctor, configuration, costs, templates, dashboard, OpenAPI | none | input, output, constants | - |

How they interact: applications, middleware, sidecar and command line call `SpendFirewall`. Each
operation checks its arguments and reads the clock synchronously, then hands a function to
`store.transact`, which runs it on the ledger and saves what it left. Callbacks (`onDecision`,
`onWarning`) run after the transaction. Several processes may share one ledger file or database;
within a process a promise-chain mutex orders the transactions of a store, between processes only
the lock file or the database does.

What is hard here: calls that commit in another order than they read the clock; several operations
racing for one reservation; budgets whose windows move under open reservations; answers lost after
the commit and the retries that follow; a lock file whose owner died; file operations that fail
half-way; a COMMIT nobody heard the answer of; callbacks that throw after the commit; a stream
cancelled while it settles; clients that repeat a request that is still running. `hazards` in
`PROJECT.json` lists them at their lines.

## Modules

| Module | Models | Extends |
| --- | --- | --- |
| `Totals` | sums of amounts, as the number of units they hold | `Naturals`, `FiniteSets` |
| `SpendPolicy` | the operators of `policy.ts` | `Totals` |
| `SpendFirewall` | the operations of `firewall.ts` over the ledger | `SpendPolicy` |
| `LedgerStore` | abstract: what `transact` and `read` promise; also `MemoryStore` | - |
| `JsonFileStore` | `store.ts` and `mutex.ts` at the grain of awaited file operations | instance of `LedgerStore` |
| `SqliteStore` | `sqlite-store.ts`: stores and processes on one database file | - |
| `PostgresStore` | `postgres-store.ts`: clients, pools and server sessions on one row | - |
| `DatabaseStores` | a deployment of one of the two, and what both promise | instances of both and of `LedgerStore` |
| `Protect` | `protect` and `FirewallReservation` over the actions of the firewall | `SpendFirewall` |
| `Sidecar` | `server.ts` with its clients, and the status listings of `firewall.ts` | `SpendFirewall` |
| `SpendPlan` | `plan.ts`, the plans of `contract.ts`, and the workload they announce | `SpendFirewall` |
| `VercelMiddleware` | one call of `vercel-ai.ts` with its guarded stream | `Naturals` |
| `AiSpendGuard` | `guard.ts` with its handle and `protect` | `Totals`, instance of `SpendPolicy` |
| `Doctor` | `doctor.ts` and its part in `contract.ts` | instance of `SpendPolicy` |
| `MC...` | small instances for TLC; `VercelMiddleware` needs none | the module they are named after |
| `TotalsTheorems` | proved facts about `Total` | `Totals` |
| `SpendFirewallProofs` | proved properties of `SpendFirewall`: its ledger, and the limits of calendar and rolling windows | `SpendFirewall`, `TotalsTheorems` |
| `JsonFileStoreProofs` | proved properties and refinement of the JSON store | `JsonFileStore` |
| `DatabaseProofs` | proved properties and refinement of the database stores | `DatabaseStores` |
| `ClientProofs` | proved properties of protects and handles, of the sidecar and of plans | `Protect`, `Sidecar`, `SpendPlan`, `SpendFirewallProofs` |
| `GuardProofs` | proved properties of the older guard | `AiSpendGuard`, `TotalsTheorems` |
| `VercelProofs` | proved properties of the middleware | `VercelMiddleware` |
| `DoctorProofs` | what a passed contract guarantees | `Doctor` |

### SpendFirewall and SpendPolicy

`reservations` and `charges` are `state.reservations` and `state.charges` of the ledger. A call is
two steps. `Begin*` is what runs before the first `await`: normalisation of the request and the
clock reading, both kept in `call[c]`. `Commit*` is the whole function given to `transact`: the
lookup by key, the evaluation, the change of the ledger, and the answer. `ahead[c]` is the mutex:
the callers whose transactions come before c's. Callers in one `Lane` share a mutex; lanes are
processes, or callers of a store without one. `StoreFailure` is a transaction that throws without
effect; every successful commit may also answer `store-error` with its effect in place, which is a
lost answer, a callback that throws or a lock file that cannot be removed. A caller may use any
reservation id ever issued, since the sidecar and the command line take ids from clients.

`answer`, `admission` and `told` are history: the outcome of the last step; for each reservation
the time it was created and the clock value of the last evaluation that approved its amount; and
for each charge the violations its caller was told of, or `Undefined` if there were some and the
answer was lost. The ledger keeps no violations: a settle that is repeated after a lost answer
gets not-found and learns nothing of them.

A resize that increases takes the reservation out, evaluates, and puts the old or the new one in
again (`PutBack`); the model does it in the same order, in one step as in the transaction.

Abstractions. Amounts are whole units; the `Number.EPSILON` slack of the comparisons and rounding
are left out. Time is a number of ticks, a day `DayLength` ticks and a month `MonthLength`. A
context maps fields to values or to `Undefined`; a tag is one more field, and a policy's tags are
ANDed like its other fields. A policy group is the tuple of values of its fields; the code joins
them with `|`, which could only identify groups whose values contain that character. A fingerprint
is the triple it is a digest of. Metadata is not modelled.

### LedgerStore and JsonFileStore

`LedgerStore` says what `SpendFirewall` relies on: each call takes effect at once, at some point
between its begin and its answer; a function that throws has no effect; a call that fails may or
may not have had one. `JsonFileStore` is the program: mutex, `open(..., "wx")`, writing the pid,
load, function, temporary file, rename, unlink, each with its failure, the deadline of the lock
loop, and processes that die at any step and start again without their calls but with their files.
The ledger is the sequence of the transactions in it, which tells apart lost, doubled and
reordered updates whatever the transactions do. The refinement maps `file` to the ledger and the
rename (for a read, the load) to the effect.

### SqliteStore, PostgresStore and DatabaseStores

A deployment keeps its ledger in one of the two (`backend`), and the firewall relies on the same of
both, so `DatabaseStores` states it once: the calls end, and either store refines `LedgerStore`,
with the same abstraction of the ledger as above. node:sqlite is synchronous, so a SQLite
transaction has two steps, before and after the await of its function: `Begin` (BEGIN IMMEDIATE,
load) and `Commit` or `Abort`. Stores of one process share the mutex of the path, processes the
write lock `writer`. `Leave` settles the promise and passes the mutex on. A store may be closed, and
a process may end, at any step; a call on a closed store fails at its BEGIN.

PostgreSQL is external: `session` and `lock` are what the server keeps, `pc` what the client does.
`Drop` separates the two: the client throws, while the server may still carry out a COMMIT it had
received (`ServerCommits`) or roll back later (`ServerEnds`). The abstract effect is the server's
commit, so a call may fail first and take effect afterwards, which `LedgerStore` allows; what makes
this harmless for a retry is `LoadedIsFinal`: nobody gets a ledger that such a commit can still change.

### Protect, Sidecar and SpendPlan

These three compose clients with `SpendFirewall`: each of their store steps is an action of it,
conjoined with what the client does with the answer. `Protect` runs one of its `Programs`, which say
what the application uses (`protect`, or `reserve` and some calls on a handle). It has one task per
caller with the stages of `protect`, and handles with the cached estimate and the closed flag; the
step `Resume` separates the store's answer from the assignment after the await. `Sidecar` has one
connection per caller; a request that was given up stays in the handler and its answer is
dropped. A workflow that crashes, is refused or does not pay goes no further (`stopped`).
Its clients follow the documentation (`docs/http-sidecar.md`, `docs/n8n.md`): they are external, and
what is shown holds for clients that keep to it: settle is repeated until it is answered, and the
operator releases an id, from a listing of any age, only when it is `Abandoned`: whoever was given
it is over and did not pay, and nobody waits for the answer that has it. Other workflows may be
anywhere meanwhile, also about to reserve under the key that the release frees. `SpendPlan` checks a
plan once and then runs its operations; `stale` is history and says that the ledger is not the one
the check saw. There, workers' answers are not lost, an operation costs no more than its estimate,
and there is no required context, which `plan.ts` does not check.

### VercelMiddleware

One call. The guarded stream has two activities, the pull in flight and `cancel`; `pc` and
`cancel` say where they are. The rules of ReadableStream (one pull at a time, the stream is closed
at once when it is cancelled, `enqueue` then throws) are the guards and `PullEnds`. The ledger is one
reservation that settles or releases, and each may fail with or without effect.

### AiSpendGuard

One task per caller, with a stage for every await: `Reserve`, `Settle`, `Release` and `Record` are
the transactions, `Reserved`, `Settled`, `Released` and `Recorded` what runs after them, and
`ThrowsAfterCommit` is the warning callback or the status read that throws in between. The guard has
no idempotency keys. `DecidesAsFirewall` instantiates `SpendPolicy` with the configuration turned
into policies and compares the decisions on every reachable ledger.

### Doctor

A configuration is chosen, inspected and judged by a contract. Its state is small; what matters is
that the findings are compared with the firewall's own rules for every configuration of at most two
policies.

## Runs

| Run | Asks | Bounds |
| --- | --- | --- |
| `day` | do a daily and a monthly budget hold, and is an overspend reported, under reserve, settle and resize of two processes over a change of day? | 2 callers in 2 lanes, 3 reservations, 2 charges, limits 2 and 3, amounts 1 and 2, days 0 and 1 of one month |
| `ledger` | with all five operations racing: do grouped call and concurrency limits, a budget that matches one user, and an observing policy hold together, does one key stay on one record, one id become one charge, and nothing get lost, also by a denied resize? | 3 policies, a named user with a key and two intents, an absent one without, absent estimates, a request without provider, 3 reservations, 2 charges, 1 day |
| `json_file` | is the JSON store an atomic store through failures and a crash, and does every call on it end? | 2 processes, 3 writers (2 of them behind one mutex) and a reader, 1 crash |
| `databases` | are the SQLite and the PostgreSQL store atomic, do they release locks, mutex and connections on every path, and does every call end? | 2 processes, 3 writers and a reader; SQLite: 3 stores and 1 crash; PostgreSQL: pools of 1, any number of drops and crashes |
| `clients` | is paid work held, run once per key, truthfully reported, is a closed handle's reservation gone, does a rolling budget hold behind one mutex, and does every call get through? | 2 callers in one process, 3 programs, a known and an unknown estimate under 1 key, 2 reservations, 2 charges, both error options, a rolling budget of 2 over 1 tick, 2 ticks |
| `vercel` | is every open reservation reported, once, and every finish part paid for? | 4 parts, both kinds of call, both options |
| `guard` | do the guard's limits hold, does it decide as the firewall, and what do `protect` and handles leave behind a failing store and failing callbacks? | 2 callers, a provider and the global scope, 2 reservations, 2 charges, 2 days of one month |
| `plan` | does a plan that passed run without denial? | 2 workers and another caller, plans of 2 operations with counts 0 to 2, 3 reservations, 3 charges, 2 days |
| `sidecar` | is everybody who paid accounted for, nobody twice, and do the groups of the status page add up? | 2 workflows on one key, an anonymous recorder, 2 connections, 2 reservations, 2 charges, 2 days |
| `doctor` | does a strict contract leave a gap? | all configurations of at most 2 of 50 policies, 2 fields |
| `rolling_lanes` | violated: the rolling budget of `clients` with a second process | 2 reservations |
| `vercel_failed` | violated: a stream that errored or was cancelled stays open | 3 parts |

Why the bounds are enough for what the runs ask: a race needs two calls in flight; overselling needs
a limit that two requests reach and a third exceeds; a stale clock needs one change of day between
reading and commit; a key needs a first use, a settlement or release, and a second use; the lock
needs a holder, a waiter and a call behind the waiter. Callers and reservation ids are symmetric
(`Symmetry`): nothing in the specification tells them apart. The bounds are `MaxTime`, `MaxCharges`,
the size of `Ids`, `MaxCrashes`, `PoolSize` and `MaxParts`; `RoomForReservation` and `RoomForCharge`
keep calls that might outgrow the ledger's bounds from beginning. Deadlock is checked in the passing
runs of the firewall, where a caller can always begin a call that is refused; in those of the stores
all calls may have ended, and in those of the clients (`clients`, `guard`, `plan`, `sidecar`,
`vercel`, `doctor`) reservation ids, charges or parts run out, so it is off there.

What the passing runs show. In every *calendar* window and group, what the firewall admitted in that
window never exceeds `limitUsd`, `limitCalls` or `maxConcurrent` (`BudgetHeld`, `CallsHeld`,
`ConcurrencyHeld`), in whatever order calls commit. `BudgetHeld` counts a charge at no more than its
estimate, and only reservations created and last approved in the window. The code stamps a charge
with the time of its settlement, keeps a record's `createdAt` when it grows, and counts for
`maxConcurrent` the reservations of the current window: what a settlement moves into a day, an
increase approved on a later day, and operations in flight over the change of day are outside what
it enforces, although `README.md` and `firewall-types.ts` describe the limits without these
exceptions. `OverspendReported` says how far what settlements do can be silent: while settled and
approved spend is above the limit, the last settlement of that window and group told its caller so,
or its answer was lost after the commit. In the second case nobody learns of the overspend until the
next settlement or the status page. `ChargedOnce`, `NeverForgotten` and `OneRecordPerKey` are the
ledger's bookkeeping under races and lost answers. For the store, `LockProtects` is mutual
exclusion, `OrphanFailsClosed` says that nobody goes around a lock file its owner left behind, and
`ImplementsLedgerStore` that all of it together is atomic: an `ok` is in the ledger once, an
exception is not. `LoadedIsFinal` and `LockEnds` are what this rests on in the databases.

For the clients, `PaidWorkIsHeld` and `PaidIsAccounted` say that money spent never leaves the
ledger, `DuplicateExecutionBlocked` and `PaidOnce` that a key is worth one execution, across lost
answers, repeated requests and releases of abandoned reservations, `OutcomeIsTrue` and
`AnswerIsTrue` that what callers and consumers are told is what the ledger says. `PassedPlanRuns` is
the promise of a plan, and its premise is exact: only other callers' changes, or a contract's empty
ledger, can make a passed plan be denied. `DecidesAsFirewall` makes the older guard a special case
of the firewall.

What the violated runs show is where a documented promise is wider than the code: rolling windows
with more than one process, and streams that failed or were cancelled and are charged all the same.
Each is a finding in `PROJECT.json`, with the sentence it contradicts. Three smaller divergences are
behaviours of the models that no property asks about: a settlement whose answer was lost is
reported as kept open; `topUp` adds to a cached estimate and can lower the reservation; the
doctor does not take an empty `match` for a catch-all.

### Fairness

`JsonFileStore`, `DatabaseStores` and `Protect` have liveness. In the stores, weak fairness is
assumed of the steps a running call takes by itself: promises resolve, file operations and
statements return, deadlines and busy timeouts pass, so the event loop eventually runs the call's
next step; for PostgreSQL also of the server, which carries out or ends its sessions and notices
dead connections. Each call is made once, so nobody overtakes forever. Nothing is assumed of
callers, failures, crashes or restarts. `CallsEnd` is an end, not success: an orphaned lock file
makes every later call time out. In `Protect` weak fairness is assumed of the store's answer to the
call at the head of the mutex, which is `CallsEnd` of the stores; nothing is assumed of paid
operations. `WaitsEnd` then says that the mutex loses nobody.

## Proofs

`TypeCorrect` proves the type invariant, with one fact per action. `StepHasEffect` then reduces the
thirteen actions to what they do to the ledger: reserve, settle, shrink, grow, release, record, or
nothing. The other proofs use these effects and not the actions.

`NeverChargedTwice` (`ChargedOnce`) and `KeysAreUnique` (`OneRecordPerKey`) share one inductive
invariant, `LedgerInv`: the type invariant, both properties, and `HistoryOK`, which says that the
reservation of every charge is in `admission`. `ChargedOnce` alone is not inductive: from a state
where a charge carries an id not yet issued, `reserve` could issue it. `HistoryOK` and the guard
that new ids are unused exclude this. `OneRecordPerKey` needs `KeyFree` for new records and that a
settlement moves its key from the one reservation that has it to the one new charge.

`BudgetNeverExceeded` (`BudgetHeld`) fixes a policy, a group and a window and follows the admitted
amount, `OpenAmounts` plus `SettledAmounts`, through the effects. A reservation or an increase that
counts in the window was allowed on a ledger whose counted spend covers what was admitted
(`AllowedFits`, `ReservedCovers`), because two times in one calendar window count the same records
(`SameCount`): this is the step that a rolling window does not have. An increase is evaluated on the
ledger without its own reservation (`GrowWithinBudget`). A settlement moves at most the estimate
from the open to the settled amounts (`SettleWithinBudget`): here `HistoryOK` is needed, since the
charge only counts as admitted if the reservation it replaces did. Shrinking, releasing and
recording add nothing. `LedgerInv` also gives that an increase does not disturb admitted charges:
an open reservation has none (`ChargedOnce`).

`CallsNeverExceeded` (`CallsHeld`) and `ConcurrencyNeverExceeded` (`ConcurrencyHeld`) are the same
argument with cardinalities: a step admits one operation for which there was room, moves one from
open to settled, or only removes some (`StepCounts`).

`OverspendIsReported` (`OverspendReported`) cannot follow the admitted amount, since it is about
real costs. It is inductive by itself over the effects: a reservation or increase that counts was
allowed on what is settled and open, so it keeps the sum within the limit (`OpenStep`); a
settlement or record that leaves the sum above it finds exactly this in its own ledger, the open
amounts it evaluates included, and tells of it or loses its answer (`ChargeTells`); it is then the last
charge of the window. `NothingIsForgotten` (`NeverForgotten`) is an action property and is read off the
effects; what a denied resize took out and put back is the ledger it found (`TakenOutAndBack`).

### Stores

`StoreInv` of the JSON store adds two facts to `TypeOK` and `LockProtects`: between load and rename
the ledger a call works on is the one in the file, and only calls of `transact` compute or throw.
It holds because every other writer would have to own the same lock. With it each step of the
store is a step of `LedgerStore` or a stutter (`JsonFileStoreIsAtomic`): the rename is the effect,
a crash answers for the calls it kills. The refinement of the safety part is what is
stated: `LedgerStore` has no fairness.

`SqliteInv` ties the write lock to a transaction that is still computing on an open store, whose
ledger is the one in the database (`SqliteLock`), and says of the mutex that of two running calls of
a process one is ahead of the other and a call that runs is behind nobody (`SqliteMutex`); from
that, `NeverBlocksItself`. `PostgresInv` says the same of row lock and sessions, those whose client
is gone included, and gives `LoadedIsFinal`. `DatabaseInv` is one or the other by `backend`, and
`DatabasesAreAtomic` maps the steps of each.

### Clients

`ClientInv` of `Protect` contains `LedgerInv` of the firewall, so that the clients' steps inherit its
proof; the new part is ownership. A reservation that a `protect` works
on is open and known to that `protect` alone, and reservations of operations have no handle
(`Owned`, `ClientType`); the call a caller has in flight is the one its stage says
(`CallsMatch`), and what clients remember agrees with the ledger (`Remembered`). A commit by one
client therefore leaves the reservations of the others alone (`Same`), and `PaidWorkIsHeld`,
`OutcomeIsTrue` and `ClosedMeansGone` need only be followed through the owner's own steps.
`DuplicateExecutionBlocked` follows from `PaidWorkIsHeld`, `CarriesKey` and `OneRecordPerKey`: two
operations under one key would leave two records with it.

`RollingBudgetNeverShared` (`RollingBudgetHeld`) has the hypothesis `OneMutex`: all callers share a
`Lane`. This is one process with one store, and it is needed: `rolling_lanes` is the counterexample
without it. `RollingInv` says that calls wait in the order in which they read the clock
(`QueueOrder`), so that no record is stamped later than the call at the head of the queue
(`StampsBehind`), and an admission sees every record of its window. It is proved of `Spec` and of
`SpecClients`, the specification of `clients`.

`SidecarInv` contains `LedgerInv` too, and adds what a request on a connection asks for and what its
answer says (`RequestOK`), where a workflow is and what then holds of its reservation (`FlowOK`),
and that no two workflows have one id (`OwnIds`). A workflow's id is the one it keeps or, while it
waits, the one on its connection (`IdOf`): an answer that was given up takes its id along, and the
workflow that repeats the request finds its key taken. A commit on one connection takes nothing away
from the others (`LedgerKeeps`), except a release, and a release only travels for an id whose workflow
is over and did not pay (`Over`), while others go on. What the operator verifies is that much
(`AbandonedIsOver`), and it stays so until the release arrives, however late: who is over does not
move, and ids are issued once (`OverForGood`). `PaidStepsAreAccounted`
(`PaidIsAccounted`) reads this off and takes "at most once" from `ChargedOnce`; `OneWorkflowPays`
(`PaidOnce`) has two records with one key against `OneRecordPerKey`. `StatusPageAddsUp`
(`StatusAddsUp`) needs the types only: the context rebuilt from a group leads back to that group,
so the groups partition the records, and `TotalByGroups` adds them up.

`PlanInv` has three parts beside `LedgerInv`. Of the workload it says that the runs of an operation,
those left, reserving and recorded, are no more than announced, and the open ones no more than
`concurrent` (`RunsAnnounced`), and that each holds and costs at most its estimate (`PlanRecords`). Of
the clock, that no record or call is stamped later (`StampsOK`). And of the others, if nothing they
did is news, that for some time T after all their records and before all calls of workers
the verdict of the check still stands (`FitsSince`): what the others had counted at T,
together with everything announced, fits every enforced policy. A reservation is evaluated at a
time t after T, when no more of the others' records count than at T (their windows only move on,
`OthersFit`), and the plan's own records are at most what was announced (`TotalOfRuns`), so it is not
denied: `PassedPlansRun` (`PassedPlanRuns`), for rolling windows too. `PassedPlansStayWithinTotal`
(`TotalHeld`) bounds the same records by the announced total.

`GuardInv` of `AiSpendGuard` is built in the same way: `LedgerInv` for the ledger, and for each caller
where its call may be and what then holds of its reservation (`TaskOK`). A reservation is either
held by a running call, has a handle, or is protected, never two of them (`TablesOK`, `Owned`), so
each step is shown once for the caller that makes it and framed away for the others. `HardStop`
(`BudgetHeld`) follows the admitted amount of a scope and period through the effects as
`BudgetNeverExceeded` does. `GuardIsAFirewall` (`DecidesAsFirewall`) needs no history: for each scope and
period the policy that stands for it counts the same records (`SameRecords`), hence the same usage
and the same violation (`SameUsage`, `SameViolation`), on every ledger of the right type.

`CallInv` of `VercelMiddleware` splits a call by whether the guarded stream exists. Before, and for
all of a generate, a hook call is the last thing that happens. While it exists, a stream that
is closed or errored, or a pull about to make it so, has told the hook or comes after the charge,
and `notified` counts the hook calls. The three properties are read off it.

`DoctorInv` says that findings are the report of this configuration and that a contract passes on
them only. `PassedContractLeavesNoGap` (`ContractLeavesNoGap`) then goes over the codes that are
absent: no `unknown-estimate-allowed`, no `no-global-cap`, and no grouping by a field that is not
required (`group-context-not-required`), which an accepted context therefore names.

### Assumptions

The proofs assume what the modules assume of their constants, and TLC evaluates in the runs:
`PolicyAssumption` and `FirewallAssumption` (types, a finite set of reservation ids, validated
policies), `StoreAssumption` and `DatabaseAssumption` (who calls which store of which process;
`Nobody` is no transaction and `Absent` no ledger), `GuardAssumption` (types, `Undefined` is no
amount and no id), `SidecarAssumption` (types of the workflows' requests and costs; `Undefined` is
no connection), `PlanAssumption` (plans of finitely many operations that `simulateSpendPlan` does
not throw at for their numbers; finitely many workers), `DoctorAssumption` (policies group by known
fields) and `MiddlewareAssumption`. The only further hypothesis is `OneMutex`.

`TotalsTheorems` proves that a sum is a natural number, grows with its terms, gains or loses what is
added or taken out, and is that of its groups together. `Total` is the cardinality of a set of
units, which TLC evaluates and the provers can reason about, where a recursive sum would be beyond
them.

Only model-checked: liveness (`CallsEnd`, `WaitsEnd`), which the proof system does not reach. Every
invariant and every action property of the passing runs is a theorem.

## Plan

Done, in this order: `SpendPolicy`, `SpendFirewall`, `LedgerStore` and `JsonFileStore`, with the
proofs above; then `Protect`, the database stores, the Vercel stream, `AiSpendGuard`, plans, the
sidecar and the doctor; then the proofs of the stores, the clients, the guard and the middleware,
and last those of the sidecar, the plans and the doctor. Nothing of the plan is left. What could come
next is in the hazards without a property: concurrent `topUp` calls, group keys whose values contain
the separator, and sums of floating-point amounts.

## Not modelled

Floating-point rounding and date arithmetic (left to their libraries); warnings of the firewall,
messages and metadata (no property here depends on them); policy tests (sequential calls of
modelled operations on a private store); HTTP parsing and headers, command line parsing,
configuration files, templates, the dashboard and the OpenAPI document (input and output); damage
to the ledger file or a crash of the host (`load` refuses a damaged file, which is a failed load).
The `components` of `PROJECT.json` give the reason for each part.
