# AsterRouter: a TLA+ development

AsterRouter is an enterprise AI gateway. Clients call it with the protocols of
the large model providers; it picks a provider account, forwards or queues the
work, follows provider tasks to their end, and bills what was used.

This directory holds TLA+ modules translated from the Go source, TLC
configurations that model-check them on small instances, and proofs that the
TLA+ proof system (TLAPS) checks for every instance. `PROJECT.json` maps each
definition to the lines it models and lists the components, the runs, the
mutants that show that each property can fail, the hazards and the theorems.

    tlc -workers 2 -config DurableJobWorkers.cfg MCDurableJob
    tlapm DurableJobProofs.tla

## The system's parts

Paths are under `backend/internal/controlplane/` unless they say otherwise.

| Part | Source | Modules |
|---|---|---|
| Job rows: status table, compare-and-set, claims, leases, cancellation | `ai_job_{model,repository,admin,cancellation}.go` | `AIJobModel`, `DurableJob` |
| Dispatch worker, reconciler, provider progress | `ai_job_worker.go` | `DurableJob` |
| Delivery worker, lease heartbeat | `ai_job_delivery_{worker,lease}.go` | `DurableJob` |
| Delivery queue, in process and on Redis | `ai_job_delivery_{queue,redis}.go` | `AIJobDeliveryQueue`, `MemoryAIJobDeliveryQueue`, `RedisAIJobDeliveryQueue` |
| Attempts and dispatch states | `operation_{service,repository}.go`, `provider_dispatch.go` | `AIAttemptModel`, `ProviderTaskStatus` |
| Billing holds | `billing_hold*.go` | `BillingHoldModel`, `DurableJob` |
| Usage settlement, ledger | `operation_usage.go`, `operation_repository.go` | `DurableJob` |
| Provider capacity: leases of an account's concurrency | `provider_capacity.go`, `provider_capacity_service.go`, `ai_job_worker.go` | `ProviderCapacity` |
| Transactional outbox | `transactional_outbox*.go`, `operation_repository.go` | `TransactionalOutbox` |

How they interact: a client creates a job; a scheduler claims it (status
`dispatching`, a lease and a fence token) and publishes an envelope on the
delivery queue; a delivery worker receives the envelope, numbers its attempts,
and submits the job to the first candidate whose account gives it a lease of its
concurrency, which is kept until the outcome is known. The answer may be
lost, so the attempt is written before and after the call, each time with a
compare-and-set on its dispatch version. A reconciler polls every attempt whose
outcome is open. When the provider's task ends, whichever actor sees it first
charges the usage, settles the hold and finishes the job and the attempt. The
transactions that create and move a job, settle usage or change an artifact append
an event to the outbox, from which publishers send it to a broker.

## Modules and the code

**`ProviderTaskStatus`, `AIJobModel`, `AIAttemptModel`, `BillingHoldModel`** are
the rows and the pure operations on them: the status tables, the comparison of
versions, what a claim, a cancellation, a submission or an observation writes.
They have no variables. An operation that the store refuses returns the row it
was given, and its caller tells a refusal by that.

**`DurableJob`** composes them into the life of one job. `job`, `attempts`,
`hold` and `charged` are the rows of the store; `tasks` is what exists at the
provider; `actors[x]` is the local state of one running call of
`dispatchClaimedAIJob` (a worker) or `reconcileAIAttempt` (a reconciler): a
program counter, the job row it has read, the attempt number, the attempt row,
the provider's answer, and the candidates it has given up. One action is the code
from one store or provider call to the next, and every other actor may run in
between. `applyAcceptedProviderProgress` is shared by both kinds of actor. Job
rows, attempts and holds of different jobs never meet in this code (they do in
admission, fairness and capacity), so one job is the whole of this protocol.

Failures are actions: an answer that is lost although the task was created, a
store call that fails, a process that dies, a lease that runs out while its
worker is busy, a redelivered envelope, a poll that learns nothing, an operator
who reschedules an attempt. `setbacks` counts them and `MaxSetbacks` bounds them.

The provider is outside the source. Two things are taken from how the code uses
it: calls with the same dispatch key create at most one task, and the answer
"proven not created" to a *reconciliation* is given only when there is no task
and no call under way that could create one. The same answer to a *call* says only
that this call created nothing: the provider may accept another call with the key,
before or after. A refusal is an ordinary answer and is not counted as a setback. A
call whose process has died and which reaches the provider late behaves as a worker
that stays in its call and dies afterwards. The two store calls of
`ProveAIAttemptNotCreated` are one step. The transition table lets an ended job
expire; no code under `src/` asks for that step, so no action takes it.

**`AIJobDeliveryQueue`** is what both queues promise: an envelope is absent,
waiting, leased, acknowledged or dead-lettered; a lease carries a new token; only
the latest token settles the envelope; a consumer may forget what it holds.
**`MemoryAIJobDeliveryQueue`** is the in-process queue, one action for each
operation under its mutex, with `reclaimExpiredLocked` inside `Receive` as in the
code. **`RedisAIJobDeliveryQueue`** is the Redis queue: the stream as a sequence of
messages, the delayed set, the dedupe keys and the dead letters. Its `Receive` is
four steps (promote due messages, reclaim expired ones, `XREADGROUP`, establish
the leases) and other consumers run between them; each Lua script is one step. Time
is three actions: a lease expires, an unleased message has been idle for long
enough, a delay elapses. `Extend` is what keeps the first of these from happening.
Left out: the expiry of dedupe keys after seven days, malformed messages, the scan
limit, delivery counts and reasons, and the wake-up of waiting consumers.

**`ProviderCapacity`** has several operations that compete for the accounts of the
providers. `leases` is the in-process capacity store, `attempts` and `tasks` are as
in `DurableJob` with one attempt for each operation, and `actors` run the same two
calls with the steps that touch a lease: `AcquirePermit` prunes the account, shares
a lease of the same id or takes a new one within the limit; `RetainPermit`,
`restoreProviderCapacityForAttempt` and `syncProviderCapacityForAttempt` restore a
lease without a look at the limit; `ReleasePermit` and the end of an attempt release
it; `LeaseExpires` is a heartbeat or a reconciler that is late. `SubmitDispatch` takes
the attempt from its stored state to "submitted" in one step: the comparisons in
between, which `DurableJob` has one by one, do not touch a lease. The history variable
`dropped` has the attempts whose lease went while a worker held a permit or the
attempt was open. Jobs, holds and billing do not touch leases and are left out, as are
the limits per minute, which only refuse more, and the Redis and Postgres stores.

**`TransactionalOutbox`** has the event rows of several aggregates and the
publishers that lease a batch, publish one event at a time and record the result.
`sent` and `abandoned` are history: what the broker has seen, and what was ever
dead-lettered.

The `MC*` modules declare the model values and the symmetry sets.

## Runs

| Run | Instance | What it shows |
|---|---|---|
| `workers` | 2 workers, 1 reconciler, 1 provider, 2 claims, 1 setback | version comparisons fence every stale actor; two calls for one attempt run at once only when the first was given up; a bound task is never submitted again; a proof of non-creation is undone only by a call given up before; observations out of order do not take a finished task back |
| `failover` | 1 worker, 1 reconciler, 2 providers, 2 claims, 2 setbacks | the job, attempts, charges, hold and provider tasks agree; closed rows stay closed |
| `progress` | 1 worker, 1 reconciler, 1 provider, 2 claims, 1 setback, fair | a claimed job leaves dispatch; a running job ends when its task has ended |
| `duplicate` | 1 worker, 1 reconciler, 2 providers, 1 claim, 2 setbacks | *finding 1* |
| `release` | 1 worker, 1 reconciler, 1 provider, 1 claim, 2 setbacks | *finding 2* |
| `outbox_order` | 2 aggregates of 2 events, 2 publishers, 1 attempt | the broker first sees events in version order; settled events stay settled |
| `outbox_progress` | 1 aggregate of 2 events, 2 publishers, 2 attempts, fair | dead letters have used up their attempts; every event is settled |
| `memory_queue` | 2 envelopes, 2 consumers, 3 setbacks, fair | the queue implements the interface; a lease is lost only when it ran out; every envelope is settled |
| `redis_queue` | 2 envelopes, 2 consumers, 3 setbacks, fair | the queue implements the interface; an envelope has one copy; every envelope is settled |
| `redis_lease` | 1 envelope, 2 consumers, 1 setback | *finding 3* |
| `capacity` | 2 operations, 2 workers, 1 reconciler, 2 accounts of limit 1, 1 setback | an account works on no more attempts than its limit, but for those that lost a lease they needed |
| `capacity_retained` | as `capacity` | *finding 4* |

Why the bounds are enough for the cases that matter. With two claims a worker of
an old claim meets one of a new claim. Two workers with one setback give every
pair of a slow and a second worker on one attempt; one setback lets the first
submission be given up while it is under way, so that a second call is made and
refused, or answered, beside it. Two providers with two setbacks give
every failover: one setback refuses or loses the first call, the other disturbs
what follows. `MaxVersion` limits only how often a *reconciler* takes up an
attempt; writes of workers are not limited by it. In the queues two setbacks are
needed to stall one consumer while another reclaims, and the third disturbs the
recovery. In the outbox two versions and two publishers are the smallest
instance in which order can be lost, and `Limit` 2 lets a batch span aggregates. Two
operations are the fewest that can exceed a limit of one; two accounts let a lease
be held at an account other than the one asked for.

`CHECK_DEADLOCK FALSE` is used where the modelled work ends: a finished job, a
settled outbox, an in-process queue whose envelopes are all settled, operations
that have all ended. The Redis
consumers always poll, so those runs check deadlock.

### Fairness

The runtime loops of the server (`RunTransactionalOutboxScheduler`, the scheduler,
worker and reconciliation loops) run on a ticker for as long as the process does,
and a process that dies is replaced. Each actor's next step therefore has weak
fairness, as has the passage of time (leases, idle times, delays). Nothing makes a
failure happen or a provider end a task; `EndedTaskEndsJob` asks only about
tasks that have ended. Setbacks are finitely many, which is the usual reading
of "eventually" in a system that may always fail again.

## Proofs

All for any sets of actors, providers, aggregates, envelopes and any bounds, from
the named assumptions of the modules only: workers are not reconcilers, providers
and operations are finitely many, bounds are natural numbers. `AIAttemptProofs` has
the lemmas about attempts that the others share.

* `DurableJobProofs`: `TypeCorrect`, `JobVersionsFence`, `AttemptVersionsFence`.
  That a version names one content of a row is not inductive alone: it says
  nothing of an actor that is between a read and a write. The invariant `IInv`
  adds that the current rows evolve from every row an actor remembers (versions
  only grow, and one version has one content), that the attempt an actor works on
  exists and keeps its provider, and that a worker's attempt number is one more than
  the candidates it has given up. `Evolves` says what any update may do to an
  attempt; each operation of `AIAttemptModel` is shown once to be an evolution,
  and one lemma per actor kind turns evolutions into preservation of `IInv`.
* `DurableJobOutcomeProofs`: `SuccessCharged`, `OutcomesAgree`, `ClosedIsFinal`.
  `OutInv` adds to `IInv` what an actor in the last three steps has already done: it
  finishes a success only for an attempt it charged, and ends an attempt only when the
  job has ended in that way. It also says that only a canceled job has a released hold,
  which a success would contradict. Most steps finish nothing (`Quiet`) and are dealt
  with together.
* `TransactionalOutboxProofs`: `PublishedInOrder`, `DeadLettersExhausted`.
  `OutboxInv` records what a publisher knows of an event it has leased: its
  predecessors are out, and while the lease is its own, the number of attempts is
  the one it read.
* `MemoryAIJobDeliveryQueueProofs`: `LeasesExclusive`, and the refinement
  `QueueImplements`, that every step of the in-process queue is a step of
  `AIJobDeliveryQueue` or leaves it unchanged. `QueueInv` adds that tokens were
  issued, that one token is held by one consumer, and that an expired lease is
  known to have run out.
* `ProviderCapacityProofs`: `LoadIsWithinLimit`. The limit is compared with leases
  and the load is counted in attempts. `CapInv` ties them: an attempt that needs a
  lease and has not lost it has a live one, and its permits and the attempt name
  that lease's account. The leases counted are those of attempts that are not over,
  so that a late restoration of a finished attempt's lease does not count. Every
  step but a successful `Acquire` counts no new lease (`QuietStep`); a new one is
  within the limit because the store counts at least as many.

Only model-checked: every liveness property (fairness and ENABLED are out of the
prover's reach); `SubmissionExclusive`, `LateAnswersFenced`,
`BoundTaskNeverResubmitted`, `ProvenUnlessOvertaken`, `ObservationsNeverGoBack`,
`ChargedTasksEnded` of `DurableJob`; `SettledEventsStay` of the outbox; the Redis queue.

## Findings

1. *A duplicate delivery is not harmless* (run `duplicate`). A comment of
   `ai_job_delivery_worker.go` says that "a stale or duplicate envelope is
   harmlessly acknowledged". The check behind it holds for every redelivery of the
   current claim. If the first worker dies after its provider call and the
   redelivered envelope skips the first candidate, the attempt numbers shift and a
   second provider task is created for the job.
2. *A hold can be released after dispatch* (run `release`). `RequestAIJobCancellation` in
   `ai_job_repository.go` releases the hold of an accepted or queued job and records
   the reason "job_canceled_before_dispatch". A job whose worker died after submitting
   the attempt goes back to the queue when the redelivered envelope finds no candidate
   (`capacity_unavailable`). A cancellation then releases the hold while the submission
   is open and its task may run. What the model does show of a released hold is that it
   stays released (`ClosedIsFinal`).
3. *The Redis queue does not keep leases exclusive* (run `redis_lease`). A comment of
   `ai_job_delivery_queue.go` says that the in-process queue "deliberately preserves
   the same lease, duplicate and at-least-once semantics as the production
   adapters". In the in-process queue a worker loses an envelope only when its lease
   has run out. In the Redis queue a worker that stalls between `XREADGROUP` and
   establishing its lease takes the live lease of the worker that recovered the
   message. The version comparisons of `DurableJob` still fence the two.
4. *A running task can lose its lease* (run `capacity_retained`). A comment of
   `provider_capacity_service.go` says that "Retain keeps the distributed lease for an
   accepted or ambiguous durable provider task", and a test is named
   `TestDurableAIJobProviderCapacityRetainedUntilProviderTerminalState`. When the store
   fails after the provider has created the task, the worker gets an attempt without
   a dispatch state and `dispatchClaimedAIJob` releases the permit. The account can be
   admitted beyond its limit until a reconciler restores the lease. `LoadIsWithinLimit`
   says that a lease lost while it is needed is the only way to exceed it.

Not a finding but the limit of what "proven not created" means: a call that was given
up and is still under way can create the task after a later call with the same key was
refused. `workers` reaches these states, and `ProvenUnlessOvertaken` says that they are
the only ones. An attempt that is proven not created would have no task at all if a
provider that has refused a key went on refusing it; nothing in the source secures that,
and the model does not assume it.

## Not modelled

`PROJECT.json` lists every part with its status. Left out for good are I/O and
presentation: HTTP decoding and relaying, protocol encoding, sign-in flows, object
stores, archives, start-up, the web console; and administrative records that are
single-row updates with no protocol between actors (identity, departments, groups,
roles, providers, gateway models, supply reports).

## Plan

What comes next, in this order. Each item is a module of its own; those marked
(c) are composed with `DurableJob` or extend it.

1. `ProviderCallback` (c): receipts, duplicate events, rescheduling of the attempt,
   a process that dies while a receipt is processed.
2. `BudgetAdmission`: concurrent reservations of holds against a monthly budget,
   with settlement and release. Theorem: reservations never exceed the budget.
3. An abstract job (queued, in flight, ended; charged at most once) that
   `DurableJob` implements, with the states a job may stay in for ever stated as
   liveness. Theorem: the refinement of the safety part.
4. The ready index as a cache of job rows, and the weighted order of claims.
5. Direct calls: their reconciler on `AIAttemptModel`. Realtime sessions and their
   slots. Progress events.
6. Routing, affinity, circuit breaker, credential windows: pure operators checked
   against reference definitions, and the circuit as a state machine.
7. Artifacts, effective pricing, pricing rules and rounding, provider billing
   synchronisation, alerts, exports, plugin packages.
8. Proofs of the properties listed above as only model-checked, of `OneCopy` and of
   the Redis refinement.
