----------------------------- MODULE DurableJob -----------------------------
(***************************************************************************)
(* The life of one durable AI job: the scheduler that claims it, the       *)
(* delivery workers that dispatch it to a provider, the reconcilers that   *)
(* find out what became of a dispatch, and the client that cancels it      *)
(* (ai_job_worker.go, ai_job_delivery_worker.go, provider_dispatch.go).    *)
(*                                                                         *)
(* Every row the actors touch belongs to this job, so one job is the whole *)
(* of the protocol; jobs meet only in admission, fairness and capacity.    *)
(* An actor's step ends where the code talks to a store or a provider: any *)
(* other actor may run between two steps.  A read followed by its          *)
(* compare-and-set is one step, because losing the comparison has the same *)
(* effect as reading what the winner wrote.                                *)
(***************************************************************************)
EXTENDS AIJobModel, AIAttemptModel, BillingHoldModel, FiniteSets

CONSTANTS Workers,      \* concurrent runs of dispatchClaimedAIJob
          Reconcilers,  \* concurrent runs of reconcileAIAttempt
          MaxClaims,    \* bound: claims of the job
          MaxVersion,   \* bound: dispatch versions a reconciler looks at
          MaxSetbacks   \* bound: failures, losses and polls that learn nothing

ASSUME ActorsDisjoint == Workers \cap Reconcilers = {}
ASSUME ProvidersFinite == IsFiniteSet(Providers) /\ NoProvider \notin Providers
ASSUME BoundsAreNaturals == MaxClaims \in Nat /\ MaxVersion \in Nat /\ MaxSetbacks \in Nat

VARIABLES
    job,       \* the job row
    attempts,  \* the attempts, by attempt number
    hold,      \* status of the operation's billing hold
    charged,   \* attempts with an applied usage settlement
    tasks,     \* at the provider: the task created for an attempt, or "none"
    actors,    \* the local state of every actor
    setbacks   \* setbacks so far

vars == <<job, attempts, hold, charged, tasks, actors, setbacks>>

Actors == Workers \cup Reconcilers
Numbers == 1 .. Cardinality(Providers)

Results == [outcome : {"none", "accepted", "unknown", "proven_not_created", "invalid"},
            status : TaskStatuses \cup {""}]
noResult == [outcome |-> "none", status |-> ""]

WorkerPCs == {"select", "prepare", "reset", "intent", "submit", "call", "resolve",
              "accepted", "reread", "run", "uncertain", "park"}
ReconcilerPCs == {"observe", "settle", "dispute", "lost", "requeue", "commit", "resume"}
ProgressPCs == {"progress", "usage", "finish", "finish_unbilled", "complete"}
PCs == {"idle"} \cup WorkerPCs \cup ReconcilerPCs \cup ProgressPCs

\* read: the job row; num: the attempt number; snap: the attempt row; result:
\* the provider's answer; excluded: the candidates a worker has given up.
ActorStates == [pc : PCs, read : AIJobs, num : Nat, snap : AIAttempts,
                result : Results, excluded : SUBSET Providers]
idle == [pc |-> "idle", read |-> newAIJob, num |-> 1, snap |-> absentAIAttempt,
         result |-> noResult, excluded |-> {}]

Setback == setbacks < MaxSetbacks /\ setbacks' = setbacks + 1
NoSetback == UNCHANGED setbacks

Become(x, local) == actors' = [actors EXCEPT ![x] = local]
Stop(x) == Become(x, idle)
Goto(x, label) ==
    Become(x, IF label = "idle" THEN idle ELSE [actors[x] EXCEPT !.pc = label])
SetAttempt(x, a) == attempts' = [attempts EXCEPT ![actors[x].num] = a]
Current(x) == attempts[actors[x].num]

-----------------------------------------------------------------------------
(* Scheduler, client and operator                                          *)

ClaimQueuedAIJobs ==
    /\ aiJobReadyForClaim(job)
    /\ job.fence < MaxClaims
    /\ job' = claimAIJob(job)
    /\ UNCHANGED <<attempts, hold, charged, tasks, actors, setbacks>>

\* The heartbeat extends the lease while a worker holds the delivery; it runs
\* out when there is none, or when the heartbeat comes too late.  The last claim
\* that the bound allows keeps its lease.
LeaseExpires ==
    /\ job.status = "dispatching" /\ job.leased
    /\ job.fence < MaxClaims
    /\ job' = [job EXCEPT !.leased = FALSE]
    /\ IF \A w \in Workers : actors[w].pc = "idle" THEN NoSetback ELSE Setback
    /\ UNCHANGED <<attempts, hold, charged, tasks, actors>>

CancelAIJob ==
    /\ cancellable(job)
    /\ job' = RequestAIJobCancellation(job)
    /\ hold' = IF cancelledBeforeDispatch(job)
               THEN releaseBillingHoldForOperation(hold) ELSE hold
    /\ UNCHANGED <<attempts, charged, tasks, actors, setbacks>>

\* An operator asks for an attempt to be reconciled now; its version moves.
ScheduleAIAttemptReconciliation ==
    \E n \in Numbers :
        /\ dueForReconciliation(attempts[n])
        /\ attempts' = [attempts EXCEPT ![n].version = @ + 1]
        /\ Setback
        /\ UNCHANGED <<job, hold, charged, tasks, actors>>

-----------------------------------------------------------------------------
(* Delivery worker: dispatchClaimedAIJob                                   *)

\* Deliveries come at least once, so any idle worker may hold an envelope of
\* the current claim; aiJobDeliveryMatches is what it checks before dispatch.
ReceiveDelivery(w) ==
    /\ actors[w].pc = "idle"
    /\ job.status = "dispatching" /\ job.leased
    /\ Become(w, [idle EXCEPT !.pc = "select", !.read = job])
    /\ UNCHANGED <<job, attempts, hold, charged, tasks, setbacks>>

Candidates(w) == Providers \ actors[w].excluded

\* The loop goes on with the next attempt number, without this candidate.
without(local, p) ==
    [local EXCEPT !.pc = "select", !.num = @ + 1, !.excluded = @ \cup {p}]

\* The adapter does not support the candidate, its circuit is open, or its
\* account has no capacity left.
SkipCandidate(w) ==
    /\ actors[w].pc = "select"
    /\ \E p \in Candidates(w) : Become(w, without(actors[w], p))
    /\ Setback
    /\ UNCHANGED <<job, attempts, hold, charged, tasks>>

\* The numbered attempt is created, or the stored one is returned; that one must
\* be for the same candidate.
BeginAIAttempt(w) ==
    /\ actors[w].pc = "select"
    /\ \E p \in Candidates(w) :
        \/ /\ Current(w).dispatch = "none"
           /\ SetAttempt(w, newAIAttempt(p))
           /\ Goto(w, "prepare")
        \/ /\ Current(w).dispatch # "none"
           /\ Goto(w, IF Current(w).provider = p THEN "prepare" ELSE "idle")
           /\ UNCHANGED attempts
    /\ UNCHANGED <<job, hold, charged, tasks, setbacks>>

\* Routing offers nobody else: the job goes back to the queue.
RequeueAIJob(w) ==
    /\ actors[w].pc = "select"
    /\ IF Candidates(w) = {} THEN NoSetback ELSE Setback
    /\ job' = TransitionAIJob(job, actors[w].read, "queued", "capacity_unavailable")
    /\ Stop(w)
    /\ UNCHANGED <<attempts, hold, charged, tasks>>

PrepareAIAttemptDispatch(w) ==
    /\ actors[w].pc = "prepare"
    /\ LET a == Current(w)
       IN  IF taskKnown(a)
           THEN Stop(w)
           ELSE Become(w, [actors[w] EXCEPT !.snap = a,
                    !.pc = CASE a.dispatch = "unknown" -> "reset"
                             [] a.dispatch = "pending" -> "intent"
                             [] OTHER                  -> "submit"])
    /\ UNCHANGED <<job, attempts, hold, charged, tasks, setbacks>>

ResetUnknownDispatch(w) ==
    /\ actors[w].pc = "reset"
    /\ LET a == resetUnknownDispatch(Current(w), actors[w].snap.version)
       IN  /\ SetAttempt(w, a)
           /\ IF a = Current(w) THEN Stop(w)
              ELSE Become(w, [actors[w] EXCEPT !.pc = "intent", !.snap = a])
    /\ UNCHANGED <<job, hold, charged, tasks, setbacks>>

PersistIntent(w) ==
    /\ actors[w].pc = "intent"
    /\ LET a == persistDispatchIntent(Current(w), actors[w].snap.version)
       IN  /\ SetAttempt(w, a)
           /\ IF a.dispatch = "pending" THEN Stop(w)
              ELSE Become(w, [actors[w] EXCEPT !.pc = "submit", !.snap = a])
    /\ UNCHANGED <<job, hold, charged, tasks, setbacks>>

\* The switch on the dispatch state the attempt was left in.
afterDispatch(local, a) ==
    CASE a.dispatch = "accepted" ->
            [local EXCEPT !.pc = "accepted", !.snap = a, !.result = noResult]
      [] a.dispatch \in {"unknown", "submitted"} ->
            [local EXCEPT !.pc = "uncertain", !.snap = a, !.result = noResult]
      [] a.dispatch = "proven_not_created" ->
            [without(local, a.provider) EXCEPT !.snap = absentAIAttempt, !.result = noResult]
      [] OTHER -> idle

MarkSubmitted(w) ==
    /\ actors[w].pc = "submit"
    /\ LET a == MarkAIAttemptDispatchSubmitted(Current(w), actors[w].snap.version)
       IN  /\ SetAttempt(w, a)
           /\ Become(w, IF a # Current(w)
                        THEN [actors[w] EXCEPT !.pc = "call", !.snap = a]
                        ELSE afterDispatch(actors[w], a))
    /\ UNCHANGED <<job, hold, charged, tasks, setbacks>>

unclear == {[outcome |-> o, status |-> ""] : o \in {"unknown", "invalid"}}
notCreated == [outcome |-> "proven_not_created", status |-> ""]
observed(task) == [outcome |-> "accepted", status |-> task]

\* The provider creates at most one task for a dispatch key.  Its answer may be
\* lost whether or not it did; a refusal means that this call did not, and says
\* nothing of another call with the same key.
DispatchProviderTask(w) ==
    /\ actors[w].pc = "call"
    /\ \E answer \in Results :
        /\ Become(w, [actors[w] EXCEPT !.pc = "resolve", !.result = answer])
        /\ LET n == actors[w].num
               task == IF tasks[n] = "none" THEN "running" ELSE tasks[n]
           IN  \/ /\ tasks' = [tasks EXCEPT ![n] = task]
                  /\ \/ answer = observed(task) /\ NoSetback
                     \/ answer \in unclear /\ Setback
               \/ /\ tasks[n] = "none"
                  /\ \/ answer = notCreated /\ NoSetback
                     \/ answer \in unclear /\ Setback
                  /\ UNCHANGED tasks
    /\ UNCHANGED <<job, attempts, hold, charged>>

ResolveDispatch(w) ==
    /\ actors[w].pc = "resolve"
    /\ LET a == resolveProviderDispatchResult(Current(w), actors[w].snap, actors[w].result)
       IN  /\ SetAttempt(w, a)
           /\ Become(w, afterDispatch(actors[w], a))
    /\ UNCHANGED <<job, hold, charged, tasks, setbacks>>

\* The worker goes on even when the store refuses the hold's transition.
CommitAccepted(w) ==
    /\ actors[w].pc = "accepted"
    /\ \/ hold' = transitionBillingHold(hold, "committed") /\ NoSetback
       \/ UNCHANGED hold /\ Setback
    /\ Goto(w, "reread")
    /\ UNCHANGED <<job, attempts, charged, tasks>>

\* A job that is being canceled keeps its state.
RereadAcceptedJob(w) ==
    /\ actors[w].pc = "reread"
    /\ Become(w, [actors[w] EXCEPT !.read = job,
                    !.pc = IF job.status = "canceling" THEN "progress" ELSE "run"])
    /\ UNCHANGED <<job, attempts, hold, charged, tasks, setbacks>>

\* runJob is TransitionAIJob(..., AIJobStatusRunning): an error ends the actor.
runJob(x) ==
    LET j == TransitionAIJob(job, actors[x].read, "running", "")
    IN  /\ job' = j
        /\ IF j = job THEN Stop(x)
           ELSE Become(x, [actors[x] EXCEPT !.pc = "progress", !.read = j])

RunAcceptedJob(w) ==
    /\ actors[w].pc = "run"
    /\ runJob(w)
    /\ UNCHANGED <<attempts, hold, charged, tasks, setbacks>>

DisputeUncertain(w) ==
    /\ actors[w].pc = "uncertain"
    /\ \/ hold' = transitionBillingHold(hold, "disputed") /\ NoSetback
       \/ UNCHANGED hold /\ Setback
    /\ Goto(w, "park")
    /\ UNCHANGED <<job, attempts, charged, tasks>>

ParkUncertainJob(w) ==
    /\ actors[w].pc = "park"
    /\ job' = TransitionAIJob(job, actors[w].read, "unknown", "provider_status_unknown")
    /\ Stop(w)
    /\ UNCHANGED <<attempts, hold, charged, tasks, setbacks>>

-----------------------------------------------------------------------------
(* Reconciler: reconcileAIAttempt                                          *)

\* A poll for a job that waits in the queue can bring nothing about.
PickDueAttempt(r) ==
    /\ actors[r].pc = "idle"
    /\ \E n \in Numbers :
        /\ dueForReconciliation(attempts[n])
        /\ attempts[n].version < MaxVersion
        /\ Become(r, [idle EXCEPT !.pc = "observe", !.num = n, !.read = job])
    /\ IF job.status = "queued" THEN Setback ELSE NoSetback
    /\ UNCHANGED <<job, attempts, hold, charged, tasks>>

\* No task for the dispatch key, and no call under way that could create one.
conclusivelyAbsent(n) ==
    tasks[n] = "none" /\ \A w \in Workers : ~(actors[w].pc = "call" /\ actors[w].num = n)

\* The attempt is read again and the provider is asked for its task; when the
\* job is being canceled the question is a cancellation.
ObserveProviderTask(r) ==
    /\ actors[r].pc = "observe"
    /\ inReconcilableState(Current(r))
    /\ \E answer \in Results :
        /\ Become(r, [actors[r] EXCEPT !.pc = "settle", !.snap = Current(r), !.result = answer])
        /\ LET n == actors[r].num
           IN  \/ /\ tasks[n] # "none"
                  /\ answer = observed(tasks[n])
                  /\ IF tasks[n] = "running" /\ Current(r).pstatus = "running"
                     THEN Setback ELSE NoSetback
                  /\ UNCHANGED tasks
               \/ /\ tasks[n] = "running" /\ actors[r].read.status = "canceling"
                  /\ answer = observed("canceled")
                  /\ tasks' = [tasks EXCEPT ![n] = "canceled"]
                  /\ NoSetback
               \/ conclusivelyAbsent(n) /\ answer = notCreated /\ UNCHANGED <<tasks, setbacks>>
               \/ answer \in unclear /\ Setback /\ UNCHANGED tasks
    /\ UNCHANGED <<job, attempts, hold, charged>>

\* Another actor has moved the attempt out of the states that are reconciled.
ObserveMovedAttempt(r) ==
    /\ actors[r].pc = "observe"
    /\ ~inReconcilableState(Current(r))
    /\ Goto(r, IF Current(r).dispatch = "proven_not_created" THEN "requeue" ELSE "dispute")
    /\ UNCHANGED <<job, attempts, hold, charged, tasks, setbacks>>

\* The store fails where the attempt is read or its answer is stored.  The empty
\* attempt that comes back with the error is in none of the states that go on.
LoseReconciliation(r) ==
    /\ actors[r].pc \in {"observe", "settle"}
    /\ Goto(r, "dispute")
    /\ Setback
    /\ UNCHANGED <<job, attempts, hold, charged, tasks>>

SettleReconciliation(r) ==
    /\ actors[r].pc = "settle"
    /\ LET answer == actors[r].result
           a == resolveProviderDispatchResult(Current(r), actors[r].snap, answer)
       IN  /\ SetAttempt(r, a)
           /\ IF providerTaskStatusStale(a.pstatus, answer.status) THEN Stop(r)
              ELSE Become(r, [actors[r] EXCEPT !.snap = a, !.result = noResult,
                       !.pc = CASE a.dispatch = "accepted"           -> "commit"
                                [] a.dispatch = "proven_not_created" -> "requeue"
                                [] OTHER                             -> "dispute"])
    /\ UNCHANGED <<job, hold, charged, tasks, setbacks>>

DisputeLostTask(r) ==
    /\ actors[r].pc = "dispute"
    /\ \/ hold' = transitionBillingHold(hold, "disputed") /\ NoSetback
       \/ UNCHANGED hold /\ Setback
    /\ Goto(r, "lost")
    /\ UNCHANGED <<job, attempts, charged, tasks>>

ParkLostJob(r) ==
    /\ actors[r].pc = "lost"
    /\ job' = IF actors[r].read.status \in {"dispatching", "running"}
              THEN TransitionAIJob(job, actors[r].read, "unknown", "provider_status_unknown")
              ELSE job
    /\ Stop(r)
    /\ UNCHANGED <<attempts, hold, charged, tasks, setbacks>>

RequeueProvenJob(r) ==
    /\ actors[r].pc = "requeue"
    /\ job' = IF actors[r].read.status \in {"unknown", "dispatching"}
              THEN TransitionAIJob(job, actors[r].read, "queued", "proven_not_created")
              ELSE job
    /\ Stop(r)
    /\ UNCHANGED <<attempts, hold, charged, tasks, setbacks>>

CommitReconciled(r) ==
    /\ actors[r].pc = "commit"
    /\ hold' = transitionBillingHold(hold, "committed")
    /\ Goto(r, "resume")
    /\ UNCHANGED <<job, attempts, charged, tasks, setbacks>>

ResumeJob(r) ==
    /\ actors[r].pc = "resume"
    /\ IF actors[r].read.status \in {"unknown", "dispatching"}
       THEN runJob(r)
       ELSE Goto(r, "progress") /\ UNCHANGED job
    /\ UNCHANGED <<attempts, hold, charged, tasks, setbacks>>

-----------------------------------------------------------------------------
(* applyAcceptedProviderProgress, run by workers and reconcilers           *)

Defer(x) == SetAttempt(x, deferAIAttemptReconciliation(Current(x))) /\ Stop(x)

\* Outputs that cannot be ingested or delivered put the attempt off.
ApplyProviderProgress(x) ==
    /\ actors[x].pc = "progress"
    /\ LET status == actors[x].snap.pstatus
       IN  \/ /\ Goto(x, IF isDurableProviderTerminalStatus(status) THEN "usage" ELSE "idle")
              /\ UNCHANGED <<attempts, setbacks>>
           \/ status \notin {"failed", "canceled"} /\ Defer(x) /\ Setback
    /\ UNCHANGED <<job, hold, charged, tasks>>

\* recordAIOperationUsage: a repeated settlement of an attempt changes nothing.
RecordUsage(n) ==
    /\ charged' = charged \cup {n}
    /\ \/ n \in charged /\ UNCHANGED <<hold, setbacks>>
       \/ n \notin charged /\ hold' = settleBillingHoldForUsage(hold, TRUE) /\ NoSetback
       \/ n \notin charged /\ hold' = settleBillingHoldForUsage(hold, FALSE) /\ Setback

SettleProviderUsage(x) ==
    /\ actors[x].pc = "usage"
    /\ RecordUsage(actors[x].num)
    /\ Goto(x, "finish")
    /\ UNCHANGED <<job, attempts, tasks>>

\* Mutant: a success goes on without its usage.
UsageUnresolvedUncharged(x) ==
    /\ actors[x].pc = "usage"
    /\ Goto(x, "finish")
    /\ Setback
    /\ UNCHANGED <<job, attempts, hold, charged, tasks>>

\* A success whose usage cannot be recorded is put off.  A failure or a
\* cancellation goes on: with the hold disputed when the provider cannot tell
\* the cost yet, and as if it were billed when the operation cannot be read.
UsageUnresolved(x) ==
    /\ actors[x].pc = "usage"
    /\ \/ /\ actors[x].snap.pstatus = "succeeded"
          /\ Defer(x)
          /\ UNCHANGED hold
       \/ /\ actors[x].snap.pstatus # "succeeded"
          /\ hold' = transitionBillingHold(hold, "disputed")
          /\ Goto(x, "finish_unbilled")
          /\ UNCHANGED attempts
       \/ /\ actors[x].snap.pstatus # "succeeded"
          /\ Goto(x, "finish")
          /\ UNCHANGED <<hold, attempts>>
    /\ Setback
    /\ UNCHANGED <<job, charged, tasks>>

\* Mutant: the job's own outcome is not compared.
conflictsUnchecked(j, read, terminal) == FALSE

\* The job was not moved, and had not ended the way the task did.
conflicts(j, read, terminal) == j = job /\ read.status # terminal

\* The terminal labels of a provider task are those of a job and of an attempt.
FinishJob(x) ==
    /\ actors[x].pc \in {"finish", "finish_unbilled"}
    /\ LET terminal == actors[x].snap.pstatus
           read == actors[x].read
           j == IF read.status \in {"running", "canceling"}
                THEN TransitionAIJob(job, read, terminal, terminal) ELSE job
       IN  /\ job' = j
           /\ IF conflicts(j, read, terminal)
              THEN Stop(x) /\ UNCHANGED attempts
              ELSE IF actors[x].pc = "finish" THEN Goto(x, "complete") /\ UNCHANGED attempts
              ELSE Defer(x)
    /\ UNCHANGED <<hold, charged, tasks, setbacks>>

FinishAttempt(x) ==
    /\ actors[x].pc = "complete"
    /\ SetAttempt(x, CompleteAIAttempt(Current(x), actors[x].snap.pstatus))
    /\ Stop(x)
    /\ UNCHANGED <<job, hold, charged, tasks, setbacks>>

-----------------------------------------------------------------------------
(* Environment                                                             *)

\* An actor's process dies, or one of its store calls fails.
Crash(x) ==
    /\ actors[x].pc # "idle"
    /\ Stop(x)
    /\ Setback
    /\ UNCHANGED <<job, attempts, hold, charged, tasks>>

ProviderTaskEnds ==
    \E n \in Numbers, s \in {"succeeded", "failed", "canceled"} :
        /\ tasks[n] = "running"
        /\ tasks' = [tasks EXCEPT ![n] = s]
        /\ IF s = "canceled" THEN Setback ELSE NoSetback
        /\ UNCHANGED <<job, attempts, hold, charged, actors>>

Init ==
    /\ job = newAIJob
    /\ attempts = [n \in Numbers |-> absentAIAttempt]
    /\ hold = "reserved"
    /\ charged = {}
    /\ tasks = [n \in Numbers |-> "none"]
    /\ actors = [x \in Actors |-> idle]
    /\ setbacks = 0

ProgressStep(x) ==
    \/ ApplyProviderProgress(x) \/ SettleProviderUsage(x) \/ UsageUnresolved(x)
    \/ FinishJob(x) \/ FinishAttempt(x)

WorkerStep(w) ==
    \/ SkipCandidate(w) \/ BeginAIAttempt(w) \/ RequeueAIJob(w)
    \/ PrepareAIAttemptDispatch(w) \/ ResetUnknownDispatch(w) \/ PersistIntent(w)
    \/ MarkSubmitted(w) \/ DispatchProviderTask(w) \/ ResolveDispatch(w)
    \/ CommitAccepted(w) \/ RereadAcceptedJob(w) \/ RunAcceptedJob(w)
    \/ DisputeUncertain(w) \/ ParkUncertainJob(w)
    \/ ProgressStep(w)

ReconcilerStep(r) ==
    \/ ObserveProviderTask(r) \/ ObserveMovedAttempt(r) \/ SettleReconciliation(r)
    \/ LoseReconciliation(r) \/ DisputeLostTask(r) \/ ParkLostJob(r) \/ RequeueProvenJob(r)
    \/ CommitReconciled(r) \/ ResumeJob(r)
    \/ ProgressStep(r)

Next ==
    \/ ClaimQueuedAIJobs \/ LeaseExpires \/ CancelAIJob
    \/ ScheduleAIAttemptReconciliation \/ ProviderTaskEnds
    \/ \E w \in Workers : ReceiveDelivery(w) \/ WorkerStep(w) \/ Crash(w)
    \/ \E r \in Reconcilers : PickDueAttempt(r) \/ ReconcilerStep(r) \/ Crash(r)

Spec == Init /\ [][Next]_vars

\* The runtime loops keep claiming, receiving, dispatching and reconciling, and
\* an actor that neither crashes nor is cut off takes its next step.
Fairness ==
    /\ WF_vars(ClaimQueuedAIJobs)
    /\ \A w \in Workers : WF_vars(ReceiveDelivery(w)) /\ WF_vars(WorkerStep(w))
    /\ \A r \in Reconcilers : WF_vars(PickDueAttempt(r)) /\ WF_vars(ReconcilerStep(r))

FairSpec == Spec /\ Fairness

-----------------------------------------------------------------------------
(* Type invariant and properties                                           *)

\* Every row and every actor's local state has the shape the code gives it.
TypeOK ==
    /\ job \in AIJobs
    /\ attempts \in [Numbers -> AIAttempts]
    /\ hold \in BillingHoldStatuses
    /\ charged \in SUBSET Numbers
    /\ tasks \in [Numbers -> TaskStatuses \cup {"none"}]
    /\ actors \in [Actors -> ActorStates]
    /\ setbacks \in 0 .. MaxSetbacks

\* A status version names one content of the job row: an actor whose read is out
\* of date can never pass TransitionAIJob's comparison (ai_job_repository.go).
JobVersionNamesRow ==
    \A x \in Actors : LET read == actors[x].read IN
        /\ read.version <= job.version
        /\ read.version = job.version => read.status = job.status /\ read.fence = job.fence

\* The same for the dispatch version of an attempt (UpdateAIAttemptDispatch).
AttemptVersionNamesRow ==
    \A x \in Actors : LET snap == actors[x].snap IN
        snap.dispatch # "none" =>
            /\ snap.version <= Current(x).version
            /\ snap.version = Current(x).version =>
                 [snap EXCEPT !.status = ""] = [Current(x) EXCEPT !.status = ""]

\* Two workers are inside a provider call for one attempt only when the earlier
\* submission was given up: "unknown", "pending", "prepared" and "submitted" each
\* take a version (ExecuteAIAttemptDispatch).
SubmissionExclusive ==
    \A v, w \in Workers :
        /\ v # w
        /\ actors[v].pc = "call" /\ actors[w].pc = "call"
        /\ actors[v].num = actors[w].num
        /\ actors[v].snap.version <= actors[w].snap.version
        => actors[v].snap.version + 4 <= actors[w].snap.version

\* The provider's refusal of the attempt's current submission, not yet stored.
refusalInHand(n) ==
    \E x \in Actors :
        /\ actors[x].pc \in {"resolve", "settle"} /\ actors[x].num = n
        /\ actors[x].result = notCreated
        /\ actors[x].snap.version = attempts[n].version

\* "Proven not created" rests on a refusal of the attempt's current submission
\* (ProveAIAttemptNotCreated), and from that refusal on a task can only come from a
\* call whose submission was given up and made anew since.  Nothing is assumed of
\* a key the provider has refused: it may still accept that other call.
ProvenUnlessOvertaken ==
    [][\A n \in Numbers :
        LET proven == attempts[n].dispatch = "proven_not_created" IN
        /\ ~proven /\ attempts'[n].dispatch = "proven_not_created" => refusalInHand(n)
        /\ tasks[n] = "none" /\ tasks'[n] # "none" /\ (proven \/ refusalInHand(n)) =>
             \E w \in Workers :
                /\ actors[w].pc = "call" /\ actors[w].num = n /\ actors'[w] # actors[w]
                /\ actors[w].snap.version + 4 <= attempts[n].version]_vars

\* Observations of a task arrive in any order, from workers and reconcilers; once
\* the attempt shows that the task has ended, no other status replaces that one
\* (providerTaskStatusStale); an unclear answer may put "unknown" in its place.
ObservationsNeverGoBack ==
    [][\A n \in Numbers :
        isDurableProviderTerminalStatus(attempts[n].pstatus) =>
            attempts'[n].pstatus \in {attempts[n].pstatus, "unknown"}]_vars

\* The hold is given back with the reason "job_canceled_before_dispatch"
\* (RequestAIJobCancellation): nothing has been submitted to a provider and no
\* task is there.
ReleasedBeforeDispatch ==
    hold = "released" =>
        \A n \in Numbers :
            /\ attempts[n].dispatch \notin {"submitted", "accepted", "unknown"}
            /\ tasks[n] = "none"

\* A job succeeds only after its usage was charged, and its hold no longer
\* reserves an estimate (applyAcceptedProviderProgress).
SuccessIsCharged ==
    job.status = "succeeded" => charged # {} /\ hold \in {"settled", "disputed"}

\* An attempt ends with the status its job ended with, whichever of two accepted
\* attempts was first ("provider terminal status conflicts with ai job status").
AttemptOutcomeMatchesJob ==
    \A n \in Numbers :
        attempts[n].status \in {"succeeded", "failed", "canceled"} =>
            job.status = attempts[n].status

\* Usage is charged only for a task that has ended at the provider.
ChargedTasksEnded ==
    \A n \in charged : tasks[n] \in {"succeeded", "failed", "canceled"}

\* A duplicate or redelivered envelope of a claim creates no second provider task.
DuplicateDeliveryHarmless ==
    Cardinality({n \in Numbers : tasks[n] # "none"}) <= 1

\* The answer to a call made under an older dispatch version never changes the
\* dispatch state of the attempt (resolveProviderDispatchResult).
LateAnswersFenced ==
    [][\A x \in Actors :
        /\ actors[x].pc \in {"resolve", "settle"} /\ actors'[x] # actors[x]
        /\ actors[x].snap.version # Current(x).version
        => attempts'[actors[x].num].dispatch = Current(x).dispatch]_vars

\* An attempt with a bound provider task is never submitted again
\* (PrepareAIAttemptDispatch refuses it).
BoundTaskNeverResubmitted ==
    [][\A n \in Numbers :
        attempts[n].dispatch # "submitted" /\ attempts'[n].dispatch = "submitted"
        => ~attempts[n].task]_vars

\* A terminal job (TransitionAIJob) and a settled or released hold
\* (TransitionBillingHold) are final, whatever stale actors still do.
ClosedRowsStayClosed ==
    [][/\ aiJobTerminalStatus(job.status) => job' = job
       /\ hold \in {"settled", "released"} => hold' = hold]_vars

\* A claimed job does not stay in dispatch: redelivery and reconciliation bring
\* it on, whichever step the worker that held it died in.
DispatchIsLeft == job.status = "dispatching" ~> job.status # "dispatching"

\* A running job whose task has ended at the provider ends too, after any finite
\* number of failed polls, lost writes and crashes.
EndedTaskEndsJob ==
    \A n \in Numbers :
        job.status = "running" /\ attempts[n].task /\ tasks[n] \in {"succeeded", "failed"}
        ~> aiJobTerminalStatus(job.status)
=============================================================================
