-------------------------- MODULE DurableJobProofs --------------------------
(***************************************************************************)
(* Proofs about DurableJob, for any number of workers, reconcilers and     *)
(* providers and any bounds.                                               *)
(***************************************************************************)
EXTENDS DurableJob, AIAttemptProofs, FiniteSetTheorems, TLAPS

-----------------------------------------------------------------------------
(* What an update may do to the job row                                    *)

\* A status version has one content, and a terminal job is final.
JobEvolves(j, k) ==
    /\ k \in AIJobs
    /\ j.version <= k.version
    /\ j.version = k.version => j.status = k.status /\ j.fence = k.fence
    /\ aiJobTerminalStatus(j.status) => k = j

\* Evolution of the job row is transitive.
LEMMA JobEvolvesTrans ==
    ASSUME NEW j \in AIJobs, NEW k, NEW l, JobEvolves(j, k), JobEvolves(k, l)
    PROVE  JobEvolves(j, l)
  BY DEF AIJobs, JobEvolves

\* Leaving the row alone evolves it.
LEMMA JobSelfEvolves ==
    ASSUME NEW j \in AIJobs
    PROVE  j.version \in Nat /\ j.version + 1 \in Nat /\ j.fence + 1 \in Nat /\ JobEvolves(j, j)
  BY DEF AIJobs, JobEvolves

\* The job of Init is a job.
LEMMA NewJobType == newAIJob \in AIJobs
  BY DEF newAIJob, AIJobs, AIJobStatuses

\* What the transition table allows leads from a live status to a status.
LEMMA TransitionTable ==
    ASSUME NEW from, NEW to, NEW reason, to # "expired",
           aiJobStatusTransitionAllowed(from, to, reason)
    PROVE  to \in AIJobStatuses /\ ~aiJobTerminalStatus(from)
  BY DEF aiJobStatusTransitionAllowed, aiJobTerminalStatus, AIJobStatuses

\* prepareAIJobTransition takes the next version.
LEMMA PrepareEvolves ==
    ASSUME NEW j \in AIJobs, NEW to \in AIJobStatuses, ~aiJobTerminalStatus(j.status)
    PROVE  /\ JobEvolves(j, prepareAIJobTransition(j, to))
           /\ prepareAIJobTransition(j, to).status = to
  <1> DEFINE leased == j.leased /\ to = "dispatching"
             k == [j EXCEPT !.status = to, !.version = @ + 1, !.leased = leased]
  <1>1. leased \in BOOLEAN
    OBVIOUS
  <1>2. prepareAIJobTransition(j, to) = k
    BY DEF prepareAIJobTransition
  <1> HIDE DEF leased
  <1>3. k \in AIJobs /\ k.version = j.version + 1 /\ k.status = to
    BY <1>1, JobSelfEvolves DEF AIJobs
  <1> QED
    BY <1>2, <1>3, JobSelfEvolves DEF JobEvolves

\* TransitionAIJob never reopens a job and never reuses a version.
LEMMA TransitionEvolves ==
    ASSUME NEW j \in AIJobs, NEW read, NEW to, NEW reason, to # "expired"
    PROVE  LET k == TransitionAIJob(j, read, to, reason)
           IN  JobEvolves(j, k) /\ (k = j \/ k.status = to)
  BY TransitionTable, PrepareEvolves, JobSelfEvolves DEF TransitionAIJob

\* A claim takes the next version and the next fence.
LEMMA ClaimEvolves ==
    ASSUME NEW j \in AIJobs, aiJobReadyForClaim(j)
    PROVE  JobEvolves(j, claimAIJob(j))
  BY JobSelfEvolves
  DEF AIJobs, AIJobStatuses, JobEvolves, aiJobReadyForClaim, claimAIJob, aiJobTerminalStatus

\* A cancellation takes the next version, and the next fence in dispatch.
LEMMA CancelEvolves ==
    ASSUME NEW j \in AIJobs, cancellable(j)
    PROVE  /\ JobEvolves(j, RequestAIJobCancellation(j))
           /\ cancelledBeforeDispatch(j) => RequestAIJobCancellation(j).status = "canceled"
  <1> DEFINE to == IF cancelledBeforeDispatch(j) THEN "canceled" ELSE "canceling"
             k == prepareAIJobTransition(j, to)
             fence == IF j.status = "dispatching" THEN k.fence + 1 ELSE k.fence
             l == [k EXCEPT !.fence = fence]
  <1>1. to \in AIJobStatuses /\ ~aiJobTerminalStatus(j.status)
    BY DEF AIJobStatuses, cancellable, aiJobTerminalStatus
  <1>2. k \in AIJobs /\ k.version = j.version + 1 /\ k.status = to
    BY <1>1, PrepareEvolves DEF JobEvolves, prepareAIJobTransition, AIJobs
  <1>3. RequestAIJobCancellation(j) = l
    BY DEF RequestAIJobCancellation
  <1>4. fence \in Nat
    BY <1>2 DEF AIJobs
  <1> HIDE DEF k, fence
  <1>5. l \in AIJobs /\ l.version = j.version + 1 /\ l.status = to
    BY <1>2, <1>4 DEF AIJobs
  <1> QED
    BY <1>1, <1>3, <1>5, JobSelfEvolves DEF JobEvolves

\* The lease is not part of what a version names.
LEMMA ExpiryEvolves ==
    ASSUME NEW j \in AIJobs, j.status = "dispatching"
    PROVE  JobEvolves(j, [j EXCEPT !.leased = FALSE])
  <1> DEFINE k == [j EXCEPT !.leased = FALSE]
  <1>1. k \in AIJobs /\ k.version = j.version /\ k.status = j.status /\ k.fence = j.fence
    BY DEF AIJobs
  <1> QED
    BY <1>1, JobSelfEvolves DEF JobEvolves, aiJobTerminalStatus

-----------------------------------------------------------------------------
(* The inductive invariant                                                 *)

DispatchPCs == {"prepare", "reset", "intent", "submit", "call", "resolve"}
EndPCs == {"usage", "finish", "finish_unbilled", "complete"}

ended(a) == a.pstatus \in {"succeeded", "failed", "canceled"}

\* An actor past selection has an attempt that exists.  A worker's attempt
\* number counts the candidates it has given up, so it stays in range, and the
\* candidate it dispatches to is not one of them.  What an actor read is a past
\* content of the row.  A job is finished only for a task that was seen to end.
LocalInv(local, atts, j) ==
    /\ local \in ActorStates
    /\ JobEvolves(local.read, j)
    /\ local.pc \in {"idle", "select"} => local.snap.dispatch = "none"
    /\ local.pc \notin {"idle", "select"} =>
        local.num \in Numbers /\ atts[local.num].dispatch # "none"
    /\ local.pc \in DispatchPCs \cup {"select"} => local.num = Cardinality(local.excluded) + 1
    /\ local.pc \in DispatchPCs => atts[local.num].provider \notin local.excluded
    /\ local.snap.dispatch # "none" => Evolves(local.snap, atts[local.num])
    /\ local.pc \in EndPCs => ended(local.snap)

RowsInv ==
    /\ job \in AIJobs
    /\ JobEvolves(newAIJob, job)
    /\ attempts \in [Numbers -> AIAttempts]
    /\ \A n \in Numbers : hasProvider(attempts[n])
    /\ hold \in BillingHoldStatuses
    /\ charged \in SUBSET Numbers
    /\ tasks \in [Numbers -> TaskStatuses \cup {"none"}]
    /\ setbacks \in 0 .. MaxSetbacks

ActorsInv ==
    /\ actors \in [Actors -> ActorStates]
    /\ \A x \in Actors : LocalInv(actors[x], attempts, job)

IInv == RowsInv /\ ActorsInv

\* The rows of a step: attempts and the job evolve, the rest keeps its type.
RowsMove ==
    /\ JobEvolves(job, job')
    /\ attempts' \in [Numbers -> AIAttempts]
    /\ \A n \in Numbers : Evolves(attempts[n], attempts'[n])
    /\ hold' \in BillingHoldStatuses
    /\ charged' \in SUBSET Numbers
    /\ tasks' \in [Numbers -> TaskStatuses \cup {"none"}]
    /\ setbacks' \in 0 .. MaxSetbacks

\* A worker's number is an attempt number while a candidate is left.
LEMMA NumberInRange ==
    ASSUME NEW S \in SUBSET Providers, NEW p \in Providers \ S
    PROVE  /\ Cardinality(S) + 1 \in Numbers
           /\ Cardinality(S \cup {p}) = Cardinality(S) + 1
           /\ Cardinality(S) \in Nat
  <1>1. IsFiniteSet(S) /\ IsFiniteSet(S \cup {p}) /\ IsFiniteSet(Providers)
    BY ProvidersFinite, FS_Subset, FS_AddElement
  <1>2. Cardinality(S) \in Nat /\ Cardinality(S \cup {p}) = Cardinality(S) + 1
    BY <1>1, FS_CardinalityType, FS_AddElement
  <1>3. S \cup {p} \in SUBSET Providers
    OBVIOUS
  <1>4. Cardinality(S \cup {p}) <= Cardinality(Providers) /\ Cardinality(Providers) \in Nat
    BY <1>1, <1>3, FS_Subset, FS_CardinalityType
  <1> QED
    BY <1>2, <1>4 DEF Numbers

\* What an actor knows stays true when the rows evolve under it.
LEMMA LocalKept ==
    ASSUME NEW local, RowsInv, RowsMove, LocalInv(local, attempts, job)
    PROVE  LocalInv(local, attempts', job')
  <1>1. local \in ActorStates /\ local.read \in AIJobs /\ local.snap \in AIAttempts
    BY DEF LocalInv, ActorStates
  <1>2. JobEvolves(local.read, job')
    BY <1>1, JobEvolvesTrans DEF LocalInv, RowsMove
  <1>3. local.pc \notin {"idle", "select"} =>
          /\ local.num \in Numbers /\ attempts'[local.num].dispatch # "none"
          /\ attempts'[local.num].provider = attempts[local.num].provider
    BY DEF LocalInv, RowsMove, Evolves
  <1>4. local.snap.dispatch # "none" => Evolves(local.snap, attempts'[local.num])
    BY <1>1, EvolvesTrans DEF LocalInv, RowsMove
  <1>5. local.pc \in DispatchPCs => local.pc \notin {"idle", "select"}
    BY DEF DispatchPCs
  <1> QED
    BY <1>1, <1>2, <1>3, <1>4, <1>5 DEF LocalInv

\* Rows that evolve keep their part of the invariant.
LEMMA RowsKept ==
    ASSUME RowsInv, RowsMove
    PROVE  RowsInv'
  <1>1. job' \in AIJobs /\ JobEvolves(newAIJob, job')
    BY NewJobType, JobEvolvesTrans DEF RowsInv, RowsMove, JobEvolves
  <1>2. \A n \in Numbers : hasProvider(attempts'[n])
    BY DEF RowsInv, RowsMove, Evolves
  <1> QED
    BY <1>1, <1>2 DEF RowsInv, RowsMove

\* A step of one actor preserves the invariant when its new local state fits
\* the new rows.
LEMMA ActorStep ==
    ASSUME IInv, RowsMove, NEW x \in Actors, NEW local,
           Become(x, local), LocalInv(local, attempts', job')
    PROVE  IInv'
  <1>1. local \in ActorStates
    BY DEF LocalInv
  <1>2. actors' \in [Actors -> ActorStates]
    BY <1>1 DEF IInv, ActorsInv, Become
  <1>3. ASSUME NEW y \in Actors PROVE LocalInv(actors'[y], attempts', job')
    <2>1. CASE y = x
      BY <2>1 DEF IInv, ActorsInv, Become
    <2>2. CASE y # x
      BY <2>2, LocalKept DEF IInv, ActorsInv, Become
    <2> QED
      BY <2>1, <2>2
  <1> QED
    BY <1>2, <1>3, RowsKept DEF IInv, ActorsInv

\* The same for a step that no actor takes.
LEMMA RowsStep ==
    ASSUME IInv, RowsMove, UNCHANGED actors
    PROVE  IInv'
  <1>1. \A y \in Actors : LocalInv(actors'[y], attempts', job')
    BY LocalKept DEF IInv, ActorsInv
  <1> QED
    BY <1>1, RowsKept DEF IInv, ActorsInv

-----------------------------------------------------------------------------
(* Parts of a step                                                         *)

\* The labels of the steps.
LEMMA PCLabels ==
    /\ "idle" \in PCs /\ "select" \in PCs /\ "prepare" \in PCs /\ "reset" \in PCs
    /\ "intent" \in PCs /\ "submit" \in PCs /\ "call" \in PCs /\ "resolve" \in PCs
    /\ "accepted" \in PCs /\ "reread" \in PCs /\ "run" \in PCs /\ "uncertain" \in PCs
    /\ "park" \in PCs /\ "observe" \in PCs /\ "settle" \in PCs /\ "dispute" \in PCs
    /\ "lost" \in PCs /\ "requeue" \in PCs /\ "commit" \in PCs /\ "resume" \in PCs
    /\ "progress" \in PCs /\ "usage" \in PCs /\ "finish" \in PCs
    /\ "finish_unbilled" \in PCs /\ "complete" \in PCs
  BY DEF PCs, WorkerPCs, ReconcilerPCs, ProgressPCs

\* An actor at rest knows nothing that could be wrong.
LEMMA IdleLocal ==
    ASSUME NEW atts, NEW j, JobEvolves(newAIJob, j)
    PROVE  LocalInv(idle, atts, j)
  <1>1. absentAIAttempt \in AIAttempts
    BY DEF absentAIAttempt, AIAttempts, AttemptStatuses, DispatchStates, ProviderStatuses
  <1>2. noResult \in Results
    BY DEF noResult, Results
  <1>3. idle \in ActorStates
    BY <1>1, <1>2, NewJobType, PCLabels DEF idle, ActorStates
  <1> QED
    BY <1>3 DEF LocalInv, idle, absentAIAttempt, DispatchPCs, EndPCs

\* An actor that goes on with its attempt needs a true reading of the rows.
LEMMA MovedLocal ==
    ASSUME NEW atts, NEW j, NEW l, LocalInv(l, atts, j), l.pc \notin {"idle", "select"},
           NEW m \in ActorStates, m.num = l.num, m.excluded = l.excluded,
           m.pc \notin {"idle", "select"}, m.pc \in DispatchPCs => l.pc \in DispatchPCs,
           JobEvolves(m.read, j),
           m.snap.dispatch # "none" => Evolves(m.snap, atts[m.num]),
           m.pc \in EndPCs => ended(m.snap)
    PROVE  LocalInv(m, atts, j)
  BY DEF LocalInv

\* Goto, to a step after the dispatch.
LEMMA GotoLocal ==
    ASSUME NEW atts, NEW j, NEW l, LocalInv(l, atts, j), l.pc \notin {"idle", "select"},
           NEW pc \in PCs,
           pc \notin {"idle", "select"}, pc \notin DispatchPCs, pc \in EndPCs => ended(l.snap)
    PROVE  LocalInv([l EXCEPT !.pc = pc], atts, j)
  <1> DEFINE m == [l EXCEPT !.pc = pc]
  <1>1. l \in ActorStates
    BY DEF LocalInv
  <1>2. m \in ActorStates /\ m.num = l.num /\ m.excluded = l.excluded /\ m.pc = pc
        /\ m.read = l.read /\ m.snap = l.snap
    BY <1>1 DEF ActorStates
  <1> HIDE DEF m
  <1>3. JobEvolves(m.read, j) /\ (m.snap.dispatch # "none" => Evolves(m.snap, atts[m.num]))
    BY <1>2 DEF LocalInv
  <1>4. LocalInv(m, atts, j)
    BY <1>2, <1>3, MovedLocal
  <1> QED
    BY <1>4 DEF m

\* Rows that a step leaves alone.
LEMMA SameRows ==
    ASSUME RowsInv
    PROVE  /\ JobEvolves(job, job)
           /\ \A n \in Numbers : Evolves(attempts[n], attempts[n])
  BY JobSelfEvolves, SelfEvolves DEF RowsInv

\* The count of setbacks stays within its bound.
LEMMA SetbackType ==
    ASSUME RowsInv, Setback \/ NoSetback
    PROVE  setbacks' \in 0 .. MaxSetbacks
  BY BoundsAreNaturals DEF RowsInv, Setback, NoSetback

\* An actor's update of its attempt evolves the attempts.
LEMMA SetAttemptMoves ==
    ASSUME RowsInv, NEW x, actors[x].num \in Numbers, NEW a,
           Evolves(Current(x), a), SetAttempt(x, a)
    PROVE  /\ attempts' \in [Numbers -> AIAttempts]
           /\ \A n \in Numbers : Evolves(attempts[n], attempts'[n])
           /\ attempts'[actors[x].num] = a
  <1>1. a \in AIAttempts
    BY DEF Evolves
  <1>2. attempts' \in [Numbers -> AIAttempts]
    BY <1>1 DEF RowsInv, SetAttempt
  <1>3. ASSUME NEW n \in Numbers PROVE Evolves(attempts[n], attempts'[n])
    BY SelfEvolves DEF RowsInv, SetAttempt, Current
  <1>4. attempts'[actors[x].num] = a
    BY DEF RowsInv, SetAttempt
  <1> QED
    BY <1>2, <1>3, <1>4

\* Holds keep to their statuses.
LEMMA HoldType ==
    ASSUME NEW h \in BillingHoldStatuses
    PROVE  /\ \A to \in BillingHoldStatuses : transitionBillingHold(h, to) \in BillingHoldStatuses
           /\ releaseBillingHoldForOperation(h) \in BillingHoldStatuses
           /\ \A priced \in BOOLEAN : settleBillingHoldForUsage(h, priced) \in BillingHoldStatuses
           /\ "committed" \in BillingHoldStatuses /\ "disputed" \in BillingHoldStatuses
  BY DEF BillingHoldStatuses, transitionBillingHold, releaseBillingHoldForOperation,
         settleBillingHoldForUsage

\* What an actor past selection has in hand.
LEMMA InHand ==
    ASSUME IInv, NEW x \in Actors, actors[x].pc \notin {"idle", "select"}
    PROVE  /\ actors[x] \in ActorStates
           /\ actors[x].num \in Numbers
           /\ Current(x) \in AIAttempts /\ Current(x).dispatch # "none"
           /\ Current(x).provider \in Providers
           /\ LocalInv(actors[x], attempts, job)
           /\ JobEvolves(actors[x].read, job)
           /\ actors[x].snap \in AIAttempts /\ actors[x].snap.version \in Nat
           /\ actors[x].result \in Results /\ actors[x].excluded \in SUBSET Providers
  <1>1. LocalInv(actors[x], attempts, job) /\ actors[x] \in ActorStates
    BY DEF IInv, ActorsInv
  <1>2. actors[x].num \in Numbers /\ Current(x).dispatch # "none"
        /\ JobEvolves(actors[x].read, job)
    BY <1>1 DEF LocalInv, Current
  <1>3. Current(x) \in AIAttempts /\ hasProvider(Current(x))
    BY <1>2 DEF IInv, RowsInv, Current
  <1>4. actors[x].snap \in AIAttempts /\ actors[x].result \in Results
        /\ actors[x].excluded \in SUBSET Providers
    BY <1>1 DEF ActorStates
  <1>5. actors[x].snap.version \in Nat
    BY <1>4 DEF AIAttempts
  <1> QED
    BY <1>1, <1>2, <1>3, <1>4, <1>5 DEF hasProvider

\* An actor that stops.
LEMMA StopStep ==
    ASSUME IInv, RowsMove, NEW x \in Actors, Stop(x)
    PROVE  IInv'
  <1>1. JobEvolves(newAIJob, job')
    BY NewJobType, JobEvolvesTrans DEF IInv, RowsInv, RowsMove
  <1>2. LocalInv(idle, attempts', job')
    BY <1>1, IdleLocal
  <1> QED
    BY <1>2, ActorStep DEF Stop

\* An actor that goes on after the dispatch.
LEMMA GotoStep ==
    ASSUME IInv, RowsMove, NEW x \in Actors, actors[x].pc \notin {"idle", "select"},
           NEW pc \in PCs,
           pc \notin {"idle", "select"}, pc \notin DispatchPCs,
           pc \in EndPCs => ended(actors[x].snap), Goto(x, pc)
    PROVE  IInv'
  <1>1. LocalInv([actors[x] EXCEPT !.pc = pc], attempts, job)
    BY GotoLocal, InHand
  <1>2. LocalInv([actors[x] EXCEPT !.pc = pc], attempts', job')
    BY <1>1, LocalKept DEF IInv
  <1>3. Become(x, [actors[x] EXCEPT !.pc = pc])
    BY DEF Goto
  <1> QED
    BY <1>2, <1>3, ActorStep

-----------------------------------------------------------------------------
(* Every action preserves the invariant                                    *)

\* A claim preserves the invariant.
LEMMA ClaimStep == IInv /\ ClaimQueuedAIJobs => IInv'
  <1> SUFFICES ASSUME IInv, ClaimQueuedAIJobs PROVE IInv'
    OBVIOUS
  <1>1. JobEvolves(job, job')
    BY ClaimEvolves DEF IInv, RowsInv, ClaimQueuedAIJobs
  <1> QED
    BY <1>1, SameRows, RowsStep DEF IInv, RowsInv, RowsMove, ClaimQueuedAIJobs

\* So does a lease that runs out.
LEMMA LeaseStep == IInv /\ LeaseExpires => IInv'
  <1> SUFFICES ASSUME IInv, LeaseExpires PROVE IInv'
    OBVIOUS
  <1>1. JobEvolves(job, job')
    BY ExpiryEvolves DEF IInv, RowsInv, LeaseExpires
  <1>2. setbacks' \in 0 .. MaxSetbacks
    BY SetbackType DEF IInv, LeaseExpires
  <1> QED
    BY <1>1, <1>2, SameRows, RowsStep DEF IInv, RowsInv, RowsMove, LeaseExpires

\* So does a cancellation.
LEMMA CancelStep == IInv /\ CancelAIJob => IInv'
  <1> SUFFICES ASSUME IInv, CancelAIJob PROVE IInv'
    OBVIOUS
  <1>1. JobEvolves(job, job')
    BY CancelEvolves DEF IInv, RowsInv, CancelAIJob
  <1>2. hold' \in BillingHoldStatuses
    BY HoldType DEF IInv, RowsInv, CancelAIJob
  <1> QED
    BY <1>1, <1>2, SameRows, RowsStep DEF IInv, RowsInv, RowsMove, CancelAIJob

\* So does an operator asking for a reconciliation.
LEMMA ScheduleStep == IInv /\ ScheduleAIAttemptReconciliation => IInv'
  <1> SUFFICES ASSUME IInv, ScheduleAIAttemptReconciliation PROVE IInv'
    OBVIOUS
  <1>1. PICK n \in Numbers :
          /\ dueForReconciliation(attempts[n])
          /\ attempts' = [attempts EXCEPT ![n].version = @ + 1]
          /\ Setback
          /\ UNCHANGED <<job, hold, charged, tasks, actors>>
    BY DEF ScheduleAIAttemptReconciliation
  <1> DEFINE a == attempts[n]
             b == [a EXCEPT !.version = @ + 1]
  <1>2. a \in AIAttempts /\ a.dispatch # "none"
    BY <1>1 DEF IInv, RowsInv, dueForReconciliation, inReconcilableState
  <1>3. b \in AIAttempts
    BY <1>2, SelfEvolves DEF AIAttempts
  <1>4. b.version = a.version + 1 /\ b.provider = a.provider /\ b.dispatch = a.dispatch
    BY <1>2 DEF AIAttempts
  <1>5. Evolves(a, b)
    BY <1>2, <1>3, <1>4, NextVersionEvolves
  <1>6. attempts' = [attempts EXCEPT ![n] = b]
    BY <1>1
  <1> HIDE DEF b
  <1>7. attempts' \in [Numbers -> AIAttempts] /\ \A m \in Numbers : Evolves(attempts[m], attempts'[m])
    BY <1>3, <1>5, <1>6, SelfEvolves DEF IInv, RowsInv
  <1>8. setbacks' \in 0 .. MaxSetbacks
    BY <1>1, SetbackType DEF IInv
  <1> QED
    BY <1>1, <1>7, <1>8, SameRows, RowsStep DEF IInv, RowsInv, RowsMove

\* So does a task that ends at the provider.
LEMMA EndStep == IInv /\ ProviderTaskEnds => IInv'
  <1> SUFFICES ASSUME IInv, ProviderTaskEnds PROVE IInv'
    OBVIOUS
  <1>1. tasks' \in [Numbers -> TaskStatuses \cup {"none"}]
    BY DEF IInv, RowsInv, ProviderTaskEnds, TaskStatuses
  <1>2. setbacks' \in 0 .. MaxSetbacks
    BY SetbackType DEF IInv, ProviderTaskEnds
  <1> QED
    BY <1>1, <1>2, SameRows, RowsStep DEF IInv, RowsInv, RowsMove, ProviderTaskEnds

\* So does an actor that dies.
LEMMA CrashStep == \A x \in Actors : IInv /\ Crash(x) => IInv'
  <1> SUFFICES ASSUME NEW x \in Actors, IInv, Crash(x) PROVE IInv'
    OBVIOUS
  <1>1. setbacks' \in 0 .. MaxSetbacks
    BY SetbackType DEF IInv, Crash
  <1>2. RowsMove
    BY <1>1, SameRows DEF IInv, RowsInv, RowsMove, Crash
  <1> QED
    BY <1>2, StopStep DEF Crash

\* A worker starts with a true reading of the job.
LEMMA ReceiveStep == \A w \in Actors : IInv /\ ReceiveDelivery(w) => IInv'
  <1> SUFFICES ASSUME NEW w \in Actors, IInv, ReceiveDelivery(w) PROVE IInv'
    OBVIOUS
  <1> DEFINE m == [idle EXCEPT !.pc = "select", !.read = job]
  <1>1. RowsMove
    BY SameRows DEF IInv, RowsInv, RowsMove, ReceiveDelivery
  <1>2. job \in AIJobs /\ LocalInv(idle, attempts, job)
    BY IdleLocal DEF IInv, RowsInv
  <1>3. m \in ActorStates /\ m.pc = "select" /\ m.read = job
        /\ m.snap.dispatch = "none" /\ m.num = 1 /\ m.excluded = {}
    BY <1>2, PCLabels DEF LocalInv, ActorStates, idle, absentAIAttempt
  <1>4. Cardinality({}) + 1 = 1
    BY FS_EmptySet
  <1> HIDE DEF m
  <1>5. LocalInv(m, attempts, job)
    BY <1>2, <1>3, <1>4, JobSelfEvolves DEF LocalInv, DispatchPCs, EndPCs
  <1> QED
    BY <1>1, <1>5, ActorStep, LocalKept DEF ReceiveDelivery, IInv, m

\* A worker that gives up a candidate counts it.
LEMMA WithoutLocal ==
    ASSUME NEW atts, NEW j, NEW l \in ActorStates, NEW p \in Providers \ l.excluded,
           l.num = Cardinality(l.excluded) + 1, JobEvolves(l.read, j), l.snap.dispatch = "none"
    PROVE  LocalInv(without(l, p), atts, j)
  <1> DEFINE m == without(l, p)
  <1>1. l.excluded \in SUBSET Providers /\ l.num \in Nat
    BY DEF ActorStates
  <1> DEFINE num == l.num + 1
             excluded == l.excluded \cup {p}
  <1>2. num \in Nat /\ excluded \in SUBSET Providers
    BY <1>1
  <1>3. m = [l EXCEPT !.pc = "select", !.num = num, !.excluded = excluded]
    BY DEF without
  <1> HIDE DEF num, excluded
  <1>4. m \in ActorStates /\ m.pc = "select" /\ m.num = num /\ m.excluded = excluded
        /\ m.read = l.read /\ m.snap = l.snap
    BY <1>2, <1>3, PCLabels DEF ActorStates
  <1>5. m.num = Cardinality(m.excluded) + 1
    BY <1>1, <1>4, NumberInRange DEF num, excluded
  <1> QED
    BY <1>4, <1>5 DEF LocalInv, DispatchPCs, EndPCs

\* Skipping a candidate counts it.
LEMMA SkipStep == \A w \in Actors : IInv /\ SkipCandidate(w) => IInv'
  <1> SUFFICES ASSUME NEW w \in Actors, IInv, SkipCandidate(w) PROVE IInv'
    OBVIOUS
  <1>1. setbacks' \in 0 .. MaxSetbacks
    BY SetbackType DEF IInv, SkipCandidate
  <1>2. RowsMove
    BY <1>1, SameRows DEF IInv, RowsInv, RowsMove, SkipCandidate
  <1>3. PICK p \in Candidates(w) : Become(w, without(actors[w], p))
    BY DEF SkipCandidate
  <1>4. LocalInv(actors[w], attempts, job) /\ actors[w] \in ActorStates
    BY DEF IInv, ActorsInv
  <1>5. LocalInv(without(actors[w], p), attempts, job)
    BY <1>3, <1>4, WithoutLocal DEF SkipCandidate, Candidates, LocalInv
  <1>6. LocalInv(without(actors[w], p), attempts', job')
    BY <1>2, <1>5, LocalKept DEF IInv
  <1> QED
    BY <1>2, <1>3, <1>6, ActorStep

\* A worker that takes up an attempt for one of its candidates.
LEMMA TakeUpLocal ==
    ASSUME NEW atts, NEW j, NEW l, LocalInv(l, atts, j), l.pc = "select",
           l.num \in Numbers, atts[l.num].dispatch # "none", atts[l.num].provider \notin l.excluded
    PROVE  LocalInv([l EXCEPT !.pc = "prepare"], atts, j)
  <1> DEFINE m == [l EXCEPT !.pc = "prepare"]
  <1>1. l \in ActorStates
    BY DEF LocalInv
  <1>2. m \in ActorStates /\ m.pc = "prepare" /\ m.num = l.num /\ m.excluded = l.excluded
        /\ m.read = l.read /\ m.snap = l.snap
    BY <1>1, PCLabels DEF ActorStates
  <1> HIDE DEF m
  <1>3. LocalInv(m, atts, j)
    BY <1>2 DEF LocalInv, DispatchPCs, EndPCs
  <1> QED
    BY <1>3 DEF m

\* An attempt begins within the range of attempt numbers, for a candidate that was not given up.
LEMMA BeginStep == \A w \in Actors : IInv /\ BeginAIAttempt(w) => IInv'
  <1> SUFFICES ASSUME NEW w \in Actors, IInv, BeginAIAttempt(w) PROVE IInv'
    OBVIOUS
  <1> DEFINE l == actors[w]
             m == [l EXCEPT !.pc = "prepare"]
  <1>1. PICK p \in Candidates(w) :
          \/ /\ Current(w).dispatch = "none"
             /\ SetAttempt(w, newAIAttempt(p))
             /\ Goto(w, "prepare")
          \/ /\ Current(w).dispatch # "none"
             /\ Goto(w, IF Current(w).provider = p THEN "prepare" ELSE "idle")
             /\ UNCHANGED attempts
    BY DEF BeginAIAttempt
  <1>2. LocalInv(l, attempts, job) /\ l \in ActorStates /\ l.pc = "select"
    BY DEF IInv, ActorsInv, BeginAIAttempt
  <1>3. p \in Providers /\ p \notin l.excluded /\ l.excluded \in SUBSET Providers
    BY <1>1, <1>2 DEF Candidates, ActorStates
  <1>4. l.num \in Numbers
    BY <1>2, <1>3, NumberInRange DEF LocalInv
  <1>5. UNCHANGED <<job, hold, charged, tasks, setbacks>>
    BY DEF BeginAIAttempt
  <1>6. CASE Current(w).dispatch = "none" /\ SetAttempt(w, newAIAttempt(p)) /\ Goto(w, "prepare")
    <2>1. newAIAttempt(p) \in AIAttempts /\ newAIAttempt(p).dispatch = "pending"
          /\ newAIAttempt(p).provider = p
      BY <1>3 DEF newAIAttempt, absentAIAttempt, AIAttempts, AttemptStatuses, DispatchStates,
                  ProviderStatuses
    <2>2. Evolves(Current(w), newAIAttempt(p))
      BY <1>3, <1>6, <2>1 DEF Evolves, hasProvider
    <2>3. /\ attempts' \in [Numbers -> AIAttempts]
          /\ \A n \in Numbers : Evolves(attempts[n], attempts'[n])
          /\ attempts'[l.num] = newAIAttempt(p)
      BY <1>4, <1>6, <2>2, SetAttemptMoves DEF IInv
    <2>4. RowsMove
      BY <1>5, <2>3, SameRows DEF IInv, RowsInv, RowsMove
    <2>5. LocalInv(l, attempts', job')
      BY <1>2, <2>4, LocalKept DEF IInv
    <2>6. LocalInv(m, attempts', job')
      BY <1>2, <1>3, <1>4, <2>1, <2>3, <2>5, TakeUpLocal
    <2> QED
      BY <1>6, <2>4, <2>6, ActorStep DEF Goto
  <1>7. CASE /\ Current(w).dispatch # "none"
             /\ Goto(w, IF Current(w).provider = p THEN "prepare" ELSE "idle")
             /\ UNCHANGED attempts
    <2>1. RowsMove
      BY <1>5, <1>7, SameRows DEF IInv, RowsInv, RowsMove
    <2>2. CASE Current(w).provider = p
      <3>1. LocalInv(m, attempts, job)
        BY <1>2, <1>3, <1>4, <1>7, <2>2, TakeUpLocal DEF Current
      <3>2. LocalInv(m, attempts', job')
        BY <2>1, <3>1, LocalKept DEF IInv
      <3> QED
        BY <1>7, <2>1, <2>2, <3>2, ActorStep DEF Goto
    <2>3. CASE Current(w).provider # p
      BY <1>7, <2>1, <2>3, StopStep DEF Goto, Stop
    <2> QED
      BY <2>2, <2>3
  <1> QED
    BY <1>1, <1>6, <1>7

\* Requeueing is a transition of the job.
LEMMA RequeueStep == \A w \in Actors : IInv /\ RequeueAIJob(w) => IInv'
  <1> SUFFICES ASSUME NEW w \in Actors, IInv, RequeueAIJob(w) PROVE IInv'
    OBVIOUS
  <1>1. setbacks' \in 0 .. MaxSetbacks
    BY SetbackType DEF IInv, RequeueAIJob
  <1>2. JobEvolves(job, job')
    BY TransitionEvolves DEF IInv, RowsInv, RequeueAIJob
  <1>3. RowsMove
    BY <1>1, <1>2, SameRows DEF IInv, RowsInv, RowsMove, RequeueAIJob
  <1> QED
    BY <1>3, StopStep DEF RequeueAIJob

\* A worker that goes on with a fresh reading of its attempt.
LEMMA SnapLocal ==
    ASSUME NEW atts, NEW j, NEW l, LocalInv(l, atts, j), l.pc \in DispatchPCs,
           NEW pc \in DispatchPCs, NEW a \in AIAttempts, Evolves(a, atts[l.num]),
           NEW result \in Results
    PROVE  LocalInv([l EXCEPT !.pc = pc, !.snap = a, !.result = result], atts, j)
  <1> DEFINE m == [l EXCEPT !.pc = pc, !.snap = a, !.result = result]
  <1>1. l \in ActorStates /\ pc \in PCs /\ pc \notin {"idle", "select"}
        /\ l.pc \notin {"idle", "select"} /\ pc \notin EndPCs
    BY PCLabels DEF LocalInv, DispatchPCs, EndPCs
  <1>2. m \in ActorStates /\ m.pc = pc /\ m.num = l.num /\ m.excluded = l.excluded
        /\ m.read = l.read /\ m.snap = a
    BY <1>1 DEF ActorStates
  <1> HIDE DEF m
  <1>3. LocalInv(m, atts, j)
    BY <1>1, <1>2, MovedLocal DEF LocalInv
  <1> QED
    BY <1>3 DEF m

\* The same, for a step that leaves the answer alone.
LEMMA SameResult ==
    ASSUME NEW l \in ActorStates, NEW pc, NEW a
    PROVE  [l EXCEPT !.pc = pc, !.snap = a] = [l EXCEPT !.pc = pc, !.snap = a, !.result = l.result]
  BY DEF ActorStates

\* Preparing a dispatch reads the attempt.
LEMMA PrepareStep == \A w \in Actors : IInv /\ PrepareAIAttemptDispatch(w) => IInv'
  <1> SUFFICES ASSUME NEW w \in Actors, IInv, PrepareAIAttemptDispatch(w) PROVE IInv'
    OBVIOUS
  <1> DEFINE l == actors[w]
             a == Current(w)
             pc == CASE a.dispatch = "unknown" -> "reset"
                     [] a.dispatch = "pending" -> "intent"
                     [] OTHER                  -> "submit"
  <1>1. RowsMove
    BY SameRows DEF IInv, RowsInv, RowsMove, PrepareAIAttemptDispatch
  <1>2. CASE a.dispatch = "unknown" /\ a.task
    BY <1>1, <1>2, StopStep DEF PrepareAIAttemptDispatch, taskKnown
  <1>3. CASE ~(a.dispatch = "unknown" /\ a.task)
    <2>1. Become(w, [l EXCEPT !.snap = a, !.pc = pc])
      BY <1>3 DEF PrepareAIAttemptDispatch, taskKnown
    <2>2. pc \in DispatchPCs /\ l.pc \in DispatchPCs /\ l.pc \notin {"idle", "select"}
      BY DEF DispatchPCs, PrepareAIAttemptDispatch
    <2> HIDE DEF pc
    <2>3. l \in ActorStates /\ a \in AIAttempts /\ Evolves(a, attempts[l.num])
          /\ LocalInv(l, attempts, job) /\ l.result \in Results
      BY <2>2, InHand, SelfEvolves DEF Current
    <2>4. [l EXCEPT !.snap = a, !.pc = pc] = [l EXCEPT !.pc = pc, !.snap = a, !.result = l.result]
      BY <2>3 DEF ActorStates
    <2>5. LocalInv([l EXCEPT !.pc = pc, !.snap = a, !.result = l.result], attempts, job)
      BY <2>2, <2>3, SnapLocal
    <2>6. LocalInv([l EXCEPT !.snap = a, !.pc = pc], attempts, job)
      BY <2>4, <2>5
    <2> QED
      BY <1>1, <2>1, <2>6, LocalKept, ActorStep DEF IInv
  <1> QED
    BY <1>2, <1>3

\* A worker's update of its attempt, followed by the next step of the dispatch.
LEMMA DispatchOn ==
    ASSUME IInv, NEW w \in Actors, actors[w].pc \in DispatchPCs,
           NEW a, Evolves(Current(w), a), SetAttempt(w, a), NEW pc \in DispatchPCs,
           UNCHANGED <<job, hold, charged, tasks, setbacks>>
    PROVE  /\ RowsMove
           /\ LocalInv([actors[w] EXCEPT !.pc = pc, !.snap = a], attempts', job')
  <1> DEFINE l == actors[w]
  <1>1. l.pc \notin {"idle", "select"}
    BY DEF DispatchPCs
  <1>2. /\ attempts' \in [Numbers -> AIAttempts]
        /\ \A n \in Numbers : Evolves(attempts[n], attempts'[n])
        /\ attempts'[l.num] = a
    BY <1>1, InHand, SetAttemptMoves DEF IInv
  <1>3. RowsMove
    BY <1>2, SameRows DEF IInv, RowsInv, RowsMove
  <1>4. LocalInv(l, attempts', job')
    BY <1>1, <1>3, InHand, LocalKept DEF IInv
  <1>5. a \in AIAttempts /\ Evolves(a, attempts'[l.num]) /\ l \in ActorStates /\ l.result \in Results
    BY <1>1, <1>2, InHand, SelfEvolves DEF Evolves
  <1>6. LocalInv([l EXCEPT !.pc = pc, !.snap = a, !.result = l.result], attempts', job')
    BY <1>4, <1>5, SnapLocal
  <1>7. LocalInv([l EXCEPT !.pc = pc, !.snap = a], attempts', job')
    BY <1>5, <1>6, SameResult
  <1> QED
    BY <1>3, <1>7

\* Resetting an unknown dispatch evolves the attempt.
LEMMA ResetStep == \A w \in Actors : IInv /\ ResetUnknownDispatch(w) => IInv'
  <1> SUFFICES ASSUME NEW w \in Actors, IInv, ResetUnknownDispatch(w) PROVE IInv'
    OBVIOUS
  <1> DEFINE a == resetUnknownDispatch(Current(w), actors[w].snap.version)
  <1>1. actors[w].pc \in DispatchPCs /\ actors[w].pc \notin {"idle", "select"}
        /\ "intent" \in DispatchPCs
    BY DEF ResetUnknownDispatch, DispatchPCs
  <1>2. Evolves(Current(w), a)
    BY <1>1, InHand, ResetEvolves
  <1>3. /\ SetAttempt(w, a) /\ UNCHANGED <<job, hold, charged, tasks, setbacks>>
        /\ Stop(w) \/ Become(w, [actors[w] EXCEPT !.pc = "intent", !.snap = a])
    BY DEF ResetUnknownDispatch
  <1> HIDE DEF a
  <1>4. RowsMove /\ LocalInv([actors[w] EXCEPT !.pc = "intent", !.snap = a], attempts', job')
    BY <1>1, <1>2, <1>3, DispatchOn
  <1> QED
    BY <1>3, <1>4, StopStep, ActorStep

\* Persisting the intent evolves the attempt.
LEMMA PersistStep == \A w \in Actors : IInv /\ PersistIntent(w) => IInv'
  <1> SUFFICES ASSUME NEW w \in Actors, IInv, PersistIntent(w) PROVE IInv'
    OBVIOUS
  <1> DEFINE a == persistDispatchIntent(Current(w), actors[w].snap.version)
  <1>1. actors[w].pc \in DispatchPCs /\ actors[w].pc \notin {"idle", "select"}
        /\ "submit" \in DispatchPCs
    BY DEF PersistIntent, DispatchPCs
  <1>2. Evolves(Current(w), a)
    BY <1>1, InHand, PersistEvolves
  <1>3. /\ SetAttempt(w, a) /\ UNCHANGED <<job, hold, charged, tasks, setbacks>>
        /\ Stop(w) \/ Become(w, [actors[w] EXCEPT !.pc = "submit", !.snap = a])
    BY DEF PersistIntent
  <1> HIDE DEF a
  <1>4. RowsMove /\ LocalInv([actors[w] EXCEPT !.pc = "submit", !.snap = a], attempts', job')
    BY <1>1, <1>2, <1>3, DispatchOn
  <1> QED
    BY <1>3, <1>4, StopStep, ActorStep

\* The switch after a dispatch leaves the worker in a state that fits.
LEMMA AfterDispatchLocal ==
    ASSUME NEW atts, NEW j, NEW l, LocalInv(l, atts, j), l.pc \in DispatchPCs,
           NEW a \in AIAttempts, a = atts[l.num], a.provider \in Providers,
           JobEvolves(newAIJob, j)
    PROVE  LocalInv(afterDispatch(l, a), atts, j)
  <1> DEFINE accepted == [l EXCEPT !.pc = "accepted", !.snap = a, !.result = noResult]
             uncertain == [l EXCEPT !.pc = "uncertain", !.snap = a, !.result = noResult]
             given == [without(l, a.provider) EXCEPT !.snap = absentAIAttempt, !.result = noResult]
  <1>1. l \in ActorStates /\ l.pc \notin {"idle", "select"} /\ noResult \in Results
        /\ Evolves(a, a) /\ JobEvolves(l.read, j)
    BY SelfEvolves DEF LocalInv, DispatchPCs, noResult, Results
  <1>2. LocalInv(accepted, atts, j)
    <2>1. accepted \in ActorStates /\ accepted.pc = "accepted" /\ accepted.num = l.num
          /\ accepted.excluded = l.excluded /\ accepted.read = l.read /\ accepted.snap = a
      BY <1>1, PCLabels DEF ActorStates
    <2> HIDE DEF accepted
    <2> QED
      BY <1>1, <2>1, MovedLocal DEF DispatchPCs, EndPCs
  <1>3. LocalInv(uncertain, atts, j)
    <2>1. uncertain \in ActorStates /\ uncertain.pc = "uncertain" /\ uncertain.num = l.num
          /\ uncertain.excluded = l.excluded /\ uncertain.read = l.read /\ uncertain.snap = a
      BY <1>1, PCLabels DEF ActorStates
    <2> HIDE DEF uncertain
    <2> QED
      BY <1>1, <2>1, MovedLocal DEF DispatchPCs, EndPCs
  <1>4. LocalInv(given, atts, j)
    <2> DEFINE k == [l EXCEPT !.snap = absentAIAttempt, !.result = noResult]
    <2>1. absentAIAttempt \in AIAttempts /\ absentAIAttempt.dispatch = "none"
      BY DEF absentAIAttempt, AIAttempts, AttemptStatuses, DispatchStates, ProviderStatuses
    <2>2. k \in ActorStates /\ k.num = l.num /\ k.excluded = l.excluded /\ k.read = l.read
          /\ k.snap = absentAIAttempt
      BY <1>1, <2>1 DEF ActorStates
    <2>3. given = without(k, a.provider)
      BY <1>1 DEF without, ActorStates
    <2>4. k.num = Cardinality(k.excluded) + 1 /\ a.provider \notin k.excluded
      BY <2>2 DEF LocalInv
    <2> HIDE DEF k
    <2>5. LocalInv(without(k, a.provider), atts, j)
      BY <1>1, <2>1, <2>2, <2>4, WithoutLocal
    <2> QED
      BY <2>3, <2>5
  <1>5. LocalInv(idle, atts, j)
    BY IdleLocal
  <1> QED
    BY <1>2, <1>3, <1>4, <1>5 DEF afterDispatch

\* A worker's update of its attempt, followed by the switch.
LEMMA DispatchDone ==
    ASSUME IInv, NEW w \in Actors, actors[w].pc \in DispatchPCs,
           NEW a, Evolves(Current(w), a), SetAttempt(w, a),
           Become(w, afterDispatch(actors[w], a)),
           UNCHANGED <<job, hold, charged, tasks, setbacks>>
    PROVE  IInv'
  <1> DEFINE l == actors[w]
  <1>1. l.pc \notin {"idle", "select"}
    BY DEF DispatchPCs
  <1>2. /\ attempts' \in [Numbers -> AIAttempts]
        /\ \A n \in Numbers : Evolves(attempts[n], attempts'[n])
        /\ attempts'[l.num] = a
    BY <1>1, InHand, SetAttemptMoves DEF IInv
  <1>3. RowsMove
    BY <1>2, SameRows DEF IInv, RowsInv, RowsMove
  <1>4. LocalInv(l, attempts', job')
    BY <1>1, <1>3, InHand, LocalKept DEF IInv
  <1>5. a \in AIAttempts /\ a.provider \in Providers
    BY <1>1, InHand DEF Evolves
  <1>6. JobEvolves(newAIJob, job')
    BY DEF IInv, RowsInv
  <1>7. LocalInv(afterDispatch(l, a), attempts', job')
    BY <1>2, <1>4, <1>5, <1>6, AfterDispatchLocal
  <1> QED
    BY <1>3, <1>7, ActorStep

\* Marking the submission evolves the attempt.
LEMMA SubmitStep == \A w \in Actors : IInv /\ MarkSubmitted(w) => IInv'
  <1> SUFFICES ASSUME NEW w \in Actors, IInv, MarkSubmitted(w) PROVE IInv'
    OBVIOUS
  <1> DEFINE a == MarkAIAttemptDispatchSubmitted(Current(w), actors[w].snap.version)
  <1>1. actors[w].pc \in DispatchPCs /\ actors[w].pc \notin {"idle", "select"}
        /\ "call" \in DispatchPCs
    BY DEF MarkSubmitted, DispatchPCs
  <1>2. Evolves(Current(w), a)
    BY <1>1, InHand, SubmittedEvolves
  <1>3. /\ SetAttempt(w, a) /\ UNCHANGED <<job, hold, charged, tasks, setbacks>>
        /\ \/ Become(w, [actors[w] EXCEPT !.pc = "call", !.snap = a])
           \/ Become(w, afterDispatch(actors[w], a))
    BY DEF MarkSubmitted
  <1> HIDE DEF a
  <1>4. RowsMove /\ LocalInv([actors[w] EXCEPT !.pc = "call", !.snap = a], attempts', job')
    BY <1>1, <1>2, <1>3, DispatchOn
  <1> QED
    BY <1>1, <1>2, <1>3, <1>4, ActorStep, DispatchDone

\* Resolving the answer evolves the attempt.
LEMMA ResolveStep == \A w \in Actors : IInv /\ ResolveDispatch(w) => IInv'
  <1> SUFFICES ASSUME NEW w \in Actors, IInv, ResolveDispatch(w) PROVE IInv'
    OBVIOUS
  <1> DEFINE a == resolveProviderDispatchResult(Current(w), actors[w].snap, actors[w].result)
  <1>1. actors[w].pc \in DispatchPCs /\ actors[w].pc \notin {"idle", "select"}
    BY DEF ResolveDispatch, DispatchPCs
  <1>2. Evolves(Current(w), a)
    <2>1. actors[w].result \in Results
      BY <1>1, InHand
    <2>2. actors[w].result.status \in TaskStatuses \cup {""}
      BY <2>1 DEF Results
    <2> QED
      BY <1>1, <2>2, InHand, ResolveEvolves
  <1> QED
    BY <1>1, <1>2, DispatchDone DEF ResolveDispatch

\* The provider call changes nothing but the provider.
LEMMA CallStep == \A w \in Actors : IInv /\ DispatchProviderTask(w) => IInv'
  <1> SUFFICES ASSUME NEW w \in Actors, IInv, DispatchProviderTask(w) PROVE IInv'
    OBVIOUS
  <1> DEFINE l == actors[w]
             task == IF tasks[l.num] = "none" THEN "running" ELSE tasks[l.num]
  <1>1. PICK answer \in Results :
          /\ Become(w, [l EXCEPT !.pc = "resolve", !.result = answer])
          /\ tasks' = [tasks EXCEPT ![l.num] = task] \/ UNCHANGED tasks
          /\ Setback \/ NoSetback
    BY DEF DispatchProviderTask
  <1>2. l.pc = "call" /\ l.pc \notin {"idle", "select"} /\ UNCHANGED <<job, attempts, hold, charged>>
    BY DEF DispatchProviderTask
  <1>3. task \in TaskStatuses \cup {"none"}
    BY <1>2, InHand DEF IInv, RowsInv, TaskStatuses
  <1> HIDE DEF task
  <1>4. tasks' \in [Numbers -> TaskStatuses \cup {"none"}]
    BY <1>1, <1>3 DEF IInv, RowsInv
  <1>5. setbacks' \in 0 .. MaxSetbacks
    BY <1>1, SetbackType DEF IInv
  <1>6. RowsMove
    BY <1>2, <1>4, <1>5, SameRows DEF IInv, RowsInv, RowsMove
  <1> DEFINE m == [l EXCEPT !.pc = "resolve", !.result = answer]
  <1>7. l \in ActorStates /\ LocalInv(l, attempts', job')
    BY <1>2, <1>6, InHand, LocalKept DEF IInv
  <1>8. m \in ActorStates /\ m.pc = "resolve" /\ m.num = l.num /\ m.excluded = l.excluded
        /\ m.read = l.read /\ m.snap = l.snap
    BY <1>7, PCLabels DEF ActorStates
  <1> HIDE DEF m
  <1>9. LocalInv(m, attempts', job')
    BY <1>2, <1>7, <1>8, MovedLocal DEF LocalInv, DispatchPCs, EndPCs
  <1> QED
    BY <1>1, <1>6, <1>9, ActorStep DEF m

\* Steps that only move the hold.
LEMMA HoldStep ==
    ASSUME IInv, NEW x \in Actors, actors[x].pc \notin {"idle", "select"},
           NEW to \in BillingHoldStatuses,
           UNCHANGED hold \/ hold' = transitionBillingHold(hold, to),
           Setback \/ NoSetback, UNCHANGED <<job, attempts, charged, tasks>>,
           NEW pc \in PCs, pc \notin {"idle", "select"}, pc \notin DispatchPCs,
           pc \in EndPCs => ended(actors[x].snap), Goto(x, pc)
    PROVE  IInv'
  <1>1. setbacks' \in 0 .. MaxSetbacks
    BY SetbackType DEF IInv
  <1>2. hold' \in BillingHoldStatuses
    BY HoldType DEF IInv, RowsInv
  <1>3. RowsMove
    BY <1>1, <1>2, SameRows DEF IInv, RowsInv, RowsMove
  <1> QED
    BY <1>3, GotoStep

\* A worker commits the hold.
LEMMA CommitAcceptedStep == \A w \in Actors : IInv /\ CommitAccepted(w) => IInv'
  <1> SUFFICES ASSUME NEW w \in Actors, IInv, CommitAccepted(w) PROVE IInv'
    OBVIOUS
  <1>1. "committed" \in BillingHoldStatuses /\ "reread" \notin DispatchPCs \cup EndPCs /\ "reread" \in PCs
    BY PCLabels DEF BillingHoldStatuses, DispatchPCs, EndPCs
  <1> QED
    BY <1>1, HoldStep DEF CommitAccepted

\* A worker disputes the hold.
LEMMA DisputeUncertainStep == \A w \in Actors : IInv /\ DisputeUncertain(w) => IInv'
  <1> SUFFICES ASSUME NEW w \in Actors, IInv, DisputeUncertain(w) PROVE IInv'
    OBVIOUS
  <1>1. "disputed" \in BillingHoldStatuses /\ "park" \notin DispatchPCs \cup EndPCs /\ "park" \in PCs
    BY PCLabels DEF BillingHoldStatuses, DispatchPCs, EndPCs
  <1> QED
    BY <1>1, HoldStep DEF DisputeUncertain

\* A reconciler disputes the hold.
LEMMA DisputeLostStep == \A r \in Actors : IInv /\ DisputeLostTask(r) => IInv'
  <1> SUFFICES ASSUME NEW r \in Actors, IInv, DisputeLostTask(r) PROVE IInv'
    OBVIOUS
  <1>1. "disputed" \in BillingHoldStatuses /\ "lost" \notin DispatchPCs \cup EndPCs /\ "lost" \in PCs
    BY PCLabels DEF BillingHoldStatuses, DispatchPCs, EndPCs
  <1> QED
    BY <1>1, HoldStep DEF DisputeLostTask

\* A reconciler commits the hold.
LEMMA CommitReconciledStep == \A r \in Actors : IInv /\ CommitReconciled(r) => IInv'
  <1> SUFFICES ASSUME NEW r \in Actors, IInv, CommitReconciled(r) PROVE IInv'
    OBVIOUS
  <1>1. "committed" \in BillingHoldStatuses /\ "resume" \notin DispatchPCs \cup EndPCs /\ "resume" \in PCs
    BY PCLabels DEF BillingHoldStatuses, DispatchPCs, EndPCs
  <1> QED
    BY <1>1, HoldStep DEF CommitReconciled, NoSetback

\* An actor that reads the job again.
LEMMA ReadLocal ==
    ASSUME NEW atts, NEW j, NEW l, LocalInv(l, atts, j), l.pc \notin {"idle", "select"},
           NEW pc \in PCs, pc \notin {"idle", "select"} \cup DispatchPCs \cup EndPCs,
           NEW read \in AIJobs, JobEvolves(read, j)
    PROVE  LocalInv([l EXCEPT !.pc = pc, !.read = read], atts, j)
  <1> DEFINE m == [l EXCEPT !.pc = pc, !.read = read]
  <1>1. l \in ActorStates
    BY DEF LocalInv
  <1>2. m \in ActorStates /\ m.num = l.num /\ m.excluded = l.excluded /\ m.pc = pc
        /\ m.read = read /\ m.snap = l.snap
    BY <1>1 DEF ActorStates
  <1> HIDE DEF m
  <1>3. LocalInv(m, atts, j)
    BY <1>2, MovedLocal DEF LocalInv
  <1> QED
    BY <1>3 DEF m

\* Reading the job again keeps the reading true.
LEMMA RereadStep == \A w \in Actors : IInv /\ RereadAcceptedJob(w) => IInv'
  <1> SUFFICES ASSUME NEW w \in Actors, IInv, RereadAcceptedJob(w) PROVE IInv'
    OBVIOUS
  <1> DEFINE l == actors[w]
             pc == IF job.status = "canceling" THEN "progress" ELSE "run"
  <1>1. RowsMove
    BY SameRows DEF IInv, RowsInv, RowsMove, RereadAcceptedJob
  <1>2. Become(w, [l EXCEPT !.read = job, !.pc = pc]) /\ l.pc \notin {"idle", "select"}
    BY DEF RereadAcceptedJob
  <1>3. pc \in PCs /\ pc \notin {"idle", "select"} \cup DispatchPCs \cup EndPCs
    BY PCLabels DEF DispatchPCs, EndPCs
  <1> HIDE DEF pc
  <1>4. l \in ActorStates /\ LocalInv(l, attempts, job) /\ job \in AIJobs /\ JobEvolves(job, job)
    BY <1>2, InHand, SameRows DEF IInv, RowsInv
  <1>5. [l EXCEPT !.read = job, !.pc = pc] = [l EXCEPT !.pc = pc, !.read = job]
    BY <1>4 DEF ActorStates
  <1>6. LocalInv([l EXCEPT !.pc = pc, !.read = job], attempts, job)
    BY <1>2, <1>3, <1>4, ReadLocal
  <1>7. LocalInv([l EXCEPT !.read = job, !.pc = pc], attempts', job')
    BY <1>1, <1>5, <1>6, LocalKept DEF IInv
  <1> QED
    BY <1>1, <1>2, <1>7, ActorStep

\* TransitionAIJob to "running", by a worker or a reconciler.
LEMMA RunJobStep ==
    ASSUME IInv, NEW x \in Actors, actors[x].pc \notin {"idle", "select"}, runJob(x),
           UNCHANGED <<attempts, hold, charged, tasks, setbacks>>
    PROVE  IInv'
  <1> DEFINE l == actors[x]
             m == [l EXCEPT !.pc = "progress", !.read = job']
  <1>1. JobEvolves(job, job')
    BY TransitionEvolves DEF IInv, RowsInv, runJob
  <1>2. RowsMove
    BY <1>1, SameRows DEF IInv, RowsInv, RowsMove
  <1>3. Stop(x) \/ Become(x, m)
    BY DEF runJob
  <1>4. LocalInv(l, attempts', job') /\ job' \in AIJobs /\ JobEvolves(job', job')
    BY <1>1, <1>2, InHand, LocalKept, JobSelfEvolves DEF IInv, JobEvolves
  <1>5. "progress" \in PCs /\ "progress" \notin DispatchPCs \cup EndPCs
    BY PCLabels DEF DispatchPCs, EndPCs
  <1>6. LocalInv(m, attempts', job')
    BY <1>4, <1>5, ReadLocal
  <1> QED
    BY <1>2, <1>3, <1>6, StopStep, ActorStep

\* A worker sets its job running.
LEMMA RunAcceptedStep == \A w \in Actors : IInv /\ RunAcceptedJob(w) => IInv'
  BY RunJobStep DEF RunAcceptedJob

\* A transition of the job that ends the actor's run.
LEMMA JobStopStep ==
    ASSUME IInv, NEW x \in Actors, JobEvolves(job, job'), Stop(x),
           UNCHANGED <<attempts, hold, charged, tasks, setbacks>>
    PROVE  IInv'
  <1>1. RowsMove
    BY SameRows DEF IInv, RowsInv, RowsMove
  <1> QED
    BY <1>1, StopStep

\* A worker parks its job as unknown.
LEMMA ParkUncertainStep == \A w \in Actors : IInv /\ ParkUncertainJob(w) => IInv'
  <1> SUFFICES ASSUME NEW w \in Actors, IInv, ParkUncertainJob(w) PROVE IInv'
    OBVIOUS
  <1>1. JobEvolves(job, job')
    BY TransitionEvolves DEF IInv, RowsInv, ParkUncertainJob
  <1> QED
    BY <1>1, JobStopStep DEF ParkUncertainJob

\* A reconciler parks a job as unknown.
LEMMA ParkLostStep == \A r \in Actors : IInv /\ ParkLostJob(r) => IInv'
  <1> SUFFICES ASSUME NEW r \in Actors, IInv, ParkLostJob(r) PROVE IInv'
    OBVIOUS
  <1>1. JobEvolves(job, job')
    BY TransitionEvolves, SameRows DEF IInv, RowsInv, ParkLostJob
  <1> QED
    BY <1>1, JobStopStep DEF ParkLostJob

\* A reconciler requeues a job whose task was never created.
LEMMA RequeueProvenStep == \A r \in Actors : IInv /\ RequeueProvenJob(r) => IInv'
  <1> SUFFICES ASSUME NEW r \in Actors, IInv, RequeueProvenJob(r) PROVE IInv'
    OBVIOUS
  <1>1. JobEvolves(job, job')
    BY TransitionEvolves, SameRows DEF IInv, RowsInv, RequeueProvenJob
  <1> QED
    BY <1>1, JobStopStep DEF RequeueProvenJob

\* A reconciler sets a job running again.
LEMMA ResumeStep == \A r \in Actors : IInv /\ ResumeJob(r) => IInv'
  <1> SUFFICES ASSUME NEW r \in Actors, IInv, ResumeJob(r) PROVE IInv'
    OBVIOUS
  <1>1. CASE runJob(r)
    BY <1>1, RunJobStep DEF ResumeJob
  <1>2. CASE Goto(r, "progress") /\ UNCHANGED job
    <2>1. RowsMove
      BY <1>2, SameRows DEF IInv, RowsInv, RowsMove, ResumeJob
    <2>2. "progress" \in PCs /\ "progress" \notin DispatchPCs \cup EndPCs
      BY PCLabels DEF DispatchPCs, EndPCs
    <2> QED
      BY <1>2, <2>1, <2>2, GotoStep DEF ResumeJob
  <1> QED
    BY <1>1, <1>2 DEF ResumeJob

\* A reconciler takes up an attempt that exists.
LEMMA PickStep == \A r \in Actors : IInv /\ PickDueAttempt(r) => IInv'
  <1> SUFFICES ASSUME NEW r \in Actors, IInv, PickDueAttempt(r) PROVE IInv'
    OBVIOUS
  <1>1. PICK n \in Numbers :
          /\ dueForReconciliation(attempts[n])
          /\ Become(r, [idle EXCEPT !.pc = "observe", !.num = n, !.read = job])
    BY DEF PickDueAttempt
  <1> DEFINE m == [idle EXCEPT !.pc = "observe", !.num = n, !.read = job]
  <1>2. setbacks' \in 0 .. MaxSetbacks
    BY SetbackType DEF IInv, PickDueAttempt
  <1>3. RowsMove
    BY <1>2, SameRows DEF IInv, RowsInv, RowsMove, PickDueAttempt
  <1>4. job \in AIJobs /\ JobEvolves(job, job) /\ LocalInv(idle, attempts, job) /\ n \in Nat
    BY IdleLocal, SameRows DEF IInv, RowsInv, Numbers
  <1>5. m \in ActorStates /\ m.pc = "observe" /\ m.read = job /\ m.num = n
        /\ m.snap.dispatch = "none"
    BY <1>4, PCLabels DEF LocalInv, ActorStates, idle, absentAIAttempt
  <1>6. attempts[n].dispatch # "none"
    BY <1>1 DEF dueForReconciliation, inReconcilableState
  <1> HIDE DEF m
  <1>7. LocalInv(m, attempts, job)
    BY <1>4, <1>5, <1>6 DEF LocalInv, DispatchPCs, EndPCs
  <1> QED
    BY <1>1, <1>3, <1>7, ActorStep, LocalKept DEF IInv, m

\* An observation reads the attempt.
LEMMA ObserveStep == \A r \in Actors : IInv /\ ObserveProviderTask(r) => IInv'
  <1> SUFFICES ASSUME NEW r \in Actors, IInv, ObserveProviderTask(r) PROVE IInv'
    OBVIOUS
  <1> DEFINE l == actors[r]
             a == Current(r)
  <1>1. PICK answer \in Results :
          /\ Become(r, [l EXCEPT !.pc = "settle", !.snap = a, !.result = answer])
          /\ tasks' = [tasks EXCEPT ![l.num] = "canceled"] \/ UNCHANGED tasks
          /\ Setback \/ NoSetback
    BY DEF ObserveProviderTask, NoSetback
  <1>2. l.pc \notin {"idle", "select"} /\ UNCHANGED <<job, attempts, hold, charged>>
    BY DEF ObserveProviderTask
  <1>3. tasks' \in [Numbers -> TaskStatuses \cup {"none"}]
    BY <1>1 DEF IInv, RowsInv, TaskStatuses
  <1>4. setbacks' \in 0 .. MaxSetbacks
    BY <1>1, SetbackType DEF IInv
  <1>5. RowsMove
    BY <1>2, <1>3, <1>4, SameRows DEF IInv, RowsInv, RowsMove
  <1> DEFINE m == [l EXCEPT !.pc = "settle", !.snap = a, !.result = answer]
  <1>6. l \in ActorStates /\ a \in AIAttempts /\ LocalInv(l, attempts, job)
        /\ Evolves(a, attempts[l.num])
    BY <1>2, InHand, SelfEvolves DEF Current
  <1>7. m \in ActorStates /\ m.pc = "settle" /\ m.num = l.num /\ m.excluded = l.excluded
        /\ m.read = l.read /\ m.snap = a
    BY <1>6, PCLabels DEF ActorStates
  <1> HIDE DEF m
  <1>8. LocalInv(m, attempts, job)
    BY <1>2, <1>6, <1>7, MovedLocal DEF LocalInv, DispatchPCs, EndPCs
  <1>9. LocalInv(m, attempts', job')
    BY <1>5, <1>8, LocalKept DEF IInv
  <1> QED
    BY <1>1, <1>5, <1>9, ActorStep DEF m

\* A reconciler finds its attempt moved on.
LEMMA ObserveMovedStep == \A r \in Actors : IInv /\ ObserveMovedAttempt(r) => IInv'
  <1> SUFFICES ASSUME NEW r \in Actors, IInv, ObserveMovedAttempt(r) PROVE IInv'
    OBVIOUS
  <1> DEFINE pc == IF Current(r).dispatch = "proven_not_created" THEN "requeue" ELSE "dispute"
  <1>1. RowsMove
    BY SameRows DEF IInv, RowsInv, RowsMove, ObserveMovedAttempt
  <1>2. pc \in PCs /\ pc \notin {"idle", "select"} \cup DispatchPCs \cup EndPCs
    BY PCLabels DEF DispatchPCs, EndPCs
  <1> QED
    BY <1>1, <1>2, GotoStep DEF ObserveMovedAttempt

\* A reconciler loses the store.
LEMMA LoseStep == \A r \in Actors : IInv /\ LoseReconciliation(r) => IInv'
  <1> SUFFICES ASSUME NEW r \in Actors, IInv, LoseReconciliation(r) PROVE IInv'
    OBVIOUS
  <1>1. RowsMove
    BY SetbackType, SameRows DEF IInv, RowsInv, RowsMove, LoseReconciliation
  <1>2. "dispute" \in PCs /\ "dispute" \notin {"idle", "select"} \cup DispatchPCs \cup EndPCs
    BY PCLabels DEF DispatchPCs, EndPCs
  <1> QED
    BY <1>1, <1>2, GotoStep DEF LoseReconciliation

\* A reconciliation evolves the attempt.
LEMMA SettleStep == \A r \in Actors : IInv /\ SettleReconciliation(r) => IInv'
  <1> SUFFICES ASSUME NEW r \in Actors, IInv, SettleReconciliation(r) PROVE IInv'
    OBVIOUS
  <1> DEFINE l == actors[r]
             a == resolveProviderDispatchResult(Current(r), l.snap, l.result)
             pc == CASE a.dispatch = "accepted"           -> "commit"
                     [] a.dispatch = "proven_not_created" -> "requeue"
                     [] OTHER                             -> "dispute"
             m == [l EXCEPT !.snap = a, !.result = noResult, !.pc = pc]
  <1>1. l.pc \notin {"idle", "select"}
    BY DEF SettleReconciliation
  <1>2. Evolves(Current(r), a)
    <2>1. actors[r].result \in Results
      BY <1>1, InHand
    <2>2. actors[r].result.status \in TaskStatuses \cup {""}
      BY <2>1 DEF Results
    <2> QED
      BY <1>1, <2>2, InHand, ResolveEvolves
  <1>3. pc \in PCs /\ pc \notin {"idle", "select"} \cup DispatchPCs \cup EndPCs
    BY PCLabels DEF DispatchPCs, EndPCs
  <1>4. /\ SetAttempt(r, a) /\ UNCHANGED <<job, hold, charged, tasks, setbacks>>
        /\ Stop(r) \/ Become(r, m)
    BY DEF SettleReconciliation
  <1> HIDE DEF a, pc
  <1>5. /\ attempts' \in [Numbers -> AIAttempts]
        /\ \A n \in Numbers : Evolves(attempts[n], attempts'[n])
        /\ attempts'[l.num] = a
    BY <1>1, <1>2, <1>4, InHand, SetAttemptMoves DEF IInv
  <1>6. RowsMove
    BY <1>4, <1>5, SameRows DEF IInv, RowsInv, RowsMove
  <1>7. LocalInv(l, attempts', job') /\ l \in ActorStates
    BY <1>1, <1>6, InHand, LocalKept DEF IInv
  <1>8. a \in AIAttempts /\ Evolves(a, attempts'[l.num]) /\ noResult \in Results
    BY <1>2, <1>5, SelfEvolves DEF Evolves, noResult, Results
  <1>9. m \in ActorStates /\ m.pc = pc /\ m.num = l.num /\ m.excluded = l.excluded
        /\ m.read = l.read /\ m.snap = a
    BY <1>3, <1>7, <1>8 DEF ActorStates
  <1> HIDE DEF m
  <1>10. LocalInv(m, attempts', job')
    BY <1>1, <1>3, <1>7, <1>8, <1>9, MovedLocal DEF LocalInv
  <1> QED
    BY <1>4, <1>6, <1>10, StopStep, ActorStep

\* An actor that puts its attempt off.
LEMMA DeferMoves ==
    ASSUME IInv, NEW x \in Actors, actors[x].pc \notin {"idle", "select"}, Defer(x)
    PROVE  /\ attempts' \in [Numbers -> AIAttempts]
           /\ \A n \in Numbers : Evolves(attempts[n], attempts'[n])
           /\ Stop(x)
  BY InHand, DeferEvolves, SetAttemptMoves DEF Defer, IInv

\* Only a task that has ended goes on to its usage.
LEMMA ApplyStep == \A x \in Actors : IInv /\ ApplyProviderProgress(x) => IInv'
  <1> SUFFICES ASSUME NEW x \in Actors, IInv, ApplyProviderProgress(x) PROVE IInv'
    OBVIOUS
  <1> DEFINE l == actors[x]
             status == l.snap.pstatus
             terminal == isDurableProviderTerminalStatus(status)
  <1>1. l.pc \notin {"idle", "select"} /\ UNCHANGED <<job, hold, charged, tasks>>
    BY DEF ApplyProviderProgress
  <1>2. CASE Goto(x, IF terminal THEN "usage" ELSE "idle") /\ UNCHANGED <<attempts, setbacks>>
    <2>1. RowsMove
      BY <1>1, <1>2, SameRows DEF IInv, RowsInv, RowsMove
    <2>2. CASE terminal
      <3>1. status \in ProviderStatuses
        BY <1>1, InHand DEF AIAttempts
      <3>2. ended(l.snap)
        BY <2>2, <3>1 DEF ended, isDurableProviderTerminalStatus, ProviderStatuses, TaskStatuses
      <3>3. "usage" \in PCs /\ "usage" \notin {"idle", "select"} \cup DispatchPCs
        BY PCLabels DEF DispatchPCs
      <3> QED
        BY <1>1, <1>2, <2>1, <2>2, <3>2, <3>3, GotoStep
    <2>3. CASE ~terminal
      BY <1>2, <2>1, <2>3, StopStep DEF Goto, Stop
    <2> QED
      BY <2>2, <2>3
  <1>3. CASE Defer(x) /\ Setback
    <2>1. setbacks' \in 0 .. MaxSetbacks
      BY <1>3, SetbackType DEF IInv
    <2>2. RowsMove
      BY <1>1, <1>3, <2>1, DeferMoves, SameRows DEF IInv, RowsInv, RowsMove
    <2> QED
      BY <1>1, <1>3, <2>2, DeferMoves, StopStep
  <1> QED
    BY <1>2, <1>3 DEF ApplyProviderProgress

\* A settlement charges an attempt number.
LEMMA UsageStep == \A x \in Actors : IInv /\ SettleProviderUsage(x) => IInv'
  <1> SUFFICES ASSUME NEW x \in Actors, IInv, SettleProviderUsage(x) PROVE IInv'
    OBVIOUS
  <1>1. actors[x].pc = "usage" /\ actors[x].pc \notin {"idle", "select"}
        /\ UNCHANGED <<job, attempts, tasks>>
        /\ Goto(x, "finish") /\ RecordUsage(actors[x].num)
    BY DEF SettleProviderUsage
  <1>2. charged' \in SUBSET Numbers
    BY <1>1, InHand DEF IInv, RowsInv, RecordUsage
  <1>3. hold' \in BillingHoldStatuses
    BY <1>1, HoldType DEF IInv, RowsInv, RecordUsage
  <1>4. setbacks' \in 0 .. MaxSetbacks
    BY <1>1, SetbackType DEF IInv, RecordUsage, NoSetback
  <1>5. RowsMove
    BY <1>1, <1>2, <1>3, <1>4, SameRows DEF IInv, RowsInv, RowsMove
  <1>6. "finish" \in PCs /\ "finish" \notin {"idle", "select"} \cup DispatchPCs
    BY PCLabels DEF DispatchPCs
  <1>7. ended(actors[x].snap)
    BY <1>1, InHand DEF LocalInv, EndPCs
  <1> QED
    BY <1>1, <1>5, <1>6, <1>7, GotoStep

\* Usage that cannot be settled keeps the invariant.
LEMMA UnresolvedStep == \A x \in Actors : IInv /\ UsageUnresolved(x) => IInv'
  <1> SUFFICES ASSUME NEW x \in Actors, IInv, UsageUnresolved(x) PROVE IInv'
    OBVIOUS
  <1>1. actors[x].pc = "usage" /\ actors[x].pc \notin {"idle", "select"}
        /\ UNCHANGED <<job, charged, tasks>> /\ Setback
    BY DEF UsageUnresolved
  <1>2. setbacks' \in 0 .. MaxSetbacks
    BY <1>1, SetbackType DEF IInv
  <1>3. ended(actors[x].snap)
    BY <1>1, InHand DEF LocalInv, EndPCs
  <1>4. CASE Defer(x) /\ UNCHANGED hold
    <2>1. RowsMove
      BY <1>1, <1>2, <1>4, DeferMoves, SameRows DEF IInv, RowsInv, RowsMove
    <2> QED
      BY <1>1, <1>4, <2>1, DeferMoves, StopStep
  <1>5. CASE /\ hold' = transitionBillingHold(hold, "disputed")
             /\ Goto(x, "finish_unbilled") /\ UNCHANGED attempts
    <2>1. "finish_unbilled" \in PCs /\ "finish_unbilled" \notin {"idle", "select"} \cup DispatchPCs
      BY PCLabels DEF DispatchPCs
    <2>2. "disputed" \in BillingHoldStatuses
      BY DEF BillingHoldStatuses
    <2> QED
      BY <1>1, <1>3, <1>5, <2>1, <2>2, HoldStep
  <1>6. CASE Goto(x, "finish") /\ UNCHANGED <<hold, attempts>>
    <2>1. RowsMove
      BY <1>1, <1>2, <1>6, SameRows DEF IInv, RowsInv, RowsMove
    <2>2. "finish" \in PCs /\ "finish" \notin {"idle", "select"} \cup DispatchPCs
      BY PCLabels DEF DispatchPCs
    <2> QED
      BY <1>1, <1>3, <1>6, <2>1, <2>2, GotoStep
  <1> QED
    BY <1>4, <1>5, <1>6 DEF UsageUnresolved

\* A job is finished by a transition to a terminal status.
LEMMA FinishJobStep == \A x \in Actors : IInv /\ FinishJob(x) => IInv'
  <1> SUFFICES ASSUME NEW x \in Actors, IInv, FinishJob(x) PROVE IInv'
    OBVIOUS
  <1>1. actors[x].pc \in {"finish", "finish_unbilled"} /\ actors[x].pc \notin {"idle", "select"}
        /\ UNCHANGED <<hold, charged, tasks, setbacks>>
    BY DEF FinishJob
  <1>2. ended(actors[x].snap) /\ actors[x].snap.pstatus # "expired"
    BY <1>1, InHand DEF LocalInv, EndPCs, ended
  <1>3. JobEvolves(job, job')
    BY <1>2, TransitionEvolves, SameRows DEF IInv, RowsInv, FinishJob
  <1>4. CASE Stop(x) /\ UNCHANGED attempts
    BY <1>1, <1>3, <1>4, JobStopStep
  <1>5. CASE Goto(x, "complete") /\ UNCHANGED attempts
    <2>1. RowsMove
      BY <1>1, <1>3, <1>5, SameRows DEF IInv, RowsInv, RowsMove
    <2>2. "complete" \in PCs /\ "complete" \notin {"idle", "select"} \cup DispatchPCs
      BY PCLabels DEF DispatchPCs
    <2> QED
      BY <1>1, <1>2, <1>5, <2>1, <2>2, GotoStep
  <1>6. CASE Defer(x)
    <2>1. RowsMove
      BY <1>1, <1>3, <1>6, DeferMoves, SameRows DEF IInv, RowsInv, RowsMove
    <2> QED
      BY <1>1, <1>6, <2>1, DeferMoves, StopStep
  <1> QED
    BY <1>4, <1>5, <1>6 DEF FinishJob

\* An attempt is completed with a terminal status.
LEMMA FinishAttemptStep == \A x \in Actors : IInv /\ FinishAttempt(x) => IInv'
  <1> SUFFICES ASSUME NEW x \in Actors, IInv, FinishAttempt(x) PROVE IInv'
    OBVIOUS
  <1> DEFINE a == CompleteAIAttempt(Current(x), actors[x].snap.pstatus)
  <1>1. actors[x].pc = "complete" /\ actors[x].pc \notin {"idle", "select"}
        /\ UNCHANGED <<job, hold, charged, tasks, setbacks>> /\ SetAttempt(x, a) /\ Stop(x)
    BY DEF FinishAttempt
  <1>2. actors[x].snap.pstatus \in AttemptStatuses
    BY <1>1, InHand DEF LocalInv, EndPCs, ended, AttemptStatuses
  <1>3. Evolves(Current(x), a)
    BY <1>1, <1>2, InHand, CompleteEvolves
  <1> HIDE DEF a
  <1>4. RowsMove
    BY <1>1, <1>3, InHand, SetAttemptMoves, SameRows DEF IInv, RowsInv, RowsMove
  <1> QED
    BY <1>1, <1>4, StopStep

-----------------------------------------------------------------------------
(* Theorems                                                                *)

\* The invariant holds initially.
LEMMA InitIInv == Init => IInv
  <1> SUFFICES ASSUME Init PROVE IInv
    OBVIOUS
  <1>1. JobEvolves(newAIJob, newAIJob) /\ newAIJob \in AIJobs
    BY NewJobType, JobSelfEvolves
  <1>2. absentAIAttempt \in AIAttempts /\ hasProvider(absentAIAttempt)
    BY DEF absentAIAttempt, AIAttempts, AttemptStatuses, DispatchStates, ProviderStatuses,
           hasProvider
  <1>3. RowsInv
    BY <1>1, <1>2, BoundsAreNaturals DEF Init, RowsInv, BillingHoldStatuses
  <1>4. LocalInv(idle, attempts, job)
    BY <1>1, IdleLocal DEF Init
  <1>5. ActorsInv
    BY <1>4 DEF Init, ActorsInv, LocalInv
  <1> QED
    BY <1>3, <1>5 DEF IInv

\* Every step of applyAcceptedProviderProgress preserves it.
LEMMA ProgressStepIInv == \A x \in Actors : IInv /\ ProgressStep(x) => IInv'
  BY ApplyStep, UsageStep, UnresolvedStep, FinishJobStep, FinishAttemptStep DEF ProgressStep

\* So does every step of a delivery worker.
LEMMA WorkerStepIInv == \A w \in Actors : IInv /\ WorkerStep(w) => IInv'
  BY SkipStep, BeginStep, RequeueStep, PrepareStep, ResetStep, PersistStep, SubmitStep,
     CallStep, ResolveStep, CommitAcceptedStep, RereadStep, RunAcceptedStep,
     DisputeUncertainStep, ParkUncertainStep, ProgressStepIInv
  DEF WorkerStep

\* And every step of a reconciler.
LEMMA ReconcilerStepIInv == \A r \in Actors : IInv /\ ReconcilerStep(r) => IInv'
  BY ObserveStep, ObserveMovedStep, LoseStep, SettleStep, DisputeLostStep, ParkLostStep,
     RequeueProvenStep, CommitReconciledStep, ResumeStep, ProgressStepIInv
  DEF ReconcilerStep

\* The invariant is inductive.
LEMMA NextIInv == IInv /\ [Next]_vars => IInv'
  <1> SUFFICES ASSUME IInv, [Next]_vars PROVE IInv'
    OBVIOUS
  <1>1. CASE ClaimQueuedAIJobs \/ LeaseExpires \/ CancelAIJob
             \/ ScheduleAIAttemptReconciliation \/ ProviderTaskEnds
    BY <1>1, ClaimStep, LeaseStep, CancelStep, ScheduleStep, EndStep
  <1>2. ASSUME NEW w \in Workers, ReceiveDelivery(w) \/ WorkerStep(w) \/ Crash(w)
        PROVE  IInv'
    BY <1>2, ReceiveStep, WorkerStepIInv, CrashStep DEF Actors
  <1>3. ASSUME NEW r \in Reconcilers, PickDueAttempt(r) \/ ReconcilerStep(r) \/ Crash(r)
        PROVE  IInv'
    BY <1>3, PickStep, ReconcilerStepIInv, CrashStep DEF Actors
  <1>4. CASE UNCHANGED vars
    BY <1>4 DEF vars, IInv, RowsInv, ActorsInv
  <1> QED
    BY <1>1, <1>2, <1>3, <1>4 DEF Next

\* The invariant holds in every reachable state.
THEOREM Invariance == Spec => []IInv
  BY InitIInv, NextIInv, PTL DEF Spec

\* Every row and every actor's local state has the shape the code gives it; in
\* particular the attempt number a worker counts up to never leaves the range
\* of the candidates (dispatchClaimedAIJob).
THEOREM TypeCorrect == Spec => []TypeOK
  <1>1. IInv => TypeOK
    BY DEF IInv, RowsInv, ActorsInv, TypeOK
  <1> QED
    BY <1>1, Invariance, PTL

\* A status version names one content of the job row: an actor whose reading is
\* out of date never passes TransitionAIJob's comparison.
THEOREM JobVersionsFence == Spec => []JobVersionNamesRow
  <1>1. IInv => JobVersionNamesRow
    BY DEF IInv, ActorsInv, LocalInv, JobEvolves, JobVersionNamesRow
  <1> QED
    BY <1>1, Invariance, PTL

\* A dispatch version names one content of an attempt, for every actor that has
\* read it (UpdateAIAttemptDispatch).
THEOREM AttemptVersionsFence == Spec => []AttemptVersionNamesRow
  <1>1. IInv => AttemptVersionNamesRow
    <2> SUFFICES ASSUME IInv, NEW x \in Actors, actors[x].snap.dispatch # "none"
                 PROVE  LET snap == actors[x].snap IN
                        /\ snap.version <= Current(x).version
                        /\ snap.version = Current(x).version =>
                             [snap EXCEPT !.status = ""] = [Current(x) EXCEPT !.status = ""]
      BY DEF AttemptVersionNamesRow
    <2> DEFINE snap == actors[x].snap
    <2>1. Evolves(snap, Current(x)) /\ snap \in AIAttempts
      BY DEF IInv, ActorsInv, LocalInv, ActorStates, Current
    <2>2. Current(x) \in AIAttempts /\ snap.version <= Current(x).version
      BY <2>1 DEF Evolves
    <2>3. ASSUME snap.version = Current(x).version
          PROVE  [snap EXCEPT !.status = ""] = [Current(x) EXCEPT !.status = ""]
      <3>1. snap.dispatch = Current(x).dispatch /\ snap.provider = Current(x).provider
            /\ snap.task = Current(x).task /\ snap.pstatus = Current(x).pstatus
        BY <2>1, <2>3 DEF Evolves, sameDispatch
      <3> HIDE DEF snap
      <3> QED
        BY <2>1, <2>2, <2>3, <3>1 DEF AIAttempts
    <2> QED
      BY <2>2, <2>3
  <1> QED
    BY <1>1, Invariance, PTL

=============================================================================
