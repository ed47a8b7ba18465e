---------------------- MODULE DurableJobOutcomeProofs ----------------------
(***************************************************************************)
(* Proofs about how a job ends: closed rows stay closed, a success is      *)
(* charged, and an attempt ends as its job does.                           *)
(***************************************************************************)
EXTENDS DurableJobProofs

BillPCs == {"finish", "finish_unbilled", "complete"}
Closing == {"settled", "disputed", "released"}
Ends == {"succeeded", "failed", "canceled"}

\* An actor finishes a success only for an attempt it has charged, and ends the
\* attempt only when the job has ended the same way.
LocalOut(local, ch, j) ==
    /\ local.pc \in {"finish", "complete"} /\ local.snap.pstatus = "succeeded" => local.num \in ch
    /\ local.pc = "finish_unbilled" => local.snap.pstatus # "succeeded"
    /\ local.pc = "complete" => j.status = local.snap.pstatus

\* A hold that was given back keeps a success from being charged; only a
\* cancellation of the job gives it back.
ReleasedIsCanceled == hold = "released" => job.status = "canceled"

OutInv ==
    /\ IInv
    /\ ReleasedIsCanceled
    /\ charged # {} => hold \in Closing
    /\ job.status = "succeeded" => charged # {}
    /\ AttemptOutcomeMatchesJob
    /\ \A x \in Actors : LocalOut(actors[x], charged, job)

-----------------------------------------------------------------------------
(* Steps that finish nothing                                               *)

QuietJob == JobEvolves(job, job') /\ (job'.status = "succeeded" => job.status = "succeeded")
QuietHold ==
    /\ hold \in {"settled", "released"} => hold' = hold
    /\ hold \in Closing => hold' \in Closing
    /\ hold' = "released" => hold = "released"
QuietAttempts ==
    \A n \in Numbers : attempts'[n].status \in Ends => attempts[n].status = attempts'[n].status
QuietActors ==
    \A x \in Actors : actors'[x] = actors[x] \/ actors'[x].pc \notin BillPCs
Quiet == QuietJob /\ QuietHold /\ QuietAttempts /\ QuietActors /\ UNCHANGED charged

\* What OutInv says of an actor stays true when the job and the charges evolve.
LEMMA OutKept ==
    ASSUME NEW local, JobEvolves(job, job'), charged \subseteq charged',
           LocalInv(local, attempts, job), LocalOut(local, charged, job)
    PROVE  LocalOut(local, charged', job')
  <1>1. CASE local.pc = "complete"
    <2>1. ended(local.snap) /\ job.status = local.snap.pstatus
      BY <1>1 DEF LocalInv, LocalOut, EndPCs
    <2>2. job' = job
      BY <2>1 DEF JobEvolves, ended, aiJobTerminalStatus
    <2> QED
      BY <2>2 DEF LocalOut
  <1>2. CASE local.pc # "complete"
    BY <1>2 DEF LocalOut
  <1> QED
    BY <1>1, <1>2

\* An ended attempt stays matched with its job.
LEMMA MatchKept ==
    ASSUME AttemptOutcomeMatchesJob, JobEvolves(job, job'), QuietAttempts
    PROVE  AttemptOutcomeMatchesJob'
  <1> SUFFICES ASSUME NEW n \in Numbers, attempts'[n].status \in Ends
               PROVE  job'.status = attempts'[n].status
    BY DEF AttemptOutcomeMatchesJob, Ends
  <1>1. attempts[n].status = attempts'[n].status /\ job.status = attempts[n].status
    BY DEF QuietAttempts, AttemptOutcomeMatchesJob, Ends
  <1> QED
    BY <1>1 DEF JobEvolves, aiJobTerminalStatus, Ends

\* A released hold stays with its canceled job.
LEMMA ReleaseKept ==
    ASSUME ReleasedIsCanceled, JobEvolves(job, job'), hold' = "released" => hold = "released"
    PROVE  ReleasedIsCanceled'
  BY DEF ReleasedIsCanceled, JobEvolves, aiJobTerminalStatus

\* A quiet step preserves the invariant.
LEMMA QuietStep ==
    ASSUME OutInv, IInv', Quiet
    PROVE  OutInv'
  <1>1. ReleasedIsCanceled' /\ AttemptOutcomeMatchesJob'
    BY ReleaseKept, MatchKept DEF OutInv, Quiet, QuietJob, QuietHold
  <1>2. (charged' # {} => hold' \in Closing) /\ (job'.status = "succeeded" => charged' # {})
    BY DEF OutInv, Quiet, QuietJob, QuietHold
  <1>3. ASSUME NEW x \in Actors PROVE LocalOut(actors'[x], charged', job')
    <2>1. CASE actors'[x] = actors[x]
      BY <2>1, OutKept DEF OutInv, IInv, ActorsInv, Quiet, QuietJob
    <2>2. CASE actors'[x].pc \notin BillPCs
      BY <2>2 DEF LocalOut, BillPCs
    <2> QED
      BY <2>1, <2>2 DEF Quiet, QuietActors
  <1> QED
    BY <1>1, <1>2, <1>3 DEF OutInv

\* Rows left alone are quiet.
LEMMA SameQuiet ==
    /\ IInv /\ UNCHANGED job => QuietJob
    /\ UNCHANGED hold => QuietHold
    /\ UNCHANGED attempts => QuietAttempts
    /\ UNCHANGED actors => QuietActors
  BY SameRows DEF IInv, QuietJob, QuietHold, QuietAttempts, QuietActors

\* An actor that stops or goes to a step that finishes nothing.
LEMMA BecomeQuiet ==
    ASSUME IInv, NEW x \in Actors, NEW local, Become(x, local), local.pc \notin BillPCs
    PROVE  QuietActors
  BY DEF IInv, ActorsInv, Become, QuietActors

\* An actor that stops finishes nothing.
LEMMA StopQuiet ==
    ASSUME IInv, NEW x \in Actors, Stop(x)
    PROVE  QuietActors
  <1>1. idle.pc \notin BillPCs
    BY DEF idle, BillPCs
  <1> QED
    BY <1>1, BecomeQuiet DEF Stop

\* Nor does one that goes to another step.
LEMMA GotoQuiet ==
    ASSUME IInv, NEW x \in Actors, NEW pc, pc \notin BillPCs, Goto(x, pc)
    PROVE  QuietActors
  <1>1. [actors[x] EXCEPT !.pc = pc].pc = pc
    BY DEF IInv, ActorsInv, ActorStates
  <1>2. idle.pc \notin BillPCs
    BY DEF idle, BillPCs
  <1> QED
    BY <1>1, <1>2, BecomeQuiet DEF Goto

\* Transitions of the job to a status other than a success.
LEMMA TransitionQuiet ==
    ASSUME IInv, NEW read, NEW to, NEW reason, to \notin {"expired", "succeeded"},
           job' = TransitionAIJob(job, read, to, reason)
    PROVE  QuietJob
  BY TransitionEvolves DEF IInv, RowsInv, QuietJob

\* Commitments and disputes never reopen or release a hold.
LEMMA HoldQuiet ==
    ASSUME NEW to \in {"committed", "disputed"}, hold' = transitionBillingHold(hold, to)
    PROVE  QuietHold
  BY DEF QuietHold, Closing, transitionBillingHold, billingHoldTransitionAllowed

\* An update of an attempt that does not end it.
LEMMA SetQuiet ==
    ASSUME IInv, NEW x, NEW a, SetAttempt(x, a), a.status \in Ends => a.status = Current(x).status
    PROVE  QuietAttempts
  BY DEF IInv, RowsInv, SetAttempt, Current, QuietAttempts

\* No dispatch update ends an attempt as succeeded, failed or canceled.
LEMMA DispatchUpdatesQuiet ==
    ASSUME NEW a \in AIAttempts, NEW read, NEW v, NEW s, NEW result
    PROVE  /\ resetUnknownDispatch(a, v).status = a.status
           /\ persistDispatchIntent(a, v).status = a.status
           /\ MarkAIAttemptDispatchSubmitted(a, v).status = a.status
           /\ MarkAIAttemptDispatchUnknown(a, v).status = a.status
           /\ RecordAIAttemptReconciliation(a, v, s).status = a.status
           /\ BindAIAttemptProviderTask(a, v, s).status = a.status
           /\ deferAIAttemptReconciliation(a).status = a.status
           /\ ProveAIAttemptNotCreated(a, v).status \in {a.status, "skipped"}
           /\ resolveProviderDispatchResult(a, read, result).status \in {a.status, "skipped"}
  <1>1. resetUnknownDispatch(a, v).status = a.status
    BY DEF resetUnknownDispatch, AIAttempts
  <1>2. persistDispatchIntent(a, v).status = a.status
    BY DEF persistDispatchIntent, AIAttempts
  <1>3. MarkAIAttemptDispatchSubmitted(a, v).status = a.status
    BY DEF MarkAIAttemptDispatchSubmitted, AIAttempts
  <1>4. \A w : MarkAIAttemptDispatchUnknown(a, w).status = a.status
    BY DEF MarkAIAttemptDispatchUnknown, AIAttempts
  <1>5. \A w, t : RecordAIAttemptReconciliation(a, w, t).status = a.status
    BY DEF RecordAIAttemptReconciliation, AIAttempts
  <1>6. \A w, t : BindAIAttemptProviderTask(a, w, t).status = a.status
    <2> TAKE w, t
    <2>1. [a EXCEPT !.dispatch = "accepted", !.version = @ + 1, !.task = TRUE, !.pstatus = t].status
          = a.status
      BY DEF AIAttempts
    <2> QED
      BY <1>5, <2>1 DEF BindAIAttemptProviderTask
  <1>7. \A w : ProveAIAttemptNotCreated(a, w).status \in {a.status, "skipped"}
    <2> TAKE w
    <2>1. [a EXCEPT !.dispatch = "proven_not_created", !.version = @ + 1,
                    !.pstatus = "proven_not_created", !.status = "skipped"].status = "skipped"
      BY DEF AIAttempts
    <2> QED
      BY <2>1 DEF ProveAIAttemptNotCreated
  <1>8. resolveProviderDispatchResult(a, read, result).status \in {a.status, "skipped"}
    BY <1>4, <1>5, <1>6, <1>7 DEF resolveProviderDispatchResult
  <1>9. deferAIAttemptReconciliation(a).status = a.status
    BY <1>5 DEF deferAIAttemptReconciliation
  <1> QED
    BY <1>1, <1>2, <1>3, <1>4, <1>5, <1>6, <1>7, <1>8, <1>9

\* runJob moves the job to "running" and the actor to the provider's progress.
LEMMA RunQuiet ==
    ASSUME IInv, NEW x \in Actors, runJob(x)
    PROVE  QuietJob /\ QuietActors
  <1>0. job' = TransitionAIJob(job, actors[x].read, "running", "")
    BY DEF runJob
  <1>1. QuietJob
    BY <1>0, TransitionEvolves DEF IInv, RowsInv, QuietJob
  <1>2. \A j : [actors[x] EXCEPT !.pc = "progress", !.read = j].pc = "progress"
    BY DEF IInv, ActorsInv, ActorStates
  <1>3. CASE Stop(x)
    BY <1>1, <1>3, StopQuiet
  <1>4. CASE Become(x, [actors[x] EXCEPT !.pc = "progress", !.read = job'])
    BY <1>1, <1>2, <1>4, BecomeQuiet DEF BillPCs
  <1> QED
    BY <1>3, <1>4 DEF runJob

\* Putting an attempt off ends nothing.
LEMMA DeferQuiet ==
    ASSUME IInv, NEW x \in Actors, actors[x].pc \notin {"idle", "select"}, Defer(x)
    PROVE  QuietAttempts /\ QuietActors
  BY InHand, DispatchUpdatesQuiet, SetQuiet, StopQuiet DEF Defer

-----------------------------------------------------------------------------
(* Every action                                                            *)

\* The scheduler's, the operator's and the provider's steps are quiet.
LEMMA EnvironmentQuiet ==
    ASSUME IInv, ClaimQueuedAIJobs \/ LeaseExpires \/ ScheduleAIAttemptReconciliation
                 \/ ProviderTaskEnds
    PROVE  Quiet
  <1>1. CASE ClaimQueuedAIJobs
    <2>1. QuietJob
      BY <1>1, ClaimEvolves DEF ClaimQueuedAIJobs, IInv, RowsInv, QuietJob, claimAIJob
    <2> QED
      BY <1>1, <2>1, SameQuiet DEF ClaimQueuedAIJobs, Quiet
  <1>2. CASE LeaseExpires
    <2>1. [job EXCEPT !.leased = FALSE].status = job.status
      BY DEF IInv, RowsInv, AIJobs
    <2>2. QuietJob
      BY <1>2, <2>1, ExpiryEvolves DEF LeaseExpires, IInv, RowsInv, QuietJob
    <2> QED
      BY <1>2, <2>2, SameQuiet DEF LeaseExpires, Quiet
  <1>3. CASE ScheduleAIAttemptReconciliation
    <2>1. \A n \in Numbers : [attempts[n] EXCEPT !.version = @ + 1].status = attempts[n].status
      BY DEF IInv, RowsInv, AIAttempts
    <2>2. QuietAttempts
      BY <1>3, <2>1 DEF ScheduleAIAttemptReconciliation, IInv, RowsInv, QuietAttempts
    <2> QED
      BY <1>3, <2>2, SameQuiet DEF ScheduleAIAttemptReconciliation, Quiet
  <1>4. CASE ProviderTaskEnds
    BY <1>4, SameQuiet DEF ProviderTaskEnds, Quiet
  <1> QED
    BY <1>1, <1>2, <1>3, <1>4

\* An actor starts and dies quietly.
LEMMA StartQuiet ==
    ASSUME IInv, NEW x \in Actors, ReceiveDelivery(x) \/ PickDueAttempt(x) \/ Crash(x)
    PROVE  Quiet
  <1>1. CASE ReceiveDelivery(x)
    <2>1. [idle EXCEPT !.pc = "select", !.read = job].pc \notin BillPCs
      BY DEF idle, BillPCs
    <2> QED
      BY <1>1, <2>1, BecomeQuiet, SameQuiet DEF ReceiveDelivery, Quiet
  <1>2. CASE PickDueAttempt(x)
    <2>1. \A n : [idle EXCEPT !.pc = "observe", !.num = n, !.read = job].pc \notin BillPCs
      BY DEF idle, BillPCs
    <2>2. QuietActors
      BY <1>2, <2>1, BecomeQuiet DEF PickDueAttempt
    <2> QED
      BY <1>2, <2>2, SameQuiet DEF PickDueAttempt, Quiet
  <1>3. CASE Crash(x)
    BY <1>3, StopQuiet, SameQuiet DEF Crash, Quiet
  <1> QED
    BY <1>1, <1>2, <1>3

\* A worker that selects, prepares, submits and calls is quiet.
LEMMA DispatchQuiet ==
    ASSUME IInv, NEW w \in Actors,
           \/ SkipCandidate(w) \/ BeginAIAttempt(w) \/ RequeueAIJob(w)
           \/ PrepareAIAttemptDispatch(w) \/ ResetUnknownDispatch(w) \/ PersistIntent(w)
           \/ MarkSubmitted(w) \/ DispatchProviderTask(w) \/ ResolveDispatch(w)
    PROVE  Quiet
  <1> DEFINE l == actors[w]
  <1>1. l \in ActorStates
    BY DEF IInv, ActorsInv
  <1>2. \A p : without(l, p).pc = "select"
    BY <1>1 DEF without, ActorStates
  <1>3. \A a : afterDispatch(l, a).pc \notin BillPCs
    <2> TAKE a
    <2>1. [without(l, a.provider) EXCEPT !.snap = absentAIAttempt, !.result = noResult].pc = "select"
      BY <1>1 DEF without, ActorStates
    <2>2. [l EXCEPT !.pc = "accepted", !.snap = a, !.result = noResult].pc = "accepted"
      BY <1>1 DEF ActorStates
    <2>3. [l EXCEPT !.pc = "uncertain", !.snap = a, !.result = noResult].pc = "uncertain"
      BY <1>1 DEF ActorStates
    <2> QED
      BY <2>1, <2>2, <2>3 DEF afterDispatch, idle, BillPCs
  <1>4. CASE SkipCandidate(w)
    <2>1. QuietActors
      BY <1>2, <1>4, BecomeQuiet DEF SkipCandidate, BillPCs
    <2> QED
      BY <1>4, <2>1, SameQuiet DEF SkipCandidate, Quiet
  <1>5. CASE BeginAIAttempt(w)
    <2>1. QuietActors
      BY <1>5, GotoQuiet DEF BeginAIAttempt, BillPCs
    <2>2. \A p : newAIAttempt(p).status = "running"
      BY DEF newAIAttempt, absentAIAttempt
    <2>3. QuietAttempts
      BY <1>5, <2>2, SetQuiet, SameQuiet DEF BeginAIAttempt, Ends
    <2> QED
      BY <1>5, <2>1, <2>3, SameQuiet DEF BeginAIAttempt, Quiet
  <1>6. CASE RequeueAIJob(w)
    BY <1>6, TransitionQuiet, StopQuiet, SameQuiet DEF RequeueAIJob, Quiet
  <1>7. CASE PrepareAIAttemptDispatch(w)
    <2>1. \A a, pc : [l EXCEPT !.snap = a, !.pc = pc].pc = pc
      BY <1>1 DEF ActorStates
    <2>2. QuietActors
      BY <1>7, <2>1, StopQuiet, BecomeQuiet DEF PrepareAIAttemptDispatch, BillPCs
    <2> QED
      BY <1>7, <2>2, SameQuiet DEF PrepareAIAttemptDispatch, Quiet
  <1>8. \A a, pc : [l EXCEPT !.pc = pc, !.snap = a].pc = pc
    BY <1>1 DEF ActorStates
  <1>9. ASSUME l.pc \notin {"idle", "select"} PROVE Current(w) \in AIAttempts
    BY <1>9, InHand
  <1>10. CASE ResetUnknownDispatch(w)
    <2>1. QuietAttempts
      BY <1>9, <1>10, DispatchUpdatesQuiet, SetQuiet DEF ResetUnknownDispatch
    <2>2. QuietActors
      <3>1. Stop(w) \/ \E a : Become(w, [l EXCEPT !.pc = "intent", !.snap = a])
        BY <1>10, Zenon DEF ResetUnknownDispatch
      <3>2. ASSUME NEW a, Become(w, [l EXCEPT !.pc = "intent", !.snap = a]) PROVE QuietActors
        <4> DEFINE local == [l EXCEPT !.pc = "intent", !.snap = a]
        <4>1. local.pc = "intent"
          BY <1>8
        <4> HIDE DEF local
        <4>2. local.pc \notin BillPCs
          BY <4>1 DEF BillPCs
        <4> QED
          BY <3>2, <4>2, BecomeQuiet DEF local
      <3> QED
        BY <3>1, <3>2, StopQuiet
    <2> QED
      BY <1>10, <2>1, <2>2, SameQuiet DEF ResetUnknownDispatch, Quiet
  <1>11. CASE PersistIntent(w)
    <2>1. QuietAttempts
      BY <1>9, <1>11, DispatchUpdatesQuiet, SetQuiet DEF PersistIntent
    <2>2. QuietActors
      <3>1. Stop(w) \/ \E a : Become(w, [l EXCEPT !.pc = "submit", !.snap = a])
        BY <1>11, Zenon DEF PersistIntent
      <3>2. ASSUME NEW a, Become(w, [l EXCEPT !.pc = "submit", !.snap = a]) PROVE QuietActors
        <4> DEFINE local == [l EXCEPT !.pc = "submit", !.snap = a]
        <4>1. local.pc = "submit"
          BY <1>8
        <4> HIDE DEF local
        <4>2. local.pc \notin BillPCs
          BY <4>1 DEF BillPCs
        <4> QED
          BY <3>2, <4>2, BecomeQuiet DEF local
      <3> QED
        BY <3>1, <3>2, StopQuiet
    <2> QED
      BY <1>11, <2>1, <2>2, SameQuiet DEF PersistIntent, Quiet
  <1>12. CASE MarkSubmitted(w)
    <2>1. QuietAttempts
      BY <1>9, <1>12, DispatchUpdatesQuiet, SetQuiet DEF MarkSubmitted
    <2>2. QuietActors
      <3>1. \E a : \E local \in {[l EXCEPT !.pc = "call", !.snap = a], afterDispatch(l, a)} : Become(w, local)
        BY <1>12, Zenon DEF MarkSubmitted
      <3>2. "call" \notin BillPCs
        BY DEF BillPCs
      <3>3. ASSUME NEW a, NEW local \in {[l EXCEPT !.pc = "call", !.snap = a], afterDispatch(l, a)}
            PROVE  local.pc \notin BillPCs
        <4>1. [l EXCEPT !.pc = "call", !.snap = a].pc \notin BillPCs
          BY <1>8, <3>2
        <4>2. afterDispatch(l, a).pc \notin BillPCs
          BY <1>3
        <4> QED
          BY <4>1, <4>2, Zenon
      <3> QED
        BY <3>1, <3>3, BecomeQuiet, Zenon
    <2> QED
      BY <1>12, <2>1, <2>2, SameQuiet DEF MarkSubmitted, Quiet
  <1>13. CASE DispatchProviderTask(w)
    <2>1. \A answer : [l EXCEPT !.pc = "resolve", !.result = answer].pc = "resolve"
      BY <1>1 DEF ActorStates
    <2>2. QuietActors
      BY <1>13, <2>1, BecomeQuiet DEF DispatchProviderTask, BillPCs
    <2> QED
      BY <1>13, <2>2, SameQuiet DEF DispatchProviderTask, Quiet
  <1>14. CASE ResolveDispatch(w)
    <2>1. QuietAttempts
      BY <1>9, <1>14, DispatchUpdatesQuiet, SetQuiet DEF ResolveDispatch, Ends
    <2>2. QuietActors
      BY <1>3, <1>14, BecomeQuiet DEF ResolveDispatch
    <2> QED
      BY <1>14, <2>1, <2>2, SameQuiet DEF ResolveDispatch, Quiet
  <1> QED
    BY <1>4, <1>5, <1>6, <1>7, <1>10, <1>11, <1>12, <1>13, <1>14

\* So is a worker that settles where its job stands after the dispatch.
LEMMA AfterwardsQuiet ==
    ASSUME IInv, NEW w \in Actors,
           \/ CommitAccepted(w) \/ RereadAcceptedJob(w) \/ RunAcceptedJob(w)
           \/ DisputeUncertain(w) \/ ParkUncertainJob(w)
    PROVE  Quiet
  <1> DEFINE l == actors[w]
  <1>1. l \in ActorStates
    BY DEF IInv, ActorsInv
  <1>2. CASE CommitAccepted(w)
    BY <1>2, HoldQuiet, GotoQuiet, SameQuiet DEF CommitAccepted, Quiet, BillPCs
  <1>3. CASE RereadAcceptedJob(w)
    <2>1. \A j, pc : [l EXCEPT !.read = j, !.pc = pc].pc = pc
      BY <1>1 DEF ActorStates
    <2>2. QuietActors
      <3> DEFINE pc == IF job.status = "canceling" THEN "progress" ELSE "run"
      <3>1. Become(w, [l EXCEPT !.read = job, !.pc = pc])
        BY <1>3 DEF RereadAcceptedJob
      <3>2. pc \notin BillPCs
        BY DEF BillPCs
      <3> HIDE DEF pc
      <3>3. [l EXCEPT !.read = job, !.pc = pc].pc \notin BillPCs
        BY <2>1, <3>2
      <3> QED
        BY <3>1, <3>3, BecomeQuiet
    <2> QED
      BY <1>3, <2>2, SameQuiet DEF RereadAcceptedJob, Quiet
  <1>4. CASE RunAcceptedJob(w)
    BY <1>4, RunQuiet, SameQuiet DEF RunAcceptedJob, Quiet
  <1>5. CASE DisputeUncertain(w)
    BY <1>5, HoldQuiet, GotoQuiet, SameQuiet DEF DisputeUncertain, Quiet, BillPCs
  <1>6. CASE ParkUncertainJob(w)
    BY <1>6, TransitionQuiet, StopQuiet, SameQuiet DEF ParkUncertainJob, Quiet
  <1> QED
    BY <1>2, <1>3, <1>4, <1>5, <1>6

\* And a reconciler, up to the provider's progress.
LEMMA ReconcileQuiet ==
    ASSUME IInv, NEW r \in Actors,
           \/ ObserveProviderTask(r) \/ ObserveMovedAttempt(r) \/ SettleReconciliation(r)
           \/ LoseReconciliation(r) \/ DisputeLostTask(r) \/ ParkLostJob(r)
           \/ RequeueProvenJob(r) \/ CommitReconciled(r) \/ ResumeJob(r)
    PROVE  Quiet
  <1> DEFINE l == actors[r]
  <1>1. l \in ActorStates
    BY DEF IInv, ActorsInv
  <1>2. CASE ObserveProviderTask(r)
    <2>1. \A a, answer : [l EXCEPT !.pc = "settle", !.snap = a, !.result = answer].pc = "settle"
      BY <1>1 DEF ActorStates
    <2>2. QuietActors
      BY <1>2, <2>1, BecomeQuiet DEF ObserveProviderTask, BillPCs
    <2> QED
      BY <1>2, <2>2, SameQuiet DEF ObserveProviderTask, Quiet
  <1>3. CASE ObserveMovedAttempt(r)
    <2>1. QuietActors
      BY <1>3, GotoQuiet DEF ObserveMovedAttempt, BillPCs
    <2> QED
      BY <1>3, <2>1, SameQuiet DEF ObserveMovedAttempt, Quiet
  <1>4. CASE SettleReconciliation(r)
    <2>1. Current(r) \in AIAttempts
      BY <1>4, InHand DEF SettleReconciliation
    <2>2. QuietAttempts
      BY <1>4, <2>1, DispatchUpdatesQuiet, SetQuiet DEF SettleReconciliation, Ends
    <2>3. \A a, pc : [l EXCEPT !.snap = a, !.result = noResult, !.pc = pc].pc = pc
      BY <1>1 DEF ActorStates
    <2>4. QuietActors
      <3>1. Stop(r) \/ \E a, pc : /\ pc \in {"commit", "requeue", "dispute"}
                                  /\ Become(r, [l EXCEPT !.snap = a, !.result = noResult, !.pc = pc])
        BY <1>4 DEF SettleReconciliation
      <3>2. ASSUME NEW a, NEW pc \in {"commit", "requeue", "dispute"},
                   Become(r, [l EXCEPT !.snap = a, !.result = noResult, !.pc = pc])
            PROVE  QuietActors
        <4>1. pc \notin BillPCs
          BY DEF BillPCs
        <4>2. [l EXCEPT !.snap = a, !.result = noResult, !.pc = pc].pc \notin BillPCs
          BY <2>3, <4>1
        <4> QED
          BY <3>2, <4>2, BecomeQuiet
      <3> QED
        BY <3>1, <3>2, StopQuiet
    <2> QED
      BY <1>4, <2>2, <2>4, SameQuiet DEF SettleReconciliation, Quiet
  <1>5. CASE DisputeLostTask(r)
    BY <1>5, HoldQuiet, GotoQuiet, SameQuiet DEF DisputeLostTask, Quiet, BillPCs
  <1>6. CASE ParkLostJob(r)
    <2>1. QuietJob
      BY <1>6, TransitionQuiet, SameQuiet DEF ParkLostJob
    <2> QED
      BY <1>6, <2>1, StopQuiet, SameQuiet DEF ParkLostJob, Quiet
  <1>7. CASE RequeueProvenJob(r)
    <2>1. QuietJob
      BY <1>7, TransitionQuiet, SameQuiet DEF RequeueProvenJob
    <2> QED
      BY <1>7, <2>1, StopQuiet, SameQuiet DEF RequeueProvenJob, Quiet
  <1>8. CASE CommitReconciled(r)
    BY <1>8, HoldQuiet, GotoQuiet, SameQuiet DEF CommitReconciled, Quiet, BillPCs
  <1>9. CASE ResumeJob(r)
    <2>1. QuietJob /\ QuietActors
      BY <1>9, RunQuiet, GotoQuiet, SameQuiet DEF ResumeJob, BillPCs
    <2> QED
      BY <1>9, <2>1, SameQuiet DEF ResumeJob, Quiet
  <1>10. CASE LoseReconciliation(r)
    <2>1. QuietActors
      BY <1>10, GotoQuiet DEF LoseReconciliation, BillPCs
    <2> QED
      BY <1>10, <2>1, SameQuiet DEF LoseReconciliation, Quiet
  <1> QED
    BY <1>2, <1>3, <1>4, <1>5, <1>6, <1>7, <1>8, <1>9, <1>10

\* Reading the provider's status finishes nothing yet.
LEMMA ApplyQuiet ==
    ASSUME IInv, NEW x \in Actors, ApplyProviderProgress(x)
    PROVE  Quiet
  <1>1. CASE Goto(x, IF isDurableProviderTerminalStatus(actors[x].snap.pstatus)
                     THEN "usage" ELSE "idle") /\ UNCHANGED attempts
    <2>1. QuietActors
      BY <1>1, GotoQuiet DEF BillPCs
    <2> QED
      BY <1>1, <2>1, SameQuiet DEF ApplyProviderProgress, Quiet
  <1>2. CASE Defer(x)
    BY <1>2, DeferQuiet, SameQuiet DEF ApplyProviderProgress, Quiet
  <1> QED
    BY <1>1, <1>2 DEF ApplyProviderProgress

-----------------------------------------------------------------------------
(* Steps that finish something                                             *)

\* A cancellation releases the hold only with the job canceled.
LEMMA CancelOut ==
    ASSUME OutInv, IInv', CancelAIJob
    PROVE  OutInv'
  <1>1. JobEvolves(job, job') /\ (cancelledBeforeDispatch(job) => job'.status = "canceled")
    BY CancelEvolves DEF OutInv, IInv, RowsInv, CancelAIJob
  <1>2. job'.status # "succeeded"
    <2> DEFINE to == IF cancelledBeforeDispatch(job) THEN "canceled" ELSE "canceling"
    <2>1. job \in AIJobs
      BY DEF OutInv, IInv, RowsInv
    <2>2. job'.status = to
      BY <2>1 DEF CancelAIJob, RequestAIJobCancellation, prepareAIJobTransition, AIJobs
    <2> QED
      BY <2>2
  <1>3. ReleasedIsCanceled'
    <2>1. CASE cancelledBeforeDispatch(job)
      BY <1>1, <2>1 DEF ReleasedIsCanceled
    <2>2. CASE ~cancelledBeforeDispatch(job)
      BY <1>1, <2>2, ReleaseKept DEF OutInv, CancelAIJob
    <2> QED
      BY <2>1, <2>2
  <1>4. AttemptOutcomeMatchesJob'
    BY <1>1, MatchKept, SameQuiet DEF OutInv, CancelAIJob
  <1>5. charged' # {} => hold' \in Closing
    BY DEF OutInv, CancelAIJob, releaseBillingHoldForOperation, Closing
  <1>6. ASSUME NEW x \in Actors PROVE LocalOut(actors'[x], charged', job')
    BY <1>1, OutKept DEF OutInv, IInv, ActorsInv, CancelAIJob
  <1> QED
    BY <1>2, <1>3, <1>4, <1>5, <1>6 DEF OutInv

\* A step of one actor that leaves the job alone, given its new local state.
LEMMA ActorOut ==
    ASSUME OutInv, IInv', NEW x \in Actors, NEW local, Become(x, local), JobEvolves(job, job'),
           QuietAttempts, charged \subseteq charged', hold' = "released" => hold = "released",
           charged' # {} => hold' \in Closing, job'.status = "succeeded" => charged' # {},
           LocalOut(local, charged', job')
    PROVE  OutInv'
  <1>1. ReleasedIsCanceled' /\ AttemptOutcomeMatchesJob'
    BY ReleaseKept, MatchKept DEF OutInv
  <1>2. ASSUME NEW y \in Actors PROVE LocalOut(actors'[y], charged', job')
    <2>1. CASE y = x
      BY <2>1 DEF OutInv, IInv, ActorsInv, Become
    <2>2. CASE y # x
      BY <2>2, OutKept DEF OutInv, IInv, ActorsInv, Become
    <2> QED
      BY <2>1, <2>2
  <1> QED
    BY <1>1, <1>2 DEF OutInv

\* A settlement charges the attempt and closes the hold's estimate.
LEMMA UsageOut ==
    ASSUME OutInv, IInv', NEW x \in Actors, SettleProviderUsage(x)
    PROVE  OutInv'
  <1> DEFINE local == [actors[x] EXCEPT !.pc = "finish"]
  <1>1. actors[x].pc \notin {"idle", "select"} /\ RecordUsage(actors[x].num)
        /\ Become(x, local) /\ UNCHANGED <<job, attempts>>
    BY DEF SettleProviderUsage, Goto
  <1>2. local.pc = "finish" /\ local.num = actors[x].num
    BY DEF OutInv, IInv, ActorsInv, ActorStates
  <1>3. charged' = charged \cup {actors[x].num}
    BY <1>1 DEF RecordUsage
  <1>4. hold' \in Closing /\ (hold' = "released" => hold = "released")
    BY <1>1 DEF OutInv, RecordUsage, settleBillingHoldForUsage, Closing
  <1>5. LocalOut(local, charged', job')
    BY <1>2, <1>3 DEF LocalOut
  <1>6. JobEvolves(job, job') /\ QuietAttempts
    BY <1>1, SameQuiet DEF OutInv, QuietJob
  <1> HIDE DEF local
  <1> QED
    BY <1>1, <1>3, <1>4, <1>5, <1>6, ActorOut

\* Only a failure or a cancellation goes on without a charge.
LEMMA UnresolvedOut ==
    ASSUME OutInv, IInv', NEW x \in Actors, UsageUnresolved(x)
    PROVE  OutInv'
  <1>1. actors[x].pc \notin {"idle", "select"} /\ UNCHANGED <<job, charged, tasks>> /\ IInv
    BY DEF UsageUnresolved, OutInv
  <1>2. CASE Defer(x) /\ UNCHANGED hold
    BY <1>1, <1>2, DeferQuiet, SameQuiet, QuietStep DEF Quiet
  <1>3. ASSUME NEW pc \in {"finish", "finish_unbilled"}, actors[x].snap.pstatus # "succeeded",
               Goto(x, pc), UNCHANGED attempts,
               UNCHANGED hold \/ hold' = transitionBillingHold(hold, "disputed")
        PROVE  OutInv'
    <2> DEFINE local == [actors[x] EXCEPT !.pc = pc]
    <2>1. Become(x, local)
      BY <1>3 DEF Goto
    <2>2. local.pc = pc /\ local.snap = actors[x].snap
      BY <1>1 DEF IInv, ActorsInv, ActorStates
    <2>3. LocalOut(local, charged', job')
      BY <1>3, <2>2 DEF LocalOut
    <2>4. QuietHold /\ QuietAttempts /\ JobEvolves(job, job')
      BY <1>1, <1>3, HoldQuiet, SameQuiet DEF QuietJob
    <2> HIDE DEF local
    <2> QED
      BY <1>1, <2>1, <2>3, <2>4, ActorOut DEF OutInv, QuietHold
  <1> QED
    BY <1>2, <1>3 DEF UsageUnresolved

\* A job that an actor finishes, or finds finished, ends as the task did; a
\* success has been charged.
LEMMA FinishOut ==
    ASSUME OutInv, IInv', NEW x \in Actors, FinishJob(x)
    PROVE  OutInv'
  <1> DEFINE terminal == actors[x].snap.pstatus
             read == actors[x].read
             local == [actors[x] EXCEPT !.pc = "complete"]
  <1>1. actors[x].pc \in {"finish", "finish_unbilled"} /\ actors[x].pc \notin {"idle", "select"}
        /\ UNCHANGED <<hold, charged>> /\ IInv /\ actors[x] \in ActorStates /\ job \in AIJobs
    BY DEF FinishJob, OutInv, IInv, ActorsInv, RowsInv
  <1>2. ended(actors[x].snap) /\ terminal # "expired" /\ JobEvolves(read, job)
    BY <1>1, InHand DEF LocalInv, EndPCs, ended
  <1>3. JobEvolves(job, job') /\ (job' = job \/ job'.status = terminal)
    <2>1. job' = job \/ job' = TransitionAIJob(job, read, terminal, terminal)
      BY DEF FinishJob
    <2>2. LET k == TransitionAIJob(job, read, terminal, terminal)
          IN  JobEvolves(job, k) /\ (k = job \/ k.status = terminal)
      <3> HIDE DEF terminal, read
      <3> QED
        BY <1>1, <1>2, TransitionEvolves
    <2> QED
      BY <1>1, <2>1, <2>2, SameRows DEF IInv
  <1>4. terminal = "succeeded" => charged # {}
    BY <1>1 DEF OutInv, LocalOut
  <1>5. job'.status = "succeeded" => charged' # {}
    BY <1>1, <1>3, <1>4 DEF OutInv
  <1>6. QuietHold
    BY <1>1, SameQuiet
  <1>7. CASE Stop(x) /\ UNCHANGED attempts
    <2>1. LocalOut(idle, charged', job')
      BY DEF LocalOut, idle
    <2> QED
      BY <1>1, <1>3, <1>5, <1>6, <1>7, <2>1, SameQuiet, ActorOut DEF OutInv, QuietHold, Stop
  <1>8. CASE Defer(x)
    <2>1. LocalOut(idle, charged', job')
      BY DEF LocalOut, idle
    <2>2. QuietAttempts /\ Become(x, idle)
      BY <1>1, <1>8, DeferQuiet DEF Defer, Stop
    <2> QED
      BY <1>1, <1>3, <1>5, <1>6, <2>1, <2>2, ActorOut DEF OutInv, QuietHold
  <1>9. CASE /\ ~(job' = job /\ read.status # terminal) /\ actors[x].pc = "finish"
             /\ Goto(x, "complete") /\ UNCHANGED attempts
    <2>1. job'.status = terminal
      <3>1. CASE job' # job
        BY <1>3, <3>1
      <3>2. CASE job' = job
        BY <1>2, <1>9, <3>2 DEF JobEvolves, ended, aiJobTerminalStatus
      <3> QED
        BY <3>1, <3>2
    <2>2. Become(x, local)
      BY <1>9 DEF Goto
    <2>3. local.pc = "complete" /\ local.snap = actors[x].snap /\ local.num = actors[x].num
      BY <1>1 DEF ActorStates
    <2>4. terminal = "succeeded" => actors[x].num \in charged
      BY <1>9 DEF OutInv, LocalOut
    <2>5. LocalOut(local, charged', job')
      BY <1>1, <2>1, <2>3, <2>4 DEF LocalOut
    <2> HIDE DEF local
    <2> QED
      BY <1>1, <1>3, <1>5, <1>6, <1>9, <2>2, <2>5, SameQuiet, ActorOut DEF OutInv, QuietHold
  <1> QED
    BY <1>7, <1>8, <1>9 DEF FinishJob, conflicts

\* An attempt ends the way its job has ended.
LEMMA FinishAttemptOut ==
    ASSUME OutInv, IInv', NEW x \in Actors, FinishAttempt(x)
    PROVE  OutInv'
  <1> DEFINE a == CompleteAIAttempt(Current(x), actors[x].snap.pstatus)
  <1>1. actors[x].pc = "complete" /\ actors[x].pc \notin {"idle", "select"} /\ IInv
        /\ UNCHANGED <<job, hold, charged>> /\ SetAttempt(x, a) /\ Stop(x)
    BY DEF FinishAttempt, OutInv
  <1>2. job.status = actors[x].snap.pstatus
    BY <1>1 DEF OutInv, LocalOut
  <1>3. Current(x) \in AIAttempts /\ actors[x].num \in Numbers
    BY <1>1, InHand
  <1>4. a.status \in {Current(x).status, actors[x].snap.pstatus}
    BY <1>3 DEF CompleteAIAttempt, AIAttempts
  <1>5. AttemptOutcomeMatchesJob'
    BY <1>1, <1>2, <1>3, <1>4
    DEF OutInv, IInv, RowsInv, AttemptOutcomeMatchesJob, SetAttempt, Current
  <1>6. ASSUME NEW y \in Actors PROVE LocalOut(actors'[y], charged', job')
    BY <1>1 DEF OutInv, IInv, ActorsInv, Stop, Become, LocalOut, idle
  <1> QED
    BY <1>1, <1>5, <1>6 DEF OutInv, ReleasedIsCanceled

-----------------------------------------------------------------------------
(* Theorems                                                                *)

\* The invariant is inductive.
LEMMA NextOutInv == OutInv /\ [Next]_vars => OutInv'
  <1> SUFFICES ASSUME OutInv, [Next]_vars PROVE OutInv'
    OBVIOUS
  <1>1. IInv /\ IInv'
    BY NextIInv DEF OutInv
  <1>2. ASSUME NEW x \in Actors, ProgressStep(x) PROVE OutInv'
    BY <1>1, <1>2, ApplyQuiet, QuietStep, UsageOut, UnresolvedOut, FinishOut, FinishAttemptOut
    DEF ProgressStep
  <1>3. CASE \/ ClaimQueuedAIJobs \/ LeaseExpires \/ CancelAIJob
             \/ ScheduleAIAttemptReconciliation \/ ProviderTaskEnds
    BY <1>1, <1>3, EnvironmentQuiet, QuietStep, CancelOut
  <1>4. ASSUME NEW w \in Workers, ReceiveDelivery(w) \/ WorkerStep(w) \/ Crash(w)
        PROVE  OutInv'
    <2>1. w \in Actors
      BY DEF Actors
    <2> QED
      BY <1>1, <1>2, <1>4, <2>1, StartQuiet, DispatchQuiet, AfterwardsQuiet, QuietStep DEF WorkerStep
  <1>5. ASSUME NEW r \in Reconcilers, PickDueAttempt(r) \/ ReconcilerStep(r) \/ Crash(r)
        PROVE  OutInv'
    <2>1. r \in Actors
      BY DEF Actors
    <2> QED
      BY <1>1, <1>2, <1>5, <2>1, StartQuiet, ReconcileQuiet, QuietStep DEF ReconcilerStep
  <1>6. CASE UNCHANGED vars
    BY <1>1, <1>6 DEF vars, OutInv, ReleasedIsCanceled, AttemptOutcomeMatchesJob
  <1> QED
    BY <1>3, <1>4, <1>5, <1>6 DEF Next

\* It holds in every reachable state.
THEOREM OutcomeInvariance == Spec => []OutInv
  <1>1. Init => OutInv
    <2> SUFFICES ASSUME Init PROVE OutInv
      OBVIOUS
    <2>1. AttemptOutcomeMatchesJob /\ ReleasedIsCanceled
      BY DEF Init, absentAIAttempt, AttemptOutcomeMatchesJob, ReleasedIsCanceled
    <2>2. \A x \in Actors : LocalOut(actors[x], charged, job)
      BY DEF Init, LocalOut, idle
    <2> QED
      BY <2>1, <2>2, InitIInv DEF Init, OutInv, newAIJob
  <1> QED
    BY <1>1, NextOutInv, PTL DEF Spec

\* A job succeeds only when its usage is charged and its hold is closed or
\* disputed, however many workers and reconcilers finish it at once.
THEOREM SuccessCharged == Spec => []SuccessIsCharged
  <1>1. OutInv => SuccessIsCharged
    BY DEF OutInv, SuccessIsCharged, ReleasedIsCanceled, Closing
  <1> QED
    BY <1>1, OutcomeInvariance, PTL

\* An attempt ends with the status its job ended with.
THEOREM OutcomesAgree == Spec => []AttemptOutcomeMatchesJob
  <1>1. OutInv => AttemptOutcomeMatchesJob
    BY DEF OutInv
  <1> QED
    BY <1>1, OutcomeInvariance, PTL

\* No step changes a terminal job or a closed hold.
LEMMA ClosedNext ==
    ASSUME IInv, [Next]_vars
    PROVE  /\ aiJobTerminalStatus(job.status) => job' = job
           /\ hold \in {"settled", "released"} => hold' = hold
  <1> DEFINE Closed == /\ aiJobTerminalStatus(job.status) => job' = job
                       /\ hold \in {"settled", "released"} => hold' = hold
  <1>1. ASSUME Quiet PROVE Closed
    BY <1>1 DEF Quiet, QuietJob, QuietHold, JobEvolves
  <1>2. CASE CancelAIJob
    BY <1>2 DEF CancelAIJob, cancellable, aiJobTerminalStatus, releaseBillingHoldForOperation,
                cancelledBeforeDispatch
  <1>3. ASSUME NEW x \in Actors, ProgressStep(x) PROVE Closed
    <2>1. CASE ApplyProviderProgress(x)
      BY <1>1, <2>1, ApplyQuiet
    <2>2. CASE SettleProviderUsage(x)
      BY <2>2 DEF SettleProviderUsage, RecordUsage, settleBillingHoldForUsage
    <2>3. CASE UsageUnresolved(x)
      BY <2>3 DEF UsageUnresolved, transitionBillingHold
    <2>4. CASE FinishJob(x)
      <3>1. actors[x].pc \in EndPCs /\ actors[x].pc \notin {"idle", "select"} /\ UNCHANGED hold
        BY <2>4 DEF FinishJob, EndPCs
      <3>2. actors[x].snap.pstatus # "expired" /\ job \in AIJobs
        BY <3>1, InHand DEF LocalInv, ended, IInv, RowsInv
      <3>3. JobEvolves(job, job')
        BY <2>4, <3>2, TransitionEvolves, SameRows DEF IInv, FinishJob
      <3> QED
        BY <3>1, <3>3 DEF JobEvolves
    <2>5. CASE FinishAttempt(x)
      BY <2>5 DEF FinishAttempt
    <2> QED
      BY <1>3, <2>1, <2>2, <2>3, <2>4, <2>5 DEF ProgressStep
  <1>4. CASE ClaimQueuedAIJobs \/ LeaseExpires \/ ScheduleAIAttemptReconciliation \/ ProviderTaskEnds
    BY <1>1, <1>4, EnvironmentQuiet
  <1>5. ASSUME NEW w \in Workers, ReceiveDelivery(w) \/ WorkerStep(w) \/ Crash(w)
        PROVE  Closed
    <2>1. w \in Actors
      BY DEF Actors
    <2> QED
      BY <1>1, <1>3, <1>5, <2>1, StartQuiet, DispatchQuiet, AfterwardsQuiet DEF WorkerStep
  <1>6. ASSUME NEW r \in Reconcilers, PickDueAttempt(r) \/ ReconcilerStep(r) \/ Crash(r)
        PROVE  Closed
    <2>1. r \in Actors
      BY DEF Actors
    <2> QED
      BY <1>1, <1>3, <1>6, <2>1, StartQuiet, ReconcileQuiet DEF ReconcilerStep
  <1>7. CASE UNCHANGED vars
    BY <1>7 DEF vars
  <1> QED
    BY <1>2, <1>4, <1>5, <1>6, <1>7 DEF Next

\* A terminal job and a settled or released hold are final, whatever stale
\* workers and reconcilers still do.
THEOREM ClosedIsFinal == Spec => ClosedRowsStayClosed
  <1> DEFINE Closed == /\ aiJobTerminalStatus(job.status) => job' = job
                       /\ hold \in {"settled", "released"} => hold' = hold
  <1>1. IInv /\ [Next]_vars => [Closed]_vars
    BY ClosedNext
  <1> QED
    BY <1>1, Invariance, PTL DEF Spec, ClosedRowsStayClosed
=============================================================================
