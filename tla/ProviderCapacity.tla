-------------------------- MODULE ProviderCapacity --------------------------
(***************************************************************************)
(* The concurrency of provider accounts: a lease for every attempt that is *)
(* dispatched, kept alive by its worker, retained for a task whose outcome *)
(* is open, restored and released by reconcilers (provider_capacity.go,    *)
(* provider_capacity_service.go, ai_job_worker.go).                        *)
(*                                                                         *)
(* Every operation has one attempt here: an attempt of a higher number has *)
(* a lease of its own, as another operation's has.  Accounts take the place *)
(* of Providers in AIAttemptModel.  Limits per minute only refuse more, and *)
(* are left out.  A step ends at a call of the store, of the capacity store *)
(* or of the provider; the updates that prepare a submission are one step.  *)
(***************************************************************************)
EXTENDS AIAttemptModel, FiniteSets

CONSTANTS Operations,
          Workers,      \* concurrent runs of dispatchClaimedAIJob
          Reconcilers,  \* concurrent runs of reconcileAIAttempt
          Limit,        \* ConcurrencyLimit of every account
          MaxSetbacks   \* bound: failures, redeliveries and idle polls

ASSUME CapacityConstants ==
    /\ Workers \cap Reconcilers = {}
    /\ IsFiniteSet(Operations)
    /\ NoProvider \notin Providers
    /\ Limit \in Nat \ {0} /\ MaxSetbacks \in Nat

VARIABLES
    leases,    \* the capacity store: the lease of every operation's attempt
    attempts,  \* the attempt of every operation
    tasks,     \* at the provider: the task of every operation, or "none"
    actors,    \* the local state of every actor
    dropped,   \* history: attempts that lost a lease they still needed
    setbacks   \* setbacks so far

vars == <<leases, attempts, tasks, actors, dropped, setbacks>>

Actors == Workers \cup Reconcilers

\* A lease that has expired is in the store until its account is pruned.
Leases == [account : Providers \cup {NoProvider}, live : BOOLEAN]
noLease == [account |-> NoProvider, live |-> FALSE]

Results == [outcome : {"none", "accepted", "unknown", "proven_not_created"},
            status : TaskStatuses \cup {""}]
noResult == [outcome |-> "none", status |-> ""]

PermitPCs == {"begin", "submit", "call", "resolve", "retain", "release"}
PCs == PermitPCs \cup {"idle", "restore", "observe", "settle", "progress", "sync"}

\* account: where the permit was acquired; snap: the attempt as last returned.
ActorStates == [pc : PCs, op : Operations \cup {NoProvider},
                account : Providers \cup {NoProvider}, snap : AIAttempts, result : Results]
idle == [pc |-> "idle", op |-> NoProvider, account |-> NoProvider,
         snap |-> absentAIAttempt, result |-> noResult]

Setback == setbacks < MaxSetbacks /\ setbacks' = setbacks + 1
NoSetback == UNCHANGED setbacks

Become(x, local) == actors' = [actors EXCEPT ![x] = local]
Goto(x, label) ==
    Become(x, IF label = "idle" THEN idle ELSE [actors[x] EXCEPT !.pc = label])
Current(x) == attempts[actors[x].op]
SetAttempt(x, a) == attempts' = [attempts EXCEPT ![actors[x].op] = a]

-----------------------------------------------------------------------------
(* MemoryProviderCapacityStore                                             *)

pruneLocked(ls, account) ==
    [n \in Operations |->
        IF ls[n].account = account /\ ~ls[n].live THEN noLease ELSE ls[n]]

snapshotLocked(ls, account) == Cardinality({n \in Operations : ls[n].account = account})

\* A lease of the same id is there already, for another account or for this one.
conflicting(ls, n, account) == ls[n].account \notin {account, NoProvider}
shared(ls, n, account) == ls[n].account = account

leaseFor(ls, n, account) == [ls EXCEPT ![n] = [account |-> account, live |-> TRUE]]

\* Mutant: the account is admitted until it is over its limit.
admitsOneMore(ls, n, account) ==
    \/ shared(ls, n, account)
    \/ ls[n].account = NoProvider /\ snapshotLocked(ls, account) <= Limit

\* Acquire of a lease that exists succeeds whatever the limit.
admits(ls, n, account) ==
    \/ shared(ls, n, account)
    \/ ls[n].account = NoProvider /\ snapshotLocked(ls, account) + 1 <= Limit

Restore(ls, n, account) ==
    LET pruned == pruneLocked(ls, account)
    IN  IF conflicting(pruned, n, account) THEN pruned ELSE leaseFor(pruned, n, account)

\* Mutant: only the account is taken off the lease.
ReleaseBlank(ls, n, account) ==
    IF shared(ls, n, account) THEN [ls EXCEPT ![n].account = ""] ELSE ls

Release(ls, n, account) ==
    IF shared(ls, n, account) THEN [ls EXCEPT ![n] = noLease] ELSE ls

-----------------------------------------------------------------------------
(* What a lease is for                                                     *)

asked(n) == \E w \in Workers : actors[w].pc = "call" /\ actors[w].op = n

\* The provider works on the attempt, or may start to.
busy(n) == tasks[n] = "running" \/ (tasks[n] = "none" /\ asked(n))

\* The attempt needs nothing any more, whether or not the gateway knows.
void(n) ==
    \/ tasks[n] \in {"succeeded", "failed", "canceled"}
    \/ attempts[n].dispatch = "proven_not_created" /\ tasks[n] = "none" /\ ~asked(n)

holds(w, n) == actors[w].pc \in PermitPCs \ {"release"} /\ actors[w].op = n

\* A worker holds a permit, or the attempt was created and is not over.
needed(n) ==
    /\ ~void(n)
    /\ (\E w \in Workers : holds(w, n)) \/ attempts[n].dispatch # "none"

\* A lease that goes while it is needed is remembered.
Remember ==
    dropped' = dropped \cup {n \in Operations : leases[n].live /\ ~leases'[n].live /\ needed(n)}
KeepLeases == UNCHANGED <<leases, dropped>>

-----------------------------------------------------------------------------
(* Worker: dispatchClaimedAIJob with TryAcquireProviderAccountPermitContext *)

\* The job is claimed or delivered again; a second delivery, or one of an
\* attempt whose outcome is open, is a setback.
delivered(n) ==
    /\ attempts[n].status \in {"running", "skipped"}
    /\ IF inReconcilableState(attempts[n]) \/ \E w \in Workers : actors[w].op = n
       THEN Setback ELSE NoSetback

\* The candidate is tried only when the store admits it; a conflict ends the run.
AcquirePermit(w) ==
    /\ actors[w].pc = "idle"
    /\ \E n \in Operations, account \in Providers :
        LET pruned == pruneLocked(leases, account)
        IN  /\ delivered(n)
            /\ IF admits(pruned, n, account)
               THEN /\ leases' = leaseFor(pruned, n, account)
                    /\ Become(w, [idle EXCEPT !.pc = "begin", !.op = n, !.account = account])
               ELSE /\ leases' = pruned
                    /\ UNCHANGED actors
    /\ UNCHANGED <<attempts, tasks, dropped>>

BeginAIAttempt(w) ==
    /\ actors[w].pc = "begin"
    /\ LET account == actors[w].account
       IN  \/ /\ Current(w).dispatch = "none"
              /\ SetAttempt(w, newAIAttempt(account))
              /\ Goto(w, "submit")
           \/ /\ Current(w).dispatch # "none"
              /\ Goto(w, IF Current(w).provider = account THEN "submit" ELSE "release")
              /\ UNCHANGED attempts
    /\ KeepLeases
    /\ UNCHANGED <<tasks, setbacks>>

afterDispatch(x, a) ==
    [actors[x] EXCEPT !.snap = a, !.result = noResult,
        !.pc = IF inReconcilableState(a) THEN "retain" ELSE "release"]

\* PrepareAIAttemptDispatch and MarkAIAttemptDispatchSubmitted.
SubmitDispatch(w) ==
    /\ actors[w].pc = "submit"
    /\ LET a == Current(w)
           pending == resetUnknownDispatch(a, a.version)
           prepared == persistDispatchIntent(pending, pending.version)
           submitted == MarkAIAttemptDispatchSubmitted(prepared, prepared.version)
       IN  IF taskKnown(a)
           THEN Goto(w, "release") /\ UNCHANGED attempts
           ELSE /\ SetAttempt(w, submitted)
                /\ Become(w, IF submitted # prepared
                             THEN [actors[w] EXCEPT !.pc = "call", !.snap = submitted]
                             ELSE afterDispatch(w, submitted))
    /\ KeepLeases
    /\ UNCHANGED <<tasks, setbacks>>

lost == [outcome |-> "unknown", status |-> ""]
notCreated == [outcome |-> "proven_not_created", status |-> ""]
observed(task) == [outcome |-> "accepted", status |-> task]

\* The provider creates at most one task for a dispatch key.
DispatchProviderTask(w) ==
    /\ actors[w].pc = "call"
    /\ LET n == actors[w].op
           task == IF tasks[n] = "none" THEN "running" ELSE tasks[n]
           Answer(answer) == Become(w, [actors[w] EXCEPT !.pc = "resolve", !.result = answer])
       IN  \/ /\ tasks' = [tasks EXCEPT ![n] = task]
              /\ \/ Answer(observed(task)) /\ NoSetback
                 \/ Answer(lost) /\ Setback
           \/ /\ tasks[n] = "none"
              /\ Answer(notCreated) \/ Answer(lost)
              /\ Setback
              /\ UNCHANGED tasks
    /\ KeepLeases
    /\ UNCHANGED attempts

ResolveDispatch(w) ==
    /\ actors[w].pc = "resolve"
    /\ LET a == resolveProviderDispatchResult(Current(w), actors[w].snap, actors[w].result)
       IN  SetAttempt(w, a) /\ Become(w, afterDispatch(w, a))
    /\ KeepLeases
    /\ UNCHANGED <<tasks, setbacks>>

\* The store fails: the empty attempt that comes back is in no state that is
\* retained, and the permit is released.
LoseDispatch(w) ==
    /\ actors[w].pc \in {"begin", "submit", "resolve"}
    /\ Goto(w, "release")
    /\ Setback
    /\ KeepLeases
    /\ UNCHANGED <<attempts, tasks>>

ReleasePermit(w) ==
    /\ actors[w].pc = "release"
    /\ leases' = Release(leases, actors[w].op, actors[w].account)
    /\ Goto(w, "idle")
    /\ Remember
    /\ UNCHANGED <<attempts, tasks, setbacks>>

\* Retain extends the lease, or restores one that is gone.
RetainPermit(w) ==
    /\ actors[w].pc = "retain"
    /\ leases' = Restore(leases, actors[w].op, actors[w].account)
    /\ Goto(w, IF actors[w].snap.dispatch = "accepted" THEN "progress" ELSE "idle")
    /\ Remember
    /\ UNCHANGED <<attempts, tasks, setbacks>>

-----------------------------------------------------------------------------
(* Reconciler: reconcileAIAttempt                                          *)

PickDueAttempt(r) ==
    /\ actors[r].pc = "idle"
    /\ \E n \in Operations :
        /\ dueForReconciliation(attempts[n])
        /\ Become(r, [idle EXCEPT !.pc = "restore", !.op = n, !.snap = attempts[n]])
    /\ KeepLeases
    /\ UNCHANGED <<attempts, tasks, setbacks>>

restoreProviderCapacityForAttempt(r) ==
    /\ actors[r].pc = "restore"
    /\ leases' = Restore(leases, actors[r].op, actors[r].snap.provider)
    /\ Goto(r, "observe")
    /\ Remember
    /\ UNCHANGED <<attempts, tasks, setbacks>>

conclusivelyAbsent(n) == tasks[n] = "none" /\ ~asked(n)

\* A poll that finds the task as it was is a setback, so that polls are bounded.
ObserveProviderTask(r) ==
    /\ actors[r].pc = "observe"
    /\ LET n == actors[r].op
           Answer(answer) ==
               Become(r, [actors[r] EXCEPT !.pc = "settle", !.snap = Current(r), !.result = answer])
       IN  IF ~inReconcilableState(Current(r))
           THEN Become(r, [actors[r] EXCEPT !.pc = "sync", !.snap = Current(r)]) /\ NoSetback
           ELSE \/ /\ tasks[n] # "none"
                   /\ Answer(observed(tasks[n]))
                   /\ IF tasks[n] = Current(r).pstatus THEN Setback ELSE NoSetback
                \/ conclusivelyAbsent(n) /\ Answer(notCreated) /\ NoSetback
                \/ Answer(lost) /\ Setback
    /\ KeepLeases
    /\ UNCHANGED <<attempts, tasks>>

SettleReconciliation(r) ==
    /\ actors[r].pc = "settle"
    /\ LET a == resolveProviderDispatchResult(Current(r), actors[r].snap, actors[r].result)
       IN  /\ SetAttempt(r, a)
           /\ Become(r, [actors[r] EXCEPT !.pc = "sync", !.snap = a])
    /\ KeepLeases
    /\ UNCHANGED <<tasks, setbacks>>

-----------------------------------------------------------------------------
(* Both                                                                    *)

\* applyAcceptedProviderProgress: a terminal task completes the attempt, or what
\* that takes fails and the attempt is put off.
ApplyProgress(x) ==
    /\ actors[x].pc = "progress"
    /\ IF isDurableProviderTerminalStatus(actors[x].snap.pstatus)
       THEN \/ SetAttempt(x, CompleteAIAttempt(Current(x), actors[x].snap.pstatus)) /\ NoSetback
            \/ SetAttempt(x, deferAIAttemptReconciliation(Current(x))) /\ Setback
       ELSE UNCHANGED <<attempts, setbacks>>
    /\ Goto(x, IF x \in Workers THEN "sync" ELSE "idle")
    /\ KeepLeases
    /\ UNCHANGED tasks

finished(a) ==
    \/ a.dispatch = "proven_not_created"
    \/ a.status # "running"
    \/ isDurableProviderTerminalStatus(a.pstatus)

\* A reconciler goes on to the progress of an accepted attempt, unless its own
\* observation was overtaken.
syncProviderCapacityForAttempt(x) ==
    /\ actors[x].pc = "sync"
    /\ LET a == actors[x].snap
           n == actors[x].op
       IN  /\ leases' = IF finished(a) THEN Release(leases, n, a.provider)
                                       ELSE Restore(leases, n, a.provider)
           /\ Goto(x, IF /\ x \in Reconcilers /\ a.dispatch = "accepted"
                         /\ ~providerTaskStatusStale(a.pstatus, actors[x].result.status)
                      THEN "progress" ELSE "idle")
    /\ Remember
    /\ UNCHANGED <<attempts, tasks, setbacks>>

-----------------------------------------------------------------------------
(* Environment                                                             *)

\* An actor's process dies, or a call of the store fails where the rest of the
\* actor's run is given up with its lease untouched.
Crash(x) ==
    /\ actors[x].pc # "idle"
    /\ Goto(x, "idle")
    /\ Setback
    /\ KeepLeases
    /\ UNCHANGED <<attempts, tasks>>

\* The heartbeat of a permit, or a reconciler in time, keeps a needed lease.
LeaseExpires(n) ==
    /\ leases[n].live
    /\ leases' = [leases EXCEPT ![n].live = FALSE]
    /\ IF needed(n) THEN Setback ELSE NoSetback
    /\ Remember
    /\ UNCHANGED <<attempts, tasks, actors>>

\* How a task ends makes no difference to its lease.
ProviderTaskEnds(n) ==
    /\ tasks[n] = "running"
    /\ tasks' = [tasks EXCEPT ![n] = "succeeded"]
    /\ KeepLeases
    /\ UNCHANGED <<attempts, actors, setbacks>>

Init ==
    /\ leases = [n \in Operations |-> noLease]
    /\ attempts = [n \in Operations |-> absentAIAttempt]
    /\ tasks = [n \in Operations |-> "none"]
    /\ actors = [x \in Actors |-> idle]
    /\ dropped = {}
    /\ setbacks = 0

Next ==
    \/ \E w \in Workers :
        \/ AcquirePermit(w) \/ BeginAIAttempt(w) \/ SubmitDispatch(w) \/ DispatchProviderTask(w)
        \/ ResolveDispatch(w) \/ LoseDispatch(w) \/ ReleasePermit(w) \/ RetainPermit(w)
    \/ \E r \in Reconcilers :
        \/ PickDueAttempt(r) \/ restoreProviderCapacityForAttempt(r) \/ ObserveProviderTask(r)
        \/ SettleReconciliation(r)
    \/ \E x \in Actors : ApplyProgress(x) \/ syncProviderCapacityForAttempt(x) \/ Crash(x)
    \/ \E n \in Operations : LeaseExpires(n) \/ ProviderTaskEnds(n)

Spec == Init /\ [][Next]_vars

-----------------------------------------------------------------------------
(* Properties                                                              *)

\* Type invariant.
TypeOK ==
    /\ leases \in [Operations -> Leases]
    /\ attempts \in [Operations -> AIAttempts]
    /\ tasks \in [Operations -> TaskStatuses \cup {"none"}]
    /\ actors \in [Actors -> ActorStates]
    /\ dropped \subseteq Operations
    /\ setbacks \in Nat

\* An account never works on more attempts than its limit, but for those whose
\* lease went while they needed it: sharing a lease between workers, restoring it
\* without a look at the limit and releasing it late admit nobody else.
LoadWithinLimit ==
    \A account \in Providers :
        Cardinality({n \in Operations \ dropped : busy(n) /\ attempts[n].provider = account})
            <= Limit

\* The lease of a task that runs at the provider is never released.
RetainedUntilProviderTerminalState ==
    [][\A n \in Operations :
        tasks[n] = "running" /\ leases[n].live => leases'[n].account = leases[n].account]_vars
=============================================================================
