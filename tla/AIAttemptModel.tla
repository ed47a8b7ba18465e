--------------------------- MODULE AIAttemptModel ---------------------------
(***************************************************************************)
(* One provider attempt of an operation and the compare-and-set updates of *)
(* its dispatch state (operation_service.go, operation_repository.go,      *)
(* provider_dispatch.go).                                                  *)
(*                                                                         *)
(* An attempt is [status, dispatch, version, provider, task, pstatus]:     *)
(* "version" is DispatchVersion, "task" says whether a provider task id is *)
(* bound, "pstatus" is ProviderTaskStatus.  The dispatch intent and the    *)
(* submission time are not kept: the intent is a function of the attempt   *)
(* and is set in every state but "pending", and the time is set exactly in *)
(* the states reached through "submitted".                                 *)
(***************************************************************************)
EXTENDS Naturals, ProviderTaskStatus

CONSTANTS Providers,    \* candidate (route, account) pairs
          NoProvider    \* the provider of an attempt that does not exist

DispatchStates == {"none", "pending", "prepared", "submitted", "accepted",
                   "unknown", "proven_not_created"}
AttemptStatuses == {"running", "succeeded", "failed", "skipped", "canceled"}
TaskStatuses == {"running", "succeeded", "failed", "canceled"}
ProviderStatuses == TaskStatuses \cup {"", "unknown", "proven_not_created"}

AIAttempts == [status : AttemptStatuses, dispatch : DispatchStates, version : Nat,
               provider : Providers \cup {NoProvider}, task : BOOLEAN,
               pstatus : ProviderStatuses]

absentAIAttempt == [status |-> "running", dispatch |-> "none", version |-> 0,
                    provider |-> NoProvider, task |-> FALSE, pstatus |-> ""]

newAIAttempt(provider) ==
    [absentAIAttempt EXCEPT !.dispatch = "pending", !.provider = provider]

\* UpdateAIAttemptDispatch: the row changes only while the attempt runs and its
\* dispatch version is the one the caller read.
updateAllowed(a, version) == a.status = "running" /\ a.version = version

\* Mutant: an accepted task is not polled.
inReconcilableStateShort(a) == a.dispatch \in {"submitted", "unknown"}

inReconcilableState(a) == a.dispatch \in {"submitted", "accepted", "unknown"}

dueForReconciliation(a) == a.status = "running" /\ inReconcilableState(a)

\* Mutant: the task id is not looked at.
taskKnownNoCheck(a) == FALSE

\* PrepareAIAttemptDispatch refuses an unknown attempt whose task it knows.
taskKnown(a) == a.dispatch = "unknown" /\ a.task

\* Its first half: an attempt whose submission was lost before a task id was
\* known is put back to "pending".
resetUnknownDispatch(a, version) ==
    IF a.dispatch = "unknown" /\ updateAllowed(a, version)
    THEN [a EXCEPT !.dispatch = "pending", !.version = @ + 1, !.pstatus = ""]
    ELSE a

\* Second half: the persisted intent turns "pending" into "prepared".
persistDispatchIntent(a, version) ==
    IF a.dispatch = "pending" /\ updateAllowed(a, version)
    THEN [a EXCEPT !.dispatch = "prepared", !.version = @ + 1]
    ELSE a

\* Mutant: a submission is marked again.
MarkAIAttemptDispatchSubmittedTwice(a, version) ==
    IF a.dispatch \in {"prepared", "submitted"} /\ updateAllowed(a, version)
    THEN [a EXCEPT !.dispatch = "submitted", !.version = @ + 1]
    ELSE a

MarkAIAttemptDispatchSubmitted(a, version) ==
    IF a.dispatch = "prepared" /\ updateAllowed(a, version)
    THEN [a EXCEPT !.dispatch = "submitted", !.version = @ + 1]
    ELSE a

MarkAIAttemptDispatchUnknown(a, version) ==
    IF a.dispatch \in {"submitted", "accepted"} /\ updateAllowed(a, version)
    THEN [a EXCEPT !.dispatch = "unknown", !.version = @ + 1, !.pstatus = "unknown"]
    ELSE a

\* Mutant: an observation is stored under the version it was made at.
RecordAIAttemptReconciliationSameVersion(a, version, pstatus) ==
    IF /\ inReconcilableState(a) /\ updateAllowed(a, version)
       /\ ~providerTaskStatusStale(a.pstatus, pstatus)
    THEN [a EXCEPT !.pstatus = pstatus]
    ELSE a

\* Mutant: an observation is stored whatever the attempt shows already.
RecordAIAttemptReconciliationUnordered(a, version, pstatus) ==
    IF inReconcilableState(a) /\ updateAllowed(a, version)
    THEN [a EXCEPT !.version = @ + 1, !.pstatus = pstatus]
    ELSE a

RecordAIAttemptReconciliation(a, version, pstatus) ==
    IF /\ inReconcilableState(a) /\ updateAllowed(a, version)
       /\ ~providerTaskStatusStale(a.pstatus, pstatus)
    THEN [a EXCEPT !.version = @ + 1, !.pstatus = pstatus]
    ELSE a

\* An attempt with a bound task is only rebound from "unknown"; otherwise the
\* observation is recorded against the version just read.
boundTaskKept(a, pstatus) ==
    a.task /\ (a.dispatch # "unknown" \/ providerTaskStatusStale(a.pstatus, pstatus))

\* Mutant: a task is bound whatever version the caller read.
BindAIAttemptProviderTaskUnfenced(a, version, pstatus) ==
    IF a.dispatch \in {"submitted", "unknown"} /\ a.status = "running"
    THEN [a EXCEPT !.dispatch = "accepted", !.version = @ + 1,
                   !.task = TRUE, !.pstatus = pstatus]
    ELSE a

BindAIAttemptProviderTask(a, version, pstatus) ==
    IF boundTaskKept(a, pstatus)
    THEN RecordAIAttemptReconciliation(a, a.version, pstatus)
    ELSE IF a.dispatch \in {"submitted", "unknown"} /\ updateAllowed(a, version)
         THEN [a EXCEPT !.dispatch = "accepted", !.version = @ + 1,
                        !.task = TRUE, !.pstatus = pstatus]
         ELSE a

\* Mutant: the proof is stored whatever version the caller read.
ProveAIAttemptNotCreatedUnfenced(a, version) ==
    IF ~a.task /\ a.dispatch \in {"prepared", "submitted", "unknown"}
    THEN [a EXCEPT !.dispatch = "proven_not_created", !.version = @ + 1,
                   !.pstatus = "proven_not_created", !.status = "skipped"]
    ELSE a

\* The proof ends the attempt as well (CompleteAIAttempt with "skipped").
ProveAIAttemptNotCreated(a, version) ==
    IF /\ ~a.task /\ a.dispatch \in {"prepared", "submitted", "unknown"}
       /\ updateAllowed(a, version)
    THEN [a EXCEPT !.dispatch = "proven_not_created", !.version = @ + 1,
                   !.pstatus = "proven_not_created", !.status = "skipped"]
    ELSE a

\* Mutant: the outcome is stored where the task's status belongs.
resolveProviderDispatchResultMixedUp(a, read, result) ==
    IF result.outcome = "accepted"
    THEN BindAIAttemptProviderTask(a, read.version, result.outcome)
    ELSE MarkAIAttemptDispatchUnknown(a, read.version)

\* "read" is the attempt as it was before the provider was called; "invalid" is
\* an outcome outside the contract, or an acceptance without a task id.
resolveProviderDispatchResult(a, read, result) ==
    CASE result.outcome = "accepted" ->
            BindAIAttemptProviderTask(a, read.version, result.status)
      [] result.outcome = "proven_not_created" ->
            ProveAIAttemptNotCreated(a, read.version)
      [] result.outcome = "unknown" /\ read.dispatch = "unknown" ->
            RecordAIAttemptReconciliation(a, read.version, "unknown")
      [] OTHER -> MarkAIAttemptDispatchUnknown(a, read.version)

\* deferAIAttemptReconciliation re-reads the attempt and only moves its due time.
deferAIAttemptReconciliation(a) ==
    IF a.status = "running" THEN RecordAIAttemptReconciliation(a, a.version, a.pstatus) ELSE a

CompleteAIAttempt(a, status) ==
    IF a.status = "running" THEN [a EXCEPT !.status = status] ELSE a
=============================================================================
