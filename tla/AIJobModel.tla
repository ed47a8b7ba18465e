----------------------------- MODULE AIJobModel -----------------------------
(***************************************************************************)
(* The durable job row and the operations the repository performs on it    *)
(* inside one transaction (ai_job_model.go, ai_job_repository.go).         *)
(*                                                                         *)
(* A row is [status, version, fence, leased].  "version" is StatusVersion, *)
(* "fence" is FenceToken, and "leased" says that a queue lease is set and  *)
(* has not expired.  The lease token is not kept: every claim bumps the    *)
(* version, so two rows with one version carry one token.                  *)
(***************************************************************************)
EXTENDS Naturals

AIJobStatuses == {"accepted", "queued", "dispatching", "running", "canceling",
                  "canceled", "succeeded", "failed", "unknown", "expired"}

AIJobs == [status : AIJobStatuses, version : Nat, fence : Nat, leased : BOOLEAN]

newAIJob == [status |-> "queued", version |-> 1, fence |-> 0, leased |-> FALSE]

aiJobTerminalStatus(status) ==
    status \in {"succeeded", "failed", "canceled", "expired"}

\* Mutant: the row from "dispatching" without "running".
aiJobStatusTransitionAllowedShort(from, to, reason) ==
    \/ from = "dispatching" /\ to \in {"queued", "unknown", "canceling"}
    \/ from = "running"     /\ to \in {"succeeded", "failed", "canceling", "unknown"}
    \/ from = "canceling"   /\ to \in {"canceled", "succeeded", "failed"}
    \/ from = "unknown"     /\ to \in {"queued", "running"}

aiJobStatusTransitionAllowed(from, to, reason) ==
    \/ from = "accepted"    /\ to \in {"queued", "canceled"}
    \/ from = "queued"      /\ to \in {"dispatching", "canceled"}
    \/ from = "dispatching" /\ to \in {"queued", "running", "unknown", "canceling"}
    \/ from = "running"     /\ to \in {"succeeded", "failed", "canceling", "unknown"}
    \/ from = "canceling"   /\ to \in {"canceled", "succeeded", "failed"}
    \/ from = "unknown"     /\ \/ to = "queued" /\ reason = "proven_not_created"
                               \/ to \in {"running", "succeeded", "failed"}
    \/ from \in {"succeeded", "failed", "canceled"} /\ to = "expired"

\* Mutant: the version is not moved.
prepareAIJobTransitionSameVersion(job, to) ==
    [job EXCEPT !.status = to, !.leased = @ /\ to = "dispatching"]

prepareAIJobTransition(job, to) ==
    [job EXCEPT !.status = to, !.version = @ + 1,
                !.leased = @ /\ to = "dispatching"]

\* The compare-and-set of TransitionAIJob and RequeueAIJob: the caller presents
\* the version and fence of the row it read.  The job is returned as it is when
\* the comparison or the transition table refuses the update.
fenceAndVersionMatch(job, read) ==
    /\ job.version = read.version
    /\ job.fence > 0 => job.fence = read.fence

TransitionAIJob(job, read, to, reason) ==
    IF fenceAndVersionMatch(job, read) /\ aiJobStatusTransitionAllowed(job.status, to, reason)
    THEN prepareAIJobTransition(job, to)
    ELSE job

\* A queued job is claimed when its backoff has elapsed, a dispatching one when
\* its lease has.  Elapsed time is left open: a queued job may always be claimed.
aiJobReadyForClaim(job) ==
    \/ job.status = "queued"
    \/ job.status = "dispatching" /\ ~job.leased

claimAIJob(job) ==
    [status |-> "dispatching", version |-> job.version + 1,
     fence |-> job.fence + 1, leased |-> TRUE]

cancellable(job) == job.status \in {"accepted", "queued", "dispatching", "running"}

\* Before dispatch a cancellation is final; later it only asks the provider.
cancelledBeforeDispatch(job) == job.status \in {"accepted", "queued"}

RequestAIJobCancellation(job) ==
    LET to == IF cancelledBeforeDispatch(job) THEN "canceled" ELSE "canceling"
    IN  [prepareAIJobTransition(job, to) EXCEPT
            !.fence = IF job.status = "dispatching" THEN @ + 1 ELSE @]
=============================================================================
