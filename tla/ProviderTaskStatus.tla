------------------------- MODULE ProviderTaskStatus -------------------------
(***************************************************************************)
(* The ordering of provider task statuses (provider_dispatch.go).          *)
(* Adapters report free-form labels; the gateway compares them by the      *)
(* lifecycle class of their canonical form, and drops an observation that  *)
(* would move a task backwards.                                            *)
(***************************************************************************)
EXTENDS Naturals

canonicalProviderTaskStatus(status) ==
    CASE status = "completed" -> "succeeded"
      [] status = "error"     -> "failed"
      [] status = "cancelled" -> "canceled"
      [] OTHER                -> status

providerTaskStatusRank(status) ==
    LET s == canonicalProviderTaskStatus(status) IN
    CASE s \in {"succeeded", "failed", "canceled"} -> 4
      [] s = "processing"                          -> 3
      [] s = "running"                             -> 2
      [] s \in {"queued", "accepted"}              -> 1
      [] OTHER                                     -> 0

\* "" is a label the adapter left out; "unknown" is what the gateway itself
\* stores when a dispatch or a poll could not be resolved.
providerTaskStatusStale(current, next) ==
    LET c == canonicalProviderTaskStatus(current)
        n == canonicalProviderTaskStatus(next)
    IN  /\ c # "" /\ n # "" /\ c # n
        /\ c # "unknown"
        /\ \/ n = "unknown"
           \/ providerTaskStatusRank(c) = 4
           \/ providerTaskStatusRank(n) < providerTaskStatusRank(c)

\* Mutant: a task in progress taken for a finished one.
isDurableProviderTerminalStatusLoose(status) ==
    status \in {"running", "succeeded", "completed", "failed", "error", "canceled", "cancelled"}

isDurableProviderTerminalStatus(status) ==
    status \in {"succeeded", "completed", "failed", "error", "canceled", "cancelled"}
=============================================================================
