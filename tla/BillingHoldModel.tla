-------------------------- MODULE BillingHoldModel --------------------------
(***************************************************************************)
(* The status of a billing hold and the transitions the service and the    *)
(* repositories apply to it (billing_hold.go, billing_hold_repository.go). *)
(***************************************************************************)

BillingHoldStatuses == {"reserved", "committed", "settled", "released", "disputed"}

billingHoldCountsAgainstBudget(status) ==
    status \in {"reserved", "committed", "disputed"}

billingHoldTransitionAllowed(from, to) ==
    \/ from = "reserved"  /\ to \in {"committed", "settled", "released", "disputed"}
    \/ from = "committed" /\ to \in {"settled", "disputed"}
    \/ from = "disputed"  /\ to \in {"settled", "released"}

\* Mutant: the table is not consulted.
transitionBillingHoldUnchecked(status, to) ==
    IF status = "released" \/ (status = "disputed" /\ to = "committed") THEN status ELSE to

\* CommitBillingHold, DisputeBillingHold and ReleaseBillingHold: a request the
\* hold has already passed is dropped, one the table refuses is an error.
transitionBillingHold(status, to) ==
    IF \/ status \in {"settled", "released"}
       \/ status = "disputed" /\ to = "committed"
       \/ ~billingHoldTransitionAllowed(status, to)
    THEN status
    ELSE to

\* The release inside the transaction that cancels a job before dispatch.
releaseBillingHoldForOperation(status) ==
    IF status \in {"settled", "released", "committed"} THEN status ELSE "released"

\* The settlement inside the transaction that applies a final usage record.
\* "priced" is false when a pricing evaluation failed: the hold is disputed.
settleBillingHoldForUsage(status, priced) ==
    IF status \in {"settled", "released"} THEN status
    ELSE IF priced THEN "settled" ELSE "disputed"
=============================================================================
