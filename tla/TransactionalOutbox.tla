------------------------ MODULE TransactionalOutbox ------------------------
(***************************************************************************)
(* The transactional outbox: rows written in the transaction that changes  *)
(* an aggregate, and the publishers that lease them, hand them to a broker *)
(* and complete, reschedule or dead-letter them (transactional_outbox.go,  *)
(* operation_repository.go).                                               *)
(*                                                                         *)
(* An event is <<aggregate, version>>.  A publisher's step ends where the  *)
(* code calls the store or the broker, so leases run out and other         *)
(* publishers run in between.  Backoff is left open: a pending event whose *)
(* available_at lies ahead is one that no claim happens to choose.         *)
(***************************************************************************)
EXTENDS Naturals, FiniteSets

CONSTANTS Aggregates,   \* jobs, operations and artifacts
          Publishers,   \* concurrent runs of PublishDueTransactionalOutbox
          MaxVersion,   \* bound: events of an aggregate
          MaxAttempts,  \* max_attempts of every event
          Limit,        \* batch size of a claim
          MaxSetbacks   \* bound: crashes, store failures, late leases, requeues

ASSUME OutboxConstants ==
    /\ MaxVersion \in Nat /\ MaxSetbacks \in Nat
    /\ MaxAttempts \in Nat \ {0} /\ Limit \in Nat \ {0}

VARIABLES
    events,      \* the outbox rows
    publishers,  \* the local state of every publisher
    tokens,      \* lease tokens drawn so far
    sent,        \* events the broker has received at least once
    abandoned,   \* events that have been dead-lettered at some time
    setbacks     \* setbacks so far

vars == <<events, publishers, tokens, sent, abandoned, setbacks>>

Versions == 1 .. MaxVersion
Events == Aggregates \X Versions
Statuses == {"absent", "pending", "publishing", "published", "dead_letter"}
Rows == [status : Statuses, attempts : Nat, token : Nat, expired : BOOLEAN]
absent == [status |-> "absent", attempts |-> 0, token |-> 0, expired |-> FALSE]

\* An item is a claimed row as the publisher read it.
Items == [event : Events, attempts : Nat]
PublisherStates == [token : Nat, batch : SUBSET Items, current : SUBSET Items,
                    phase : {"publish", "complete", "reschedule"}]
resting == [token |-> 0, batch |-> {}, current |-> {}, phase |-> "publish"]

Setback == setbacks < MaxSetbacks /\ setbacks' = setbacks + 1
NoSetback == UNCHANGED setbacks

-----------------------------------------------------------------------------
(* The transactions on outbox rows                                         *)

\* A transition of an aggregate writes the event of its next version with it.
AppendEvent(a) ==
    \E v \in Versions :
        /\ events[<<a, v>>].status = "absent"
        /\ \A u \in 1 .. v - 1 : events[<<a, u>>].status # "absent"
        /\ events' = [events EXCEPT ![<<a, v>>] = [absent EXCEPT !.status = "pending"]]
        /\ UNCHANGED <<publishers, tokens, sent, abandoned, setbacks>>

\* Mutant: an event that is being published does not hold back its successors.
hasEarlierUnpublishedOutboxEventPendingOnly(e) ==
    \E u \in 1 .. e[2] - 1 : events[<<e[1], u>>].status = "pending"

hasEarlierUnpublishedOutboxEvent(e) ==
    \E u \in 1 .. e[2] - 1 : events[<<e[1], u>>].status \in {"pending", "publishing"}

\* Mutant: an event whose lease ran out is not claimed again.
claimableOnce(e) ==
    events[e].status = "pending" /\ ~hasEarlierUnpublishedOutboxEvent(e)

claimable(e) ==
    /\ \/ events[e].status = "pending"
       \/ events[e].status = "publishing" /\ events[e].expired
    /\ ~hasEarlierUnpublishedOutboxEvent(e)

\* Mutants: the token is not compared; nothing is.
leasedByStatus(row, token) == row.status = "publishing"
leasedByAnyone(row, token) == row.status # "absent"

leased(row, token) == row.status = "publishing" /\ row.token = token

\* Mutant: a status of its own for a completed event.
CompleteTransactionalOutboxEventMisspelt(row, token) ==
    IF leased(row, token)
    THEN [row EXCEPT !.status = "completed", !.token = 0, !.expired = FALSE]
    ELSE row

CompleteTransactionalOutboxEvent(row, token) ==
    IF leased(row, token)
    THEN [row EXCEPT !.status = "published", !.token = 0, !.expired = FALSE]
    ELSE row

RescheduleTransactionalOutboxEvent(row, token, deadLetter) ==
    IF leased(row, token)
    THEN [row EXCEPT !.status = IF deadLetter THEN "dead_letter" ELSE "pending",
                     !.token = 0, !.expired = FALSE]
    ELSE row

RequeueTransactionalOutboxEvent(e) ==
    /\ events[e].status = "dead_letter"
    /\ events' = [events EXCEPT ![e] = [absent EXCEPT !.status = "pending"]]
    /\ Setback
    /\ UNCHANGED <<publishers, tokens, sent, abandoned>>

\* Thirty seconds pass.  The lease runs out under a live publisher only when the
\* publisher is that slow.
LeaseExpires(e) ==
    /\ events[e].status = "publishing" /\ ~events[e].expired
    /\ events' = [events EXCEPT ![e].expired = TRUE]
    /\ IF \E p \in Publishers : publishers[p].token = events[e].token
       THEN Setback ELSE NoSetback
    /\ UNCHANGED <<publishers, tokens, sent, abandoned>>

-----------------------------------------------------------------------------
(* PublishDueTransactionalOutbox                                           *)

ClaimDueTransactionalOutboxEvents(p) ==
    /\ publishers[p] = resting
    /\ \E S \in SUBSET {e \in Events : claimable(e)} :
        /\ S # {} /\ Cardinality(S) <= Limit
        /\ events' = [e \in Events |->
                        IF e \in S
                        THEN [status |-> "publishing", attempts |-> events[e].attempts + 1,
                              token |-> tokens + 1, expired |-> FALSE]
                        ELSE events[e]]
        /\ publishers' = [publishers EXCEPT ![p] =
                            [resting EXCEPT !.token = tokens + 1,
                                !.batch = {[event |-> e, attempts |-> events[e].attempts + 1] : e \in S}]]
    /\ tokens' = tokens + 1
    /\ UNCHANGED <<sent, abandoned, setbacks>>

\* The broker takes the event, or the call fails; a failed call may have been
\* received all the same.
PublishTransactionalOutbox(p) ==
    /\ publishers[p].phase = "publish"
    /\ \E item \in publishers[p].batch, phase \in {"complete", "reschedule"} :
        /\ publishers' = [publishers EXCEPT
                            ![p].batch = @ \ {item}, ![p].current = {item}, ![p].phase = phase]
        /\ \/ sent' = sent \cup {item.event}
           \/ phase = "reschedule" /\ UNCHANGED sent
    /\ UNCHANGED <<events, tokens, abandoned, setbacks>>

\* The loop goes on with the next event of the batch, or the run is over.
nextItem(local) ==
    IF local.batch = {} THEN resting ELSE [local EXCEPT !.current = {}, !.phase = "publish"]

CompleteEvent(p) ==
    /\ publishers[p].phase = "complete"
    /\ \E item \in publishers[p].current :
        events' = [events EXCEPT ![item.event] =
                     CompleteTransactionalOutboxEvent(@, publishers[p].token)]
    /\ publishers' = [publishers EXCEPT ![p] = nextItem(@)]
    /\ UNCHANGED <<tokens, sent, abandoned, setbacks>>

RescheduleEvent(p) ==
    /\ publishers[p].phase = "reschedule"
    /\ \E item \in publishers[p].current :
        /\ events' = [events EXCEPT ![item.event] =
                RescheduleTransactionalOutboxEvent(@, publishers[p].token,
                                                   item.attempts >= MaxAttempts)]
        /\ abandoned' = abandoned \cup {e \in Events : events'[e].status = "dead_letter"}
    /\ publishers' = [publishers EXCEPT ![p] = nextItem(@)]
    /\ UNCHANGED <<tokens, sent, setbacks>>

\* The store fails after the broker's answer: the error is kept, the loop goes on.
LoseResult(p) ==
    /\ publishers[p].phase # "publish"
    /\ publishers' = [publishers EXCEPT ![p] = nextItem(@)]
    /\ Setback
    /\ UNCHANGED <<events, tokens, sent, abandoned>>

Crash(p) ==
    /\ publishers[p] # resting
    /\ publishers' = [publishers EXCEPT ![p] = resting]
    /\ Setback
    /\ UNCHANGED <<events, tokens, sent, abandoned>>

-----------------------------------------------------------------------------
Init ==
    /\ events = [e \in Events |-> absent]
    /\ publishers = [p \in Publishers |-> resting]
    /\ tokens = 0 /\ sent = {} /\ abandoned = {} /\ setbacks = 0

PublisherStep(p) ==
    \/ ClaimDueTransactionalOutboxEvents(p)
    \/ PublishTransactionalOutbox(p)
    \/ CompleteEvent(p)
    \/ RescheduleEvent(p)

Next ==
    \/ \E a \in Aggregates : AppendEvent(a)
    \/ \E e \in Events : RequeueTransactionalOutboxEvent(e) \/ LeaseExpires(e)
    \/ \E p \in Publishers : PublisherStep(p) \/ LoseResult(p) \/ Crash(p)

Spec == Init /\ [][Next]_vars

\* RunTransactionalOutboxScheduler runs a publisher on every tick, and leases
\* are a matter of time.
FairSpec ==
    /\ Spec
    /\ \A p \in Publishers : WF_vars(PublisherStep(p))
    /\ \A e \in Events : WF_vars(LeaseExpires(e))

-----------------------------------------------------------------------------
(* Properties                                                              *)

\* Type invariant.
TypeOK ==
    /\ events \in [Events -> Rows]
    /\ publishers \in [Publishers -> PublisherStates]
    /\ tokens \in Nat /\ setbacks \in Nat
    /\ sent \subseteq Events /\ abandoned \subseteq Events

\* The broker first sees the events of an aggregate in version order: when it
\* has seen one, every earlier one has been seen too or was dead-lettered
\* (ClaimDueTransactionalOutboxEvents passes over an event with an unpublished
\* predecessor).  Leases run out, claims are repeated and results are lost in
\* between; only a repetition may come out of order.
FirstPublicationsInOrder ==
    \A e \in sent : \A u \in 1 .. e[2] - 1 :
        <<e[1], u>> \in sent \cup abandoned

\* An event is dead-lettered only when its attempts since the last requeue are
\* used up, whatever a publisher with an old lease still reports
\* (RescheduleTransactionalOutboxEvent compares the lease token).
DeadLetterIsExhausted ==
    \A e \in Events : events[e].status = "dead_letter" => events[e].attempts >= MaxAttempts

\* A published event stays published, and a dead-lettered one is only revived
\* with a fresh count of attempts.
SettledEventsStay ==
    [][\A e \in Events :
        /\ events[e].status = "published" => events'[e] = events[e]
        /\ events[e].status = "dead_letter" =>
                \/ events'[e] = events[e]
                \/ events'[e] = [absent EXCEPT !.status = "pending"]]_vars

\* Every event is published or dead-lettered in the end, also when publishers
\* crash, leases run out and results are lost for a while.
EventuallySettled ==
    \A e \in Events :
        events[e].status = "pending" ~> events[e].status \in {"published", "dead_letter"}
=============================================================================
