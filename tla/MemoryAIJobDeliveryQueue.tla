---------------------- MODULE MemoryAIJobDeliveryQueue ----------------------
(***************************************************************************)
(* The in-process delivery queue and the workers that consume it           *)
(* (ai_job_delivery_queue.go, ai_job_delivery_worker.go).  Every operation *)
(* holds the queue's mutex, so it is one step; leases and delays run out   *)
(* between steps.                                                          *)
(*                                                                         *)
(* Extend moves the end of a live lease and changes nothing else: it is    *)
(* what keeps LeaseExpires from happening.  A lease that runs out while    *)
(* its worker still has the delivery, because a heartbeat is late or the   *)
(* worker is busy with another delivery of the batch, is a setback.  The   *)
(* workers only Ack and Nack; DeadLetter completes the interface.          *)
(***************************************************************************)
EXTENDS Naturals, FiniteSets

CONSTANTS Envelopes,   \* claims of jobs, by delivery id
          Consumers,   \* delivery workers
          MaxItems,    \* items a worker receives at once
          MaxSetbacks  \* bound: crashes, late heartbeats and negative acknowledgements

ASSUME QueueConstants ==
    IsFiniteSet(Envelopes) /\ MaxItems \in Nat \ {0} /\ MaxSetbacks \in Nat

VARIABLES
    entries,   \* the queue's entries
    held,      \* the deliveries <<envelope, token>> a consumer works on
    issued,    \* lease tokens drawn so far
    ranOut,    \* leases <<envelope, token>> that have expired
    setbacks   \* setbacks so far

vars == <<entries, held, issued, ranOut, setbacks>>

Statuses == {"absent", "pending", "inflight", "acked", "dead"}

\* due: availableAt has been reached; expired: leaseUntil has.
Entries == [status : Statuses, due : BOOLEAN, token : Nat, expired : BOOLEAN]
absent == [status |-> "absent", due |-> FALSE, token |-> 0, expired |-> FALSE]
pending(due) == [absent EXCEPT !.status = "pending", !.due = due]

Setback == setbacks < MaxSetbacks /\ setbacks' = setbacks + 1
NoSetback == UNCHANGED setbacks

-----------------------------------------------------------------------------
(* Publishing                                                              *)

\* Mutant: only unsettled entries are remembered.
publishedForgotten(e) == entries[e].status \in {"pending", "inflight"}

\* The delivery id is known: the second publication of a claim changes nothing.
published(e) == entries[e].status # "absent"

Publish(e) ==
    /\ ~published(e)
    /\ \E due \in BOOLEAN : entries' = [entries EXCEPT ![e] = pending(due)]
    /\ UNCHANGED <<held, issued, ranOut, setbacks>>

-----------------------------------------------------------------------------
(* Receiving                                                               *)

\* Mutant: no entry comes back.
reclaimExpiredLockedNever(e) == entries[e]

reclaimExpiredLocked(e) ==
    IF entries[e].status = "inflight" /\ entries[e].expired THEN pending(TRUE) ELSE entries[e]

\* Mutant: entries in flight are ready too.
readyEntriesLockedAll ==
    {e \in Envelopes : reclaimExpiredLocked(e).status \in {"pending", "inflight"}}

readyEntriesLocked ==
    {e \in Envelopes : reclaimExpiredLocked(e).status = "pending" /\ reclaimExpiredLocked(e).due}

\* The oldest entries come first; which ones they are is left open.
Receive(c) ==
    /\ held[c] = {}
    /\ \E S \in SUBSET readyEntriesLocked :
        /\ S # {}
        /\ Cardinality(S) = MaxItems \/ (S = readyEntriesLocked /\ Cardinality(S) < MaxItems)
        /\ entries' = [e \in Envelopes |->
                        IF e \in S
                        THEN [status |-> "inflight", due |-> TRUE, token |-> issued + 1, expired |-> FALSE]
                        ELSE reclaimExpiredLocked(e)]
        /\ held' = [held EXCEPT ![c] = S \X {issued + 1}]
    /\ issued' = issued + 1
    /\ UNCHANGED <<ranOut, setbacks>>

-----------------------------------------------------------------------------
(* Ack, Nack and DeadLetter of a delivery that a worker has processed      *)

validateLeaseLocked(d) ==
    /\ entries[d[1]].status = "inflight"
    /\ entries[d[1]].token = d[2]
    /\ ~entries[d[1]].expired

Settled(c, d, entry) ==
    /\ validateLeaseLocked(d)
    /\ entries' = [entries EXCEPT ![d[1]] = entry]
    /\ held' = [held EXCEPT ![c] = @ \ {d}]
    /\ UNCHANGED <<issued, ranOut>>

Ack(c) ==
    /\ \E d \in held[c] : Settled(c, d, [absent EXCEPT !.status = "acked"])
    /\ NoSetback

Nack(c) ==
    /\ \E d \in held[c], due \in BOOLEAN : Settled(c, d, pending(due))
    /\ Setback

\* Mutant: a status that no other operation knows.
DeadLetterMisspelt(c) ==
    /\ \E d \in held[c] : Settled(c, d, [absent EXCEPT !.status = "dead_letter"])
    /\ Setback

DeadLetter(c) ==
    /\ \E d \in held[c] : Settled(c, d, [absent EXCEPT !.status = "dead"])
    /\ Setback

\* The lease is refused: the worker reports the error and takes the next delivery.
LeaseRefused(c) ==
    /\ \E d \in held[c] :
        ~validateLeaseLocked(d) /\ held' = [held EXCEPT ![c] = @ \ {d}]
    /\ UNCHANGED <<entries, issued, ranOut, setbacks>>

Crash(c) ==
    /\ held[c] # {}
    /\ held' = [held EXCEPT ![c] = {}]
    /\ Setback
    /\ UNCHANGED <<entries, issued, ranOut>>

-----------------------------------------------------------------------------
(* Time                                                                    *)

LeaseExpires(e) ==
    /\ entries[e].status = "inflight" /\ ~entries[e].expired
    /\ entries' = [entries EXCEPT ![e].expired = TRUE]
    /\ ranOut' = ranOut \cup {<<e, entries[e].token>>}
    /\ IF \E c \in Consumers : <<e, entries[e].token>> \in held[c] THEN Setback ELSE NoSetback
    /\ UNCHANGED <<held, issued>>

DelayElapses(e) ==
    /\ entries[e].status = "pending" /\ ~entries[e].due
    /\ entries' = [entries EXCEPT ![e].due = TRUE]
    /\ UNCHANGED <<held, issued, ranOut, setbacks>>

-----------------------------------------------------------------------------
Init ==
    /\ entries = [e \in Envelopes |-> absent]
    /\ held = [c \in Consumers |-> {}]
    /\ issued = 0 /\ ranOut = {} /\ setbacks = 0

ConsumerStep(c) == Receive(c) \/ Ack(c) \/ LeaseRefused(c)

Next ==
    \/ \E e \in Envelopes : Publish(e) \/ LeaseExpires(e) \/ DelayElapses(e)
    \/ \E c \in Consumers : ConsumerStep(c) \/ Nack(c) \/ DeadLetter(c) \/ Crash(c)

Spec == Init /\ [][Next]_vars

\* Workers poll for ever, and leases and delays are a matter of time.
FairSpec ==
    /\ Spec
    /\ \A c \in Consumers : WF_vars(ConsumerStep(c))
    /\ \A e \in Envelopes : WF_vars(LeaseExpires(e)) /\ WF_vars(DelayElapses(e))

-----------------------------------------------------------------------------
(* Properties                                                              *)

\* Type invariant.
TypeOK ==
    /\ entries \in [Envelopes -> Entries]
    /\ held \in [Consumers -> SUBSET (Envelopes \X Nat)]
    /\ issued \in Nat /\ setbacks \in Nat
    /\ ranOut \subseteq Envelopes \X Nat

placeOf(e) ==
    IF entries[e].status = "pending" THEN "waiting"
    ELSE IF entries[e].status = "inflight" THEN "leased"
    ELSE entries[e].status

Abstract == INSTANCE AIJobDeliveryQueue WITH
    place <- [e \in Envelopes |-> placeOf(e)],
    token <- [e \in Envelopes |-> entries[e].token]

\* The queue implements the interface: an envelope is never lost, and only the
\* latest lease settles it.
Implements == Abstract!Spec

\* A worker is overtaken only when its lease has run out: as long as it extends
\* the lease in time no other worker is given the envelope (Receive takes back
\* expired leases only).
LeaseIsExclusive ==
    \A c \in Consumers : \A d \in held[c] :
        d \in ranOut \/ (entries[d[1]].status = "inflight" /\ entries[d[1]].token = d[2])

\* Every published envelope is settled in the end, also when workers crash,
\* reject it or lose their leases for a while.
EventuallySettled ==
    \A e \in Envelopes :
        entries[e].status = "pending" ~> entries[e].status \in {"acked", "dead"}
=============================================================================
