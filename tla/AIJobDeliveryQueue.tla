------------------------- MODULE AIJobDeliveryQueue -------------------------
(***************************************************************************)
(* What the interface AIJobDeliveryQueue promises of an envelope           *)
(* (ai_job_delivery_queue.go): once published it is never lost, it is      *)
(* leased to a consumer any number of times, and only a consumer that      *)
(* presents the latest lease of the envelope acknowledges it, gives it     *)
(* back or dead-letters it.  MemoryAIJobDeliveryQueue and                  *)
(* RedisAIJobDeliveryQueue are shown to implement it.                      *)
(***************************************************************************)
EXTENDS Naturals

CONSTANTS Envelopes, Consumers

VARIABLES
    place,   \* where an envelope is
    token,   \* the latest lease of an envelope, 0 when it has none
    held,    \* the deliveries <<envelope, token>> a consumer works on
    issued   \* leases issued so far

vars == <<place, token, held, issued>>

Init ==
    /\ place = [e \in Envelopes |-> "absent"]
    /\ token = [e \in Envelopes |-> 0]
    /\ held = [c \in Consumers |-> {}]
    /\ issued = 0

Publish(e) ==
    /\ place[e] = "absent"
    /\ place' = [place EXCEPT ![e] = "waiting"]
    /\ UNCHANGED <<token, held, issued>>

\* The envelopes of S are leased to c; others may lose an expired lease.
Receive(c) ==
    \E S \in SUBSET {e \in Envelopes : place[e] \in {"waiting", "leased"}} :
    \E back \in SUBSET {e \in Envelopes \ S : place[e] = "leased"} :
        /\ held[c] = {} /\ S # {}
        /\ place' = [e \in Envelopes |-> IF e \in S THEN "leased"
                                         ELSE IF e \in back THEN "waiting" ELSE place[e]]
        /\ token' = [e \in Envelopes |-> IF e \in S THEN issued + 1
                                         ELSE IF e \in back THEN 0 ELSE token[e]]
        /\ held' = [held EXCEPT ![c] = S \X {issued + 1}]
        /\ issued' = issued + 1

\* Ack, Nack and DeadLetter with the latest lease.
Settle(c) ==
    \E d \in held[c], to \in {"acked", "waiting", "dead"} :
        /\ place[d[1]] = "leased" /\ token[d[1]] = d[2]
        /\ place' = [place EXCEPT ![d[1]] = to]
        /\ token' = [token EXCEPT ![d[1]] = 0]
        /\ held' = [held EXCEPT ![c] = @ \ {d}]
        /\ UNCHANGED issued

\* A consumer whose lease is refused, or that crashes, gives up deliveries.
Forget(c) ==
    /\ \E D \in SUBSET held[c] : held' = [held EXCEPT ![c] = D]
    /\ UNCHANGED <<place, token, issued>>

Next ==
    \/ \E e \in Envelopes : Publish(e)
    \/ \E c \in Consumers : Receive(c) \/ Settle(c) \/ Forget(c)

Spec == Init /\ [][Next]_vars
=============================================================================
