----------------------- MODULE RedisAIJobDeliveryQueue -----------------------
(***************************************************************************)
(* The Redis Streams delivery queue (ai_job_delivery_redis.go).  A Lua     *)
(* script, like any Redis command, is one step, but Receive is four of     *)
(* them: promote the delayed deliveries that are due, reclaim, read new    *)
(* messages into the group's pending list, and establish their leases.     *)
(* Others act in between, and a consumer may crash there.                  *)
(*                                                                         *)
(* A message's id is its position in msgs.  Attempt counts and reasons     *)
(* travel with a message and decide nothing; they are left out, and so are *)
(* the expiry of dedupe keys (seven days by default), malformed messages   *)
(* (Publish validates the envelope) and the limits of a scan (100).        *)
(* Extend keeps a live lease from running out; one that runs out while its *)
(* worker still has the delivery is a setback.                             *)
(***************************************************************************)
EXTENDS Naturals, Sequences, FiniteSets, FiniteSetsExt, SequencesExt

CONSTANTS Envelopes,   \* claims of jobs, by delivery id
          Consumers,   \* delivery workers
          MaxItems,    \* items a worker receives at once
          MaxSetbacks  \* bound: crashes, stalls, lost leases and negative acknowledgements

ASSUME QueueConstants ==
    IsFiniteSet(Envelopes) /\ MaxItems \in Nat \ {0} /\ MaxSetbacks \in Nat

VARIABLES
    msgs,         \* the stream, its pending list and the leases
    delayed,      \* the delayed set: "no", "later" or "due" for each envelope
    dedupe,       \* envelopes with a dedupe key
    deadLetters,  \* envelopes on the dead-letter stream
    at,           \* the step of Receive a consumer is at
    read,         \* messages read by a consumer that have no lease of it yet
    held,         \* the deliveries <<message, token>> a consumer works on
    issued,       \* lease tokens drawn so far
    ranOut,       \* leases <<message, token>> that have expired
    setbacks      \* setbacks so far

queueVars == <<msgs, delayed, dedupe, deadLetters>>
consumerVars == <<at, read, held>>
vars == <<queueVars, consumerVars, issued, ranOut, setbacks>>

\* place: only in the stream, in the pending list too, or deleted.
\* idle: pending for longer than twice the lease time.
Messages == [env : Envelopes, place : {"added", "pending", "deleted"}, idle : BOOLEAN,
             token : Nat, lease : {"none", "live", "expired"}]
message(e) == [env |-> e, place |-> "added", idle |-> FALSE, token |-> 0, lease |-> "none"]
claimed(m) == [m EXCEPT !.idle = FALSE, !.token = issued + 1, !.lease = "live"]
\* Mutant: a place that no other operation knows.
deletedMisspelt(m) == [m EXCEPT !.place = "removed", !.token = 0, !.lease = "none"]

deleted(m) == [m EXCEPT !.place = "deleted", !.token = 0, !.lease = "none"]

Ids == DOMAIN msgs
OneOf(S, n) == kSubset(Min({n, Cardinality(S)}), S)

Setback == setbacks < MaxSetbacks /\ setbacks' = setbacks + 1
NoSetback == UNCHANGED setbacks

-----------------------------------------------------------------------------
(* Publishing                                                              *)

Publish(e) ==
    /\ e \notin dedupe
    /\ dedupe' = dedupe \cup {e}
    /\ \/ msgs' = Append(msgs, message(e)) /\ UNCHANGED delayed
       \/ delayed' = [delayed EXCEPT ![e] = "later"] /\ UNCHANGED msgs
    /\ UNCHANGED <<deadLetters, consumerVars, issued, ranOut, setbacks>>

-----------------------------------------------------------------------------
(* The steps of Receive                                                    *)

\* Mutant: the promoted members stay in the delayed set.
promoteDueKeeping(c) ==
    /\ at[c] = "promote" /\ held[c] = {}
    /\ at' = [at EXCEPT ![c] = "reclaim"]
    /\ \E due \in SetToSeqs({e \in Envelopes : delayed[e] = "due"}) :
        msgs' = msgs \o [i \in DOMAIN due |-> message(due[i])]
    /\ UNCHANGED <<delayed, dedupe, deadLetters, read, held, issued, ranOut, setbacks>>

promoteDue(c) ==
    /\ at[c] = "promote" /\ held[c] = {}
    /\ at' = [at EXCEPT ![c] = "reclaim"]
    /\ \E due \in SetToSeqs({e \in Envelopes : delayed[e] = "due"}) :
        msgs' = msgs \o [i \in DOMAIN due |-> message(due[i])]
    /\ delayed' = [e \in Envelopes |-> IF delayed[e] = "due" THEN "no" ELSE delayed[e]]
    /\ UNCHANGED <<dedupe, deadLetters, read, held, issued, ranOut, setbacks>>

expired == {i \in Ids : msgs[i].lease = "expired"}

\* Mutant: messages without a lease are left to the consumer that read them.
orphanedNever == {}

orphaned == {i \in Ids : msgs[i].place = "pending" /\ msgs[i].idle /\ msgs[i].lease = "none"}

Lease(c, S) ==
    /\ msgs' = [i \in Ids |-> IF i \in S THEN claimed(msgs[i]) ELSE msgs[i]]
    /\ held' = [held EXCEPT ![c] = S \X {issued + 1}]
    /\ issued' = IF S = {} THEN issued ELSE issued + 1
    /\ UNCHANGED <<delayed, dedupe, deadLetters, ranOut, setbacks>>

reclaimExpired(c) ==
    /\ at[c] = "reclaim"
    /\ \E due \in OneOf(expired, MaxItems) :
       \E orphans \in OneOf(orphaned, MaxItems - Cardinality(due)) :
        /\ Lease(c, due \cup orphans)
        /\ at' = [at EXCEPT ![c] = IF due \cup orphans = {} THEN "read" ELSE "promote"]
    /\ UNCHANGED read

unread == {i \in Ids : msgs[i].place = "added"}

\* The oldest messages are read; a consumer that finds none polls again.
XReadGroup(c) ==
    /\ at[c] = "read"
    /\ LET S == {i \in unread : Cardinality({j \in unread : j < i}) < MaxItems} IN
        /\ msgs' = [i \in Ids |-> IF i \in S THEN [msgs[i] EXCEPT !.place = "pending"] ELSE msgs[i]]
        /\ read' = [read EXCEPT ![c] = S]
        /\ at' = [at EXCEPT ![c] = IF S = {} THEN "promote" ELSE "establish"]
    /\ UNCHANGED <<delayed, dedupe, deadLetters, held, issued, ranOut, setbacks>>

\* XCLAIM with a minimum idle time of zero: the lease is taken whoever has it.
establishNewLeases(c) ==
    /\ at[c] = "establish"
    /\ Lease(c, {i \in read[c] : msgs[i].place = "pending"})
    /\ at' = [at EXCEPT ![c] = "promote"]
    /\ read' = [read EXCEPT ![c] = {}]

-----------------------------------------------------------------------------
(* Ack, Nack and DeadLetter of a delivery that a worker has processed      *)

\* Mutant: the lease token is not compared.
validLeaseLoose(d) == msgs[d[1]].lease = "live"

\* The test that the scripts begin with.
validLease(d) == msgs[d[1]].token = d[2] /\ msgs[d[1]].lease = "live"

Drop(c, d) == held' = [held EXCEPT ![c] = @ \ {d}] /\ UNCHANGED <<at, read>>

Ack(c) ==
    /\ \E d \in held[c] :
        /\ validLease(d)
        /\ msgs' = [msgs EXCEPT ![d[1]] = deleted(@)]
        /\ Drop(c, d)
    /\ UNCHANGED <<delayed, dedupe, deadLetters, issued, ranOut, setbacks>>

\* The envelope leaves under its message id and comes back under another.
Nack(c) ==
    /\ Setback
    /\ \E d \in held[c] :
        /\ validLease(d)
        /\ \/ /\ msgs' = Append([msgs EXCEPT ![d[1]] = deleted(@)], message(msgs[d[1]].env))
              /\ UNCHANGED delayed
           \/ /\ msgs' = [msgs EXCEPT ![d[1]] = deleted(@)]
              /\ delayed' = [delayed EXCEPT ![msgs[d[1]].env] = "later"]
        /\ Drop(c, d)
    /\ UNCHANGED <<dedupe, deadLetters, issued, ranOut>>

DeadLetter(c) ==
    /\ Setback
    /\ \E d \in held[c] :
        /\ validLease(d)
        /\ msgs' = [msgs EXCEPT ![d[1]] = deleted(@)]
        /\ deadLetters' = deadLetters \cup {msgs[d[1]].env}
        /\ Drop(c, d)
    /\ UNCHANGED <<delayed, dedupe, issued, ranOut>>

LeaseRefused(c) ==
    /\ \E d \in held[c] : ~validLease(d) /\ Drop(c, d)
    /\ UNCHANGED <<queueVars, issued, ranOut, setbacks>>

\* The worker is gone, in any step of Receive or with deliveries in hand.
Crash(c) ==
    /\ held[c] # {} \/ read[c] # {}
    /\ Setback
    /\ at' = [at EXCEPT ![c] = "promote"]
    /\ read' = [read EXCEPT ![c] = {}]
    /\ held' = [held EXCEPT ![c] = {}]
    /\ UNCHANGED <<queueVars, issued, ranOut>>

-----------------------------------------------------------------------------
(* Time                                                                    *)

LeaseExpires(i) ==
    /\ msgs[i].lease = "live"
    /\ msgs' = [msgs EXCEPT ![i].lease = "expired"]
    /\ ranOut' = ranOut \cup {<<i, msgs[i].token>>}
    /\ IF \E c \in Consumers : <<i, msgs[i].token>> \in held[c] THEN Setback ELSE NoSetback
    /\ UNCHANGED <<delayed, dedupe, deadLetters, consumerVars, issued>>

\* A message stays pending without a lease: its reader crashed, or it stalls.
MessageIdles(i) ==
    /\ msgs[i].place = "pending" /\ msgs[i].lease = "none" /\ ~msgs[i].idle
    /\ msgs' = [msgs EXCEPT ![i].idle = TRUE]
    /\ IF \E c \in Consumers : i \in read[c] THEN Setback ELSE NoSetback
    /\ UNCHANGED <<delayed, dedupe, deadLetters, consumerVars, issued, ranOut>>

DelayElapses(e) ==
    /\ delayed[e] = "later"
    /\ delayed' = [delayed EXCEPT ![e] = "due"]
    /\ UNCHANGED <<msgs, dedupe, deadLetters, consumerVars, issued, ranOut, setbacks>>

-----------------------------------------------------------------------------
Init ==
    /\ msgs = <<>> /\ delayed = [e \in Envelopes |-> "no"]
    /\ dedupe = {} /\ deadLetters = {}
    /\ at = [c \in Consumers |-> "promote"]
    /\ read = [c \in Consumers |-> {}] /\ held = [c \in Consumers |-> {}]
    /\ issued = 0 /\ ranOut = {} /\ setbacks = 0

ConsumerStep(c) ==
    \/ promoteDue(c) \/ reclaimExpired(c) \/ XReadGroup(c) \/ establishNewLeases(c)
    \/ Ack(c) \/ LeaseRefused(c)

Time(i) == LeaseExpires(i) \/ MessageIdles(i)

Next ==
    \/ \E e \in Envelopes : Publish(e) \/ DelayElapses(e)
    \/ \E i \in Ids : Time(i)
    \/ \E c \in Consumers : ConsumerStep(c) \/ Nack(c) \/ DeadLetter(c) \/ Crash(c)

Spec == Init /\ [][Next]_vars

\* Workers poll for ever, and leases, idle times and delays are a matter of time.
FairSpec ==
    /\ Spec
    /\ \A c \in Consumers : WF_vars(ConsumerStep(c))
    /\ \A e \in Envelopes : WF_vars(DelayElapses(e))
    /\ WF_vars(\E i \in Ids : Time(i))

-----------------------------------------------------------------------------
(* Properties                                                              *)

\* Type invariant.
TypeOK ==
    /\ msgs \in Seq(Messages)
    /\ delayed \in [Envelopes -> {"no", "later", "due"}]
    /\ dedupe \subseteq Envelopes /\ deadLetters \subseteq Envelopes
    /\ at \in [Consumers -> {"promote", "reclaim", "read", "establish"}]
    /\ read \in [Consumers -> SUBSET Ids]
    /\ held \in [Consumers -> SUBSET (Ids \X Nat)]
    /\ ranOut \subseteq Ids \X Nat
    /\ issued \in Nat /\ setbacks \in Nat

copies(e) == {i \in Ids : msgs[i].env = e /\ msgs[i].place # "deleted"}

\* An envelope is in one place: however often it is rejected, delayed and
\* promoted, the stream and the delayed set never hold two copies of it.
OneCopy ==
    \A e \in Envelopes :
        Cardinality(copies(e)) + (IF delayed[e] = "no" THEN 0 ELSE 1) <= 1

message_of(e) == CHOOSE i \in copies(e) : TRUE

Abstract == INSTANCE AIJobDeliveryQueue WITH
    place <- [e \in Envelopes |->
                CASE delayed[e] # "no" -> "waiting"
                  [] delayed[e] = "no" /\ copies(e) # {} ->
                        IF msgs[message_of(e)].lease = "none" THEN "waiting" ELSE "leased"
                  [] delayed[e] = "no" /\ copies(e) = {} /\ e \in deadLetters -> "dead"
                  [] OTHER -> IF e \in dedupe THEN "acked" ELSE "absent"],
    token <- [e \in Envelopes |-> IF copies(e) = {} THEN 0 ELSE msgs[message_of(e)].token],
    held <- [c \in Consumers |-> {<<msgs[d[1]].env, d[2]>> : d \in held[c]}]

\* The queue implements the interface: an envelope is never lost, and only the
\* latest lease settles it, although a consumer's Receive is several steps.
Implements == Abstract!Spec

\* A worker is overtaken only when its lease has run out.
LeaseIsExclusive ==
    \A c \in Consumers : \A d \in held[c] : d \in ranOut \/ msgs[d[1]].token = d[2]

\* Every published envelope is settled in the end, also when workers crash
\* between reading it and establishing its lease.
EventuallySettled ==
    \A e \in Envelopes :
        e \in dedupe ~> copies(e) = {} /\ delayed[e] = "no"
=============================================================================
