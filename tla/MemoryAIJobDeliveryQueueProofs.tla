------------------- MODULE MemoryAIJobDeliveryQueueProofs -------------------
(***************************************************************************)
(* For every set of envelopes and workers, the in-process queue keeps its  *)
(* leases exclusive and implements the interface AIJobDeliveryQueue.       *)
(*                                                                         *)
(* LeaseIsExclusive is not inductive: that a settled delivery was the only *)
(* one with its token takes HeldOnce, which in turn takes that new tokens  *)
(* are above all older ones (TokensIssued); and that an entry taken back   *)
(* had run out takes ExpiredRanOut.                                        *)
(***************************************************************************)
EXTENDS MemoryAIJobDeliveryQueue, TLAPS

TokensIssued ==
    /\ \A e \in Envelopes :
        /\ entries[e].token <= issued
        /\ entries[e].status # "inflight" => entries[e].token = 0
    /\ \A c \in Consumers : \A d \in held[c] : d[2] <= issued

HeldOnce == \A c1, c2 \in Consumers : \A d \in held[c1] : d \in held[c2] => c1 = c2

ExpiredRanOut ==
    \A e \in Envelopes :
        entries[e].status = "inflight" /\ entries[e].expired => <<e, entries[e].token>> \in ranOut

QueueInv == TypeOK /\ TokensIssued /\ HeldOnce /\ ExpiredRanOut /\ LeaseIsExclusive

\* The entries that the operations write are entries.
LEMMA EntryTypes ==
    /\ absent \in Entries
    /\ absent.status = "absent" /\ absent.token = 0
    /\ \A due \in BOOLEAN :
        /\ pending(due) \in Entries
        /\ pending(due).status = "pending" /\ pending(due).token = 0
    /\ \A s \in {"acked", "dead"} :
        /\ [absent EXCEPT !.status = s] \in Entries
        /\ [absent EXCEPT !.status = s].status = s /\ [absent EXCEPT !.status = s].token = 0
BY DEF absent, pending, Entries, Statuses

\* The queue starts with nothing in it.
LEMMA InitInv == Init => QueueInv
BY EntryTypes DEF Init, QueueInv, TypeOK, TokensIssued, HeldOnce, ExpiredRanOut, LeaseIsExclusive

\* Taking back an entry gives an entry without a lease, or leaves a live one.
LEMMA Reclaimed ==
    ASSUME QueueInv, NEW e \in Envelopes
    PROVE  /\ reclaimExpiredLocked(e) \in Entries
           /\ \/ reclaimExpiredLocked(e) = entries[e]
              \/ /\ reclaimExpiredLocked(e) = pending(TRUE)
                 /\ entries[e].status = "inflight" /\ <<e, entries[e].token>> \in ranOut
           /\ reclaimExpiredLocked(e).status = "pending" =>
                 \/ entries[e].status = "pending"
                 \/ <<e, entries[e].token>> \in ranOut
BY EntryTypes DEF QueueInv, TypeOK, ExpiredRanOut, reclaimExpiredLocked

\* Receive preserves the invariant.
LEMMA ReceiveInv ==
    ASSUME QueueInv, NEW c \in Consumers, Receive(c)
    PROVE  QueueInv'
<1>1. PICK S \in SUBSET readyEntriesLocked :
        /\ entries' = [e \in Envelopes |->
                        IF e \in S
                        THEN [status |-> "inflight", due |-> TRUE, token |-> issued + 1, expired |-> FALSE]
                        ELSE reclaimExpiredLocked(e)]
        /\ held' = [held EXCEPT ![c] = S \X {issued + 1}]
      BY DEF Receive
<1>2. issued' = issued + 1 /\ ranOut' = ranOut /\ setbacks' = setbacks /\ issued \in Nat
      BY DEF Receive, QueueInv, TypeOK
<1>3. S \subseteq Envelopes
      BY DEF readyEntriesLocked
<1> DEFINE leased == [status |-> "inflight", due |-> TRUE, token |-> issued + 1, expired |-> FALSE]
<1>4. leased \in Entries /\ leased.status = "inflight" /\ leased.token = issued + 1 /\ ~leased.expired
      BY <1>2 DEF Entries, Statuses
<1>5. \A e \in Envelopes : entries'[e] = IF e \in S THEN leased ELSE reclaimExpiredLocked(e)
      BY <1>1
<1>6. \A c2 \in Consumers : held'[c2] = IF c2 = c THEN S \X {issued + 1} ELSE held[c2]
      BY <1>1 DEF QueueInv, TypeOK
<1> HIDE DEF leased
<1>7. TypeOK'
  <2>1. entries' \in [Envelopes -> Entries]
        BY <1>1, <1>4, Reclaimed DEF leased
  <2>2. S \X {issued + 1} \subseteq Envelopes \X Nat
        BY <1>2, <1>3
  <2>3. held' \in [Consumers -> SUBSET (Envelopes \X Nat)]
        BY <2>2, <1>1 DEF QueueInv, TypeOK
  <2> QED BY <2>1, <2>3, <1>2 DEF QueueInv, TypeOK
<1>8. \A e \in Envelopes : entries[e] \in Entries
      BY DEF QueueInv, TypeOK
<1>9. TokensIssued'
  <2>1. ASSUME NEW e \in Envelopes
        PROVE  /\ entries'[e].token <= issued'
               /\ entries'[e].status # "inflight" => entries'[e].token = 0
    <3>1. CASE e \in S
          BY <3>1, <1>2, <1>4, <1>5
    <3>2. CASE e \notin S /\ reclaimExpiredLocked(e) = entries[e]
          BY <3>2, <1>2, <1>5, <1>8 DEF QueueInv, TokensIssued, Entries
    <3>3. CASE e \notin S /\ reclaimExpiredLocked(e) = pending(TRUE)
      <4>1. entries'[e].status = "pending" /\ entries'[e].token = 0
            BY <3>3, <1>5, EntryTypes
      <4> QED BY <4>1, <1>2
    <3> QED BY <3>1, <3>2, <3>3, Reclaimed
  <2>2. ASSUME NEW c2 \in Consumers, NEW d \in held'[c2]
        PROVE  d[2] <= issued'
    <3>1. CASE c2 = c
          BY <3>1, <1>2, <1>6
    <3>2. CASE c2 # c
      <4>1. d \in held[c2] /\ d[2] \in Nat
            BY <3>2, <1>6 DEF QueueInv, TypeOK
      <4> QED BY <4>1, <1>2 DEF QueueInv, TokensIssued
    <3> QED BY <3>1, <3>2
  <2> QED BY <2>1, <2>2 DEF TokensIssued
<1>10. HeldOnce'
  <2>1. ASSUME NEW c2 \in Consumers, NEW d \in held[c2]
        PROVE  d \notin S \X {issued + 1}
    <3>1. d[2] <= issued /\ d[2] \in Nat
          BY DEF QueueInv, TokensIssued, TypeOK
    <3> QED BY <3>1, <1>2
  <2> QED BY <2>1, <1>6 DEF QueueInv, HeldOnce
<1>11. ExpiredRanOut'
  <2> SUFFICES ASSUME NEW e \in Envelopes, entries'[e].status = "inflight", entries'[e].expired
               PROVE  <<e, entries'[e].token>> \in ranOut'
      BY DEF ExpiredRanOut
  <2>1. e \notin S
        BY <1>4, <1>5
  <2>2. reclaimExpiredLocked(e) = entries[e]
        BY <2>1, <1>5, Reclaimed, EntryTypes
  <2> QED BY <2>1, <2>2, <1>2, <1>5 DEF QueueInv, ExpiredRanOut
<1>12. LeaseIsExclusive'
  <2> SUFFICES ASSUME NEW c2 \in Consumers, NEW d \in held'[c2], d \notin ranOut'
               PROVE  entries'[d[1]].status = "inflight" /\ entries'[d[1]].token = d[2]
      BY DEF LeaseIsExclusive
  <2>1. CASE c2 = c
        BY <2>1, <1>3, <1>4, <1>5, <1>6
  <2>2. CASE c2 # c
    <3>1. d \in held[c2] /\ d \notin ranOut /\ d[1] \in Envelopes /\ d = <<d[1], d[2]>>
          BY <2>2, <1>2, <1>6 DEF QueueInv, TypeOK
    <3>2. entries[d[1]].status = "inflight" /\ entries[d[1]].token = d[2]
          BY <3>1 DEF QueueInv, LeaseIsExclusive
    <3>3. <<d[1], entries[d[1]].token>> \notin ranOut
          BY <3>1, <3>2
    <3>4. reclaimExpiredLocked(d[1]) = entries[d[1]] /\ d[1] \notin S
          BY <3>1, <3>2, <3>3, Reclaimed DEF readyEntriesLocked
    <3> QED BY <3>1, <3>2, <3>4, <1>5
  <2> QED BY <2>1, <2>2
<1> QED BY <1>7, <1>9, <1>10, <1>11, <1>12 DEF QueueInv

\* Settling a delivery with its live lease preserves the invariant.
LEMMA SettledInv ==
    ASSUME QueueInv, NEW c \in Consumers, NEW d \in held[c], NEW entry \in Entries,
           entry.status # "inflight", entry.token = 0,
           Settled(c, d, entry), setbacks' \in Nat
    PROVE  QueueInv'
<1>1. /\ entries' = [entries EXCEPT ![d[1]] = entry] /\ entries[d[1]].token = d[2]
      /\ held' = [held EXCEPT ![c] = @ \ {d}]
      /\ issued' = issued /\ ranOut' = ranOut
      BY DEF Settled, validateLeaseLocked
<1>2. d[1] \in Envelopes /\ d[2] \in Nat /\ d = <<d[1], d[2]>>
      BY DEF QueueInv, TypeOK
<1>3. \A e \in Envelopes : entries'[e] = IF e = d[1] THEN entry ELSE entries[e]
      BY <1>1 DEF QueueInv, TypeOK
<1>4. \A c2 \in Consumers : held'[c2] = IF c2 = c THEN held[c] \ {d} ELSE held[c2]
      BY <1>1 DEF QueueInv, TypeOK
<1>5. TypeOK'
      BY <1>1 DEF QueueInv, TypeOK
<1>6. TokensIssued'
      BY <1>1, <1>3, <1>4 DEF QueueInv, TypeOK, TokensIssued
<1>7. HeldOnce'
      BY <1>4 DEF QueueInv, HeldOnce
<1>8. ExpiredRanOut'
      BY <1>1, <1>3 DEF QueueInv, ExpiredRanOut
<1>9. LeaseIsExclusive'
  <2> SUFFICES ASSUME NEW c2 \in Consumers, NEW d2 \in held'[c2], d2 \notin ranOut'
               PROVE  entries'[d2[1]].status = "inflight" /\ entries'[d2[1]].token = d2[2]
      BY DEF LeaseIsExclusive
  <2>1. d2 \in held[c2] /\ d2 # d
        BY <1>4 DEF QueueInv, HeldOnce
  <2>2. d2[1] \in Envelopes /\ d2 = <<d2[1], d2[2]>>
        BY <2>1 DEF QueueInv, TypeOK
  <2>3. entries[d2[1]].status = "inflight" /\ entries[d2[1]].token = d2[2]
        BY <2>1, <1>1 DEF QueueInv, LeaseIsExclusive
  <2>4. d2[1] # d[1]
        BY <2>1, <2>2, <2>3, <1>1, <1>2
  <2> QED BY <2>2, <2>3, <2>4, <1>3
<1> QED BY <1>5, <1>6, <1>7, <1>8, <1>9 DEF QueueInv

\* Giving up deliveries preserves the invariant.
LEMMA ForgetInv ==
    ASSUME QueueInv, NEW c \in Consumers, NEW D \in SUBSET held[c],
           held' = [held EXCEPT ![c] = D],
           UNCHANGED <<entries, issued, ranOut>>, setbacks' \in Nat
    PROVE  QueueInv'
<1>1. \A c2 \in Consumers : held'[c2] \subseteq held[c2]
      BY DEF QueueInv, TypeOK
<1>2. TypeOK'
      BY DEF QueueInv, TypeOK
<1>3. TokensIssued' /\ HeldOnce'
      BY <1>1 DEF QueueInv, TokensIssued, HeldOnce
<1>4. ExpiredRanOut' /\ LeaseIsExclusive'
      BY <1>1 DEF QueueInv, ExpiredRanOut, LeaseIsExclusive
<1> QED BY <1>2, <1>3, <1>4 DEF QueueInv

\* Publishing preserves the invariant.
LEMMA PublishInv ==
    ASSUME QueueInv, NEW e \in Envelopes, Publish(e)
    PROVE  QueueInv'
<1>1. PICK due \in BOOLEAN : entries' = [entries EXCEPT ![e] = pending(due)]
      BY DEF Publish
<1> DEFINE entry == pending(due)
<1>2. entry \in Entries /\ entry.status = "pending" /\ entry.token = 0
      BY EntryTypes
<1> HIDE DEF entry
<1>3. \A f \in Envelopes : entries'[f] = IF f = e THEN entry ELSE entries[f]
      BY <1>1 DEF QueueInv, TypeOK, entry
<1>4. UNCHANGED <<held, issued, ranOut, setbacks>> /\ entries[e].status = "absent"
      BY DEF Publish, published
<1>5. TypeOK'
      BY <1>1, <1>2, <1>4 DEF QueueInv, TypeOK, entry
<1>6. TokensIssued' /\ HeldOnce'
      BY <1>2, <1>3, <1>4 DEF QueueInv, TypeOK, TokensIssued, HeldOnce
<1>7. ExpiredRanOut'
      BY <1>2, <1>3, <1>4 DEF QueueInv, ExpiredRanOut
<1>8. LeaseIsExclusive'
  <2> SUFFICES ASSUME NEW c2 \in Consumers, NEW d \in held[c2], d \notin ranOut
               PROVE  entries'[d[1]].status = "inflight" /\ entries'[d[1]].token = d[2]
      BY <1>4 DEF LeaseIsExclusive
  <2>1. d[1] \in Envelopes /\ entries[d[1]].status = "inflight" /\ entries[d[1]].token = d[2]
        BY DEF QueueInv, LeaseIsExclusive, TypeOK
  <2> QED BY <2>1, <1>3, <1>4
<1> QED BY <1>5, <1>6, <1>7, <1>8 DEF QueueInv

\* The passage of time preserves the invariant.
LEMMA TimeInv ==
    ASSUME QueueInv, NEW e \in Envelopes, LeaseExpires(e) \/ DelayElapses(e)
    PROVE  QueueInv'
<1> DEFINE new == entries'[e]
<1>1. entries[e] \in Entries
      BY DEF QueueInv, TypeOK
<1>2. /\ new \in Entries /\ new.status = entries[e].status /\ new.token = entries[e].token
      /\ \A f \in Envelopes : f # e => entries'[f] = entries[f]
      /\ entries' \in [Envelopes -> Entries]
  <2>1. \E n \in {[entries[e] EXCEPT !.expired = TRUE], [entries[e] EXCEPT !.due = TRUE]} :
          entries' = [entries EXCEPT ![e] = n]
        BY DEF LeaseExpires, DelayElapses
  <2>2. \A n \in {[entries[e] EXCEPT !.expired = TRUE], [entries[e] EXCEPT !.due = TRUE]} :
          n \in Entries /\ n.status = entries[e].status /\ n.token = entries[e].token
        BY <1>1 DEF Entries
  <2> QED BY <2>1, <2>2 DEF QueueInv, TypeOK
<1>3. /\ held' = held /\ issued' = issued /\ setbacks' \in Nat
      /\ ranOut \subseteq ranOut' /\ ranOut' \subseteq Envelopes \X Nat
  <2>1. CASE LeaseExpires(e)
    <3>1. entries[e].token \in Nat /\ <<e, entries[e].token>> \in Envelopes \X Nat
          BY <1>1 DEF Entries
    <3>2. setbacks' \in Nat
          BY <2>1 DEF QueueInv, TypeOK, LeaseExpires, Setback, NoSetback
    <3> QED BY <2>1, <3>1, <3>2 DEF QueueInv, TypeOK, LeaseExpires
  <2>2. CASE DelayElapses(e)
        BY <2>2 DEF QueueInv, TypeOK, DelayElapses
  <2> QED BY <2>1, <2>2
<1>4. new.status = "inflight" /\ new.expired => <<e, new.token>> \in ranOut'
  <2>1. CASE LeaseExpires(e)
        BY <2>1, <1>2 DEF LeaseExpires
  <2>2. CASE DelayElapses(e)
        BY <2>2, <1>2 DEF DelayElapses
  <2> QED BY <2>1, <2>2
<1>5. TypeOK'
      BY <1>2, <1>3 DEF QueueInv, TypeOK
<1> HIDE DEF new
<1>6. \A f \in Envelopes :
        entries'[f].status = entries[f].status /\ entries'[f].token = entries[f].token
      BY <1>2 DEF new
<1>7. TokensIssued' /\ HeldOnce'
      BY <1>3, <1>6 DEF QueueInv, TokensIssued, HeldOnce
<1>8. ExpiredRanOut'
  <2> SUFFICES ASSUME NEW f \in Envelopes, entries'[f].status = "inflight", entries'[f].expired
               PROVE  <<f, entries'[f].token>> \in ranOut'
      BY DEF ExpiredRanOut
  <2>1. CASE f = e
        BY <2>1, <1>4 DEF new
  <2>2. CASE f # e
        BY <2>2, <1>2, <1>3 DEF QueueInv, ExpiredRanOut
  <2> QED BY <2>1, <2>2
<1>9. LeaseIsExclusive'
  <2> SUFFICES ASSUME NEW c2 \in Consumers, NEW d \in held[c2], d \notin ranOut
               PROVE  entries'[d[1]].status = "inflight" /\ entries'[d[1]].token = d[2]
      BY <1>3 DEF LeaseIsExclusive
  <2>1. d[1] \in Envelopes /\ entries[d[1]].status = "inflight" /\ entries[d[1]].token = d[2]
        BY DEF QueueInv, LeaseIsExclusive, TypeOK
  <2> QED BY <2>1, <1>6
<1> QED BY <1>5, <1>7, <1>8, <1>9 DEF QueueInv

\* Every step preserves the invariant.
LEMMA StepInv == QueueInv /\ [Next]_vars => QueueInv'
<1> SUFFICES ASSUME QueueInv, [Next]_vars PROVE QueueInv'
    OBVIOUS
<1>1. ASSUME NEW e \in Envelopes, Publish(e) \/ LeaseExpires(e) \/ DelayElapses(e)
      PROVE  QueueInv'
      BY <1>1, PublishInv, TimeInv
<1>2. ASSUME NEW c \in Consumers, Receive(c)
      PROVE  QueueInv'
      BY <1>2, ReceiveInv
<1>3. ASSUME NEW c \in Consumers, Ack(c) \/ Nack(c) \/ DeadLetter(c)
      PROVE  QueueInv'
  <2>1. setbacks' \in Nat
        BY <1>3 DEF QueueInv, TypeOK, Ack, Nack, DeadLetter, Setback, NoSetback
  <2>2. PICK d \in held[c] : \E entry \in Entries :
          entry.status # "inflight" /\ entry.token = 0 /\ Settled(c, d, entry)
    <3>1. CASE Ack(c)
          BY <3>1, EntryTypes DEF Ack
    <3>2. CASE Nack(c)
          BY <3>2, EntryTypes DEF Nack
    <3>3. CASE DeadLetter(c)
          BY <3>3, EntryTypes DEF DeadLetter
    <3> QED BY <1>3, <3>1, <3>2, <3>3
  <2> QED BY <2>1, <2>2, SettledInv
<1>4. ASSUME NEW c \in Consumers, LeaseRefused(c) \/ Crash(c)
      PROVE  QueueInv'
  <2>1. setbacks' \in Nat /\ UNCHANGED <<entries, issued, ranOut>>
        BY <1>4 DEF QueueInv, TypeOK, LeaseRefused, Crash, Setback
  <2>2. \E D \in SUBSET held[c] : held' = [held EXCEPT ![c] = D]
        BY <1>4 DEF LeaseRefused, Crash
  <2> QED BY <2>1, <2>2, ForgetInv
<1>5. CASE UNCHANGED vars
      BY <1>5 DEF vars, QueueInv, TypeOK, TokensIssued, HeldOnce, ExpiredRanOut, LeaseIsExclusive
<1> QED BY <1>1, <1>2, <1>3, <1>4, <1>5 DEF Next, ConsumerStep

\* The invariant holds in every reachable state.
THEOREM QueueCorrect == Spec => []QueueInv
<1> QED BY InitInv, StepInv, PTL DEF Spec

\* A worker is overtaken only when its lease has run out: Receive gives an
\* envelope away only after reclaimExpiredLocked found its lease expired.
THEOREM LeasesExclusive == Spec => []LeaseIsExclusive
<1>1. QueueInv => LeaseIsExclusive
      BY DEF QueueInv
<1> QED BY <1>1, QueueCorrect, PTL

-----------------------------------------------------------------------------
(* The queue implements AIJobDeliveryQueue                                 *)

\* Initial states map to initial states.
LEMMA InitRefines == Init => Abstract!Init
BY EntryTypes DEF Init, Abstract!Init, placeOf

\* Publishing an envelope is the interface's Publish.
LEMMA PublishRefines ==
    ASSUME QueueInv, NEW e \in Envelopes, Publish(e)
    PROVE  Abstract!Publish(e)
<1>1. PICK due \in BOOLEAN : entries' = [entries EXCEPT ![e] = pending(due)]
      BY DEF Publish
<1>2. pending(due).status = "pending" /\ pending(due).token = 0
      BY EntryTypes
<1>3. entries[e].status = "absent" /\ entries[e].token = 0 /\ UNCHANGED <<held, issued>>
      BY DEF Publish, published, QueueInv, TokensIssued
<1>4. \A f \in Envelopes : entries'[f] = IF f = e THEN pending(due) ELSE entries[f]
      BY <1>1 DEF QueueInv, TypeOK
<1>5. placeOf(e) = "absent"
      BY <1>3 DEF placeOf
<1>6. \A f \in Envelopes :
        /\ (placeOf(f))' = IF f = e THEN "waiting" ELSE placeOf(f)
        /\ entries'[f].token = entries[f].token
      BY <1>2, <1>3, <1>4 DEF placeOf
<1> QED BY <1>3, <1>5, <1>6 DEF Abstract!Publish

\* Settling with a live lease is the interface's Settle.
LEMMA SettledRefines ==
    ASSUME QueueInv, NEW c \in Consumers, NEW d \in held[c], NEW entry \in Entries,
           entry.status \in {"pending", "acked", "dead"}, entry.token = 0, Settled(c, d, entry)
    PROVE  Abstract!Settle(c)
<1> DEFINE to == IF entry.status = "pending" THEN "waiting" ELSE entry.status
<1>1. /\ entries' = [entries EXCEPT ![d[1]] = entry]
      /\ entries[d[1]].status = "inflight" /\ entries[d[1]].token = d[2]
      /\ held' = [held EXCEPT ![c] = @ \ {d}] /\ issued' = issued
      BY DEF Settled, validateLeaseLocked
<1>2. d[1] \in Envelopes
      BY DEF QueueInv, TypeOK
<1>3. \A f \in Envelopes : entries'[f] = IF f = d[1] THEN entry ELSE entries[f]
      BY <1>1 DEF QueueInv, TypeOK
<1>4. placeOf(d[1]) = "leased" /\ to \in {"acked", "waiting", "dead"}
      BY <1>1 DEF placeOf
<1>5. \A f \in Envelopes :
        /\ (placeOf(f))' = IF f = d[1] THEN to ELSE placeOf(f)
        /\ entries'[f].token = IF f = d[1] THEN 0 ELSE entries[f].token
      BY <1>3 DEF placeOf
<1> HIDE DEF to
<1>6. /\ [e \in Envelopes |-> placeOf(e)]' = [[e \in Envelopes |-> placeOf(e)] EXCEPT ![d[1]] = to]
      /\ [e \in Envelopes |-> entries[e].token]'
            = [[e \in Envelopes |-> entries[e].token] EXCEPT ![d[1]] = 0]
      BY <1>2, <1>5
<1>7. [e \in Envelopes |-> placeOf(e)][d[1]] = "leased" /\ [e \in Envelopes |-> entries[e].token][d[1]] = d[2]
      BY <1>1, <1>2, <1>4
<1> QED BY <1>1, <1>4, <1>6, <1>7, Zenon DEF Abstract!Settle

\* Receiving a batch, with the expired leases taken back, is the interface's Receive.
LEMMA ReceiveRefines ==
    ASSUME QueueInv, NEW c \in Consumers, Receive(c)
    PROVE  Abstract!Receive(c)
<1>1. PICK S \in SUBSET readyEntriesLocked :
        /\ S # {}
        /\ entries' = [e \in Envelopes |->
                        IF e \in S
                        THEN [status |-> "inflight", due |-> TRUE, token |-> issued + 1, expired |-> FALSE]
                        ELSE reclaimExpiredLocked(e)]
        /\ held' = [held EXCEPT ![c] = S \X {issued + 1}]
      BY DEF Receive
<1>2. held[c] = {} /\ issued' = issued + 1
      BY DEF Receive
<1> DEFINE back == {e \in Envelopes \ S : entries[e].status = "inflight" /\ entries[e].expired}
<1>3. \A e \in Envelopes :
        /\ e \in S => entries'[e].status = "inflight" /\ entries'[e].token = issued + 1
        /\ e \in back => entries'[e].status = "pending" /\ entries'[e].token = 0
        /\ e \notin S /\ e \notin back => entries'[e] = entries[e]
      BY <1>1, EntryTypes DEF reclaimExpiredLocked
<1>4. S \in SUBSET {e \in Envelopes : placeOf(e) \in {"waiting", "leased"}}
      BY DEF readyEntriesLocked, reclaimExpiredLocked, placeOf
<1>5. back \in SUBSET {e \in Envelopes \ S : placeOf(e) = "leased"}
      BY DEF placeOf
<1> HIDE DEF back
<1>6. \A e \in Envelopes :
        /\ (placeOf(e))' = IF e \in S THEN "leased" ELSE IF e \in back THEN "waiting" ELSE placeOf(e)
        /\ entries'[e].token = IF e \in S THEN issued + 1 ELSE IF e \in back THEN 0 ELSE entries[e].token
      BY <1>3, <1>5 DEF placeOf
<1>7. /\ [e \in Envelopes |-> placeOf(e)]'
            = [e \in Envelopes |-> IF e \in S THEN "leased"
                                   ELSE IF e \in back THEN "waiting"
                                   ELSE [f \in Envelopes |-> placeOf(f)][e]]
      /\ [e \in Envelopes |-> entries[e].token]'
            = [e \in Envelopes |-> IF e \in S THEN issued + 1
                                   ELSE IF e \in back THEN 0
                                   ELSE [f \in Envelopes |-> entries[f].token][e]]
      BY <1>6
<1>8. /\ S \in SUBSET {e \in Envelopes : [f \in Envelopes |-> placeOf(f)][e] \in {"waiting", "leased"}}
      /\ back \in SUBSET {e \in Envelopes \ S : [f \in Envelopes |-> placeOf(f)][e] = "leased"}
      BY <1>4, <1>5
<1> QED BY <1>1, <1>2, <1>7, <1>8, Zenon DEF Abstract!Receive

\* Leases that expire and delays that elapse change nothing the interface shows.
LEMMA TimeRefines ==
    ASSUME QueueInv, NEW e \in Envelopes, LeaseExpires(e) \/ DelayElapses(e)
    PROVE  UNCHANGED Abstract!vars
<1>1. \A f \in Envelopes :
        entries'[f].status = entries[f].status /\ entries'[f].token = entries[f].token
      BY DEF QueueInv, TypeOK, LeaseExpires, DelayElapses, Entries
<1>2. UNCHANGED <<held, issued>>
      BY DEF LeaseExpires, DelayElapses
<1>3. \A f \in Envelopes : (placeOf(f))' = placeOf(f)
      BY <1>1 DEF placeOf
<1> QED BY <1>1, <1>2, <1>3 DEF Abstract!vars

\* Every step is a step of the interface or changes nothing it shows.
LEMMA StepRefines == QueueInv /\ [Next]_vars => [Abstract!Next]_Abstract!vars
<1> SUFFICES ASSUME QueueInv, [Next]_vars PROVE Abstract!Next \/ UNCHANGED Abstract!vars
    OBVIOUS
<1>1. ASSUME NEW e \in Envelopes, Publish(e) \/ LeaseExpires(e) \/ DelayElapses(e)
      PROVE  Abstract!Next \/ UNCHANGED Abstract!vars
      BY <1>1, PublishRefines, TimeRefines DEF Abstract!Next
<1>2. ASSUME NEW c \in Consumers, Receive(c)
      PROVE  Abstract!Next
      BY <1>2, ReceiveRefines DEF Abstract!Next
<1>3. ASSUME NEW c \in Consumers, Ack(c) \/ Nack(c) \/ DeadLetter(c)
      PROVE  Abstract!Next
  <2>1. PICK d \in held[c] : \E entry \in Entries :
          /\ entry.status \in {"pending", "acked", "dead"} /\ entry.token = 0
          /\ Settled(c, d, entry)
    <3>1. CASE Ack(c)
          BY <3>1, EntryTypes DEF Ack
    <3>2. CASE Nack(c)
          BY <3>2, EntryTypes DEF Nack
    <3>3. CASE DeadLetter(c)
          BY <3>3, EntryTypes DEF DeadLetter
    <3> QED BY <1>3, <3>1, <3>2, <3>3
  <2> QED BY <2>1, SettledRefines DEF Abstract!Next
<1>4. ASSUME NEW c \in Consumers, LeaseRefused(c) \/ Crash(c)
      PROVE  Abstract!Next
  <2>1. UNCHANGED <<entries, issued>> /\ \E D \in SUBSET held[c] : held' = [held EXCEPT ![c] = D]
        BY <1>4 DEF LeaseRefused, Crash
  <2>2. Abstract!Forget(c)
        BY <2>1 DEF Abstract!Forget, placeOf
  <2> QED BY <2>2 DEF Abstract!Next
<1>5. CASE UNCHANGED vars
      BY <1>5 DEF vars, Abstract!vars, placeOf
<1> QED BY <1>1, <1>2, <1>3, <1>4, <1>5 DEF Next, ConsumerStep

\* The in-process queue implements the interface for any envelopes and workers:
\* no envelope is lost, and only the latest lease settles one.
THEOREM QueueImplements == Spec => Implements
<1> QED BY InitRefines, StepRefines, QueueCorrect, PTL DEF Spec, Implements, Abstract!Spec
=============================================================================
