--------------------- MODULE TransactionalOutboxProofs ---------------------
(***************************************************************************)
(* Proofs about TransactionalOutbox for every set of aggregates and        *)
(* publishers and every bound.                                             *)
(***************************************************************************)
EXTENDS TransactionalOutbox, TLAPS

\* Every predecessor of the event has reached the broker or was dead-lettered.
Preceded(e, seen) == \A u \in 1 .. e[2] - 1 : <<e[1], u>> \in seen

\* Rows carry tokens that were drawn, exist without gaps, and their final
\* statuses are matched by the history.
RowsInv ==
    \A e \in Events :
        /\ events[e].token <= tokens
        /\ events[e].status # "absent" =>
                \A u \in 1 .. e[2] - 1 : events[<<e[1], u>>].status # "absent"
        /\ events[e].status = "published" => e \in sent
        /\ events[e].status = "dead_letter" => e \in abandoned

\* What a publisher knows of an event it has claimed: the predecessors are out,
\* and while the lease is its own the count of attempts is the one it read.
ItemInv(item, token) ==
    /\ Preceded(item.event, sent \cup abandoned)
    /\ leased(events[item.event], token) =>
            events[item.event].attempts = item.attempts

PublisherInv(p) ==
    /\ publishers[p].token <= tokens
    /\ \A item \in publishers[p].batch \cup publishers[p].current :
            ItemInv(item, publishers[p].token)
    /\ publishers[p].phase = "complete" =>
            \A item \in publishers[p].current : item.event \in sent

\* The inductive invariant.
OutboxInv ==
    /\ TypeOK
    /\ RowsInv
    /\ \A p \in Publishers : PublisherInv(p)
    /\ FirstPublicationsInOrder
    /\ DeadLetterIsExhausted
-----------------------------------------------------------------------------
\* A predecessor of an event is an event.
LEMMA PredecessorType ==
    ASSUME NEW e \in Events, NEW u \in 1 .. e[2] - 1
    PROVE  <<e[1], u>> \in Events /\ u \in Nat
BY OutboxConstants DEF Events, Versions

\* The records the actions write have their types.
LEMMA RecordTypes ==
    /\ absent \in Rows
    /\ [absent EXCEPT !.status = "pending"] \in Rows
    /\ resting \in PublisherStates
BY DEF absent, Rows, resting, PublisherStates, Statuses

\* Going on with the loop leaves the items that are still to do.
LEMMA NextItemType ==
    ASSUME NEW local \in PublisherStates
    PROVE  /\ nextItem(local) \in PublisherStates
           /\ nextItem(local).batch \subseteq local.batch
           /\ nextItem(local).current = {}
           /\ nextItem(local).phase = "publish"
           /\ nextItem(local).token \in {0, local.token}
           /\ nextItem(local).batch # {} => nextItem(local).token = local.token
<1>1. CASE local.batch = {}
  BY <1>1, RecordTypes DEF nextItem, resting
<1>2. CASE local.batch # {}
  BY <1>2 DEF nextItem, PublisherStates
<1> QED BY <1>1, <1>2

\* The initial state satisfies the invariant.
LEMMA InitInv == Init => OutboxInv
<1> SUFFICES ASSUME Init PROVE OutboxInv
  OBVIOUS
<1>1. TypeOK
  BY RecordTypes DEF Init, TypeOK
<1>2. RowsInv
  BY DEF Init, RowsInv, absent
<1>3. \A p \in Publishers : PublisherInv(p)
  BY DEF Init, PublisherInv, resting
<1>4. FirstPublicationsInOrder /\ DeadLetterIsExhausted
  BY DEF Init, FirstPublicationsInOrder, DeadLetterIsExhausted, absent
<1> QED BY <1>1, <1>2, <1>3, <1>4 DEF OutboxInv


\* One row changes and the history only grows: the row stays within what its
\* lease allows, and everything known of claimed events stays true.
LEMMA RowStep ==
    ASSUME OutboxInv, NEW e \in Events, NEW new \in Rows,
           events' = [events EXCEPT ![e] = new], UNCHANGED tokens,
           sent' \subseteq Events, abandoned' \subseteq Events,
           sent \subseteq sent', abandoned \subseteq abandoned',
           new.status # "absent", new.token <= tokens,
           \A u \in 1 .. e[2] - 1 : events[<<e[1], u>>].status # "absent",
           new.status = "published" => e \in sent',
           new.status = "dead_letter" => e \in abandoned' /\ new.attempts >= MaxAttempts,
           new.status = "publishing" =>
                /\ events[e].status = "publishing"
                /\ new.token = events[e].token /\ new.attempts = events[e].attempts
    PROVE  /\ events' \in [Events -> Rows]
           /\ RowsInv'
           /\ DeadLetterIsExhausted'
           /\ \A item \in Items, token \in Nat : ItemInv(item, token) => ItemInv(item, token)'
<1>1. events \in [Events -> Rows]
  BY DEF OutboxInv, TypeOK
<1>2. events'[e] = new /\ \A f \in Events : f # e => events'[f] = events[f]
  BY <1>1
<1>3. events' \in [Events -> Rows]
  BY <1>1
<1>4. \A f \in Events : events[f].status # "absent" => events'[f].status # "absent"
  BY <1>2
<1>5. RowsInv'
  <2> SUFFICES ASSUME NEW f \in Events
               PROVE  /\ events'[f].token <= tokens'
                      /\ events'[f].status # "absent" =>
                            \A u \in 1 .. f[2] - 1 : events'[<<f[1], u>>].status # "absent"
                      /\ events'[f].status = "published" => f \in sent'
                      /\ events'[f].status = "dead_letter" => f \in abandoned'
    BY DEF RowsInv
  <2>1. CASE f = e
    BY <2>1, <1>2, <1>4, PredecessorType
  <2>2. CASE f # e
    BY <2>2, <1>2, <1>4, PredecessorType DEF OutboxInv, RowsInv
  <2> QED BY <2>1, <2>2
<1>6. DeadLetterIsExhausted'
  BY <1>2 DEF OutboxInv, DeadLetterIsExhausted
<1>7. ASSUME NEW item \in Items, NEW token \in Nat, ItemInv(item, token)
      PROVE  ItemInv(item, token)'
  <2>1. item.event \in Events
    BY DEF Items
  <2>2. Preceded(item.event, sent \cup abandoned)'
    BY <1>7 DEF ItemInv, Preceded
  <2>3. leased(events[item.event], token)' => events'[item.event].attempts = item.attempts
    <3>1. CASE item.event = e
      BY <3>1, <1>2, <1>7 DEF ItemInv, leased
    <3>2. CASE item.event # e
      BY <3>2, <2>1, <1>2, <1>7 DEF ItemInv, leased
    <3> QED BY <3>1, <3>2
  <2> QED BY <2>2, <2>3 DEF ItemInv
<1> QED BY <1>3, <1>5, <1>6, <1>7

\* Rows that exist have predecessors that exist.
LEMMA ExistingPreceded ==
    ASSUME OutboxInv, NEW e \in Events, events[e].status # "absent"
    PROVE  \A u \in 1 .. e[2] - 1 : events[<<e[1], u>>].status # "absent"
BY DEF OutboxInv, RowsInv

\* The publishers rest while a row is written by someone else.
LEMMA RowOnly ==
    ASSUME OutboxInv, UNCHANGED <<publishers, tokens, sent, abandoned>>, setbacks' \in Nat,
           events' \in [Events -> Rows], RowsInv', DeadLetterIsExhausted',
           \A item \in Items, token \in Nat : ItemInv(item, token) => ItemInv(item, token)'
    PROVE  OutboxInv'
<1>1. TypeOK'
  BY DEF OutboxInv, TypeOK
<1>2. ASSUME NEW p \in Publishers PROVE PublisherInv(p)'
  <2>1. publishers[p] \in PublisherStates /\ PublisherInv(p)
    BY DEF OutboxInv, TypeOK
  <2>2. ASSUME NEW item \in publishers[p].batch \cup publishers[p].current
        PROVE  ItemInv(item, publishers[p].token)'
    <3>1. item \in Items /\ publishers[p].token \in Nat /\ ItemInv(item, publishers[p].token)
      BY <2>1 DEF PublisherStates, PublisherInv
    <3>2. \A t \in Nat : ItemInv(item, t) => ItemInv(item, t)'
      BY <3>1
    <3>3. publishers'[p].token = publishers[p].token
      OBVIOUS
    <3> QED BY <3>1, <3>2, <3>3 DEF ItemInv
  <2> QED BY <2>1, <2>2 DEF PublisherInv
<1>3. FirstPublicationsInOrder'
  BY DEF OutboxInv, FirstPublicationsInOrder
<1> QED BY <1>1, <1>2, <1>3 DEF OutboxInv

\* A new event is pending and carries no token; its predecessors exist.
LEMMA AppendStep ==
    ASSUME OutboxInv, NEW a \in Aggregates, AppendEvent(a)
    PROVE  OutboxInv'
<1>1. PICK v \in Versions :
        /\ \A u \in 1 .. v - 1 : events[<<a, u>>].status # "absent"
        /\ events' = [events EXCEPT ![<<a, v>>] = [absent EXCEPT !.status = "pending"]]
        /\ UNCHANGED <<publishers, tokens, sent, abandoned, setbacks>>
  BY DEF AppendEvent
<1> DEFINE e == <<a, v>>
           new == [absent EXCEPT !.status = "pending"]
<1>2. new \in Rows /\ new.status = "pending" /\ new.token = 0
  BY RecordTypes DEF absent
<1>3. e \in Events /\ e[1] = a /\ e[2] = v
  BY DEF Events
<1>4. events' = [events EXCEPT ![e] = new]
  BY <1>1
<1>5. \A u \in 1 .. e[2] - 1 : events[<<e[1], u>>].status # "absent"
  BY <1>1, <1>3
<1>6. tokens \in Nat /\ setbacks \in Nat /\ sent \subseteq Events /\ abandoned \subseteq Events
  BY DEF OutboxInv, TypeOK
<1> HIDE DEF e, new
<1>7. /\ events' \in [Events -> Rows] /\ RowsInv' /\ DeadLetterIsExhausted'
      /\ \A item \in Items, token \in Nat : ItemInv(item, token) => ItemInv(item, token)'
  <2>1. new.token <= tokens /\ new.status # "absent"
    BY <1>2, <1>6
  <2>2. /\ new.status # "published" /\ new.status # "dead_letter"
        /\ new.status # "publishing"
    BY <1>2
  <2> QED BY <2>1, <2>2, <1>1, <1>2, <1>3, <1>4, <1>5, <1>6, RowStep
<1> QED BY <1>1, <1>6, <1>7, RowOnly

\* A requeued event is as good as new.
LEMMA RequeueStep ==
    ASSUME OutboxInv, NEW e \in Events, RequeueTransactionalOutboxEvent(e)
    PROVE  OutboxInv'
<1> DEFINE new == [absent EXCEPT !.status = "pending"]
<1>1. new \in Rows /\ new.status = "pending" /\ new.token = 0
  BY RecordTypes DEF absent
<1>2. /\ events' = [events EXCEPT ![e] = new] /\ events[e].status # "absent"
      /\ UNCHANGED <<publishers, tokens, sent, abandoned>>
  BY DEF RequeueTransactionalOutboxEvent
<1>3. tokens \in Nat /\ sent \subseteq Events /\ abandoned \subseteq Events /\ setbacks' \in Nat
  BY DEF OutboxInv, TypeOK, RequeueTransactionalOutboxEvent, Setback
<1> HIDE DEF new
<1>4. /\ events' \in [Events -> Rows] /\ RowsInv' /\ DeadLetterIsExhausted'
      /\ \A item \in Items, token \in Nat : ItemInv(item, token) => ItemInv(item, token)'
  <2>1. new.token <= tokens /\ new.status # "absent"
    BY <1>1, <1>3
  <2>2. /\ new.status # "published" /\ new.status # "dead_letter"
        /\ new.status # "publishing"
    BY <1>1
  <2> QED BY <2>1, <2>2, <1>1, <1>2, <1>3, ExistingPreceded, RowStep
<1> QED BY <1>2, <1>3, <1>4, RowOnly

\* An expiring lease leaves its token and its count of attempts.
LEMMA ExpiryStep ==
    ASSUME OutboxInv, NEW e \in Events, LeaseExpires(e)
    PROVE  OutboxInv'
<1> DEFINE new == [events[e] EXCEPT !.expired = TRUE]
<1>1. events[e] \in Rows /\ events[e].token <= tokens
  BY DEF OutboxInv, TypeOK, RowsInv
<1>2. /\ new \in Rows /\ new.status = events[e].status
      /\ new.token = events[e].token /\ new.attempts = events[e].attempts
  BY <1>1 DEF Rows
<1>3. /\ events' = [events EXCEPT ![e] = new] /\ events[e].status = "publishing"
      /\ UNCHANGED <<publishers, tokens, sent, abandoned>>
  BY DEF LeaseExpires
<1>4. tokens \in Nat /\ sent \subseteq Events /\ abandoned \subseteq Events /\ setbacks' \in Nat
  BY DEF OutboxInv, TypeOK, LeaseExpires, Setback, NoSetback
<1> HIDE DEF new
<1>5. /\ events' \in [Events -> Rows] /\ RowsInv' /\ DeadLetterIsExhausted'
      /\ \A item \in Items, token \in Nat : ItemInv(item, token) => ItemInv(item, token)'
  BY <1>1, <1>2, <1>3, <1>4, ExistingPreceded, RowStep
<1> QED BY <1>3, <1>4, <1>5, RowOnly

\* A claim: every event of the batch has its predecessors out, and the new token
\* is no other publisher's.
LEMMA ClaimStep ==
    ASSUME OutboxInv, NEW p \in Publishers, ClaimDueTransactionalOutboxEvents(p)
    PROVE  OutboxInv'
<1> DEFINE row(e) == [status |-> "publishing", attempts |-> events[e].attempts + 1,
                      token |-> tokens + 1, expired |-> FALSE]
           item(e) == [event |-> e, attempts |-> events[e].attempts + 1]
           claimed(S) == [resting EXCEPT !.token = tokens + 1, !.batch = {item(e) : e \in S}]
<1>1. PICK S \in SUBSET {e \in Events : claimable(e)} :
        /\ events' = [e \in Events |-> IF e \in S THEN row(e) ELSE events[e]]
        /\ publishers' = [publishers EXCEPT ![p] = claimed(S)]
  BY DEF ClaimDueTransactionalOutboxEvents
<1>2. tokens' = tokens + 1 /\ UNCHANGED <<sent, abandoned, setbacks>>
  BY DEF ClaimDueTransactionalOutboxEvents
<1>3. /\ events \in [Events -> Rows] /\ tokens \in Nat
      /\ publishers \in [Publishers -> PublisherStates]
  BY DEF OutboxInv, TypeOK
<1>4. ASSUME NEW e \in Events
      PROVE  /\ row(e) \in Rows /\ item(e) \in Items
             /\ row(e).status = "publishing" /\ row(e).token = tokens + 1
             /\ row(e).attempts = item(e).attempts /\ item(e).event = e
  <2>1. events[e].attempts + 1 \in Nat
    BY <1>3 DEF Rows
  <2> QED BY <2>1, <1>3 DEF Rows, Items, Statuses
<1>5. /\ claimed(S) \in PublisherStates
      /\ claimed(S).token = tokens + 1 /\ claimed(S).phase = "publish"
      /\ claimed(S).batch = {item(e) : e \in S} /\ claimed(S).current = {}
  <2>1. {item(e) : e \in S} \in SUBSET Items
    BY <1>4
  <2> DEFINE B == {item(e) : e \in S}
             t == tokens + 1
  <2>2. B \in SUBSET Items /\ t \in Nat /\ claimed(S) = [resting EXCEPT !.token = t, !.batch = B]
    BY <2>1, <1>3
  <2> HIDE DEF B, t, claimed
  <2>3. /\ claimed(S) \in PublisherStates
        /\ claimed(S).token = t /\ claimed(S).phase = "publish"
        /\ claimed(S).batch = B /\ claimed(S).current = {}
    BY <2>2 DEF resting, PublisherStates
  <2> QED BY <2>3 DEF B, t
<1> HIDE DEF row, item, claimed
<1>6. /\ \A e \in S : events'[e] = row(e)
      /\ \A e \in Events : e \notin S => events'[e] = events[e]
      /\ S \subseteq Events
  BY <1>1
<1>7. TypeOK'
  <2>1. events' \in [Events -> Rows]
    BY <1>1, <1>3, <1>4
  <2> QED BY <2>1, <1>1, <1>2, <1>3, <1>5 DEF OutboxInv, TypeOK
<1>8. \A e \in S : Preceded(e, sent \cup abandoned)
  <2> SUFFICES ASSUME NEW e \in S, NEW u \in 1 .. e[2] - 1
               PROVE  <<e[1], u>> \in sent \cup abandoned
    BY DEF Preceded
  <2>1. e \in Events /\ claimable(e)
    OBVIOUS
  <2>2. <<e[1], u>> \in Events
    BY <2>1, PredecessorType
  <2>3. events[<<e[1], u>>].status \notin {"pending", "publishing"}
    BY <2>1 DEF claimable, hasEarlierUnpublishedOutboxEvent
  <2>4. events[<<e[1], u>>].status # "absent"
    BY <2>1, ExistingPreceded DEF claimable
  <2>5. events[<<e[1], u>>].status \in {"published", "dead_letter"}
    BY <2>2, <2>3, <2>4, <1>3 DEF Rows, Statuses
  <2> QED BY <2>2, <2>5 DEF OutboxInv, RowsInv
<1>9. RowsInv'
  <2> SUFFICES ASSUME NEW f \in Events
               PROVE  /\ events'[f].token <= tokens'
                      /\ events'[f].status # "absent" =>
                            \A u \in 1 .. f[2] - 1 : events'[<<f[1], u>>].status # "absent"
                      /\ events'[f].status = "published" => f \in sent'
                      /\ events'[f].status = "dead_letter" => f \in abandoned'
    BY DEF RowsInv
  <2>1. events[f].status = "absent" \/ \A u \in 1 .. f[2] - 1 : events'[<<f[1], u>>].status # "absent"
    <3> SUFFICES ASSUME events[f].status # "absent", NEW u \in 1 .. f[2] - 1
                 PROVE  events'[<<f[1], u>>].status # "absent"
      OBVIOUS
    <3>1. <<f[1], u>> \in Events /\ events[<<f[1], u>>].status # "absent"
      BY PredecessorType, ExistingPreceded
    <3> QED BY <3>1, <1>4, <1>6
  <2>2. CASE f \in S
    <3>1. events'[f].status = "publishing" /\ events'[f].token = tokens + 1
      BY <2>2, <1>4, <1>6
    <3>2. events[f].status # "absent"
      BY <2>2 DEF claimable
    <3> QED BY <3>1, <3>2, <2>1, <1>2, <1>3
  <2>3. CASE f \notin S
    <3>1. events[f].token \in Nat
      BY <1>3 DEF Rows
    <3> QED BY <3>1, <2>1, <2>3, <1>2, <1>3, <1>6 DEF OutboxInv, RowsInv
  <2> QED BY <2>2, <2>3
<1>10. ASSUME NEW q \in Publishers PROVE PublisherInv(q)'
  <2>1. CASE q = p
    <3>1. publishers'[q] = claimed(S)
      BY <2>1, <1>1, <1>3
    <3>2. ASSUME NEW it \in publishers'[q].batch \cup publishers'[q].current
          PROVE  ItemInv(it, publishers[q].token)'
      <4>1. PICK e \in S : it = item(e)
        BY <3>1, <1>5
      <4>2. it.event = e /\ events'[e].attempts = it.attempts
        BY <4>1, <1>4, <1>6
      <4> QED BY <4>2, <1>2, <1>8 DEF ItemInv, Preceded
    <3>3. publishers'[q].token <= tokens' /\ publishers'[q].phase = "publish"
      BY <3>1, <1>2, <1>3, <1>5
    <3> QED BY <3>2, <3>3 DEF PublisherInv
  <2>2. CASE q # p
    <3>1. /\ publishers'[q] = publishers[q] /\ PublisherInv(q)
          /\ publishers[q] \in PublisherStates
      BY <2>2, <1>1, <1>3 DEF OutboxInv
    <3>2. ASSUME NEW it \in publishers[q].batch \cup publishers[q].current
          PROVE  ItemInv(it, publishers[q].token)'
      <4>1. it \in Items /\ it.event \in Events /\ publishers[q].token \in Nat
        BY <3>1 DEF PublisherStates, Items
      <4>2. ItemInv(it, publishers[q].token) /\ publishers[q].token <= tokens
        BY <3>1 DEF PublisherInv
      <4>3. CASE it.event \in S
        <5>1. events'[it.event].token = tokens + 1
          BY <4>3, <1>4, <1>6
        <5>2. publishers'[q].token # tokens + 1
          BY <4>1, <4>2, <3>1, <1>3
        <5> QED BY <5>1, <5>2, <4>2, <1>2 DEF ItemInv, Preceded, leased
      <4>4. CASE it.event \notin S
        <5>1. events'[it.event] = events[it.event]
          BY <4>1, <4>4, <1>6
        <5> QED BY <5>1, <4>2, <3>1, <1>2 DEF ItemInv, Preceded, leased
      <4> QED BY <4>3, <4>4
    <3>3. publishers'[q].token <= tokens'
      BY <3>1, <1>2, <1>3 DEF PublisherInv, PublisherStates
    <3> QED BY <3>1, <3>2, <3>3, <1>2 DEF PublisherInv
  <2> QED BY <2>1, <2>2
<1>11. FirstPublicationsInOrder' /\ DeadLetterIsExhausted'
  <2>1. FirstPublicationsInOrder'
    BY <1>2 DEF OutboxInv, FirstPublicationsInOrder
  <2>2. DeadLetterIsExhausted'
    BY <1>4, <1>6 DEF OutboxInv, DeadLetterIsExhausted
  <2> QED BY <2>1, <2>2
<1> QED BY <1>7, <1>9, <1>10, <1>11 DEF OutboxInv

\* A publisher's own local state changes, or its history grows: what it knows of
\* the items it keeps stays true.
LEMMA ItemsKept ==
    ASSUME OutboxInv, NEW p \in Publishers, NEW local \in PublisherStates,
           publishers' = [publishers EXCEPT ![p] = local],
           local.batch \cup local.current \subseteq publishers[p].batch \cup publishers[p].current,
           local.batch \cup local.current # {} => local.token = publishers[p].token,
           local.token \in {0, publishers[p].token},
           local.phase = "complete" => \A item \in local.current : item.event \in sent',
           UNCHANGED tokens, sent \subseteq sent',
           \A item \in Items, token \in Nat : ItemInv(item, token) => ItemInv(item, token)'
    PROVE  \A q \in Publishers : PublisherInv(q)'
<1>1. publishers \in [Publishers -> PublisherStates] /\ tokens \in Nat
  BY DEF OutboxInv, TypeOK
<1> SUFFICES ASSUME NEW q \in Publishers PROVE PublisherInv(q)'
  OBVIOUS
<1>2. /\ PublisherInv(q) /\ publishers[q] \in PublisherStates
      /\ publishers'[q] = IF q = p THEN local ELSE publishers[q]
  BY <1>1 DEF OutboxInv
<1>3. ASSUME NEW it \in publishers'[q].batch \cup publishers'[q].current
      PROVE  ItemInv(it, publishers[q].token)'
  <2>1. it \in publishers[q].batch \cup publishers[q].current
    BY <1>2
  <2>2. publishers'[q].token = publishers[q].token
    BY <1>2
  <2>3. it \in Items /\ publishers[q].token \in Nat /\ ItemInv(it, publishers[q].token)
    BY <2>1, <1>2 DEF PublisherStates, PublisherInv
  <2>4. \A t \in Nat : ItemInv(it, t) => ItemInv(it, t)'
    BY <2>3
  <2> QED BY <2>2, <2>3, <2>4 DEF ItemInv
<1>4. publishers'[q].token <= tokens'
  BY <1>1, <1>2 DEF PublisherInv
<1>5. publishers'[q].phase = "complete" => \A item \in publishers'[q].current : item.event \in sent'
  BY <1>2 DEF PublisherInv
<1> QED BY <1>3, <1>4, <1>5 DEF PublisherInv

\* What is known of a claimed event does not depend on the publishers.
LEMMA SameRowsKept ==
    ASSUME UNCHANGED <<events, abandoned>>, sent \subseteq sent'
    PROVE  \A item \in Items, token \in Nat : ItemInv(item, token) => ItemInv(item, token)'
BY DEF ItemInv, Preceded, leased

\* The broker receives an event whose predecessors are out.
LEMMA PublishStep ==
    ASSUME OutboxInv, NEW p \in Publishers, PublishTransactionalOutbox(p)
    PROVE  OutboxInv'
<1>1. PICK item \in publishers[p].batch, phase \in {"complete", "reschedule"} :
        /\ publishers' = [publishers EXCEPT
                            ![p].batch = @ \ {item}, ![p].current = {item}, ![p].phase = phase]
        /\ \/ sent' = sent \cup {item.event}
           \/ phase = "reschedule" /\ UNCHANGED sent
  BY DEF PublishTransactionalOutbox
<1>2. UNCHANGED <<events, tokens, abandoned, setbacks>>
  BY DEF PublishTransactionalOutbox
<1>3. /\ publishers \in [Publishers -> PublisherStates] /\ sent \subseteq Events
      /\ publishers[p] \in PublisherStates /\ PublisherInv(p)
  BY DEF OutboxInv, TypeOK
<1>4. item \in Items /\ item.event \in Events
  BY <1>3 DEF PublisherStates, Items
<1> DEFINE local == [publishers[p] EXCEPT !.batch = @ \ {item}, !.current = {item}, !.phase = phase]
<1>5. /\ local \in PublisherStates /\ local.token = publishers[p].token
      /\ local.batch = publishers[p].batch \ {item} /\ local.current = {item}
      /\ local.phase = phase
  BY <1>3, <1>4 DEF PublisherStates
<1>6. publishers' = [publishers EXCEPT ![p] = local]
  BY <1>1, <1>3
<1> HIDE DEF local
<1>7. sent \subseteq sent' /\ sent' \subseteq Events
  BY <1>1, <1>3, <1>4
<1>8. TypeOK'
  BY <1>2, <1>5, <1>6, <1>7 DEF OutboxInv, TypeOK
<1>9. RowsInv' /\ DeadLetterIsExhausted'
  BY <1>2, <1>7 DEF OutboxInv, RowsInv, DeadLetterIsExhausted
<1>10. \A q \in Publishers : PublisherInv(q)'
  <2>1. local.phase = "complete" => \A it \in local.current : it.event \in sent'
    BY <1>1, <1>5
  <2>2. \A it \in Items, token \in Nat : ItemInv(it, token) => ItemInv(it, token)'
    BY <1>2, <1>7, SameRowsKept
  <2>3. local.batch \cup local.current \subseteq publishers[p].batch \cup publishers[p].current
    BY <1>5
  <2> QED BY <2>1, <2>2, <2>3, <1>2, <1>5, <1>6, <1>7, ItemsKept
<1>11. FirstPublicationsInOrder'
  <2>1. Preceded(item.event, sent \cup abandoned)
    BY <1>3 DEF PublisherInv, ItemInv
  <2> QED BY <2>1, <1>1, <1>2, <1>7 DEF OutboxInv, FirstPublicationsInOrder, Preceded
<1> QED BY <1>8, <1>9, <1>10, <1>11 DEF OutboxInv

\* A result is written, or refused because the lease is another publisher's.
LEMMA ResultStep ==
    ASSUME OutboxInv, NEW p \in Publishers, CompleteEvent(p) \/ RescheduleEvent(p)
    PROVE  OutboxInv'
<1>1. /\ publishers \in [Publishers -> PublisherStates] /\ publishers[p] \in PublisherStates
      /\ PublisherInv(p) /\ events \in [Events -> Rows]
      /\ tokens \in Nat /\ sent \subseteq Events /\ abandoned \subseteq Events
  BY DEF OutboxInv, TypeOK
<1> DEFINE local == nextItem(publishers[p])
<1>2. /\ publishers' = [publishers EXCEPT ![p] = local]
      /\ UNCHANGED <<tokens, sent, setbacks>>
  BY DEF CompleteEvent, RescheduleEvent
<1>3. /\ local \in PublisherStates /\ local.batch \subseteq publishers[p].batch
      /\ local.current = {} /\ local.phase = "publish"
      /\ local.token \in {0, publishers[p].token}
      /\ local.batch # {} => local.token = publishers[p].token
  BY <1>1, NextItemType
<1> HIDE DEF local
<1>4. PICK item \in publishers[p].current, new \in Rows :
        /\ events' = [events EXCEPT ![item.event] = new]
        /\ \/ new = events[item.event]
           \/ /\ leased(events[item.event], publishers[p].token)
              /\ new.token = 0
              /\ \/ new.status = "published" /\ publishers[p].phase = "complete"
                 \/ new.status = "pending"
                 \/ /\ new.status = "dead_letter" /\ new.attempts = events[item.event].attempts
                    /\ item.attempts >= MaxAttempts
        /\ \/ UNCHANGED abandoned /\ new.status # "dead_letter"
           \/ UNCHANGED abandoned /\ new = events[item.event]
           \/ abandoned' = abandoned \cup {e \in Events : events'[e].status = "dead_letter"}
  <2>1. CASE CompleteEvent(p)
    <3>1. PICK item \in publishers[p].current :
            events' = [events EXCEPT ![item.event] =
                         CompleteTransactionalOutboxEvent(@, publishers[p].token)]
      BY <2>1 DEF CompleteEvent
    <3>2. item.event \in Events
      BY <1>1 DEF PublisherStates, Items
    <3> DEFINE old == events[item.event]
               done == [old EXCEPT !.status = "published", !.token = 0, !.expired = FALSE]
               new == CompleteTransactionalOutboxEvent(old, publishers[p].token)
    <3>3. old \in Rows /\ done \in Rows /\ done.status = "published" /\ done.token = 0
      BY <3>2, <1>1 DEF Rows, Statuses
    <3>4. /\ leased(old, publishers[p].token) => new = done
          /\ ~leased(old, publishers[p].token) => new = old
      BY DEF CompleteTransactionalOutboxEvent
    <3>5. events' = [events EXCEPT ![item.event] = new]
      BY <3>1, <1>1
    <3>6. UNCHANGED abandoned /\ publishers[p].phase = "complete"
      BY <2>1 DEF CompleteEvent
    <3> HIDE DEF done, new
    <3> QED BY <3>3, <3>4, <3>5, <3>6
  <2>2. CASE RescheduleEvent(p)
    <3>1. PICK item \in publishers[p].current :
            /\ events' = [events EXCEPT ![item.event] =
                    RescheduleTransactionalOutboxEvent(@, publishers[p].token,
                                                       item.attempts >= MaxAttempts)]
            /\ abandoned' = abandoned \cup {e \in Events : events'[e].status = "dead_letter"}
      BY <2>2 DEF RescheduleEvent
    <3>2. item.event \in Events
      BY <1>1 DEF PublisherStates, Items
    <3> DEFINE old == events[item.event]
               status == IF item.attempts >= MaxAttempts THEN "dead_letter" ELSE "pending"
               done == [old EXCEPT !.status = status, !.token = 0, !.expired = FALSE]
               new == RescheduleTransactionalOutboxEvent(old, publishers[p].token,
                                                         item.attempts >= MaxAttempts)
    <3>3. /\ status \in {"dead_letter", "pending"}
          /\ status = "dead_letter" => item.attempts >= MaxAttempts
      OBVIOUS
    <3>4. /\ leased(old, publishers[p].token) => new = done
          /\ ~leased(old, publishers[p].token) => new = old
      BY DEF RescheduleTransactionalOutboxEvent
    <3> HIDE DEF status
    <3>5. /\ old \in Rows /\ done \in Rows /\ done.status = status /\ done.token = 0
          /\ done.attempts = old.attempts
      BY <3>2, <3>3, <1>1 DEF Rows, Statuses
    <3>6. events' = [events EXCEPT ![item.event] = new]
      BY <3>1, <1>1
    <3> HIDE DEF done, new
    <3> QED BY <3>1, <3>3, <3>4, <3>5, <3>6
  <2> QED BY <2>1, <2>2
<1>5. item.event \in Events /\ item \in Items /\ ItemInv(item, publishers[p].token)
  BY <1>1 DEF PublisherStates, Items, PublisherInv
<1> DEFINE e == item.event
<1>6. abandoned \subseteq abandoned' /\ abandoned' \subseteq Events
  BY <1>1, <1>4
<1>7. /\ events' \in [Events -> Rows] /\ RowsInv' /\ DeadLetterIsExhausted'
      /\ \A it \in Items, token \in Nat : ItemInv(it, token) => ItemInv(it, token)'
  <2>1. events'[e] = new
    BY <1>1, <1>4, <1>5
  <2>2. CASE new = events[e]
    <3>1. events' = events
      BY <2>2, <1>1, <1>4, <1>5
    <3> QED BY <3>1, <1>1, <1>2, <1>6 DEF OutboxInv, RowsInv, DeadLetterIsExhausted,
               ItemInv, Preceded, leased
  <2>3. CASE new # events[e]
    <3>1. /\ new.token <= tokens
          /\ new.status \in {"published", "pending", "dead_letter"}
      BY <2>3, <1>1, <1>4
    <3>2. \A u \in 1 .. e[2] - 1 : events[<<e[1], u>>].status # "absent"
      BY <2>3, <1>4, <1>5, ExistingPreceded DEF leased
    <3>3. new.status = "published" => e \in sent'
      BY <2>3, <1>1, <1>2, <1>4 DEF PublisherInv
    <3>4. new.status = "dead_letter" => e \in abandoned' /\ new.attempts >= MaxAttempts
      BY <2>1, <2>3, <1>4, <1>5 DEF ItemInv
    <3> HIDE DEF e
    <3>5. events' = [events EXCEPT ![e] = new] /\ e \in Events
      BY <1>4, <1>5 DEF e
    <3>6. new.status # "absent" /\ new.status # "publishing"
      BY <3>1
    <3>7. sent \subseteq sent' /\ sent' \subseteq Events
      BY <1>1, <1>2
    <3> QED BY <3>1, <3>2, <3>3, <3>4, <3>5, <3>6, <3>7, <1>2, <1>6, RowStep
  <2> QED BY <2>2, <2>3
<1>8. TypeOK'
  BY <1>2, <1>3, <1>6, <1>7 DEF OutboxInv, TypeOK
<1>9. \A q \in Publishers : PublisherInv(q)'
  BY <1>2, <1>3, <1>7, ItemsKept
<1>10. FirstPublicationsInOrder'
  BY <1>2, <1>6 DEF OutboxInv, FirstPublicationsInOrder
<1> QED BY <1>7, <1>8, <1>9, <1>10 DEF OutboxInv

\* A publisher that loses a result or crashes forgets items.
LEMMA ForgetStep ==
    ASSUME OutboxInv, NEW p \in Publishers, LoseResult(p) \/ Crash(p)
    PROVE  OutboxInv'
<1>1. /\ publishers \in [Publishers -> PublisherStates] /\ publishers[p] \in PublisherStates
      /\ UNCHANGED <<events, tokens, sent, abandoned>> /\ setbacks' \in Nat
  BY DEF OutboxInv, TypeOK, LoseResult, Crash, Setback
<1>2. PICK local \in PublisherStates :
        /\ publishers' = [publishers EXCEPT ![p] = local]
        /\ local.batch \subseteq publishers[p].batch
        /\ local.current = {} /\ local.phase = "publish"
        /\ local.token \in {0, publishers[p].token}
        /\ local.batch # {} => local.token = publishers[p].token
  <2>1. CASE LoseResult(p)
    BY <2>1, <1>1, NextItemType DEF LoseResult
  <2>2. CASE Crash(p)
    BY <2>2, RecordTypes DEF Crash, resting
  <2> QED BY <2>1, <2>2
<1>3. TypeOK'
  BY <1>1, <1>2 DEF OutboxInv, TypeOK
<1>4. \A q \in Publishers : PublisherInv(q)'
  <2>1. \A it \in Items, token \in Nat : ItemInv(it, token) => ItemInv(it, token)'
    BY <1>1, SameRowsKept
  <2> QED BY <2>1, <1>1, <1>2, ItemsKept
<1>5. RowsInv' /\ FirstPublicationsInOrder' /\ DeadLetterIsExhausted'
  BY <1>1 DEF OutboxInv, RowsInv, FirstPublicationsInOrder, DeadLetterIsExhausted
<1> QED BY <1>3, <1>4, <1>5 DEF OutboxInv

\* OutboxInv is an invariant.
THEOREM OutboxCorrect == Spec => []OutboxInv
<1>1. Init => OutboxInv
  BY InitInv
<1>2. OutboxInv /\ [Next]_vars => OutboxInv'
  <2> SUFFICES ASSUME OutboxInv, [Next]_vars PROVE OutboxInv'
    OBVIOUS
  <2>1. CASE UNCHANGED vars
    BY <2>1 DEF vars, OutboxInv, TypeOK, RowsInv, PublisherInv, ItemInv, Preceded, leased,
                FirstPublicationsInOrder, DeadLetterIsExhausted
  <2>2. ASSUME NEW a \in Aggregates, AppendEvent(a) PROVE OutboxInv'
    BY <2>2, AppendStep
  <2>3. ASSUME NEW e \in Events, RequeueTransactionalOutboxEvent(e) \/ LeaseExpires(e)
        PROVE  OutboxInv'
    BY <2>3, RequeueStep, ExpiryStep
  <2>4. ASSUME NEW p \in Publishers, PublisherStep(p) \/ LoseResult(p) \/ Crash(p)
        PROVE  OutboxInv'
    BY <2>4, ClaimStep, PublishStep, ResultStep, ForgetStep DEF PublisherStep
  <2> QED BY <2>1, <2>2, <2>3, <2>4 DEF Next
<1> QED BY <1>1, <1>2, PTL DEF Spec

\* The broker first sees the events of an aggregate in version order, for any
\* number of aggregates, publishers, crashes and repetitions.
THEOREM PublishedInOrder == Spec => []FirstPublicationsInOrder
<1>1. OutboxInv => FirstPublicationsInOrder
  BY DEF OutboxInv
<1> QED BY <1>1, OutboxCorrect, PTL

\* An event is dead-lettered only after its attempts are used up.
THEOREM DeadLettersExhausted == Spec => []DeadLetterIsExhausted
<1>1. OutboxInv => DeadLetterIsExhausted
  BY DEF OutboxInv
<1> QED BY <1>1, OutboxCorrect, PTL
=============================================================================
