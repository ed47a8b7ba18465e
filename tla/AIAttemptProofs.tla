-------------------------- MODULE AIAttemptProofs --------------------------
(***************************************************************************)
(* What the updates of AIAttemptModel may do to an attempt.                *)
(***************************************************************************)
EXTENDS AIAttemptModel, TLAPS

sameDispatch(a, b) ==
    a.dispatch = b.dispatch /\ a.task = b.task /\ a.pstatus = b.pstatus

hasProvider(a) == a.dispatch # "none" => a.provider \in Providers

\* Once created, an attempt is never forgotten, keeps its provider, and has one
\* content per dispatch version.
Evolves(a, b) ==
    /\ b \in AIAttempts
    /\ hasProvider(a) => hasProvider(b)
    /\ a.dispatch # "none" =>
        /\ b.dispatch # "none"
        /\ a.provider = b.provider
        /\ a.version <= b.version
        /\ a.version = b.version => sameDispatch(a, b)

\* The labels the updates store are labels of their columns.
LEMMA Labels ==
    /\ "pending" \in DispatchStates /\ "prepared" \in DispatchStates
    /\ "submitted" \in DispatchStates /\ "accepted" \in DispatchStates
    /\ "unknown" \in DispatchStates /\ "proven_not_created" \in DispatchStates
    /\ "" \in ProviderStatuses /\ "unknown" \in ProviderStatuses
    /\ "proven_not_created" \in ProviderStatuses /\ "skipped" \in AttemptStatuses
  BY DEF DispatchStates, ProviderStatuses, AttemptStatuses

\* Leaving an attempt alone evolves it.
LEMMA SelfEvolves ==
    ASSUME NEW a \in AIAttempts
    PROVE  a.version \in Nat /\ a.version + 1 \in Nat /\ Evolves(a, a)
  BY DEF AIAttempts, Evolves, sameDispatch, hasProvider

\* Evolution is transitive.
LEMMA EvolvesTrans ==
    ASSUME NEW a \in AIAttempts, NEW b, NEW c, Evolves(a, b), Evolves(b, c)
    PROVE  Evolves(a, c)
  BY DEF AIAttempts, Evolves, sameDispatch, hasProvider

\* So does every update that takes the next version.
LEMMA NextVersionEvolves ==
    ASSUME NEW a \in AIAttempts, NEW b \in AIAttempts,
           b.version = a.version + 1, b.provider = a.provider,
           a.dispatch # "none", b.dispatch # "none"
    PROVE  Evolves(a, b)
  BY DEF AIAttempts, Evolves, hasProvider

\* resetUnknownDispatch is a compare-and-set on the dispatch version.
LEMMA ResetEvolves ==
    ASSUME NEW a \in AIAttempts, NEW v \in Nat
    PROVE  Evolves(a, resetUnknownDispatch(a, v))
  <1> DEFINE b == [a EXCEPT !.dispatch = "pending", !.version = @ + 1, !.pstatus = ""]
  <1>1. CASE a.dispatch = "unknown" /\ updateAllowed(a, v)
    <2>1. b \in AIAttempts
      BY Labels, SelfEvolves DEF AIAttempts
    <2>2. b.version = a.version + 1 /\ b.provider = a.provider /\ b.dispatch = "pending"
      BY DEF AIAttempts
    <2> QED
      BY <1>1, <2>1, <2>2, NextVersionEvolves DEF resetUnknownDispatch
  <1>2. CASE ~(a.dispatch = "unknown" /\ updateAllowed(a, v))
    BY <1>2, SelfEvolves DEF resetUnknownDispatch
  <1> QED
    BY <1>1, <1>2

\* persistDispatchIntent is a compare-and-set on the dispatch version.
LEMMA PersistEvolves ==
    ASSUME NEW a \in AIAttempts, NEW v \in Nat
    PROVE  Evolves(a, persistDispatchIntent(a, v))
  <1> DEFINE b == [a EXCEPT !.dispatch = "prepared", !.version = @ + 1]
  <1>1. CASE a.dispatch = "pending" /\ updateAllowed(a, v)
    <2>1. b \in AIAttempts
      BY Labels, SelfEvolves DEF AIAttempts
    <2>2. b.version = a.version + 1 /\ b.provider = a.provider /\ b.dispatch = "prepared"
      BY DEF AIAttempts
    <2> QED
      BY <1>1, <2>1, <2>2, NextVersionEvolves DEF persistDispatchIntent
  <1>2. CASE ~(a.dispatch = "pending" /\ updateAllowed(a, v))
    BY <1>2, SelfEvolves DEF persistDispatchIntent
  <1> QED
    BY <1>1, <1>2

\* MarkAIAttemptDispatchSubmitted is a compare-and-set on the dispatch version.
LEMMA SubmittedEvolves ==
    ASSUME NEW a \in AIAttempts, NEW v \in Nat
    PROVE  Evolves(a, MarkAIAttemptDispatchSubmitted(a, v))
  <1> DEFINE b == [a EXCEPT !.dispatch = "submitted", !.version = @ + 1]
  <1>1. CASE a.dispatch = "prepared" /\ updateAllowed(a, v)
    <2>1. b \in AIAttempts
      BY Labels, SelfEvolves DEF AIAttempts
    <2>2. b.version = a.version + 1 /\ b.provider = a.provider /\ b.dispatch = "submitted"
      BY DEF AIAttempts
    <2> QED
      BY <1>1, <2>1, <2>2, NextVersionEvolves DEF MarkAIAttemptDispatchSubmitted
  <1>2. CASE ~(a.dispatch = "prepared" /\ updateAllowed(a, v))
    BY <1>2, SelfEvolves DEF MarkAIAttemptDispatchSubmitted
  <1> QED
    BY <1>1, <1>2

\* MarkAIAttemptDispatchUnknown is a compare-and-set on the dispatch version.
LEMMA UnknownEvolves ==
    ASSUME NEW a \in AIAttempts, NEW v \in Nat
    PROVE  Evolves(a, MarkAIAttemptDispatchUnknown(a, v))
  <1> DEFINE b == [a EXCEPT !.dispatch = "unknown", !.version = @ + 1, !.pstatus = "unknown"]
  <1>1. CASE a.dispatch \in {"submitted", "accepted"} /\ updateAllowed(a, v)
    <2>1. b \in AIAttempts
      BY Labels, SelfEvolves DEF AIAttempts
    <2>2. b.version = a.version + 1 /\ b.provider = a.provider /\ b.dispatch = "unknown"
      BY DEF AIAttempts
    <2> QED
      BY <1>1, <2>1, <2>2, NextVersionEvolves DEF MarkAIAttemptDispatchUnknown
  <1>2. CASE ~(a.dispatch \in {"submitted", "accepted"} /\ updateAllowed(a, v))
    BY <1>2, SelfEvolves DEF MarkAIAttemptDispatchUnknown
  <1> QED
    BY <1>1, <1>2

\* RecordAIAttemptReconciliation is a compare-and-set on the dispatch version.
LEMMA RecordEvolves ==
    ASSUME NEW a \in AIAttempts, NEW v \in Nat, NEW s \in ProviderStatuses
    PROVE  Evolves(a, RecordAIAttemptReconciliation(a, v, s))
  <1> DEFINE b == [a EXCEPT !.version = @ + 1, !.pstatus = s]
  <1>1. CASE inReconcilableState(a) /\ updateAllowed(a, v) /\ ~providerTaskStatusStale(a.pstatus, s)
    <2>1. b \in AIAttempts
      BY Labels, SelfEvolves DEF AIAttempts
    <2>2. b.version = a.version + 1 /\ b.provider = a.provider /\ b.dispatch = a.dispatch
      BY DEF AIAttempts
    <2> QED
      BY <1>1, <2>1, <2>2, NextVersionEvolves DEF RecordAIAttemptReconciliation, inReconcilableState
  <1>2. CASE ~(inReconcilableState(a) /\ updateAllowed(a, v) /\ ~providerTaskStatusStale(a.pstatus, s))
    BY <1>2, SelfEvolves DEF RecordAIAttemptReconciliation
  <1> QED
    BY <1>1, <1>2

\* ProveAIAttemptNotCreated is a compare-and-set on the dispatch version.
LEMMA ProveEvolves ==
    ASSUME NEW a \in AIAttempts, NEW v \in Nat
    PROVE  Evolves(a, ProveAIAttemptNotCreated(a, v))
  <1> DEFINE b == [a EXCEPT !.dispatch = "proven_not_created", !.version = @ + 1,
                           !.pstatus = "proven_not_created", !.status = "skipped"]
  <1>1. CASE ~a.task /\ a.dispatch \in {"prepared", "submitted", "unknown"} /\ updateAllowed(a, v)
    <2>1. b \in AIAttempts
      BY Labels, SelfEvolves DEF AIAttempts
    <2>2. b.version = a.version + 1 /\ b.provider = a.provider /\ b.dispatch = "proven_not_created"
      BY DEF AIAttempts
    <2> QED
      BY <1>1, <2>1, <2>2, NextVersionEvolves DEF ProveAIAttemptNotCreated
  <1>2. CASE ~(~a.task /\ a.dispatch \in {"prepared", "submitted", "unknown"} /\ updateAllowed(a, v))
    BY <1>2, SelfEvolves DEF ProveAIAttemptNotCreated
  <1> QED
    BY <1>1, <1>2

\* BindAIAttemptProviderTask either records an observation or binds the task
\* under the version the caller read.
LEMMA BindEvolves ==
    ASSUME NEW a \in AIAttempts, NEW v \in Nat, NEW s \in ProviderStatuses
    PROVE  Evolves(a, BindAIAttemptProviderTask(a, v, s))
  <1> DEFINE b == [a EXCEPT !.dispatch = "accepted", !.version = @ + 1,
                            !.task = TRUE, !.pstatus = s]
             guard == a.dispatch \in {"submitted", "unknown"} /\ updateAllowed(a, v)
  <1>1. CASE boundTaskKept(a, s)
    BY <1>1, SelfEvolves, RecordEvolves DEF BindAIAttemptProviderTask
  <1>2. CASE ~boundTaskKept(a, s) /\ guard
    <2>1. b \in AIAttempts
      BY Labels, SelfEvolves DEF AIAttempts
    <2>2. b.version = a.version + 1 /\ b.provider = a.provider /\ b.dispatch = "accepted"
      BY DEF AIAttempts
    <2> QED
      BY <1>2, <2>1, <2>2, NextVersionEvolves DEF BindAIAttemptProviderTask
  <1>3. CASE ~boundTaskKept(a, s) /\ ~guard
    BY <1>3, SelfEvolves DEF BindAIAttemptProviderTask
  <1> QED
    BY <1>1, <1>2, <1>3

\* Resolving a provider's answer is one of the four updates above.
LEMMA ResolveEvolves ==
    ASSUME NEW a \in AIAttempts, NEW read \in AIAttempts,
           NEW result, result.status \in TaskStatuses \cup {""}
    PROVE  Evolves(a, resolveProviderDispatchResult(a, read, result))
  <1>1. read.version \in Nat
    BY DEF AIAttempts
  <1>2. result.status \in ProviderStatuses
    BY DEF ProviderStatuses
  <1> QED
    BY <1>1, <1>2, Labels, BindEvolves, ProveEvolves, RecordEvolves, UnknownEvolves
    DEF resolveProviderDispatchResult

\* Putting an attempt off records its own status again.
LEMMA DeferEvolves ==
    ASSUME NEW a \in AIAttempts
    PROVE  Evolves(a, deferAIAttemptReconciliation(a))
  <1>1. a.pstatus \in ProviderStatuses
    BY DEF AIAttempts
  <1> QED
    BY <1>1, SelfEvolves, RecordEvolves DEF deferAIAttemptReconciliation

\* Completing an attempt touches its status only.
LEMMA CompleteEvolves ==
    ASSUME NEW a \in AIAttempts, NEW s \in AttemptStatuses
    PROVE  Evolves(a, CompleteAIAttempt(a, s))
  <1> DEFINE b == [a EXCEPT !.status = s]
  <1>1. b \in AIAttempts
    BY DEF AIAttempts
  <1>2. Evolves(a, b)
    BY <1>1 DEF Evolves, sameDispatch, hasProvider, AIAttempts
  <1> QED
    BY <1>2, SelfEvolves DEF CompleteAIAttempt

\* An attempt that was proven not to have been created is dispatched no more.
LEMMA ProvenIsFinal ==
    ASSUME NEW a \in AIAttempts, a.dispatch = "proven_not_created",
           NEW v, NEW read, NEW result
    PROVE  /\ resetUnknownDispatch(a, v) = a
           /\ persistDispatchIntent(a, v) = a
           /\ MarkAIAttemptDispatchSubmitted(a, v) = a
           /\ resolveProviderDispatchResult(a, read, result) = a
           /\ deferAIAttemptReconciliation(a) = a
  BY DEF resetUnknownDispatch, persistDispatchIntent, MarkAIAttemptDispatchSubmitted,
         resolveProviderDispatchResult, BindAIAttemptProviderTask, boundTaskKept,
         ProveAIAttemptNotCreated, RecordAIAttemptReconciliation, inReconcilableState,
         MarkAIAttemptDispatchUnknown, deferAIAttemptReconciliation
=============================================================================
