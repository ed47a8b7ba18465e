----------------------- MODULE ProviderCapacityProofs -----------------------
(***************************************************************************)
(* An account's load stays within its limit.                               *)
(*                                                                         *)
(* The limit is checked where a lease is taken, the load is counted in     *)
(* attempts.  CapInv ties them: an attempt that needs a lease and has not  *)
(* lost it has a live one, at the account its attempt and its permits name. *)
(***************************************************************************)
EXTENDS ProviderCapacity, AIAttemptProofs, FiniteSetTheorems

\* The live leases at an account that somebody may still be working under.
counted(account) ==
    {n \in Operations \ dropped : ~void(n) /\ leases[n].live /\ leases[n].account = account}

CountedWithinLimit == \A account \in Providers : Cardinality(counted(account)) <= Limit

\* A needed lease is there, and everybody means the same account by it.
Covered(n) ==
    needed(n) =>
        /\ leases[n].live /\ leases[n].account # NoProvider
        /\ \A w \in Workers : holds(w, n) => actors[w].account = leases[n].account
        /\ attempts[n].dispatch # "none" => attempts[n].provider = leases[n].account

ActorsInv ==
    \A x \in Actors : actors[x].pc # "idle" =>
        /\ actors[x].op \in Operations
        /\ actors[x].pc \notin {"begin", "release"} => Current(x).dispatch # "none"

TasksInv == \A n \in Operations : tasks[n] # "none" => attempts[n].dispatch # "none"

CapInv ==
    /\ TypeOK /\ ActorsInv /\ TasksInv
    /\ CountedWithinLimit
    /\ \A n \in Operations \ dropped : Covered(n)

\* What every step but a successful Acquire does to the leases ...
LeaseStep ==
    /\ leases' \in [Operations -> Leases]
    /\ dropped \subseteq dropped' /\ dropped' \subseteq Operations
    /\ \A n \in Operations :
        /\ leases[n].live /\ ~leases'[n].live /\ needed(n) => n \in dropped'
        /\ leases[n].live /\ leases[n].account # NoProvider /\ leases'[n].live =>
            leases'[n].account = leases[n].account
        /\ leases'[n] # leases[n] /\ leases'[n].live => attempts[n].dispatch # "none"

\* ... and to what needs them.
NeedStep ==
    /\ \A n \in Operations :
        /\ void(n) => void(n)'
        /\ attempts[n].dispatch # "none" =>
            attempts'[n].dispatch # "none" /\ attempts'[n].provider = attempts[n].provider
        /\ attempts[n].dispatch = "none" /\ attempts'[n].dispatch # "none" =>
            \E w \in Workers : holds(w, n) /\ actors[w].account = attempts'[n].provider
    /\ \A n \in Operations, w \in Workers :
        holds(w, n)' => holds(w, n) /\ actors'[w].account = actors[w].account

\* Such a step counts no new lease, and leaves every needed lease covered.
LEMMA QuietStep ==
    ASSUME CapInv, LeaseStep, NeedStep
    PROVE  CountedWithinLimit' /\ \A n \in Operations \ dropped' : Covered(n)'
  <1>1. ASSUME NEW n \in Operations \ dropped', needed(n)'
        PROVE  needed(n) /\ n \in Operations \ dropped
    <2>1. n \in Operations \ dropped
      BY DEF LeaseStep
    <2>2. ~void(n)
      BY <1>1, <2>1 DEF needed, NeedStep
    <2> QED
      BY <1>1, <2>1, <2>2 DEF needed, NeedStep
  <1>2. ASSUME NEW n \in Operations \ dropped'
        PROVE  Covered(n)'
    <2> SUFFICES ASSUME needed(n)'
                 PROVE  /\ leases'[n].live /\ leases'[n].account # NoProvider
                        /\ \A w \in Workers : holds(w, n)' => actors'[w].account = leases'[n].account
                        /\ attempts'[n].dispatch # "none" =>
                            attempts'[n].provider = leases'[n].account
      BY DEF Covered
    <2>1. needed(n) /\ n \in Operations \ dropped
      BY <1>1
    <2>2. /\ leases[n].live /\ leases[n].account # NoProvider
          /\ \A w \in Workers : holds(w, n) => actors[w].account = leases[n].account
          /\ attempts[n].dispatch # "none" => attempts[n].provider = leases[n].account
      BY <2>1 DEF CapInv, Covered
    <2>3. leases'[n].live /\ leases'[n].account = leases[n].account
      BY <1>2, <2>1, <2>2 DEF LeaseStep
    <2> QED
      BY <2>1, <2>2, <2>3 DEF NeedStep
  <1>3. ASSUME NEW account \in Providers
        PROVE  counted(account)' \subseteq counted(account)
    <2> SUFFICES ASSUME NEW n \in Operations, n \notin dropped', ~void(n)',
                        leases'[n].live, leases'[n].account = account
                 PROVE  n \in counted(account)
      BY DEF counted
    <2>1. n \notin dropped /\ ~void(n)
      BY DEF LeaseStep, NeedStep
    <2>2. CASE leases'[n] = leases[n]
      BY <2>1, <2>2 DEF counted
    <2>3. CASE leases'[n] # leases[n]
      <3>1. needed(n)
        BY <2>1, <2>3 DEF LeaseStep, needed
      <3>2. leases[n].live /\ leases[n].account # NoProvider
        BY <2>1, <3>1 DEF CapInv, Covered
      <3> QED
        BY <2>1, <3>2 DEF LeaseStep, counted
    <2> QED
      BY <2>2, <2>3
  <1>4. ASSUME NEW account \in Providers
        PROVE  Cardinality(counted(account)') <= Limit
    <2>1. IsFiniteSet(counted(account))
      BY CapacityConstants, FS_Subset DEF counted
    <2>2. /\ Cardinality(counted(account)') <= Cardinality(counted(account))
          /\ Cardinality(counted(account)') \in Nat /\ Cardinality(counted(account)) \in Nat
      BY <1>3, <2>1, FS_Subset, FS_CardinalityType
    <2>3. Cardinality(counted(account)) <= Limit
      BY DEF CapInv, CountedWithinLimit
    <2> QED
      BY <2>2, <2>3, CapacityConstants
  <1> QED
    BY <1>2, <1>4 DEF CountedWithinLimit

\* Leaving the leases alone is such a step.
LEMMA KeepLeasesStep ==
    ASSUME TypeOK, KeepLeases
    PROVE  LeaseStep
  BY DEF TypeOK, KeepLeases, LeaseStep

\* Pruning an account touches no live lease.
LEMMA PrunedLeases ==
    ASSUME TypeOK, NEW account
    PROVE  /\ pruneLocked(leases, account) \in [Operations -> Leases]
           /\ \A n \in Operations :
                /\ leases[n].live => pruneLocked(leases, account)[n] = leases[n]
                /\ pruneLocked(leases, account)[n].live => leases[n].live
                /\ pruneLocked(leases, account)[n].account = account /\ account # NoProvider
                    => leases[n].live
  BY DEF TypeOK, Leases, noLease, pruneLocked

\* Restoring a lease touches no live lease either.
LEMMA RestoreStep ==
    ASSUME TypeOK, NEW n \in Operations, NEW account \in Providers \cup {NoProvider},
           attempts[n].dispatch # "none", leases' = Restore(leases, n, account), Remember
    PROVE  LeaseStep
  <1> DEFINE pruned == pruneLocked(leases, account)
  <1>1. /\ pruned \in [Operations -> Leases]
        /\ \A m \in Operations : leases[m].live => pruned[m] = leases[m]
        /\ \A m \in Operations : pruned[m].live => leases[m].live
    BY PrunedLeases
  <1>2. leases' = IF conflicting(pruned, n, account) THEN pruned ELSE leaseFor(pruned, n, account)
    BY DEF Restore
  <1> HIDE DEF pruned
  <1>3. leases' \in [Operations -> Leases]
    BY <1>1, <1>2 DEF leaseFor, Leases
  <1>4. \A m \in Operations : m # n => leases'[m] = pruned[m]
    BY <1>1, <1>2 DEF leaseFor
  <1>5. leases'[n] = pruned[n] \/ (leases'[n] = [account |-> account, live |-> TRUE]
                                   /\ pruned[n].account \in {account, NoProvider})
    BY <1>1, <1>2 DEF leaseFor, conflicting
  <1>6. \A m \in Operations : m # n /\ leases'[m].live => leases'[m] = leases[m]
    BY <1>1, <1>4
  <1>7. \A m \in Operations : leases[m].live /\ leases[m].account # NoProvider =>
            leases'[m].account = leases[m].account
    BY <1>1, <1>4, <1>5
  <1>8. dropped \subseteq dropped' /\ dropped' \subseteq Operations
        /\ \A m \in Operations : leases[m].live /\ ~leases'[m].live /\ needed(m) => m \in dropped'
    BY DEF Remember, TypeOK
  <1> QED
    BY <1>3, <1>6, <1>7, <1>8 DEF LeaseStep

\* Releasing a lease touches no other one.
LEMMA ReleaseStep ==
    ASSUME TypeOK, NEW n \in Operations, NEW account,
           leases' = Release(leases, n, account), Remember
    PROVE  LeaseStep
  <1>1. leases' \in [Operations -> Leases]
        /\ \A m \in Operations : leases'[m] = leases[m] \/ leases'[m] = noLease
    BY DEF TypeOK, Release, Leases, noLease
  <1>2. dropped \subseteq dropped' /\ dropped' \subseteq Operations
        /\ \A m \in Operations : leases[m].live /\ ~leases'[m].live /\ needed(m) => m \in dropped'
    BY DEF Remember, TypeOK
  <1> QED
    BY <1>1, <1>2 DEF LeaseStep, noLease

-----------------------------------------------------------------------------
(* One actor with an operation in hand moves                               *)

\* l is its next local state, a the attempt it leaves behind.
LocalStep(x, l, a) ==
    /\ l \in ActorStates /\ a \in AIAttempts
    /\ actors' = [actors EXCEPT ![x] = l]
    /\ attempts' = [attempts EXCEPT ![actors[x].op] = a]
    /\ l.pc # "idle" =>
        l.op = actors[x].op /\ (l.pc \notin {"begin", "release"} => a.dispatch # "none")
    /\ l.pc \in PermitPCs \ {"release"} =>
        actors[x].pc \in PermitPCs \ {"release"} /\ l.account = actors[x].account
    /\ l.pc = "call" => Current(x).dispatch # "proven_not_created"
    /\ Current(x).dispatch = "proven_not_created" => a.dispatch = "proven_not_created"
    /\ Current(x).dispatch # "none" => a.dispatch # "none" /\ a.provider = Current(x).provider
    /\ Current(x).dispatch = "none" /\ a.dispatch # "none" =>
        x \in Workers /\ actors[x].pc = "begin" /\ a.provider = actors[x].account

\* A task is created only for a worker that asks for it.
TaskStep(x) ==
    /\ tasks' \in [Operations -> TaskStatuses \cup {"none"}]
    /\ \A n \in Operations :
        \/ tasks'[n] = tasks[n]
        \/ tasks[n] = "none" /\ x \in Workers /\ actors[x].pc = "call" /\ actors[x].op = n

\* Such a move preserves the invariant.
LEMMA ActorStep ==
    ASSUME CapInv, NEW x \in Actors, actors[x].pc # "idle", NEW l, NEW a,
           LocalStep(x, l, a), TaskStep(x), LeaseStep, setbacks' \in Nat
    PROVE  CapInv'
  <1> DEFINE op == actors[x].op
  <1>1. op \in Operations
    BY DEF CapInv, ActorsInv
  <1>2. /\ actors \in [Actors -> ActorStates] /\ attempts \in [Operations -> AIAttempts]
    BY DEF CapInv, TypeOK
  <1>3. /\ actors' \in [Actors -> ActorStates]
        /\ actors'[x] = l /\ \A y \in Actors : y # x => actors'[y] = actors[y]
    BY <1>2 DEF LocalStep
  <1>4. /\ attempts' \in [Operations -> AIAttempts]
        /\ attempts'[op] = a /\ \A n \in Operations : n # op => attempts'[n] = attempts[n]
    BY <1>1, <1>2 DEF LocalStep
  <1>5. TypeOK'
    BY <1>3, <1>4 DEF TypeOK, TaskStep, LeaseStep
  <1>6. \A n \in Operations : attempts[n].dispatch # "none" =>
            attempts'[n].dispatch # "none" /\ attempts'[n].provider = attempts[n].provider
    BY <1>1, <1>4 DEF LocalStep, Current
  <1>7. ActorsInv'
    <2> SUFFICES ASSUME NEW y \in Actors, actors'[y].pc # "idle"
                 PROVE  /\ actors'[y].op \in Operations
                        /\ actors'[y].pc \notin {"begin", "release"} =>
                            attempts'[actors'[y].op].dispatch # "none"
      BY DEF ActorsInv, Current
    <2>1. CASE y = x
      BY <1>1, <1>3, <1>4, <2>1 DEF LocalStep
    <2>2. CASE y # x
      BY <1>3, <1>6, <2>2 DEF CapInv, ActorsInv, Current
    <2> QED
      BY <2>1, <2>2
  <1>8. TasksInv'
    <2> SUFFICES ASSUME NEW n \in Operations, tasks'[n] # "none"
                 PROVE  attempts'[n].dispatch # "none"
      BY DEF TasksInv
    <2>1. attempts[n].dispatch # "none"
      BY DEF TaskStep, CapInv, TasksInv, ActorsInv, Current
    <2> QED
      BY <1>6, <2>1
  <1>9. Workers \subseteq Actors
    BY DEF Actors
  <1>10. ASSUME NEW n \in Operations, void(n)
         PROVE  void(n)'
    <2>1. CASE tasks[n] \in {"succeeded", "failed", "canceled"}
      BY <2>1 DEF void, TaskStep
    <2>2. CASE attempts[n].dispatch = "proven_not_created" /\ tasks[n] = "none" /\ ~asked(n)
      <3>1. attempts'[n].dispatch = "proven_not_created"
        BY <1>1, <1>4, <2>2 DEF LocalStep, Current
      <3>2. tasks'[n] = "none"
        BY <2>2 DEF TaskStep, asked
      <3>3. ~asked(n)'
        <4> SUFFICES ASSUME NEW w \in Workers, actors'[w].pc = "call", actors'[w].op = n
                     PROVE  FALSE
          BY DEF asked
        <4>1. CASE w = x
          BY <1>3, <2>2, <4>1 DEF LocalStep, Current
        <4>2. CASE w # x
          BY <1>3, <1>9, <2>2, <4>2 DEF asked
        <4> QED
          BY <4>1, <4>2
      <3> QED
        BY <3>1, <3>2, <3>3 DEF void
    <2> QED
      BY <1>10, <2>1, <2>2 DEF void
  <1>11. ASSUME NEW n \in Operations, NEW w \in Workers, holds(w, n)'
         PROVE  holds(w, n) /\ actors'[w].account = actors[w].account
    <2>1. actors'[w].pc \in PermitPCs \ {"release"} /\ actors'[w].op = n
      BY <1>11 DEF holds
    <2>2. CASE w = x
      BY <1>3, <2>1, <2>2 DEF LocalStep, holds, PermitPCs
    <2>3. CASE w # x
      BY <1>3, <1>9, <2>1, <2>3 DEF holds
    <2> QED
      BY <2>2, <2>3
  <1>12. ASSUME NEW n \in Operations, attempts[n].dispatch = "none", attempts'[n].dispatch # "none"
         PROVE  \E w \in Workers : holds(w, n) /\ actors[w].account = attempts'[n].provider
    <2>1. n = op
      BY <1>4, <1>12
    <2>2. x \in Workers /\ actors[x].pc = "begin" /\ attempts'[n].provider = actors[x].account
      BY <1>4, <1>12, <2>1 DEF LocalStep, Current
    <2> QED
      BY <2>1, <2>2 DEF holds, PermitPCs
  <1>13. NeedStep
    BY <1>6, <1>10, <1>11, <1>12 DEF NeedStep
  <1> QED
    BY <1>5, <1>7, <1>8, <1>13, QuietStep DEF CapInv

\* What an actor has in hand.
LEMMA InHand ==
    ASSUME CapInv, NEW x \in Actors, actors[x].pc # "idle"
    PROVE  /\ actors[x] \in ActorStates /\ actors[x].op \in Operations
           /\ actors[x].account \in Providers \cup {NoProvider}
           /\ actors[x].snap \in AIAttempts /\ actors[x].result \in Results
           /\ actors[x].result.status \in TaskStatuses \cup {""}
           /\ Current(x) \in AIAttempts
           /\ attempts = [attempts EXCEPT ![actors[x].op] = Current(x)]
           /\ actors[x].pc \notin {"begin", "release"} => Current(x).dispatch # "none"
           /\ setbacks \in Nat
  <1>1. actors[x] \in ActorStates /\ actors[x].op \in Operations /\ setbacks \in Nat
        /\ attempts \in [Operations -> AIAttempts]
    BY DEF CapInv, TypeOK, ActorsInv
  <1>2. /\ actors[x].account \in Providers \cup {NoProvider}
        /\ actors[x].snap \in AIAttempts /\ actors[x].result \in Results
    BY <1>1 DEF ActorStates
  <1>3. actors[x].result.status \in TaskStatuses \cup {""}
    BY <1>2 DEF Results
  <1>4. actors[x].pc \notin {"begin", "release"} => Current(x).dispatch # "none"
    BY DEF CapInv, ActorsInv
  <1> QED
    BY <1>1, <1>2, <1>3, <1>4 DEF Current

\* The local states an actor goes to.
LEMMA LocalStates ==
    /\ idle \in ActorStates /\ idle.pc = "idle"
    /\ \A l \in ActorStates, label \in PCs :
        /\ [l EXCEPT !.pc = label] \in ActorStates
        /\ [l EXCEPT !.pc = label].pc = label
        /\ [l EXCEPT !.pc = label].op = l.op
        /\ [l EXCEPT !.pc = label].account = l.account
  <1>1. absentAIAttempt \in AIAttempts
    BY DEF absentAIAttempt, AIAttempts, AttemptStatuses, DispatchStates, ProviderStatuses
  <1>2. noResult \in Results /\ "idle" \in PCs
    BY DEF noResult, Results, PCs
  <1>3. idle \in ActorStates /\ idle.pc = "idle"
    BY <1>1, <1>2 DEF idle, ActorStates
  <1>4. ASSUME NEW l \in ActorStates, NEW label \in PCs
        PROVE  /\ [l EXCEPT !.pc = label] \in ActorStates
               /\ [l EXCEPT !.pc = label].pc = label
               /\ [l EXCEPT !.pc = label].op = l.op
               /\ [l EXCEPT !.pc = label].account = l.account
    BY <1>4 DEF ActorStates
  <1> QED
    BY <1>3, <1>4

moved(x, label) == IF label = "idle" THEN idle ELSE [actors[x] EXCEPT !.pc = label]

\* It takes the operation and the account along.
LEMMA Moved ==
    ASSUME CapInv, NEW x \in Actors, actors[x].pc # "idle", NEW label \in PCs
    PROVE  /\ moved(x, label) \in ActorStates /\ moved(x, label).pc = label
           /\ label # "idle" => moved(x, label).op = actors[x].op
                                /\ moved(x, label).account = actors[x].account
  <1>1. actors[x] \in ActorStates
    BY InHand
  <1>2. CASE label = "idle"
    BY <1>2, LocalStates DEF moved
  <1>3. CASE label # "idle"
    BY <1>1, <1>3, LocalStates DEF moved
  <1> QED
    BY <1>2, <1>3

\* An update of the attempt that evolves it, and leaves a proven one proven.
Updates(x, a) ==
    /\ Evolves(Current(x), a)
    /\ Current(x).dispatch = "proven_not_created" => a.dispatch = "proven_not_created"

\* Going to another label, with the attempt in hand updated.
LEMMA GotoStep ==
    ASSUME CapInv, NEW x \in Actors, actors[x].pc \notin {"idle", "begin", "release"},
           NEW label \in PCs, Goto(x, label), NEW a, Updates(x, a), SetAttempt(x, a),
           label \in PermitPCs \ {"release"} => actors[x].pc \in PermitPCs \ {"release"},
           label # "call"
    PROVE  LocalStep(x, moved(x, label), a)
  <1>1. /\ moved(x, label) \in ActorStates /\ moved(x, label).pc = label
        /\ label # "idle" => moved(x, label).op = actors[x].op
                             /\ moved(x, label).account = actors[x].account
    BY Moved
  <1>2. label \in PermitPCs => label # "idle"
    BY DEF PermitPCs
  <1>3. a \in AIAttempts /\ Current(x).dispatch # "none" /\ a.dispatch # "none"
        /\ a.provider = Current(x).provider
    BY InHand DEF Updates, Evolves
  <1> QED
    BY <1>1, <1>2, <1>3 DEF LocalStep, Goto, Become, SetAttempt, moved, Updates

\* Going to another label, with the attempt left alone.
LEMMA GotoUnchanged ==
    ASSUME CapInv, NEW x \in Actors, actors[x].pc # "idle",
           NEW label \in PCs, Goto(x, label), UNCHANGED attempts,
           label \notin {"idle", "begin", "release"} => Current(x).dispatch # "none",
           label \in PermitPCs \ {"release"} => actors[x].pc \in PermitPCs \ {"release"},
           label # "call"
    PROVE  LocalStep(x, moved(x, label), Current(x))
  <1>1. /\ moved(x, label) \in ActorStates /\ moved(x, label).pc = label
        /\ label # "idle" => moved(x, label).op = actors[x].op
                             /\ moved(x, label).account = actors[x].account
    BY Moved
  <1>2. label \in PermitPCs => label # "idle"
    BY DEF PermitPCs
  <1>3. Current(x) \in AIAttempts /\ attempts' = [attempts EXCEPT ![actors[x].op] = Current(x)]
    BY InHand
  <1> QED
    BY <1>1, <1>2, <1>3 DEF LocalStep, Goto, Become, moved

\* The labels and answers the actions use.
LEMMA Answers ==
    /\ "begin" \in PCs /\ "submit" \in PCs /\ "call" \in PCs /\ "resolve" \in PCs
    /\ "retain" \in PCs /\ "release" \in PCs /\ "idle" \in PCs /\ "restore" \in PCs
    /\ "observe" \in PCs /\ "settle" \in PCs /\ "progress" \in PCs /\ "sync" \in PCs
    /\ noResult \in Results /\ lost \in Results /\ notCreated \in Results
    /\ \A s \in TaskStatuses : observed(s) \in Results
  BY DEF PCs, PermitPCs, noResult, lost, notCreated, observed, Results

\* Setbacks are counted.
LEMMA SetbackType ==
    ASSUME setbacks \in Nat, Setback \/ NoSetback
    PROVE  setbacks' \in Nat
  BY DEF Setback, NoSetback

\* A step that calls no provider leaves the tasks alone.
LEMMA TasksKept ==
    ASSUME CapInv, UNCHANGED tasks, NEW x
    PROVE  TaskStep(x)
  BY DEF CapInv, TypeOK, TaskStep

-----------------------------------------------------------------------------
(* The worker's steps                                                      *)

\* Opening the attempt binds it to the account of the permit.
LEMMA BeginPreserves ==
    ASSUME CapInv, NEW w \in Workers, BeginAIAttempt(w)
    PROVE  CapInv'
  <1> DEFINE account == actors[w].account
  <1>1. w \in Actors /\ actors[w].pc = "begin" /\ setbacks' \in Nat /\ LeaseStep /\ TaskStep(w)
    BY InHand, KeepLeasesStep, TasksKept DEF BeginAIAttempt, Actors, CapInv, TypeOK
  <1>2. CASE /\ Current(w).dispatch = "none"
             /\ SetAttempt(w, newAIAttempt(account)) /\ Goto(w, "submit")
    <2> DEFINE a == newAIAttempt(account)
    <2>1. a \in AIAttempts /\ a.dispatch = "pending" /\ a.provider = account
      <3>1. account \in Providers \cup {NoProvider}
        BY <1>1, InHand
      <3> QED
        BY <3>1 DEF newAIAttempt, absentAIAttempt, AIAttempts, AttemptStatuses, DispatchStates,
                    ProviderStatuses
    <2>2. moved(w, "submit") \in ActorStates /\ moved(w, "submit").pc = "submit"
          /\ moved(w, "submit").op = actors[w].op /\ moved(w, "submit").account = account
      <3>1. actors[w] \in ActorStates /\ "submit" \in PCs
        BY <1>1, InHand, Answers
      <3> QED
        BY <3>1, LocalStates DEF moved
    <2>3. LocalStep(w, moved(w, "submit"), a)
      BY <1>1, <1>2, <2>1, <2>2 DEF LocalStep, Goto, Become, moved, SetAttempt, PermitPCs
    <2> QED
      BY <1>1, <2>3, ActorStep
  <1>3. CASE /\ Current(w).dispatch # "none" /\ UNCHANGED attempts
             /\ \E label \in {"submit", "release"} : Goto(w, label)
    <2>1. PICK label \in {"submit", "release"} : Goto(w, label)
      BY <1>3
    <2>2. LocalStep(w, moved(w, label), Current(w))
      BY <1>1, <1>3, <2>1, GotoUnchanged, Answers DEF PermitPCs
    <2> QED
      BY <1>1, <2>2, ActorStep
  <1> QED
    BY <1>2, <1>3 DEF BeginAIAttempt

\* What a dispatch leaves to do.
LEMMA AfterDispatch ==
    ASSUME CapInv, NEW x \in Actors, actors[x].pc # "idle", NEW a \in AIAttempts
    PROVE  /\ afterDispatch(x, a) \in ActorStates
           /\ afterDispatch(x, a).pc \in {"retain", "release"}
           /\ afterDispatch(x, a).op = actors[x].op
           /\ afterDispatch(x, a).account = actors[x].account
  <1>1. actors[x] \in ActorStates /\ noResult \in Results /\ "retain" \in PCs /\ "release" \in PCs
    BY InHand, Answers
  <1>2. PICK label \in {"retain", "release"} :
            afterDispatch(x, a) = [actors[x] EXCEPT !.snap = a, !.result = noResult, !.pc = label]
    BY DEF afterDispatch
  <1> QED
    BY <1>1, <1>2 DEF ActorStates

\* A submission asks the provider only for an attempt that was not proven.
LEMMA SubmitPreserves ==
    ASSUME CapInv, NEW w \in Workers, SubmitDispatch(w)
    PROVE  CapInv'
  <1> DEFINE a == Current(w)
             pending == resetUnknownDispatch(a, a.version)
             prepared == persistDispatchIntent(pending, pending.version)
             submitted == MarkAIAttemptDispatchSubmitted(prepared, prepared.version)
  <1>1. w \in Actors /\ actors[w].pc = "submit" /\ setbacks' \in Nat /\ LeaseStep /\ TaskStep(w)
    BY InHand, KeepLeasesStep, TasksKept DEF SubmitDispatch, Actors, CapInv, TypeOK
  <1>2. CASE taskKnown(a)
    <2>1. Goto(w, "release") /\ UNCHANGED attempts
      BY <1>2 DEF SubmitDispatch
    <2>2. LocalStep(w, moved(w, "release"), a)
      BY <1>1, <2>1, GotoUnchanged, Answers
    <2> QED
      BY <1>1, <2>2, ActorStep
  <1>3. CASE ~taskKnown(a)
    <2>1. a \in AIAttempts /\ a.dispatch # "none"
      BY <1>1, InHand
    <2>2. Evolves(a, pending) /\ pending \in AIAttempts /\ pending.version \in Nat
      BY <2>1, SelfEvolves, ResetEvolves DEF Evolves
    <2>3. Evolves(pending, prepared) /\ prepared \in AIAttempts /\ prepared.version \in Nat
      <3> HIDE DEF pending
      <3> QED
        BY <2>2, SelfEvolves, PersistEvolves DEF Evolves
    <2>4. Evolves(prepared, submitted) /\ submitted \in AIAttempts
      <3> HIDE DEF prepared
      <3> QED
        BY <2>3, SubmittedEvolves DEF Evolves
    <2>5. a.dispatch = "proven_not_created" => prepared = a /\ submitted = a
      BY <2>1, ProvenIsFinal
    <2>6. /\ SetAttempt(w, submitted)
          /\ Become(w, IF submitted # prepared
                       THEN [actors[w] EXCEPT !.pc = "call", !.snap = submitted]
                       ELSE afterDispatch(w, submitted))
      BY <1>3 DEF SubmitDispatch
    <2> HIDE DEF a, pending, prepared, submitted
    <2>7. submitted.dispatch # "none" /\ submitted.provider = a.provider
      BY <2>1, <2>2, <2>3, <2>4, EvolvesTrans DEF Evolves
    <2>8. CASE submitted # prepared
      <3> DEFINE l == [actors[w] EXCEPT !.pc = "call", !.snap = submitted]
      <3>1. l \in ActorStates /\ l.pc = "call" /\ l.op = actors[w].op
            /\ l.account = actors[w].account
        <4>1. actors[w] \in ActorStates /\ noResult \in Results /\ "call" \in PCs
          BY <1>1, InHand, Answers
        <4> QED
          BY <2>4, <4>1 DEF ActorStates
      <3>2. Become(w, l)
        BY <2>6, <2>8
      <3> HIDE DEF l
      <3>3. LocalStep(w, l, submitted)
        BY <1>1, <2>1, <2>4, <2>5, <2>6, <2>7, <2>8, <3>1, <3>2
        DEF LocalStep, Become, SetAttempt, PermitPCs, a
      <3> QED
        BY <1>1, <3>3, ActorStep
    <2>9. CASE submitted = prepared
      <3> DEFINE l == afterDispatch(w, submitted)
      <3>1. l \in ActorStates /\ l.pc \in {"retain", "release"} /\ l.op = actors[w].op
            /\ l.account = actors[w].account
        BY <1>1, <2>4, AfterDispatch
      <3>2. Become(w, l)
        BY <2>6, <2>9
      <3> HIDE DEF l
      <3>3. LocalStep(w, l, submitted)
        BY <1>1, <2>1, <2>4, <2>5, <2>6, <2>7, <2>9, <3>1, <3>2
        DEF LocalStep, Become, SetAttempt, PermitPCs, a
      <3> QED
        BY <1>1, <3>3, ActorStep
    <2> QED
      BY <2>8, <2>9
  <1> QED
    BY <1>2, <1>3

\* The provider's answer: the task it creates is one it was asked for.
LEMMA DispatchPreserves ==
    ASSUME CapInv, NEW w \in Workers, DispatchProviderTask(w)
    PROVE  CapInv'
  <1> DEFINE n == actors[w].op
             task == IF tasks[n] = "none" THEN "running" ELSE tasks[n]
             l(answer) == [actors[w] EXCEPT !.pc = "resolve", !.result = answer]
  <1>1. w \in Actors /\ actors[w].pc = "call" /\ LeaseStep
    BY KeepLeasesStep DEF DispatchProviderTask, Actors, CapInv
  <1>2. setbacks' \in Nat
    BY <1>1, InHand, SetbackType DEF DispatchProviderTask
  <1>3. n \in Operations /\ tasks \in [Operations -> TaskStatuses \cup {"none"}]
        /\ task \in TaskStatuses
    <2>1. n \in Operations /\ tasks \in [Operations -> TaskStatuses \cup {"none"}]
      BY <1>1, InHand DEF CapInv, TypeOK
    <2> QED
      BY <2>1 DEF TaskStatuses
  <1>4. \E answer \in Results : Become(w, l(answer))
    BY <1>3, Answers DEF DispatchProviderTask
  <1>5. TaskStep(w)
    <2>1. tasks' = tasks \/ tasks' = [tasks EXCEPT ![n] = task]
      BY DEF DispatchProviderTask
    <2>2. CASE tasks' = tasks
      BY <2>2, TasksKept
    <2>3. CASE tasks' = [tasks EXCEPT ![n] = task]
      <3>1. tasks' \in [Operations -> TaskStatuses \cup {"none"}]
        BY <1>3, <2>3
      <3>2. \A m \in Operations : m # n => tasks'[m] = tasks[m]
        BY <1>3, <2>3
      <3>3. tasks'[n] = tasks[n] \/ tasks[n] = "none"
        BY <1>3, <2>3
      <3> QED
        BY <1>1, <3>1, <3>2, <3>3 DEF TaskStep
    <2> QED
      BY <2>1, <2>2, <2>3
  <1>6. PICK answer \in Results : Become(w, l(answer))
    BY <1>4
  <1>7. l(answer) \in ActorStates /\ l(answer).pc = "resolve" /\ l(answer).op = n
        /\ l(answer).account = actors[w].account
    <2>1. actors[w] \in ActorStates /\ "resolve" \in PCs
      BY <1>1, InHand, Answers
    <2> QED
      BY <2>1 DEF ActorStates
  <1>8. /\ Current(w) \in AIAttempts /\ Current(w).dispatch # "none"
        /\ attempts' = [attempts EXCEPT ![actors[w].op] = Current(w)]
    BY <1>1, InHand DEF DispatchProviderTask
  <1> DEFINE k == l(answer)
  <1>9. k \in ActorStates /\ k.pc = "resolve" /\ k.op = actors[w].op
        /\ k.account = actors[w].account /\ actors' = [actors EXCEPT ![w] = k]
    BY <1>6, <1>7 DEF Become
  <1> HIDE DEF k
  <1>10. LocalStep(w, k, Current(w))
    BY <1>1, <1>8, <1>9 DEF LocalStep, PermitPCs
  <1> QED
    BY <1>1, <1>2, <1>5, <1>10, ActorStep

\* Resolving an answer updates the attempt in hand.
LEMMA ResolveUpdates ==
    ASSUME CapInv, NEW x \in Actors, actors[x].pc \notin {"idle", "begin", "release"}
    PROVE  Updates(x, resolveProviderDispatchResult(Current(x), actors[x].snap, actors[x].result))
  <1> DEFINE a == resolveProviderDispatchResult(Current(x), actors[x].snap, actors[x].result)
  <1>1. Evolves(Current(x), a)
    BY InHand, ResolveEvolves
  <1>2. ASSUME Current(x).dispatch = "proven_not_created"
        PROVE  a = Current(x)
    <2>1. Current(x) \in AIAttempts
      BY InHand
    <2> QED
      BY <1>2, <2>1, ProvenIsFinal
  <1> HIDE DEF a
  <1>3. Updates(x, a)
    BY <1>1, <1>2 DEF Updates
  <1> QED
    BY <1>3 DEF a

\* The worker stores the provider's answer.
LEMMA ResolvePreserves ==
    ASSUME CapInv, NEW w \in Workers, ResolveDispatch(w)
    PROVE  CapInv'
  <1> DEFINE a == resolveProviderDispatchResult(Current(w), actors[w].snap, actors[w].result)
             l == afterDispatch(w, a)
  <1>1. w \in Actors /\ actors[w].pc = "resolve" /\ setbacks' \in Nat /\ LeaseStep /\ TaskStep(w)
    BY KeepLeasesStep, TasksKept DEF ResolveDispatch, Actors, CapInv, TypeOK
  <1>2. Updates(w, a)
    BY <1>1, ResolveUpdates
  <1>3. SetAttempt(w, a) /\ Become(w, l)
    BY DEF ResolveDispatch
  <1> HIDE DEF a
  <1>4. a \in AIAttempts /\ Current(w).dispatch # "none" /\ a.dispatch # "none"
        /\ a.provider = Current(w).provider
    BY <1>1, <1>2, InHand DEF Updates, Evolves
  <1>5. l \in ActorStates /\ l.pc \in {"retain", "release"} /\ l.op = actors[w].op
        /\ l.account = actors[w].account
    BY <1>1, <1>4, AfterDispatch
  <1> HIDE DEF l
  <1>6. LocalStep(w, l, a)
    BY <1>1, <1>2, <1>3, <1>4, <1>5 DEF LocalStep, Updates, Become, SetAttempt, PermitPCs
  <1> QED
    BY <1>1, <1>6, ActorStep

\* A failing store leaves the worker to release its permit.
LEMMA LosePreserves ==
    ASSUME CapInv, NEW w \in Workers, LoseDispatch(w)
    PROVE  CapInv'
  <1>1. w \in Actors /\ actors[w].pc # "idle" /\ LeaseStep /\ TaskStep(w)
    BY KeepLeasesStep, TasksKept DEF LoseDispatch, Actors, CapInv
  <1>2. setbacks' \in Nat
    BY <1>1, InHand, SetbackType DEF LoseDispatch
  <1>3. LocalStep(w, moved(w, "release"), Current(w))
    BY <1>1, GotoUnchanged, Answers DEF LoseDispatch
  <1> QED
    BY <1>1, <1>2, <1>3, ActorStep

\* Releasing a permit.
LEMMA ReleasePreserves ==
    ASSUME CapInv, NEW w \in Workers, ReleasePermit(w)
    PROVE  CapInv'
  <1>1. w \in Actors /\ actors[w].pc = "release" /\ TaskStep(w) /\ setbacks' \in Nat /\ TypeOK
    BY TasksKept DEF ReleasePermit, Actors, CapInv, TypeOK
  <1>2. LeaseStep
    BY <1>1, InHand, ReleaseStep DEF ReleasePermit
  <1>3. LocalStep(w, moved(w, "idle"), Current(w))
    BY <1>1, GotoUnchanged, Answers DEF ReleasePermit, PermitPCs
  <1> QED
    BY <1>1, <1>2, <1>3, ActorStep

\* Retaining a permit.
LEMMA RetainPreserves ==
    ASSUME CapInv, NEW w \in Workers, RetainPermit(w)
    PROVE  CapInv'
  <1>1. w \in Actors /\ actors[w].pc = "retain" /\ TaskStep(w) /\ setbacks' \in Nat /\ TypeOK
    BY TasksKept DEF RetainPermit, Actors, CapInv, TypeOK
  <1>2. actors[w].op \in Operations /\ attempts[actors[w].op].dispatch # "none"
        /\ actors[w].account \in Providers \cup {NoProvider}
    BY <1>1, InHand DEF Current
  <1>3. LeaseStep
    BY <1>1, <1>2, RestoreStep DEF RetainPermit
  <1>4. PICK label \in {"progress", "idle"} : Goto(w, label)
    BY DEF RetainPermit
  <1>5. LocalStep(w, moved(w, label), Current(w))
    BY <1>1, <1>2, <1>4, GotoUnchanged, Answers DEF RetainPermit, PermitPCs, Current
  <1> QED
    BY <1>1, <1>3, <1>5, ActorStep

\* The bound is looked at when a lease is new; a lease that is shared or
\* restored was counted already.
LEMMA AcquirePreserves ==
    ASSUME CapInv, NEW w \in Workers, AcquirePermit(w)
    PROVE  CapInv'
  <1>1. PICK n \in Operations, account \in Providers :
            /\ delivered(n)
            /\ IF admits(pruneLocked(leases, account), n, account)
               THEN /\ leases' = leaseFor(pruneLocked(leases, account), n, account)
                    /\ Become(w, [idle EXCEPT !.pc = "begin", !.op = n, !.account = account])
               ELSE /\ leases' = pruneLocked(leases, account)
                    /\ UNCHANGED actors
    BY DEF AcquirePermit
  <1> DEFINE pruned == pruneLocked(leases, account)
             l == [idle EXCEPT !.pc = "begin", !.op = n, !.account = account]
  <1>2. /\ TypeOK /\ w \in Actors /\ actors[w].pc = "idle"
        /\ UNCHANGED <<attempts, tasks, dropped>> /\ account # NoProvider
    BY CapacityConstants DEF CapInv, AcquirePermit, Actors
  <1>3. setbacks' \in Nat
    BY <1>1, <1>2, SetbackType DEF delivered, TypeOK
  <1>4. /\ pruned \in [Operations -> Leases]
        /\ \A m \in Operations :
            /\ leases[m].live => pruned[m] = leases[m]
            /\ pruned[m].live => leases[m].live
            /\ pruned[m].account = account => leases[m].live
    BY <1>2, PrunedLeases
  <1>5. CASE ~admits(pruned, n, account)
    <2>1. leases' = pruned /\ UNCHANGED <<actors, attempts, tasks, dropped>>
      BY <1>1, <1>2, <1>5
    <2> HIDE DEF pruned
    <2>2. LeaseStep
      BY <1>2, <1>4, <2>1 DEF LeaseStep, TypeOK
    <2>3. NeedStep
      BY <2>1 DEF NeedStep, void, asked, holds
    <2>4. TypeOK' /\ ActorsInv' /\ TasksInv'
      BY <1>3, <1>4, <2>1 DEF CapInv, TypeOK, ActorsInv, TasksInv, Current
    <2> QED
      BY <2>2, <2>3, <2>4, QuietStep DEF CapInv
  <1>6. CASE admits(pruned, n, account)
    <2>1. leases' = leaseFor(pruned, n, account) /\ actors' = [actors EXCEPT ![w] = l]
      BY <1>1, <1>6 DEF Become
    <2>2. l \in ActorStates /\ l.pc = "begin" /\ l.op = n /\ l.account = account
      BY LocalStates, Answers DEF ActorStates
    <2> HIDE DEF pruned, l
    <2>3. /\ leases' \in [Operations -> Leases]
          /\ leases'[n] = [account |-> account, live |-> TRUE]
          /\ \A m \in Operations : m # n => leases'[m] = pruned[m]
      BY <1>4, <2>1 DEF leaseFor, Leases
    <2>4. /\ actors' \in [Actors -> ActorStates]
          /\ actors'[w] = l /\ \A y \in Actors : y # w => actors'[y] = actors[y]
      BY <1>2, <2>1, <2>2 DEF TypeOK
    <2>5. TypeOK' /\ ActorsInv' /\ TasksInv'
      BY <1>2, <1>3, <2>2, <2>3, <2>4 DEF CapInv, TypeOK, ActorsInv, TasksInv, Current
    <2>6. \A m \in Operations : void(m)' <=> void(m)
      <3>1. \A m \in Operations : asked(m)' <=> asked(m)
        BY <1>2, <2>2, <2>4 DEF asked, Actors
      <3> QED
        BY <1>2, <3>1 DEF void
    <2>7. \A m \in Operations, v \in Workers : v # w => (holds(v, m)' <=> holds(v, m))
      BY <2>4 DEF holds, Actors
    <2>8. \A m \in Operations : m # n => ~holds(w, m)'
      BY <2>2, <2>4 DEF holds
    <2>9. CountedWithinLimit'
      <3> SUFFICES ASSUME NEW other \in Providers
                   PROVE  Cardinality(counted(other)') <= Limit
        BY DEF CountedWithinLimit
      <3>1. IsFiniteSet(counted(other)) /\ Cardinality(counted(other)) <= Limit
        BY CapacityConstants, FS_Subset DEF counted, CapInv, CountedWithinLimit
      <3>2. CASE counted(other)' \subseteq counted(other)
        <4>1. /\ Cardinality(counted(other)') <= Cardinality(counted(other))
              /\ Cardinality(counted(other)') \in Nat /\ Cardinality(counted(other)) \in Nat
          BY <3>1, <3>2, FS_Subset, FS_CardinalityType
        <4> QED
          BY <3>1, <4>1, CapacityConstants
      <3>3. \A m \in counted(other)' : m # n => m \in counted(other)
        BY <1>2, <1>4, <2>3, <2>6 DEF counted
      <3>4. CASE other # account
        <4>1. n \notin counted(other)'
          BY <2>3, <3>4 DEF counted
        <4> QED
          BY <3>2, <3>3, <4>1
      <3>5. CASE other = account /\ shared(pruned, n, account)
        <4>1. leases[n].live /\ leases[n].account = account
          BY <1>4, <3>5 DEF shared
        <4>2. n \in counted(other)' => n \in counted(other)
          BY <1>2, <2>6, <3>5, <4>1 DEF counted
        <4> QED
          BY <3>2, <3>3, <4>2
      <3>6. CASE other = account /\ ~shared(pruned, n, account)
        <4> DEFINE present == {m \in Operations : pruned[m].account = account}
        <4>1. Cardinality(present) + 1 <= Limit
          BY <1>6, <3>6 DEF admits, snapshotLocked
        <4>2. IsFiniteSet(present) /\ n \notin present
          BY <3>6, CapacityConstants, FS_Subset DEF shared
        <4>3. IsFiniteSet(present \cup {n}) /\ Cardinality(present \cup {n}) = Cardinality(present) + 1
          BY <4>2, FS_AddElement
        <4>4. counted(other)' \subseteq present \cup {n}
          BY <2>3, <3>6 DEF counted
        <4> HIDE DEF present
        <4>5. /\ Cardinality(counted(other)') <= Cardinality(present \cup {n})
              /\ Cardinality(counted(other)') \in Nat /\ Cardinality(present) \in Nat
          BY <4>2, <4>3, <4>4, FS_Subset, FS_CardinalityType
        <4> QED
          BY <4>1, <4>3, <4>5, CapacityConstants
      <3> QED
        BY <3>4, <3>5, <3>6
    <2>10. ASSUME NEW m \in Operations \ dropped', m # n
           PROVE  Covered(m)'
      <3>1. needed(m)' => needed(m)
        BY <1>2, <2>6, <2>7, <2>8, <2>10 DEF needed
      <3>2. needed(m) => leases'[m] = leases[m] /\ Covered(m)
        BY <1>2, <1>4, <2>3, <2>10 DEF CapInv, Covered
      <3> QED
        BY <1>2, <2>4, <2>7, <2>8, <2>10, <3>1, <3>2 DEF Covered, Actors
    <2>11. ASSUME n \notin dropped'
           PROVE  Covered(n)'
      <3>1. CASE needed(n)
        <4>1. /\ leases[n].live /\ leases[n].account # NoProvider
              /\ \A v \in Workers : holds(v, n) => actors[v].account = leases[n].account
              /\ attempts[n].dispatch # "none" => attempts[n].provider = leases[n].account
          BY <1>2, <2>11, <3>1 DEF CapInv, Covered
        <4>2. leases[n].account = account
          BY <1>4, <1>6, <4>1 DEF admits, shared
        <4>3. \A v \in Workers : holds(v, n)' => actors'[v].account = account
          <5>1. actors'[w].account = account
            BY <2>2, <2>4
          <5>2. \A v \in Workers : v # w => actors'[v] = actors[v]
            BY <2>4 DEF Actors
          <5> QED
            BY <2>7, <4>1, <4>2, <5>1, <5>2
        <4> QED
          BY <1>2, <2>3, <4>1, <4>2, <4>3 DEF Covered
      <3>2. CASE ~needed(n) /\ void(n)
        BY <2>6, <3>2 DEF Covered, needed
      <3>3. CASE ~needed(n) /\ ~void(n)
        <4>1. attempts[n].dispatch = "none" /\ \A v \in Workers : ~holds(v, n)
          BY <3>3 DEF needed
        <4>2. \A v \in Workers : holds(v, n)' => actors'[v].account = account
          BY <2>2, <2>4, <2>7, <4>1
        <4> QED
          BY <1>2, <2>3, <4>1, <4>2 DEF Covered
      <3> QED
        BY <3>1, <3>2, <3>3
    <2> QED
      BY <2>5, <2>9, <2>10, <2>11 DEF CapInv
  <1> QED
    BY <1>5, <1>6

-----------------------------------------------------------------------------
(* The reconciler's steps and those of both                                *)

\* A reconciler holds no permit: picking an attempt needs no lease.
LEMMA PickPreserves ==
    ASSUME CapInv, NEW r \in Reconcilers, PickDueAttempt(r)
    PROVE  CapInv'
  <1>1. PICK n \in Operations :
            /\ dueForReconciliation(attempts[n])
            /\ Become(r, [idle EXCEPT !.pc = "restore", !.op = n, !.snap = attempts[n]])
    BY DEF PickDueAttempt
  <1> DEFINE l == [idle EXCEPT !.pc = "restore", !.op = n, !.snap = attempts[n]]
  <1>2. TypeOK /\ LeaseStep /\ r \in Actors /\ r \notin Workers
        /\ UNCHANGED <<leases, attempts, tasks, dropped, setbacks>>
    BY KeepLeasesStep, CapacityConstants DEF CapInv, PickDueAttempt, KeepLeases, Actors
  <1>3. l \in ActorStates /\ l.pc = "restore" /\ l.op = n
    <2>1. attempts[n] \in AIAttempts /\ idle \in ActorStates /\ "restore" \in PCs
      BY <1>2, LocalStates, Answers DEF TypeOK
    <2> QED
      BY <2>1 DEF ActorStates
  <1>4. actors' = [actors EXCEPT ![r] = l]
    BY <1>1 DEF Become
  <1> HIDE DEF l
  <1>5. /\ actors' \in [Actors -> ActorStates]
        /\ actors'[r] = l /\ \A y \in Actors : y # r => actors'[y] = actors[y]
    BY <1>2, <1>3, <1>4 DEF TypeOK
  <1>6. \A w \in Workers : actors'[w] = actors[w]
    BY <1>2, <1>5 DEF Actors
  <1>7. NeedStep
    BY <1>2, <1>6 DEF NeedStep, void, asked, holds
  <1>8. attempts[n].dispatch # "none"
    BY <1>1 DEF dueForReconciliation, inReconcilableState
  <1>9. TypeOK' /\ ActorsInv' /\ TasksInv'
    BY <1>2, <1>3, <1>5, <1>8 DEF CapInv, TypeOK, ActorsInv, TasksInv, Current
  <1> QED
    BY <1>2, <1>7, <1>9, QuietStep DEF CapInv

\* A reconciler restores the lease of the attempt it picked.
LEMMA RestorePreserves ==
    ASSUME CapInv, NEW r \in Reconcilers, restoreProviderCapacityForAttempt(r)
    PROVE  CapInv'
  <1>1. r \in Actors /\ actors[r].pc = "restore" /\ TaskStep(r) /\ setbacks' \in Nat /\ TypeOK
    BY TasksKept DEF restoreProviderCapacityForAttempt, Actors, CapInv, TypeOK
  <1>2. actors[r].op \in Operations /\ attempts[actors[r].op].dispatch # "none"
        /\ actors[r].snap.provider \in Providers \cup {NoProvider}
    BY <1>1, InHand DEF Current, AIAttempts
  <1>3. LeaseStep
    BY <1>1, <1>2, RestoreStep DEF restoreProviderCapacityForAttempt
  <1>4. LocalStep(r, moved(r, "observe"), Current(r))
    BY <1>1, <1>2, GotoUnchanged, Answers
    DEF restoreProviderCapacityForAttempt, PermitPCs, Current
  <1> QED
    BY <1>1, <1>3, <1>4, ActorStep

\* Asking the provider what became of the task changes the reconciler only.
LEMMA ObservePreserves ==
    ASSUME CapInv, NEW r \in Reconcilers, ObserveProviderTask(r)
    PROVE  CapInv'
  <1>1. r \in Actors /\ actors[r].pc = "observe" /\ TaskStep(r) /\ LeaseStep
    BY TasksKept, KeepLeasesStep DEF ObserveProviderTask, Actors, CapInv
  <1>2. setbacks' \in Nat
    BY <1>1, InHand, SetbackType DEF ObserveProviderTask
  <1>3. actors[r] \in ActorStates /\ actors[r].op \in Operations
        /\ Current(r) \in AIAttempts /\ Current(r).dispatch # "none"
        /\ attempts' = [attempts EXCEPT ![actors[r].op] = Current(r)]
    BY <1>1, InHand DEF ObserveProviderTask
  <1>4. \E l \in ActorStates : /\ actors' = [actors EXCEPT ![r] = l]
                               /\ l.pc \in {"settle", "sync"} /\ l.op = actors[r].op
    <2> DEFINE l(answer) == [actors[r] EXCEPT !.pc = "settle", !.snap = Current(r),
                                              !.result = answer]
               k == [actors[r] EXCEPT !.pc = "sync", !.snap = Current(r)]
    <2>1. k \in ActorStates /\ k.pc = "sync" /\ k.op = actors[r].op
      BY <1>3, Answers DEF ActorStates
    <2>2. ASSUME NEW answer \in Results
          PROVE  l(answer) \in ActorStates /\ l(answer).pc = "settle" /\ l(answer).op = actors[r].op
      BY <1>3, <2>2, Answers DEF ActorStates
    <2>3. tasks[actors[r].op] # "none" => tasks[actors[r].op] \in TaskStatuses
      BY <1>3 DEF CapInv, TypeOK
    <2>4. Become(r, k) \/ \E answer \in Results : Become(r, l(answer))
      BY <2>3, Answers DEF ObserveProviderTask
    <2> QED
      BY <2>1, <2>2, <2>4 DEF Become
  <1>5. PICK l \in ActorStates : /\ actors' = [actors EXCEPT ![r] = l]
                                 /\ l.pc \in {"settle", "sync"} /\ l.op = actors[r].op
    BY <1>4
  <1>6. LocalStep(r, l, Current(r))
    BY <1>1, <1>3, <1>5 DEF LocalStep, PermitPCs
  <1> QED
    BY <1>1, <1>2, <1>6, ActorStep

\* The reconciler stores what it observed.
LEMMA SettlePreserves ==
    ASSUME CapInv, NEW r \in Reconcilers, SettleReconciliation(r)
    PROVE  CapInv'
  <1> DEFINE a == resolveProviderDispatchResult(Current(r), actors[r].snap, actors[r].result)
             l == [actors[r] EXCEPT !.pc = "sync", !.snap = a]
  <1>1. r \in Actors /\ actors[r].pc = "settle" /\ setbacks' \in Nat /\ LeaseStep /\ TaskStep(r)
    BY KeepLeasesStep, TasksKept DEF SettleReconciliation, Actors, CapInv, TypeOK
  <1>2. Updates(r, a)
    BY <1>1, ResolveUpdates
  <1>3. SetAttempt(r, a) /\ Become(r, l)
    BY DEF SettleReconciliation
  <1> HIDE DEF a
  <1>4. a \in AIAttempts /\ Current(r).dispatch # "none" /\ a.dispatch # "none"
        /\ a.provider = Current(r).provider /\ actors[r] \in ActorStates
    BY <1>1, <1>2, InHand DEF Updates, Evolves
  <1>5. l \in ActorStates /\ l.pc = "sync" /\ l.op = actors[r].op
    BY <1>4, Answers DEF ActorStates
  <1> HIDE DEF l
  <1>6. LocalStep(r, l, a)
    BY <1>1, <1>2, <1>3, <1>4, <1>5 DEF LocalStep, Updates, Become, SetAttempt, PermitPCs
  <1> QED
    BY <1>1, <1>6, ActorStep

\* A terminal task completes its attempt.
LEMMA ProgressPreserves ==
    ASSUME CapInv, NEW x \in Actors, ApplyProgress(x)
    PROVE  CapInv'
  <1>1. actors[x].pc = "progress" /\ LeaseStep /\ TaskStep(x)
    BY KeepLeasesStep, TasksKept DEF ApplyProgress, CapInv
  <1>2. setbacks' \in Nat
    BY <1>1, InHand, SetbackType DEF ApplyProgress, NoSetback
  <1>3. PICK label \in {"sync", "idle"} : Goto(x, label)
    BY DEF ApplyProgress
  <1>4. label \in PCs /\ label \notin PermitPCs
    BY Answers DEF PermitPCs
  <1>5. Current(x) \in AIAttempts /\ actors[x].snap.pstatus \in ProviderStatuses
    BY <1>1, InHand DEF AIAttempts
  <1>6. \E a : SetAttempt(x, a) /\ Updates(x, a)
    <2>1. CASE isDurableProviderTerminalStatus(actors[x].snap.pstatus)
               /\ SetAttempt(x, CompleteAIAttempt(Current(x), actors[x].snap.pstatus))
      <3>1. actors[x].snap.pstatus \in AttemptStatuses
        BY <1>5, <2>1 DEF isDurableProviderTerminalStatus, ProviderStatuses, TaskStatuses,
                          AttemptStatuses
      <3>2. Evolves(Current(x), CompleteAIAttempt(Current(x), actors[x].snap.pstatus))
        BY <1>5, <3>1, CompleteEvolves
      <3>3. CompleteAIAttempt(Current(x), actors[x].snap.pstatus).dispatch = Current(x).dispatch
        BY <1>5 DEF CompleteAIAttempt, AIAttempts
      <3> QED
        BY <2>1, <3>2, <3>3 DEF Updates
    <2>2. CASE SetAttempt(x, deferAIAttemptReconciliation(Current(x)))
      BY <1>5, <2>2, DeferEvolves, ProvenIsFinal DEF Updates
    <2>3. CASE UNCHANGED attempts
      BY <1>1, <1>5, <2>3, InHand, SelfEvolves DEF Updates, SetAttempt
    <2> QED
      BY <2>1, <2>2, <2>3 DEF ApplyProgress
  <1>7. PICK a : SetAttempt(x, a) /\ Updates(x, a)
    BY <1>6
  <1>8. LocalStep(x, moved(x, label), a)
    BY <1>1, <1>3, <1>4, <1>7, GotoStep DEF PermitPCs
  <1> QED
    BY <1>1, <1>2, <1>8, ActorStep

\* The lease follows the attempt: released when it has finished, restored before.
LEMMA SyncPreserves ==
    ASSUME CapInv, NEW x \in Actors, syncProviderCapacityForAttempt(x)
    PROVE  CapInv'
  <1>1. actors[x].pc = "sync" /\ TaskStep(x) /\ setbacks' \in Nat /\ TypeOK
    BY TasksKept DEF syncProviderCapacityForAttempt, CapInv, TypeOK
  <1>2. actors[x].op \in Operations /\ attempts[actors[x].op].dispatch # "none"
        /\ actors[x].snap.provider \in Providers \cup {NoProvider}
    BY <1>1, InHand DEF Current, AIAttempts
  <1>3. LeaseStep
    <2>1. /\ Remember
          /\ \/ leases' = Release(leases, actors[x].op, actors[x].snap.provider)
             \/ leases' = Restore(leases, actors[x].op, actors[x].snap.provider)
      BY DEF syncProviderCapacityForAttempt
    <2> QED
      BY <1>1, <1>2, <2>1, ReleaseStep, RestoreStep
  <1>4. PICK label \in {"progress", "idle"} : Goto(x, label)
    BY DEF syncProviderCapacityForAttempt
  <1>5. LocalStep(x, moved(x, label), Current(x))
    BY <1>1, <1>2, <1>4, GotoUnchanged, Answers
    DEF syncProviderCapacityForAttempt, PermitPCs, Current
  <1> QED
    BY <1>1, <1>3, <1>5, ActorStep

\* A crash leaves the lease as it is.
LEMMA CrashPreserves ==
    ASSUME CapInv, NEW x \in Actors, Crash(x)
    PROVE  CapInv'
  <1>1. actors[x].pc # "idle" /\ LeaseStep /\ TaskStep(x)
    BY KeepLeasesStep, TasksKept DEF Crash, CapInv
  <1>2. setbacks' \in Nat
    BY <1>1, InHand, SetbackType DEF Crash
  <1>3. LocalStep(x, moved(x, "idle"), Current(x))
    BY <1>1, GotoUnchanged, Answers DEF Crash, PermitPCs
  <1> QED
    BY <1>1, <1>2, <1>3, ActorStep

-----------------------------------------------------------------------------
(* The environment's steps                                                 *)

\* A lease that expires while it is needed is remembered as dropped.
LEMMA ExpiryPreserves ==
    ASSUME CapInv, NEW n \in Operations, LeaseExpires(n)
    PROVE  CapInv'
  <1>1. TypeOK /\ UNCHANGED <<attempts, tasks, actors>> /\ Remember
        /\ leases' = [leases EXCEPT ![n].live = FALSE]
    BY DEF CapInv, LeaseExpires
  <1>2. setbacks' \in Nat
    BY <1>1, SetbackType DEF LeaseExpires, TypeOK
  <1>3. /\ leases' \in [Operations -> Leases] /\ ~leases'[n].live
        /\ \A m \in Operations : m # n => leases'[m] = leases[m]
    BY <1>1 DEF TypeOK, Leases
  <1>4. LeaseStep
    BY <1>1, <1>3 DEF LeaseStep, Remember, TypeOK
  <1>5. NeedStep
    BY <1>1 DEF NeedStep, void, asked, holds
  <1>6. TypeOK' /\ ActorsInv' /\ TasksInv'
    BY <1>1, <1>2, <1>4 DEF CapInv, TypeOK, ActorsInv, TasksInv, Current, LeaseStep
  <1> QED
    BY <1>4, <1>5, <1>6, QuietStep DEF CapInv

\* A task that ends needs its lease no more.
LEMMA EndPreserves ==
    ASSUME CapInv, NEW n \in Operations, ProviderTaskEnds(n)
    PROVE  CapInv'
  <1>1. TypeOK /\ UNCHANGED <<leases, dropped, attempts, actors, setbacks>> /\ LeaseStep
        /\ tasks[n] = "running" /\ tasks' = [tasks EXCEPT ![n] = "succeeded"]
    BY KeepLeasesStep DEF CapInv, ProviderTaskEnds, KeepLeases
  <1>2. /\ tasks' \in [Operations -> TaskStatuses \cup {"none"}] /\ tasks'[n] = "succeeded"
        /\ \A m \in Operations : m # n => tasks'[m] = tasks[m]
    BY <1>1 DEF TypeOK, TaskStatuses
  <1>3. \A m \in Operations : void(m) => void(m)'
    BY <1>1, <1>2 DEF void, asked
  <1>4. NeedStep
    BY <1>1, <1>3 DEF NeedStep, holds
  <1>5. TypeOK' /\ ActorsInv' /\ TasksInv'
    BY <1>1, <1>2 DEF CapInv, TypeOK, ActorsInv, TasksInv, Current
  <1> QED
    BY <1>1, <1>4, <1>5, QuietStep DEF CapInv

-----------------------------------------------------------------------------
(* The theorem                                                             *)

\* Nothing is leased at first.
LEMMA InitCapInv == Init => CapInv
  <1> SUFFICES ASSUME Init PROVE CapInv
    OBVIOUS
  <1>1. TypeOK
    <2>1. noLease \in Leases /\ absentAIAttempt \in AIAttempts /\ idle \in ActorStates
      BY LocalStates DEF noLease, Leases, absentAIAttempt, AIAttempts, AttemptStatuses,
         DispatchStates, ProviderStatuses
    <2> QED
      BY <2>1 DEF Init, TypeOK
  <1>2. \A x \in Actors : actors[x].pc = "idle"
    BY DEF Init, idle
  <1>3. \A n \in Operations : /\ ~leases[n].live /\ tasks[n] = "none"
                              /\ attempts[n].dispatch = "none"
    BY DEF Init, noLease, absentAIAttempt
  <1>4. \A account \in Providers : Cardinality(counted(account)) <= Limit
    <2>1. \A account \in Providers : counted(account) = {}
      BY <1>3 DEF counted
    <2> QED
      BY <2>1, FS_EmptySet, CapacityConstants
  <1>5. \A n \in Operations : ~needed(n)
    BY <1>2, <1>3 DEF needed, holds, PermitPCs, Actors
  <1> QED
    BY <1>1, <1>2, <1>3, <1>4, <1>5
    DEF CapInv, ActorsInv, TasksInv, CountedWithinLimit, Covered

\* Every step preserves the invariant.
LEMMA NextCapInv == CapInv /\ [Next]_vars => CapInv'
  <1> SUFFICES ASSUME CapInv, [Next]_vars PROVE CapInv'
    OBVIOUS
  <1>1. ASSUME NEW w \in Workers,
               \/ AcquirePermit(w) \/ BeginAIAttempt(w) \/ SubmitDispatch(w)
               \/ DispatchProviderTask(w) \/ ResolveDispatch(w) \/ LoseDispatch(w)
               \/ ReleasePermit(w) \/ RetainPermit(w)
        PROVE  CapInv'
    BY <1>1, AcquirePreserves, BeginPreserves, SubmitPreserves, DispatchPreserves,
       ResolvePreserves, LosePreserves, ReleasePreserves, RetainPreserves
  <1>2. ASSUME NEW r \in Reconcilers,
               \/ PickDueAttempt(r) \/ restoreProviderCapacityForAttempt(r)
               \/ ObserveProviderTask(r) \/ SettleReconciliation(r)
        PROVE  CapInv'
    BY <1>2, PickPreserves, RestorePreserves, ObservePreserves, SettlePreserves
  <1>3. ASSUME NEW x \in Actors,
               ApplyProgress(x) \/ syncProviderCapacityForAttempt(x) \/ Crash(x)
        PROVE  CapInv'
    BY <1>3, ProgressPreserves, SyncPreserves, CrashPreserves
  <1>4. ASSUME NEW n \in Operations, LeaseExpires(n) \/ ProviderTaskEnds(n)
        PROVE  CapInv'
    BY <1>4, ExpiryPreserves, EndPreserves
  <1>5. CASE UNCHANGED vars
    <2>1. LeaseStep
      BY <1>5, KeepLeasesStep DEF vars, CapInv, KeepLeases
    <2>2. NeedStep
      BY <1>5 DEF vars, NeedStep, void, asked, holds
    <2>3. TypeOK' /\ ActorsInv' /\ TasksInv'
      BY <1>5 DEF vars, CapInv, TypeOK, ActorsInv, TasksInv, Current
    <2> QED
      BY <2>1, <2>2, <2>3, QuietStep DEF CapInv
  <1> QED
    BY <1>1, <1>2, <1>3, <1>4, <1>5 DEF Next

\* The attempts an account works on are among the leases it counts.
LEMMA LoadIsCounted ==
    ASSUME CapInv
    PROVE  LoadWithinLimit
  <1> SUFFICES ASSUME NEW account \in Providers
               PROVE  Cardinality({n \in Operations \ dropped :
                          busy(n) /\ attempts[n].provider = account}) <= Limit
    BY DEF LoadWithinLimit
  <1> DEFINE load == {n \in Operations \ dropped : busy(n) /\ attempts[n].provider = account}
  <1>1. load \subseteq counted(account)
    <2> SUFFICES ASSUME NEW n \in Operations \ dropped, busy(n), attempts[n].provider = account
                 PROVE  n \in counted(account)
      OBVIOUS
    <2>1. attempts[n].dispatch # "none"
      BY DEF busy, asked, CapInv, TasksInv, ActorsInv, Current, Actors
    <2>2. ~void(n)
      BY DEF busy, void
    <2>3. needed(n)
      BY <2>1, <2>2 DEF needed
    <2> QED
      BY <2>1, <2>2, <2>3 DEF CapInv, Covered, counted
  <1>2. IsFiniteSet(counted(account)) /\ Cardinality(counted(account)) <= Limit
    BY CapacityConstants, FS_Subset DEF counted, CapInv, CountedWithinLimit
  <1> HIDE DEF load
  <1>3. /\ Cardinality(load) <= Cardinality(counted(account))
        /\ Cardinality(load) \in Nat /\ Cardinality(counted(account)) \in Nat
    BY <1>1, <1>2, FS_Subset, FS_CardinalityType
  <1>4. Cardinality(load) <= Limit
    BY <1>2, <1>3, CapacityConstants
  <1> QED
    BY <1>4 DEF load

\* For any number of operations, workers, reconcilers, accounts and setbacks, no
\* account works on more attempts than its limit but for those whose lease went.
THEOREM LoadIsWithinLimit == Spec => []LoadWithinLimit
  BY InitCapInv, NextCapInv, LoadIsCounted, PTL DEF Spec
=============================================================================
