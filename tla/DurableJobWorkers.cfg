SPECIFICATION Spec

CONSTANTS
    w1 = w1
    w2 = w2
    r1 = r1
    p1 = p1
    p2 = p2
    NoProvider = NoProvider
    Workers = {w1, w2}
    Reconcilers = {r1}
    Providers = {p1}
    MaxClaims = 2
    MaxVersion = 4
    MaxSetbacks = 1

SYMMETRY Symmetry

\* A finished job leaves nothing to do.
CHECK_DEADLOCK FALSE

INVARIANTS
    TypeOK
    JobVersionNamesRow
    AttemptVersionNamesRow
    SubmissionExclusive
PROPERTIES
    LateAnswersFenced
    BoundTaskNeverResubmitted
    ProvenUnlessOvertaken
    ObservationsNeverGoBack
