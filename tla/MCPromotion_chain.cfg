SPECIFICATION Spec
CONSTANTS
    Reporter = {r1, r2}
    Advancer = {p1, p2}
    InPlay = {"authz"}
    Reviewer = {v1, v2}
    MaxCalls = 3
    MaxRep = 2
    MaxCrashes = 1
INVARIANTS
    ValidatedIsReproduced
    FailureIsNotRejection
    ProposalHasChain
PROPERTIES
    ImplementsAuthority
    ReservedRunSettles
CHECK_DEADLOCK FALSE
