CONSTANTS
    SessionIds = {s1, s2}
    Users = {u1}
    Clients = {c1, c2}
    c1 = c1
    c2 = c2
    ClientConfigs <- MCClientConfigs
    MaxTime = 3
    NULL = NULL
    Requests = {r1}
    ResolverChain <- ChainBoth
    StoreFailures = TRUE
    UserDeletion = FALSE
    Credentials <- AllCredentials
SPECIFICATION Spec
INVARIANTS
    TypeOK
    TriStateOutcome
    PanicOnlyFromKnownCauses
