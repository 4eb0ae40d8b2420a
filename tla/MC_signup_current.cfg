CONSTANTS
    Signups = {r1, r2}
    r1 = r1
    r2 = r2
    Normalize <- MCNormalize
    Candidates <- MCCandidates
    Legacy = FALSE
    HistoryEnabled = TRUE
    StoreFailures = TRUE
    NilWrapIsNil = FALSE
    Passwords = {p0, p1}
    p0 = p0
    p1 = p1
    SignupPassword = p0
    Changes = {c1, c2}
    c1 = c1
    c2 = c2
    l1 = l1
    ChangeTarget <- MCChangeTarget
    NewPassword <- MCNewPassword
    Logins = {l1}
    LoginID <- MCLoginID
    NULL = NULL
SPECIFICATION Spec
\* Each sign-up request is handled once; the system stops when both are done.
CHECK_DEADLOCK FALSE
INVARIANTS
    TypeOK
    AlreadyUsedIsReal
    HistoryHasCurrent
PROPERTIES
    RegistryRefinement
    SignupsComplete
