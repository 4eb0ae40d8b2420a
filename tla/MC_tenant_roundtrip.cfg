CONSTANTS
    Docs <- MCDocs
    EnvOptions <- MCEnvOptions
    ABSENT = ABSENT
    REJECTED = REJECTED
    NULL = NULL
SPECIFICATION Spec
\* One configuration is built, stored, scanned and forwarded; then the model stops.
CHECK_DEADLOCK FALSE
INVARIANTS
    RoundTripLossless
