CONSTANTS
    TxFailures = TRUE
    NULL = NULL
SPECIFICATION Spec
\* One request: the model stops once ServeHTTP has returned.
CHECK_DEADLOCK FALSE
INVARIANTS
    TypeOK
    UnansweredOnlyWithoutWork
