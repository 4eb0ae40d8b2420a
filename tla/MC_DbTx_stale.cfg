CONSTANTS
    Calls <- MCCalls
    TxFailures = TRUE
    NULL = NULL
SPECIFICATION Spec
CHECK_DEADLOCK FALSE
INVARIANTS
    ContextTxIsOpen
