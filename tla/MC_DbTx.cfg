CONSTANTS
    Calls <- MCCalls
    TxFailures = TRUE
    NULL = NULL
SPECIFICATION Spec
\* The request ends after its last WithTx call.
CHECK_DEADLOCK FALSE
INVARIANTS
    TypeOK
    TxEndedWhenWithTxReturns
