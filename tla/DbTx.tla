-------------------------------- MODULE DbTx --------------------------------
(***************************************************************************)
(* The per-request transaction context of src/pkg/core/db/context.go: a    *)
(* contextContainer holding the current *sqlx.Tx, BeginTx / CommitTx /     *)
(* RollbackTx, EndTx and WithTx, used by one request that calls WithTx     *)
(* several times in sequence (as handler wrappers do).                     *)
(*                                                                         *)
(* The database side follows database/sql: Commit and Rollback end the    *)
(* transaction whether or not the driver reports an error; the container  *)
(* only forgets the transaction when the call succeeded (lines 145-148,    *)
(* 159-162).                                                               *)
(***************************************************************************)
EXTENDS Naturals, FiniteSets

CONSTANTS
    Calls,        \* number of WithTx calls made by the request
    TxFailures,   \* whether begin/commit/rollback may fail at the driver
    NULL

VARIABLES
    tx,          \* contextContainer.tx: the transaction the context holds
    dbTx,        \* dbTx[k]: state at the database of the transaction of call k
    pending,     \* pending[k]: work done inside the transaction of call k
    committed,   \* calls whose work is committed
    call,        \* the WithTx call being executed
    pc,          \* its step
    doOk,        \* doOk[k]: whether do() of call k returned nil
    result       \* result[k]: the error WithTx returned for call k

vars == <<tx, dbTx, pending, committed, call, pc, doOk, result>>

CallIds == 1..Calls
Results == {"none", "ok", "ErrTxDidBegin", "ErrTxDidNotBegin", "beginErr",
            "doErr", "commitErr"}

(* Whether the driver call of the current step fails.                     *)
DriverFails == IF TxFailures THEN BOOLEAN ELSE {FALSE}

Init ==
    /\ tx = NULL
    /\ dbTx = [k \in CallIds |-> "none"]
    /\ pending = [k \in CallIds |-> FALSE]
    /\ committed = {}
    /\ call = 1
    /\ pc = "begin"
    /\ doOk = [k \in CallIds |-> FALSE]
    /\ result = [k \in CallIds |-> "none"]

(* Mutant of Return: the last call is not recognised as the last         *)
(* (call <= Calls), so a further BeginTx runs past the request's calls.    *)
ReturnOffByOne(err) ==
    /\ result' = [result EXCEPT ![call] = err]
    /\ call' = call + 1
    /\ pc' = IF call <= Calls THEN "begin" ELSE "finished"

(* WithTx returns err for the current call and the request goes on to    *)
(* its next WithTx call.                                                   *)
Return(err) ==
    /\ result' = [result EXCEPT ![call] = err]
    /\ call' = call + 1
    /\ pc' = IF call < Calls THEN "begin" ELSE "finished"

(* WithTx -> BeginTx: refused while the context holds a transaction;     *)
(* otherwise BeginTxx, which may fail, and the container records it.      *)
Begin ==
    /\ pc = "begin"
    /\ IF tx # NULL
       THEN /\ Return("ErrTxDidBegin")
            /\ UNCHANGED <<tx, dbTx>>
       ELSE \E fail \in DriverFails :
              IF fail
              THEN /\ Return("beginErr")
                   /\ UNCHANGED <<tx, dbTx>>
              ELSE /\ tx' = call
                   /\ dbTx' = [dbTx EXCEPT ![call] = "open"]
                   /\ pc' = "do"
                   /\ UNCHANGED <<call, result>>
    /\ UNCHANGED <<pending, committed, doOk>>

(* do(): the work runs on d.DB(), i.e. inside the context's transaction,  *)
(* and returns nil or an error (possibly after writing).                  *)
Do ==
    /\ pc = "do"
    /\ \E ok \in BOOLEAN, wrote \in BOOLEAN :
        /\ pending' = [pending EXCEPT ![tx] = wrote]
        /\ doOk' = [doOk EXCEPT ![call] = ok]
    /\ pc' = "end"
    /\ UNCHANGED <<tx, dbTx, committed, call, result>>

(* Mutant of EndRollback: returning do()'s error without rolling back.  *)
EndRollbackSkipped ==
    /\ pc = "end"
    /\ ~doOk[call]
    /\ Return("doErr")
    /\ UNCHANGED <<tx, dbTx, pending, committed, doOk>>

(* EndTx with an error: RollbackTx; a rollback error is only logged and   *)
(* the error of do() is returned.                                          *)
EndRollback ==
    /\ pc = "end"
    /\ ~doOk[call]
    /\ IF tx = NULL
       THEN /\ Return("doErr")
            /\ UNCHANGED <<tx, dbTx>>
       ELSE \E fail \in DriverFails :
              /\ dbTx' = [dbTx EXCEPT ![tx] = "rolledback"]
              /\ tx' = IF fail THEN tx ELSE NULL
              /\ Return("doErr")
    /\ UNCHANGED <<pending, committed, doOk>>

(* EndTx without an error: CommitTx; its error is WithTx's result.        *)
EndCommit ==
    /\ pc = "end"
    /\ doOk[call]
    /\ IF tx = NULL
       THEN /\ Return("ErrTxDidNotBegin")
            /\ UNCHANGED <<tx, dbTx, committed>>
       ELSE \E fail \in DriverFails :
              IF fail
              THEN /\ dbTx' = [dbTx EXCEPT ![tx] = "rolledback"]
                   /\ Return("commitErr")
                   /\ UNCHANGED <<tx, committed>>
              ELSE /\ dbTx' = [dbTx EXCEPT ![tx] = "committed"]
                   /\ committed' = IF pending[tx] THEN committed \cup {tx}
                                                  ELSE committed
                   /\ tx' = NULL
                   /\ Return("ok")
    /\ UNCHANGED <<pending, doOk>>

Next == Begin \/ Do \/ EndRollback \/ EndCommit

Spec == Init /\ [][Next]_vars

TypeOK ==
    /\ tx \in CallIds \cup {NULL}
    /\ dbTx \in [CallIds -> {"none", "open", "committed", "rolledback"}]
    /\ pending \in [CallIds -> BOOLEAN]
    /\ committed \subseteq CallIds
    /\ call \in 1..Calls + 1
    /\ pc \in {"begin", "do", "end", "finished"}
    /\ doOk \in [CallIds -> BOOLEAN]
    /\ result \in [CallIds -> Results]

(* No database transaction is left open once WithTx has returned: every  *)
(* path through EndTx ends the transaction it began.                      *)
TxEndedWhenWithTxReturns ==
    \A k \in CallIds : result[k] # "none" => dbTx[k] # "open"

(* HasTx/EnsureTx tell the truth: a transaction held by the context is    *)
(* still open at the database (SafeTxContext "check existence of          *)
(* transaction", line 33).                                                 *)
ContextTxIsOpen ==
    tx # NULL => dbTx[tx] = "open"

=============================================================================
