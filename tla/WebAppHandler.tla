---------------------------- MODULE WebAppHandler ----------------------------
(***************************************************************************)
(* ServeHTTP of the web app's LoginHandler and SettingsIdentityHandler    *)
(* (src/unnamed/part_001 47-91 and 116-149), composed with the request's  *)
(* transaction context (DbTx, one WithTx call).  Inside WithTx the        *)
(* handler dispatches on method and form, calls the web app provider,     *)
(* writes the response through the returned writeResponse(err) and        *)
(* returns err; EndTx then commits or rolls back.  ServeHTTP drops what   *)
(* WithTx returns.  The provider's work is a write that may or may not    *)
(* happen, and may fail.                                                   *)
(***************************************************************************)
EXTENDS Naturals

CONSTANTS
    TxFailures,   \* begin/commit/rollback may fail at the driver
    NULL

VARIABLES
    tx, dbTx, pending, committed, call, pc, doOk, result,   \* DbTx
    handler,   \* which handler serves the request
    form,      \* the parsed request: [method, action]
    response   \* what was written to the ResponseWriter

dbVars == <<tx, dbTx, pending, committed, call, pc, doOk, result>>
vars == <<dbVars, handler, form, response>>

D == INSTANCE DbTx WITH Calls <- 1

Handlers == {"login", "settings"}
Methods == {"GET", "POST", "OPTIONS"}
(* x_idp_id present / absent for login; x_action for the settings page.   *)
Actions == [login |-> {"idp", "idpNoProvider", "none"},
            settings |-> {"link", "unlink", "login_id", "none"}]
Responses == {"none", "success", "error"}

Init ==
    /\ D!Init
    /\ handler = NULL
    /\ form = NULL
    /\ response = "none"

(* ServeHTTP: r.ParseForm(); on error a 500 is written and nothing else   *)
(* happens, otherwise WithTx begins (the DbTx Begin step follows).        *)
Receive ==
    /\ handler = NULL
    /\ \E h \in Handlers, m \in Methods, parsed \in BOOLEAN :
         /\ handler' = h
         /\ \E a \in Actions[h] : form' = [method |-> m, action |-> a]
         /\ IF parsed
            THEN UNCHANGED <<response, dbVars>>
            ELSE /\ response' = "error"
                 /\ pc' = "finished"
                 /\ UNCHANGED <<tx, dbTx, pending, committed, call, doOk, result>>

(* Whether the dispatch inside WithTx reaches a provider call: GET, or    *)
(* POST with a form the handler knows; anything else returns nil without *)
(* writing a response.                                                     *)
Dispatched ==
    \/ form.method = "GET"
    \/ /\ form.method = "POST"
       /\ handler = "login" \/ form.action # "none"

(* Mutant of Handle: a branch that returns the provider's error without    *)
(* calling writeResponse(err).                                              *)
HandleDropsErrorResponse ==
    /\ handler # NULL
    /\ D!Do
    /\ IF ~Dispatched
       THEN /\ doOk'[1]
            /\ ~pending'[1]
            /\ UNCHANGED response
       ELSE response' = IF doOk'[1] THEN "success" ELSE response
    /\ UNCHANGED <<handler, form>>

(* do(): the provider call and writeResponse(err), then return err.  The  *)
(* login form with x_idp_id and no OAuth provider writes a 404 and fails. *)
Handle ==
    /\ handler # NULL
    /\ D!Do
    /\ IF ~Dispatched
       THEN /\ doOk'[1]
            /\ ~pending'[1]
            /\ UNCHANGED response
       ELSE IF handler = "login" /\ form.action = "idpNoProvider" /\ form.method = "POST"
            THEN /\ ~doOk'[1]
                 /\ ~pending'[1]
                 /\ response' = "error"
            ELSE response' = IF doOk'[1] THEN "success" ELSE "error"
    /\ UNCHANGED <<handler, form>>

Next ==
    \/ Receive
    \/ handler # NULL /\ (D!Begin \/ D!EndRollback \/ D!EndCommit)
                      /\ UNCHANGED <<handler, form, response>>
    \/ Handle

Spec == Init /\ [][Next]_vars

TypeOK ==
    /\ D!TypeOK
    /\ handler \in Handlers \cup {NULL}
    /\ response \in Responses

-----------------------------------------------------------------------------

(* Work the user was told succeeded is in the database: when the provider *)
(* wrote and writeResponse(nil) showed success, the commit went through.  *)
(* writeResponse runs before CommitTx, and ServeHTTP drops its error.     *)
SuccessPageOnlyIfCommitted ==
    pc = "finished" /\ response = "success" /\ pending[1] => committed = {1}

(* ServeHTTP writes nothing only when no work ran: WithTx's BeginTx failed *)
(* (its error is dropped by ServeHTTP) or the request matched no branch of *)
(* do() (do returns nil).  Every request that reached a provider call, or  *)
(* failed ParseForm, has a response written by the handler.                *)
UnansweredOnlyWithoutWork ==
    pc = "finished" /\ response = "none" => dbTx[1] = "none" \/ ~Dispatched

====
