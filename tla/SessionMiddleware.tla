-------------------------- MODULE SessionMiddleware --------------------------
(***************************************************************************)
(* The session resolution middleware of                                    *)
(* src/pkg/auth/dependency/auth/session_middleware.go, run by concurrent   *)
(* requests against the shared Session Store, Access Event Store and user  *)
(* record store, while other requests log in (Create), log out             *)
(* (Invalidate) and time passes.                                           *)
(*                                                                         *)
(* Each request is one goroutine: Middleware.Handle -> resolve ->          *)
(* db.ReadOnly -> resolveSession (the resolver chain, one resolver per     *)
(* step) -> GetAuth -> RecordAccess -> outcome.  A resolver that finds a  *)
(* session writes back the copy it read with the new access time (Access) *)
(* in a later step, so every other actor may run between the read and the *)
(* write.                                                                  *)
(***************************************************************************)
EXTENDS Integers, Sequences, FiniteSets

CONSTANTS
    SessionIds, Users, Clients, ClientConfigs, MaxTime, NULL,
    Requests,        \* concurrent requests (goroutines)
    ResolverChain,   \* the resolvers wired into the middleware, in order:
                     \* "idp" (cookie), "at" (header) or NULL (nil field)
    StoreFailures,   \* whether store calls may fail (unreachable, timeout)
    UserDeletion,    \* whether user records may be deleted meanwhile
    Credentials      \* the cookie/header combinations requests present

VARIABLES
    sessions, used, events, now,   \* the provider's stores and clock
    users,                         \* user records (authinfo store)
    req                            \* per-request state

P == INSTANCE SessionProvider

vars == <<sessions, used, events, now, users, req>>

Roles == {"idp", "at"}
Outcomes == {"authenticated", "invalid", "anonymous", "panic"}

(* What a client can present as a cookie or a header: nothing, or the     *)
(* access or refresh token of some session.  Wrong, empty and malformed   *)
(* secrets are covered by the TokenAlgorithm run.                         *)
Presented == {P!NoCred} \cup [id : SessionIds, secret : {"A", "R"}]

ASSUME Credentials \subseteq [Roles -> Presented]
ASSUME \A i \in DOMAIN ResolverChain : ResolverChain[i] \in Roles \cup {NULL}

Request == [pc : {"idle", "resolve", "access", "getauth", "record",
                  "handle", "done"},
            client : Clients,
            cred : [Roles -> Presented],
            i : 1..Len(ResolverChain) + 1,
            isInvalid : BOOLEAN,
            sid : SessionIds \cup {NULL},
            copy : P!Session \cup {NULL},
            readAt : 0..MaxTime,
            err : {"none", "invalid", "fatal"},
            failed : BOOLEAN,
            outcome : Outcomes \cup {NULL}]

IdleRequest ==
    [pc |-> "idle", client |-> CHOOSE c \in Clients : TRUE,
     cred |-> [x \in Roles |-> P!NoCred], i |-> 1, isInvalid |-> FALSE,
     sid |-> NULL, copy |-> NULL, readAt |-> 0, err |-> "none",
     failed |-> FALSE, outcome |-> NULL]

Init ==
    /\ P!Init
    /\ users = Users
    /\ req = [r \in Requests |-> IdleRequest]

(* Whether a store call of the current step fails.                        *)
Fails == IF StoreFailures THEN BOOLEAN ELSE {FALSE}

-----------------------------------------------------------------------------
(* A request arrives with its client (API key) and credentials.           *)
Arrive(r) ==
    /\ req[r].pc = "idle"
    /\ \E c \in Clients, cred \in Credentials :
          req' = [req EXCEPT ![r] = [@ EXCEPT !.pc = "resolve",
                                              !.client = c, !.cred = cred]]
    /\ UNCHANGED <<sessions, used, events, now, users>>

(* Mutant of ResolveStep: isInvalid assigned per iteration                *)
(* (isInvalid = errors.Is(err, ErrInvalidSession)) instead of latched.     *)
ResolveStepResetsInvalid(r) ==
    /\ req[r].pc = "resolve"
    /\ req[r].i <= Len(ResolverChain)
    /\ ResolverChain[req[r].i] # NULL
    /\ LET tok   == req[r].cred[ResolverChain[req[r].i]]
           found == P!GetByToken(tok, "access", req[r].client)
       IN \E fail \in Fails :
          req' = [req EXCEPT ![r] =
                   CASE tok = P!NoCred ->
                          [@ EXCEPT !.i = @ + 1, !.isInvalid = FALSE]
                     [] fail ->
                          [@ EXCEPT !.err = "fatal", !.failed = TRUE,
                                    !.pc = "handle"]
                     [] found = NULL ->
                          [@ EXCEPT !.isInvalid = TRUE, !.i = @ + 1]
                     [] OTHER ->
                          [@ EXCEPT !.sid = tok.id, !.copy = found,
                                    !.readAt = now, !.pc = "access"]]
    /\ UNCHANGED <<sessions, used, events, now, users>>

(* Mutant of ResolveStep: the resolver passes the store's not-found error *)
(* on as is instead of mapping it to ErrInvalidSession.                    *)
ResolveStepNotFoundIsFatal(r) ==
    /\ req[r].pc = "resolve"
    /\ req[r].i <= Len(ResolverChain)
    /\ ResolverChain[req[r].i] # NULL
    /\ LET tok   == req[r].cred[ResolverChain[req[r].i]]
           found == P!GetByToken(tok, "access", req[r].client)
       IN \E fail \in Fails :
          req' = [req EXCEPT ![r] =
                   CASE tok = P!NoCred ->
                          [@ EXCEPT !.i = @ + 1]
                     [] fail \/ found = NULL ->
                          [@ EXCEPT !.err = "fatal", !.failed = fail,
                                    !.pc = "handle"]
                     [] OTHER ->
                          [@ EXCEPT !.sid = tok.id, !.copy = found,
                                    !.readAt = now, !.pc = "access"]]
    /\ UNCHANGED <<sessions, used, events, now, users>>

(* resolveSession: one iteration of the resolver loop.  The resolver      *)
(* (spec 4.4) returns nil when its credential is absent, ErrInvalidSession *)
(* when GetByToken finds nothing, a fatal error when the store fails, and *)
(* otherwise the session, after Access (the next step).                   *)
ResolveStep(r) ==
    /\ req[r].pc = "resolve"
    /\ req[r].i <= Len(ResolverChain)
    /\ ResolverChain[req[r].i] # NULL
    /\ LET tok   == req[r].cred[ResolverChain[req[r].i]]
           found == P!GetByToken(tok, "access", req[r].client)
       IN \E fail \in Fails :
          req' = [req EXCEPT ![r] =
                   CASE tok = P!NoCred ->
                          [@ EXCEPT !.i = @ + 1]
                     [] fail ->
                          [@ EXCEPT !.err = "fatal", !.failed = TRUE,
                                    !.pc = "handle"]
                     [] found = NULL ->
                          [@ EXCEPT !.isInvalid = TRUE, !.i = @ + 1]
                     [] OTHER ->
                          [@ EXCEPT !.sid = tok.id, !.copy = found,
                                    !.readAt = now, !.pc = "access"]]
    /\ UNCHANGED <<sessions, used, events, now, users>>

(* A nil resolver in the chain: calling Resolve on a nil interface value  *)
(* is a run-time panic, which Handle does not recover.                    *)
NilResolver(r) ==
    /\ req[r].pc = "resolve"
    /\ req[r].i <= Len(ResolverChain)
    /\ ResolverChain[req[r].i] = NULL
    /\ req' = [req EXCEPT ![r].outcome = "panic", ![r].pc = "done"]
    /\ UNCHANGED <<sessions, used, events, now, users>>

(* The loop ran out of resolvers: ErrInvalidSession if one of them said   *)
(* invalid, otherwise no session and no error; resolve returns early.     *)
ResolveExhausted(r) ==
    /\ req[r].pc = "resolve"
    /\ req[r].i = Len(ResolverChain) + 1
    /\ req' = [req EXCEPT ![r].err = IF req[r].isInvalid THEN "invalid"
                                                         ELSE "none",
                          ![r].pc = "handle"]
    /\ UNCHANGED <<sessions, used, events, now, users>>

(* Access inside the resolver (spec 4.2): the copy read by GetByToken,   *)
(* with the new access time, is persisted with the store's per-key         *)
(* conditional update (spec 5), and the access event is appended.  If the *)
(* record was deleted (logout) since GetByToken, the update finds nothing  *)
(* and Access fails; spec 7 makes an Access failure fatal.                 *)
AccessWrite(r) ==
    LET id == req[r].sid IN
    /\ req[r].pc = "access"
    /\ \/ /\ TRUE \in Fails
          /\ req' = [req EXCEPT ![r].err = "fatal", ![r].failed = TRUE,
                                ![r].pc = "handle"]
          /\ UNCHANGED <<sessions, events>>
       \/ /\ sessions[id] = NULL
          /\ req' = [req EXCEPT ![r].err = "fatal", ![r].pc = "handle"]
          /\ UNCHANGED <<sessions, events>>
       \/ /\ sessions[id] # NULL
          /\ sessions' = [sessions EXCEPT ![id] =
                            [req[r].copy EXCEPT !.accessedAt = req[r].readAt]]
          /\ events' = [events EXCEPT ![id] = @ + 1]
          /\ req' = [req EXCEPT ![r].pc = "getauth"]
    /\ UNCHANGED <<used, now, users>>

(* resolve: the owner's user record is loaded; a missing record is a     *)
(* plain error (not ErrInvalidSession).                                   *)
GetAuth(r) ==
    /\ req[r].pc = "getauth"
    /\ \E fail \in Fails :
        req' = [req EXCEPT ![r] =
                 IF fail \/ req[r].copy.user \notin users
                 THEN [@ EXCEPT !.err = "fatal", !.failed = fail,
                                !.pc = "handle"]
                 ELSE [@ EXCEPT !.pc = "record"]]
    /\ UNCHANGED <<sessions, used, events, now, users>>

(* resolve: the session's LastAccess event is recorded.                   *)
RecordAccessStep(r) ==
    /\ req[r].pc = "record"
    /\ \E fail \in Fails :
        IF fail
        THEN /\ req' = [req EXCEPT ![r].err = "fatal", ![r].failed = TRUE,
                                   ![r].pc = "handle"]
             /\ UNCHANGED events
        ELSE /\ events' = [events EXCEPT ![req[r].sid] = @ + 1]
             /\ req' = [req EXCEPT ![r].pc = "handle"]
    /\ UNCHANGED <<sessions, used, now, users>>

(* Mutant of Handle: err != nil tested before errors.Is(err,             *)
(* ErrInvalidSession), so an invalid session panics.                      *)
HandleFatalFirst(r) ==
    /\ req[r].pc = "handle"
    /\ req' = [req EXCEPT ![r].pc = "done",
                ![r].outcome = CASE req[r].err # "none"  -> "panic"
                                 [] req[r].sid # NULL    -> "authenticated"
                                 [] OTHER                -> "anonymous"]
    /\ UNCHANGED <<sessions, used, events, now, users>>

(* Handle: the tri-state outcome, or a panic for any other error.         *)
Handle(r) ==
    /\ req[r].pc = "handle"
    /\ req' = [req EXCEPT ![r].pc = "done",
                ![r].outcome = CASE req[r].err = "invalid" -> "invalid"
                                 [] req[r].err = "fatal"   -> "panic"
                                 [] req[r].sid # NULL      -> "authenticated"
                                 [] OTHER                  -> "anonymous"]
    /\ UNCHANGED <<sessions, used, events, now, users>>

-----------------------------------------------------------------------------
(* Other actors: logins, logouts, user deletion and the clock.            *)
DeleteUser ==
    /\ UserDeletion
    /\ \E u \in users : users' = users \ {u}
    /\ UNCHANGED <<sessions, used, events, now, req>>

Environment ==
    \/ /\ \/ \E u \in users, c \in Clients : P!Create(u, c)
          \/ \E id \in SessionIds : P!Invalidate(id)
          \/ P!Tick
       /\ UNCHANGED <<users, req>>
    \/ DeleteUser

RequestStep(r) ==
    \/ ResolveStep(r) \/ NilResolver(r) \/ ResolveExhausted(r)
    \/ AccessWrite(r) \/ GetAuth(r) \/ RecordAccessStep(r) \/ Handle(r)

Next ==
    \/ Environment
    \/ \E r \in Requests : Arrive(r) \/ RequestStep(r)

(* A request goroutine runs to completion: every store call returns       *)
(* (the store client enforces timeouts, spec 5).  Arrivals, logins,       *)
(* logouts and the clock are not forced to happen.                        *)
Spec == Init /\ [][Next]_vars /\ \A r \in Requests : WF_vars(RequestStep(r))

-----------------------------------------------------------------------------
TypeOK ==
    /\ P!TypeOK
    /\ users \subseteq Users
    /\ req \in [Requests -> Request]

(* The resolvers actually wired into the chain.                           *)
WiredRoles == {ResolverChain[i] : i \in DOMAIN ResolverChain} \ {NULL}

(* Credentials a request presented to a wired resolver.                  *)
PresentedRoles(r) == {x \in WiredRoles : req[r].cred[x] # P!NoCred}

(* The tri-state outcome of Handle/resolveSession (spec 4.4): a request   *)
(* is anonymous exactly when it presented no credential, and one that is  *)
(* authenticated holds a session of its own client named by one of the    *)
(* tokens it presented.  In particular a rejected cookie followed by an   *)
(* absent header is "invalid", never "anonymous".                         *)
TriStateOutcome ==
    \A r \in Requests :
        req[r].outcome \in {"authenticated", "invalid", "anonymous"} =>
          /\ (req[r].outcome = "anonymous") = (PresentedRoles(r) = {})
          /\ req[r].outcome = "authenticated" =>
               /\ req[r].copy.client = req[r].client
               /\ req[r].sid \in {req[r].cred[x].id : x \in PresentedRoles(r)}

(* Handle panics only for errors that are not domain rejections: a        *)
(* request ends in a panic only if one of its store calls failed.         *)
NoPanicWithoutStoreFailure ==
    \A r \in Requests : req[r].outcome = "panic" => req[r].failed

(* The causes of a panic, exactly: a request ends in a panic only after a *)
(* store failure, on reaching a nil resolver in the chain (resolveSession *)
(* calls Resolve on a nil interface), when the user owning its session    *)
(* has been deleted (GetAuth's not-found is not ErrInvalidSession), or    *)
(* when its session was logged out between GetByToken and Access (the     *)
(* conditional update fails; logout is final, so the record is still      *)
(* gone).  Any other path from a domain rejection to panic(err) in Handle *)
(* violates it.                                                            *)
PanicOnlyFromKnownCauses ==
    \A r \in Requests : req[r].outcome = "panic" =>
        \/ req[r].failed
        \/ /\ req[r].i <= Len(ResolverChain)
           /\ ResolverChain[req[r].i] = NULL
        \/ /\ req[r].copy # NULL
           /\ \/ req[r].copy.user \notin users
              \/ sessions[req[r].sid] = NULL

=============================================================================
