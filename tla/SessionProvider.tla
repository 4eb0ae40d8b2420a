--------------------------- MODULE SessionProvider ---------------------------
(***************************************************************************)
(* The session provider and the stores behind it (spec.md 4.1-4.3): the    *)
(* Session Store keyed by session ID, the Access Event Store, the token    *)
(* algorithm and the expiry policy.  Every operation here is one atomic    *)
(* call of the provider; the implementation (provider_impl.go and the      *)
(* redis stores) is not under src/, so the definitions follow the spec and *)
(* the unit test src/pkg/core/auth/session/provider_impl_test.go.          *)
(***************************************************************************)
EXTENDS Integers, FiniteSets

CONSTANTS
    SessionIds,     \* IDs the provider may generate (UUIDs: never reused)
    Users,          \* owners of sessions
    Clients,        \* API client IDs
    ClientConfigs,  \* [client -> config] for the configured clients only
    MaxTime,        \* last instant of the clock
    NULL            \* absent store entry / nil

VARIABLES
    sessions,   \* Session Store: sessions[id] is a Session record or NULL
    used,       \* IDs generated so far (uniqueness of generated IDs)
    events,     \* Access Event Store: events[id] = number of events recorded
    now         \* the time source

Kinds == {"access", "refresh"}

(* A token is the session ID joined to a secret (4.1).  The model's       *)
(* secrets are per kind: "A" is the access secret and "R" the refresh      *)
(* secret of a session; "" is the empty secret, "X" a wrong one.           *)
Secrets == {"A", "R", "X", ""}
Token == [id : SessionIds, secret : Secrets]
NoCred == [id |-> NULL, secret |-> ""]   \* no credential presented

Config == [atLife : Nat, idle : Nat, rtLife : Nat,
           rtDisabled : BOOLEAN, disabled : BOOLEAN]

Session == [client : Clients, user : Users,
            accessToken : {"A"}, refreshToken : {"R", ""},
            createdAt : 0..MaxTime, accessedAt : 0..MaxTime,
            atCreatedAt : 0..MaxTime]

ASSUME DOMAIN ClientConfigs \subseteq Clients
ASSUME \A c \in DOMAIN ClientConfigs : ClientConfigs[c] \in Config

(* A client whose config is present and not disabled.                     *)
ClientOK(c) == c \in DOMAIN ClientConfigs /\ ~ClientConfigs[c].disabled

(* Constant-time compare of the presented secret with the stored field of *)
(* the requested kind; an empty stored or presented secret never matches. *)
SecretMatches(s, tok, kind) ==
    LET stored == IF kind = "access" THEN s.accessToken ELSE s.refreshToken
    IN /\ tok.secret # ""
       /\ stored # ""
       /\ tok.secret = stored

(* Expiry policy (4.3): client valid, idle timeout, and the lifetime of   *)
(* the kind of token presented; a limit of 0 means "no limit" for that    *)
(* dimension only.                                                         *)
IsValid(s, kind, t) ==
    LET cfg == ClientConfigs[s.client]
        Within(from, limit) == limit = 0 \/ t - from <= limit
    IN /\ ClientOK(s.client)
       /\ Within(s.accessedAt, cfg.idle)
       /\ IF kind = "access" THEN Within(s.atCreatedAt, cfg.atLife)
                             ELSE Within(s.createdAt, cfg.rtLife)

(* GetByToken (4.2): the ID is looked up first, then the secret compared; *)
(* every rejection is the same NULL (ErrSessionNotFound).                 *)
GetByToken(tok, kind, client) ==
    IF /\ tok.id \in SessionIds
       /\ sessions[tok.id] # NULL
       /\ SecretMatches(sessions[tok.id], tok, kind)
       /\ sessions[tok.id].client = client
       /\ IsValid(sessions[tok.id], kind, now)
    THEN sessions[tok.id]
    ELSE NULL

(* List (4.2): the non-expired sessions of a user, by ID.                 *)
List(u) == {id \in SessionIds : /\ sessions[id] # NULL
                                /\ sessions[id].user = u
                                /\ IsValid(sessions[id], "access", now)}

-----------------------------------------------------------------------------

Init ==
    /\ sessions = [id \in SessionIds |-> NULL]
    /\ used = {}
    /\ events = [id \in SessionIds |-> 0]
    /\ now = 0

(* Mutant of Create: the refresh-disabled condition applied to the       *)
(* access token field.                                                    *)
CreateSwapsTokenCondition(u, c) ==
    /\ ClientOK(c)
    /\ \E id \in SessionIds \ used :
        /\ sessions' = [sessions EXCEPT ![id] =
              [client |-> c, user |-> u,
               accessToken |-> IF ClientConfigs[c].rtDisabled THEN "" ELSE "A",
               refreshToken |-> IF ClientConfigs[c].rtDisabled THEN "" ELSE "R",
               createdAt |-> now, accessedAt |-> now, atCreatedAt |-> now]]
        /\ used' = used \cup {id}
        /\ events' = [events EXCEPT ![id] = @ + 1]
    /\ UNCHANGED now

(* Create(userID, principalID) for the request's client: a fresh ID, an   *)
(* access token, a refresh token unless the client disables it, all       *)
(* timestamps = now; the session is saved and the access event recorded. *)
Create(u, c) ==
    /\ ClientOK(c)
    /\ \E id \in SessionIds \ used :
        /\ sessions' = [sessions EXCEPT ![id] =
              [client |-> c, user |-> u, accessToken |-> "A",
               refreshToken |-> IF ClientConfigs[c].rtDisabled THEN "" ELSE "R",
               createdAt |-> now, accessedAt |-> now, atCreatedAt |-> now]]
        /\ used' = used \cup {id}
        /\ events' = [events EXCEPT ![id] = @ + 1]
    /\ UNCHANGED now

(* Invalidate(sessionID): delete if present; idempotent.                  *)
Invalidate(id) ==
    /\ sessions' = [sessions EXCEPT ![id] = NULL]
    /\ UNCHANGED <<used, events, now>>

(* The time source advances.                                              *)
Tick ==
    /\ now < MaxTime
    /\ now' = now + 1
    /\ UNCHANGED <<sessions, used, events>>

TypeOK ==
    /\ sessions \in [SessionIds -> Session \cup {NULL}]
    /\ used \subseteq SessionIds
    /\ events \in [SessionIds -> Nat]
    /\ now \in 0..MaxTime

=============================================================================
