-------------------------- MODULE PrincipalRegistry --------------------------
(***************************************************************************)
(* What password sign-up promises, seen from the committed database: a    *)
(* sign-up either claims every unique login-ID key it asked for, together *)
(* with its password-history entry when history is enabled, or claims     *)
(* nothing; a key belongs to at most one user.  This is the abstract       *)
(* specification that PasswordPrincipal (CreatePrincipalsByLoginID run     *)
(* inside WithTx against PostgreSQL) is checked to implement.             *)
(***************************************************************************)
EXTENDS FiniteSets

CONSTANTS
    Signups,         \* sign-up requests; each creates its own user
    UniqueKeys,      \* unique keys of provider_password rows
    Choices,         \* Choices[r]: the key sets request r may ask for
    HistoryEnabled,  \* password history configured
    NULL

VARIABLES
    owner,        \* owner[k]: the user whose committed principal holds key k
    withHistory   \* users with a committed password-history entry

regVars == <<owner, withHistory>>

Init ==
    /\ owner = [k \in UniqueKeys |-> NULL]
    /\ withHistory = {}

(* A sign-up commits all its keys at once, only if none is taken.         *)
SignUp(r, ks) ==
    /\ \A k \in UniqueKeys : owner[k] # r
    /\ \A k \in ks : owner[k] = NULL
    /\ owner' = [k \in UniqueKeys |-> IF k \in ks THEN r ELSE owner[k]]
    /\ withHistory' = IF HistoryEnabled THEN withHistory \cup {r}
                                        ELSE withHistory

Next == \E r \in Signups : \E ks \in Choices[r] : SignUp(r, ks)

Spec == Init /\ [][Next]_regVars

====
