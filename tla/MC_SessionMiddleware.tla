------------------------ MODULE MC_SessionMiddleware ------------------------
(* Model-checking instance of SessionMiddleware: two clients with         *)
(* different session policies, two session IDs, one user, one request   *)
(* racing logins, logouts and a clock of four instants.                 *)
EXTENDS SessionMiddleware, TLC

CONSTANTS c1, c2

(* c1: access tokens live 2 ticks, idle timeout 1 tick, refresh enabled.  *)
(* c2: no limits, refresh tokens disabled.                                *)
MCClientConfigs ==
    (c1 :> [atLife |-> 2, idle |-> 1, rtLife |-> 0,
            rtDisabled |-> FALSE, disabled |-> FALSE])
    @@ (c2 :> [atLife |-> 0, idle |-> 0, rtLife |-> 0,
               rtDisabled |-> TRUE, disabled |-> FALSE])

(* Middleware with both resolvers, cookie first (the intended wiring).    *)
ChainBoth == <<"idp", "at">>

(* newResolveHandler (part_001) wires only IDPSessionResolver.            *)
ChainResolveHandler == <<"idp", NULL>>

(* Any cookie and any header.                                            *)
AllCredentials == [Roles -> Presented]

=============================================================================
