--------------------------- MODULE MC_TenantConfig ---------------------------
(* Documents and environments for TenantConfig: every key absent or set,  *)
(* with values that exercise each default and each check of Validate.     *)
EXTENDS TenantConfig

Google(id) == [id |-> id, type |-> "google", scope |-> ""]
Facebook(id) == [id |-> id, type |-> "facebook", scope |-> ""]

MCDocs ==
    [version : {ABSENT, "1"},
     appName : {"app"},
     databaseURL : {ABSENT, ""},
     apiKey : {ABSENT, "k1"},
     masterKey : {ABSENT, "k1"},
     urlPrefix : {ABSENT, <<"u", "/", "/">>},
     origin : {ABSENT, ""},
     loginIDKeys : {ABSENT,
                    "email" :> [minimum |-> NULL, maximum |-> 0],
                    "extra" :> [minimum |-> 2, maximum |-> NULL]},
     tokenStoreSecret : {ABSENT, "s"},
     forgotPasswordURLPrefix : {ABSENT},
     verifyLoginIDKeys : {ABSENT, {"extra"}},
     oauthProviders : {ABSENT, <<Google(""), Google("google")>>,
                       <<Google(""), Facebook("")>>}]

MCEnvOptions ==
    [appName : {"", "app"}, databaseURL : {"", "db"}, apiKey : {""},
     masterKey : {"", "k2"}]

====
