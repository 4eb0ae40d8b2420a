---------------------------- MODULE TenantConfig ----------------------------
(***************************************************************************)
(* The tenant configuration of src/pkg/core/config/tenant.go and the ways *)
(* it travels:                                                             *)
(*   - a constructor builds it: from the environment (FromScratch), from  *)
(*     YAML, from YAML with environment overrides, or from JSON; each     *)
(*     decodes over the defaults, runs AfterUnmarshal, then Validate;     *)
(*   - it is stored as JSON (Value, json.Marshal with omitempty) and read *)
(*     back by Scan (NewTenantConfigurationFromJSON: decode over the      *)
(*     defaults, AfterUnmarshal, Validate again);                         *)
(*   - it is put in a request header as base64 msgpack (SetTenantConfig)  *)
(*     and read back by GetTenantConfig, with no defaults and no          *)
(*     AfterUnmarshal.                                                     *)
(* The configuration is reduced to the fields whose handling differs:     *)
(* strings that are validated or defaulted, URL prefixes (a sequence of   *)
(* characters, so that trailing-slash removal is what the code does), the *)
(* login-ID key map with its *int bounds, the user-verification key map   *)
(* and the OAuth provider list.  Fields handled exactly like one of these  *)
(* (the OAuth state and hook secrets like the token-store secret, the      *)
(* other URL prefixes like the forgot-password one) are left out.          *)
(***************************************************************************)
EXTENDS Naturals, Sequences, TLC

CONSTANTS
    Docs,        \* documents (YAML or JSON) a configuration is decoded from
    EnvOptions,  \* FromScratchOptions that envconfig.Process can produce
    ABSENT,      \* a key the document does not contain
    REJECTED,    \* Scan returned an error
    NULL

VARIABLES
    src,       \* which constructor built cfg, from which document and options
    cfg,       \* the configuration returned (NULL: the constructor failed)
    stored,    \* the JSON the database holds after Value (NULL: not stored)
    scanned,   \* what Scan returned (REJECTED when it failed)
    header,    \* the tenant-config header after SetTenantConfig
    received   \* what GetTenantConfig returned

vars == <<src, cfg, stored, scanned, header, received>>

NilRange == [minimum |-> NULL, maximum |-> NULL]

(* The zero TenantConfiguration: what msgpack decodes into.               *)
ZeroConfig ==
    [version |-> "", appName |-> "", databaseURL |-> "", apiKey |-> "",
     masterKey |-> "", urlPrefix |-> <<>>, origin |-> "",
     loginIDKeys |-> <<>>, tokenStoreSecret |-> "",
     forgotPasswordURLPrefix |-> <<>>, verifyLoginIDKeys |-> {},
     oauthProviders |-> <<>>]

Fields == DOMAIN ZeroConfig

(* defaultAppConfiguration and defaultUserConfiguration.                  *)
DefaultConfig ==
    [ZeroConfig EXCEPT !.databaseURL = "postgres://localhost",
                       !.origin = "*",
                       !.loginIDKeys = [k \in {"username", "email", "phone"}
                                          |-> NilRange]]

(* yaml.v2 and encoding/json decoding into a config that holds the        *)
(* defaults: a key present in the document overwrites the field, even     *)
(* with an empty value; map entries are added to the map already there.   *)
DecodeField(f, old, new) ==
    CASE new = ABSENT               -> old
      [] f = "loginIDKeys"          -> new @@ old
      [] f = "verifyLoginIDKeys"    -> new \cup old
      [] OTHER                      -> new

Decode(base, doc) == [f \in Fields |-> DecodeField(f, base[f], doc[f])]

removeTrailingSlash(url) ==
    IF Len(url) > 0 /\ url[Len(url)] = "/"
    THEN SubSeq(url, 1, Len(url) - 1)
    ELSE url

(* The default bounds of one login-ID key.                                *)
LoginIDKeyDefaults(kc) ==
    LET lo == IF kc.minimum = NULL THEN 0 ELSE kc.minimum
    IN [minimum |-> lo,
        maximum |-> IF kc.maximum # NULL THEN kc.maximum
                    ELSE IF lo = 0 THEN 1 ELSE lo]

DefaultScope(type) ==
    CASE type = "google"   -> "profile email"
      [] type = "facebook" -> "default email"
      [] OTHER             -> ""

ProviderDefaults(p) ==
    [p EXCEPT !.id = IF @ = "" THEN p.type ELSE @,
              !.scope = IF @ = "" THEN DefaultScope(p.type) ELSE @]

(* Mutant of AfterUnmarshal: the provider loop assigns to the range copy  *)
(* (provider.ID = ...), so no provider gets its default ID or scope.      *)
AfterUnmarshalRangeCopy(c) ==
    LET forgot == IF c.forgotPasswordURLPrefix = <<>>
                  THEN c.urlPrefix ELSE c.forgotPasswordURLPrefix
    IN [c EXCEPT !.tokenStoreSecret = IF @ = "" THEN c.masterKey ELSE @,
                 !.urlPrefix = removeTrailingSlash(@),
                 !.forgotPasswordURLPrefix = removeTrailingSlash(forgot),
                 !.loginIDKeys = [k \in DOMAIN @ |-> LoginIDKeyDefaults(@[k])]]

(* AfterUnmarshal: secrets default to the master key, URL prefixes are    *)
(* propagated before one trailing slash is removed from each, login-ID    *)
(* key bounds and OAuth provider IDs and scopes get their defaults.       *)
AfterUnmarshal(c) ==
    LET forgot == IF c.forgotPasswordURLPrefix = <<>>
                  THEN c.urlPrefix ELSE c.forgotPasswordURLPrefix
    IN [c EXCEPT !.tokenStoreSecret = IF @ = "" THEN c.masterKey ELSE @,
                 !.urlPrefix = removeTrailingSlash(@),
                 !.forgotPasswordURLPrefix = removeTrailingSlash(forgot),
                 !.loginIDKeys = [k \in DOMAIN @ |-> LoginIDKeyDefaults(@[k])],
                 !.oauthProviders = [i \in DOMAIN @ |-> ProviderDefaults(@[i])]]

(* Validate; the checks delegated to packages outside src/ (app name      *)
(* syntax, ValidateUserConfiguration) and the SMTP mode are left out.     *)
Validate(c) ==
    /\ c.version = "1"
    /\ c.databaseURL # ""
    /\ c.appName # ""
    /\ c.apiKey # c.masterKey
    /\ \A k \in DOMAIN c.loginIDKeys :
          /\ c.loginIDKeys[k].minimum <= c.loginIDKeys[k].maximum
          /\ c.loginIDKeys[k].maximum > 0
    /\ c.verifyLoginIDKeys \subseteq DOMAIN c.loginIDKeys
    /\ \A i, j \in DOMAIN c.oauthProviders :
          i < j => c.oauthProviders[i].id # c.oauthProviders[j].id

(* A constructor returns the configuration, or nil and Validate's error.  *)
Validated(c) == IF Validate(c) THEN c ELSE NULL

NewTenantConfigurationFromScratch(o) ==
    Validated(AfterUnmarshal(
        [DefaultConfig EXCEPT !.version = "1", !.appName = o.appName,
                              !.databaseURL = o.databaseURL,
                              !.apiKey = o.apiKey, !.masterKey = o.masterKey]))

loadTenantConfigurationFromYAML(doc) == Decode(DefaultConfig, doc)

NewTenantConfigurationFromYAML(doc) ==
    Validated(AfterUnmarshal(loadTenantConfigurationFromYAML(doc)))

(* The options set in the environment override the document.              *)
EnvOverride(c, o) ==
    [c EXCEPT !.appName = IF o.appName # "" THEN o.appName ELSE @,
              !.databaseURL = IF o.databaseURL # "" THEN o.databaseURL ELSE @,
              !.apiKey = IF o.apiKey # "" THEN o.apiKey ELSE @,
              !.masterKey = IF o.masterKey # "" THEN o.masterKey ELSE @]

(* Mutant of NewTenantConfigurationFromYAMLAndEnv: the defaults are       *)
(* applied before the environment overrides.                              *)
FromYAMLAndEnvDefaultsFirst(opened, doc, o) ==
    IF ~opened
    THEN NewTenantConfigurationFromScratch(o)
    ELSE Validated(EnvOverride(
             AfterUnmarshal(loadTenantConfigurationFromYAML(doc)), o))

NewTenantConfigurationFromYAMLAndEnv(opened, doc, o) ==
    IF ~opened
    THEN NewTenantConfigurationFromScratch(o)
    ELSE Validated(AfterUnmarshal(
             EnvOverride(loadTenantConfigurationFromYAML(doc), o)))

NewTenantConfigurationFromJSON(doc) ==
    Validated(AfterUnmarshal(Decode(DefaultConfig, doc)))

(* Value: json.Marshal, where omitempty leaves out every empty field.     *)
Value(c) == [f \in Fields |-> IF c[f] = ZeroConfig[f] THEN ABSENT ELSE c[f]]

Scan(bytes) == NewTenantConfigurationFromJSON(bytes)

(* StdBase64Msgpack: msgp writes every field, empty ones included.        *)
StdBase64Msgpack(c) == {<<f, c[f]>> : f \in Fields}

(* UnmarshalMsg into a zero configuration.                                *)
NewTenantConfigurationFromStdBase64Msgpack(m) ==
    [f \in Fields |-> IF \E p \in m : p[1] = f
                      THEN (CHOOSE p \in m : p[1] = f)[2]
                      ELSE ZeroConfig[f]]

-----------------------------------------------------------------------------

Init ==
    /\ src = NULL
    /\ cfg = NULL
    /\ stored = NULL
    /\ scanned = NULL
    /\ header = NULL
    /\ received = NULL

Loaded(kind, doc, o, c) ==
    /\ src = NULL
    /\ src' = [kind |-> kind, doc |-> doc, env |-> o]
    /\ cfg' = c
    /\ UNCHANGED <<stored, scanned, header, received>>

(* NewTenantConfigurationFromEnv: envconfig, then FromScratch.            *)
LoadFromEnv(o) == Loaded("env", NULL, o, NewTenantConfigurationFromScratch(o))

LoadFromYAML(doc) == Loaded("yaml", doc, NULL, NewTenantConfigurationFromYAML(doc))

(* open() fails: the configuration is built from the environment alone.   *)
LoadFromYAMLAndEnv(opened, doc, o) ==
    Loaded("yamlEnv", IF opened THEN doc ELSE NULL, o,
           NewTenantConfigurationFromYAMLAndEnv(opened, doc, o))

LoadFromJSON(doc) == Loaded("json", doc, NULL, NewTenantConfigurationFromJSON(doc))

(* The configuration is written to the database (driver.Valuer).          *)
Store ==
    /\ cfg # NULL
    /\ stored = NULL
    /\ stored' = Value(cfg)
    /\ UNCHANGED <<src, cfg, scanned, header, received>>

(* ... and read back (sql.Scanner); on an error Scan leaves the target.   *)
ScanStored ==
    /\ stored # NULL
    /\ scanned = NULL
    /\ scanned' = IF Scan(stored) = NULL THEN REJECTED ELSE Scan(stored)
    /\ UNCHANGED <<src, cfg, stored, header, received>>

(* SetTenantConfig on the request forwarded to the gear.                   *)
SetTenantConfig ==
    /\ cfg # NULL
    /\ header = NULL
    /\ header' = StdBase64Msgpack(cfg)
    /\ UNCHANGED <<src, cfg, stored, scanned, received>>

(* GetTenantConfig in the gear; a decoding error would panic, which a     *)
(* header written by SetTenantConfig never causes.                         *)
ReadTenantConfig ==
    /\ header # NULL
    /\ received = NULL
    /\ received' = NewTenantConfigurationFromStdBase64Msgpack(header)
    /\ UNCHANGED <<src, cfg, stored, scanned, header>>

Next ==
    \/ \E o \in EnvOptions : LoadFromEnv(o)
    \/ \E doc \in Docs : LoadFromYAML(doc)
    \/ \E opened \in BOOLEAN, doc \in Docs, o \in EnvOptions :
          LoadFromYAMLAndEnv(opened, doc, o)
    \/ \E doc \in Docs : LoadFromJSON(doc)
    \/ Store
    \/ ScanStored
    \/ SetTenantConfig
    \/ ReadTenantConfig

Spec == Init /\ [][Next]_vars

-----------------------------------------------------------------------------

(* The token-store secret that the source did not set follows the master  *)
(* key the configuration ends up with, the environment's override         *)
(* included: AfterUnmarshal runs after the overrides in                   *)
(* NewTenantConfigurationFromYAMLAndEnv, so tokens are never signed with  *)
(* a master key the deployment replaced.                                  *)
SecretsFollowMasterKey ==
    cfg # NULL =>
      LET set == src.doc # NULL /\ src.doc.tokenStoreSecret \notin {ABSENT, ""}
      IN cfg.tokenStoreSecret = IF set THEN src.doc.tokenStoreSecret
                                ELSE cfg.masterKey

(* Every OAuth provider of a configuration in use has a non-empty ID that *)
(* no other provider has, so GetOAuthProviderByID finds each of them:     *)
(* Validate checks uniqueness after AfterUnmarshal gave IDs to providers  *)
(* that had none.  This holds for the configuration built, the one read    *)
(* back from the database and the one read from the header.              *)
ProviderIDsUnique ==
    LET inUse == <<cfg, scanned, received>>
    IN \A n \in DOMAIN inUse : inUse[n] \notin {NULL, REJECTED} =>
         LET ps == inUse[n].oauthProviders
         IN \A i, j \in DOMAIN ps :
              /\ ps[i].id # ""
              /\ i # j => ps[i].id # ps[j].id

(* Storing a configuration and scanning it back gives the same            *)
(* configuration (the test "should be losslessly converted between Go and *)
(* JSON").                                                                 *)
RoundTripLossless ==
    scanned # NULL => scanned = cfg

====
