# TLA+ models of skygear-server (auth gear)

These modules model the parts of `src/` whose behaviour depends on interleavings, partial failures and sequencing. The main cases are:

- how a request's session is resolved while other requests log in and out;
- how a request's database transaction context behaves when the driver fails;
- how concurrent password sign-ups interact through unique keys and aborted transactions;
- what the web app handlers show the user compared with what they commit.

Each module is written from the Go source. The session provider's implementation is not under `src/`, so its module is written from `spec.md` sections 4-5 and marked `spec_modelled` in `PROJECT.json`.

## 1. Inventory of the system

| Part | Source | State | Operations | Interacts with |
|---|---|---|---|---|
| Session resolution middleware | `pkg/auth/dependency/auth/session_middleware.go` | per request: resolver index, `isInvalid`, resolved session, error | `Handle`, `resolve`, `resolveSession` | session resolvers (provider), AuthInfo store, access events, TxContext |
| Session provider and stores | not under `src/` (`provider_impl_test.go`, spec 4.1-4.3) | session store by ID, access event store, clock | Create, GetByToken, Access, Invalidate, List | middleware, login/logout handlers |
| Resolve handler wiring | `unnamed/part_001` 172-208 | none | `newResolveHandler` builds the Middleware | middleware |
| Transaction context | `pkg/core/db/context.go` | `contextContainer.tx` and the database transaction | `WithTx`, `EndTx`, `BeginTx`, `CommitTx`, `RollbackTx`, `HasTx`, `EnsureTx`, `DB` | every handler and store that runs SQL |
| Safe password provider | `principal/password/tx_provider.go` | none | `EnsureTx` and then delegate | transaction context, password provider |
| Password principal provider | `principal/password/provider.go` | principal rows, password history | CreatePrincipalsByLoginID, GetPrincipal*, UpdatePassword, MigratePassword, legacy CreatePrincipal/UpdatePrincipal | database, login-ID checker |
| Verify code store | `userverify/store.go` | verify code rows | CreateVerifyCode, MarkConsumed, GetVerifyCodeByUser | database |
| Web app handlers | `unnamed/part_001` 18-170 | none | LoginHandler, SettingsIdentityHandler `ServeHTTP` | transaction context, web app provider |
| SSO link, auth URL, custom token | `handler/sso/link.go`, `sso/authurl.go`, `provider/customtoken/principal.go` | none (database through providers) | link handler, authURL, principal helpers | providers |
| Tenant configuration | `core/config/tenant.go` | the configuration, its JSON in the database, its msgpack header | constructors, `AfterUnmarshal`, `Validate`, `Value`/`Scan`, `SetTenantConfig`/`GetTenantConfig` | every gear (through the header), the gateway's database |
| Wiring, templates, gateway plan, SMS | `unnamed/part_000`, `auth/deps.go`, `hook/deps.go`, `template/template.go`, `gateway/model/plan.go`, `core/sms/nexmo.go` | static configuration | parsing, defaults, construction, pure checks, HTTP calls | everything |

### Hard behaviours

Each behaviour below is listed as a hazard in `PROJECT.json`.

- **Session resolution:**
  - the resolver reads the session, then calls `Access` on its copy, while a logout may delete the record in between (a fatal `Access` failure);
  - concurrent accesses write last-write-wins;
  - `isInvalid` is latched across the resolver loop;
  - a store failure at any of the three store calls panics, and the access write may already be done;
  - a session can outlive its user;
  - the resolve handler is wired without a header resolver.
- **Transaction context:**
  - `CommitTx` and `RollbackTx` clear `container.tx` only when the driver call succeeded;
  - the rollback error in `EndTx` is only logged.
- **Web app handlers:** they ignore `WithTx`'s result and write the response before the commit.
- **Password provider:**
  - principals are created in a loop, one row per login ID;
  - concurrent sign-ups can collide on a unique key;
  - line 153 wraps a nil error;
  - the legacy path writes password history after a failed insert.
- **Verify codes:** codes are consumed by check-then-act.

## 2. Plan

| Order | Module | Models | Status |
|---|---|---|---|
| 1 | `SessionProvider` | session provider operations and expiry policy (spec 4.1-4.3), used by the middleware | done (spec_modelled) |
| 2 | `SessionMiddleware` + `MC_SessionMiddleware` | per-request resolution composed with the provider, logins and logouts, user deletion, clock, store failures | done |
| 3 | `DbTx` + `MC_DbTx` | `WithTx` / `EndTx` / Begin/Commit/Rollback for a request making several `WithTx` calls | done |
| 4 | `PrincipalRegistry` + `PasswordPrincipal` + `MC_PasswordPrincipal` | CreatePrincipalsByLoginID (current and legacy) over a unique-key table and password history, two concurrent sign-ups in their transactions, refined to the abstract registry; password change (UpdatePassword, legacy UpdatePrincipal) and login rehash (MigratePassword) under row locks | done |
| 5 | `WebAppHandler` | LoginHandler / SettingsIdentityHandler composed with `DbTx`: the response written vs the outcome of the commit | done |
| 6 | `VerifyCode` | create / latest / consume with concurrent verifications | not modelled: the consuming caller is not under `src/` (section 6) |
| 7 | `TenantConfig` + `MC_TenantConfig` | constructors, defaults, validation, and the database and header round trips of the tenant configuration | done |
| 8 | pure operators | authURL parameter set, `CanAccessGear`, `ReadFileInto` defaults | not done: their inputs come from code not under `src/` (see "Not modelled") |

## 3. Modules and their correspondence to the code

### `SessionProvider.tla` (spec_modelled)

Variables:

- `sessions`: the Session Store, keyed by ID.
- `used`: generated IDs. UUIDs are never reused.
- `events`: the count of recorded access events per session.
- `now`: the clock.

A token is an ID plus a secret. The secrets are `"A"` (access), `"R"` (refresh), `"X"` (wrong) and `""` (empty).

- `GetByToken` matches the secret stored for the requested kind, the client and `IsValid`.
- `IsValid` is the expiry policy: idle timeout, then access-token or refresh-token lifetime. A limit of 0 means no limit.

The actions `Create`, `Invalidate` and `Tick` are one atomic provider call each. `Access` is modelled where the resolver calls it, as the middleware's `AccessWrite` step, because what happens between its read and its write is the point.

### `SessionMiddleware.tla`

The state has two parts:

- the provider's variables (`P == INSTANCE SessionProvider`);
- `users` (AuthInfo records) and `req[r]`, the state of each in-flight request.

One action per step of `session_middleware.go`:

| Action | Code |
|---|---|
| `Arrive` | `Handle` starts: credentials arrive in the cookie and the header |
| `ResolveStep` | one iteration of the loop at lines 76-87: resolver `i` runs `GetByToken` on its credential. No credential means continue; not found or invalid sets `isInvalid` and continues; a store error returns it; a found session goes to the access write. |
| `NilResolver` | the loop reaching a nil resolver (a nil-interface call panics) |
| `ResolveExhausted` | lines 88-92 |
| `AccessWrite` | the resolver's `provider.Access` (spec 4.2): the copy read in `ResolveStep` is persisted with the new access time by a per-key conditional update (spec 5), and the access event is appended (`provider_impl_test.go` 245-250). If a logout deleted the record after `GetByToken`, the update finds nothing and `Access` fails, which spec 7 makes fatal. A store failure is fatal too. |
| `GetAuth` | line 59; fails on a store error or a deleted user |
| `RecordAccessStep` | lines 62-66 |
| `Handle` | lines 35-44: `invalid`, `panic`, `authenticated` or `anonymous` |

The environment makes:

- logins (`Create`);
- logouts (`Invalidate`);
- clock ticks;
- when `UserDeletion` is set, deletion of a user.

Constants:

- `ResolverChain` is the slice of resolvers in order. `NULL` stands for a nil resolver.
- `Credentials` bounds the credential pairs a request may carry.
- `StoreFailures` enables store errors.

### `DbTx.tla`

Variables:

- `tx`: `contextContainer.tx`, i.e. which call's transaction the context holds.
- `dbTx[k]`: the state at the database of call `k`'s transaction (`none`, `open`, `committed` or `rolledback`).
- `pending`: work done inside the transaction.
- `committed`: calls whose work is committed.
- `call`, `pc`: the position in the request's sequence of `WithTx` calls.
- `doOk`, `result`: what `do()` and `WithTx` returned.

Actions:

- `Begin` is `BeginTx` (lines 121-137).
- `Do` is `do()` running on `DB()`.
- `EndRollback` is `EndTx` with an error, then `RollbackTx` (lines 41-46 and 153-165).
- `EndCommit` is `EndTx` without an error, then `CommitTx` (lines 48-49 and 139-151).

The database follows `database/sql`: `Commit` and `Rollback` end the transaction even when they return an error. A failed `Commit` leaves nothing committed.

### `PrincipalRegistry.tla` (abstract)

This is what password sign-up promises, seen in the committed database:

- `owner[k]` is the user owning unique key `k`;
- `withHistory` is the set of users with a committed password-history entry.

The one action, `SignUp(r, ks)`, claims all the keys `ks` at once, only when none is taken, and adds the history entry when history is enabled. A sign-up claims either everything or nothing.

### `PasswordPrincipal.tla`

This module models sign-up for several concurrent requests. Each request is `safeProviderImpl.CreatePrincipalsByLoginID` called inside the request's `WithTx`. It runs against PostgreSQL:

- an insert on a unique key held by another open transaction waits for that transaction;
- once that transaction commits, the insert fails with 23505;
- a failed statement aborts the transaction, so later statements fail and `COMMIT` rolls back with an error (lib/pq);
- when two inserts wait on each other, one of them fails (deadlock detection).

Variables:

- `rows`: the committed `provider_password` rows, each reduced to its unique key, user and password;
- `hist`: the committed history entries, each a user and a password;
- `pend`, `pendHist`, `aborted`: each open transaction's uncommitted writes and whether it has failed;
- `sg[r]`: the loop position, the current login ID, `err` and the final result;
- `ch[x]`, `upd[x]`, `chHist[x]`: for a password change or a login, the handler's position and the principals it loaded, the rows its open transaction has updated (and so holds locked), and the history entries it has written.

| Action | Code (`principal/password/provider.go` unless named) |
|---|---|
| `Arrive` | `tx_provider.go` 51-54: EnsureTx, then delegate |
| `NextLoginID` | the current loop, 148-155. It goes in slice order. A Normalize error is wrapped from the nil `err` (line 153). |
| `NextLoginIDLegacy` | the legacy loop, 581-596: map iteration in any order |
| `InsertPrincipal` | `createPrincipal` 197-215 (legacy 602-615) |
| `InsertPassword` + `AfterInsert` | 217-248 and 172-186. The errors are a unique violation (`ErrLoginIDAlreadyUsed`, legacy `ErrUserDuplicated`), a store error, or being the deadlock victim. |
| `SaveHistory` | `savePasswordHistory` 250-265. Its error ends the loop. |
| `SaveHistoryLegacy` | legacy `CreatePrincipal` 634-647. History is written even after a failed insert, and its error is ignored. |
| `End` (+ `Discard`) | `EndTx` in `context.go`: commit on nil, rollback otherwise |
| `LoadByUserID`, `NextPrincipal` | `GetPrincipalsByUserID` 332-354 (legacy 690-738 returns `ErrUserNotFound` for none). The rows come back in any order. |
| `UpdatePassword` (+ `UpdateRow`) | `UpdatePassword` 405-434 and legacy `UpdatePrincipal` 788-821. `isPasswordChanged` is computed from the principal loaded earlier. The `UPDATE` waits for the row lock, or fails as the deadlock victim or on a store error. |
| `SaveChangeHistory` | 425-431 and legacy 811-820: history only for a changed password; its error is returned |
| `LoadByLoginID` | `GetPrincipalByLoginIDWithRealm` 292-330, for one configured key |
| `MigratePassword`, `MigrateUpdate` | `MigratePassword` 436-457. Whether the stored hash needs a rehash is decided outside `src/`, so it is a free choice. The `UPDATE` writes the password the login verified against the row it loaded. |
| `EndUpdate` (+ `ApplyUpdates`) | `EndTx`: commit applies the updates and history entries. Either way the row locks are released. |

Constants:

- `Legacy` selects the provider version.
- `NilWrapIsNil` selects what `errors.HandledWithMessage(nil, ...)` returns. That function lives in `core/errors`, which is not under `src/`. Every run sets it to `FALSE` (a non-nil error). Setting it to `TRUE` makes `RegistryRefinement` fail: a sign-up `<<"A","x">>` commits `A` alone and reports success.
- `StoreFailures` enables statement failures.

The refinement to the abstract registry is `R == INSTANCE PrincipalRegistry WITH owner <- OwnerMap, withHistory <- hist, Choices <- ChoiceSets`:

- `OwnerMap` maps each unique key to the user of its committed row;
- `ChoiceSets[r]` holds the key sets of the login-ID lists request `r` may send, leaving out lists that cannot all be normalized.

The MC module uses two requests:

- `r1` sends `<<"a","b">>`;
- `r2` sends `<<"B","A">>` (which normalize to the same keys in the opposite order, so the inserts can deadlock) or `<<"A","x">>` (where `"x"` fails to normalize);
- every sign-up sends password `p0`. Two changes of `r1`'s user, `c1` to `p1` and `c2` to `p0`, can lock its two rows in opposite orders. Once `c1` has committed, `c2` is a change back, judged against a stale load. A login `l1` with `"A"` may rehash `r1`'s row of key `a`. The legacy run has no logins, because the legacy provider has no `MigratePassword`. The legacy key is the raw login ID, so there `r2` sends `<<b, a>>` or `<<a, x>>` (`MCCandidatesLegacy`), raw IDs equal to `r1`'s.

The model reaches a lost update that no property rejects. `l1` loads row `a` with `p0`. `c1` commits `p1` on both rows. `l1`'s rehash then writes `p0` back to row `a`, so the old password works again for login ID `a`. No spec, comment or test says which write must win. It is listed as a hazard at `provider.go:451`.

### `WebAppHandler.tla`

This module models `ServeHTTP` of `LoginHandler` (`unnamed/part_001` 47-80) and of `SettingsIdentityHandler` (116-149). It is composed with `D == INSTANCE DbTx WITH Calls <- 1`, one `WithTx` call.

- `Receive` is `ParseForm`. On an error it writes a 500.
- `Handle` is `do()`:
  - `Dispatched` says whether GET or POST reaches a provider call;
  - `writeResponse(err)` writes success or error;
  - the login POST with `x_idp_id` and no OAuth provider writes a 404.

  The provider itself is a write that may fail.
- The DbTx steps `Begin`, `EndCommit` and `EndRollback` run as they do in `DbTx`. `response` is what the client sees.

### `TenantConfig.tla`

This module models `core/config/tenant.go` as a pipeline:

1. a constructor builds the configuration;
2. the configuration is stored in the database and scanned back;
3. it is put in the gear's request header and read back.

Variables:

- `src`: the constructor used, with its document and environment options;
- `cfg`: the configuration the constructor returned (`NULL` on an error);
- `stored`, `scanned`: the database copy (`Value`) and what `Scan` returned;
- `header`, `received`: the header copy (`SetTenantConfig`) and what `GetTenantConfig` returned.

The configuration keeps the fields whose handling differs:

| Field kind | Fields |
|---|---|
| validated strings | version, app name, database URL, API key, master key |
| defaulted strings | token-store secret, CORS origin |
| URL prefixes | `url_prefix` and the forgot-password prefix |
| maps | login-ID keys (with their `*int` bounds), user-verification keys |
| list | OAuth providers |

URL prefixes are character sequences, so `removeTrailingSlash` does what the code does. The OAuth-state and hook secrets and the other URL prefixes are handled exactly like the fields kept, so they are left out.

| Definition | Code (`tenant.go`) |
|---|---|
| `DefaultConfig` | `defaultAppConfiguration`, `defaultUserConfiguration` (48-85) |
| `Decode` | the YAML and JSON decoders. A present key overwrites the field, even with an empty value. Map entries are added to the default map. |
| `NewTenantConfigurationFromScratch`, `LoadFromEnv` | 94-113, 142-149 |
| `NewTenantConfigurationFromYAML`, `loadTenantConfigurationFromYAML` | 115-140 |
| `NewTenantConfigurationFromYAMLAndEnv`, `EnvOverride` | 151-194. When `open()` fails, the configuration is built from scratch. |
| `NewTenantConfigurationFromJSON`, `Scan` | 196-212, 235-249 |
| `Value` | 227-233: `json.Marshal`, whose `omitempty` drops every empty field |
| `StdBase64Msgpack`, `NewTenantConfigurationFromStdBase64Msgpack` | 251-257, 214-225: every field is written, and decoding starts from a zero configuration |
| `Validate` | 276-332. The app-name syntax and `ValidateUserConfiguration` checks live outside `src/` and are left out. |
| `AfterUnmarshal` (`LoginIDKeyDefaults`, `ProviderDefaults`) | 334-466 |
| `SetTenantConfig`, `ReadTenantConfig` | 477-483, 468-475 |

The MC module enumerates 2304 documents and 8 environments. In each document, every key is absent or has a value chosen to exercise a default or a check:

- an explicit empty origin and an empty database URL;
- equal API and master keys;
- a URL prefix with two trailing slashes;
- a login-ID key with maximum 0, and an extra key with minimum 2;
- a verification key that is not allowed unless the extra key is present;
- two Google providers, one with and one without an ID;
- providers of two types.

## 4. Runs

| Run | Cfg | Checks | Shows |
|---|---|---|---|
| `middleware_resolution` | `MC_resolution.cfg` | `TypeOK`, `TriStateOutcome`, `PanicOnlyFromKnownCauses` | With both resolvers wired, every credential pair (cookie and header, each absent or an access/refresh secret of either session) ends as follows, while logins, logouts and the clock interleave. No credential gives anonymous. A found session of the request's client gives authenticated. Otherwise the request is invalid, or it panics: after a store failure, or because a logout deleted its session between `GetByToken` and `Access`. The second cause is a panic with no store failure at all. It follows from spec 7 (a failed `Access` is fatal), and `Handle` panics on every non-invalid error. |
| `resolve_handler_wiring` | `MC_resolve_handler.cfg` | `NoPanicWithoutStoreFailure` (violation) | The chain `<<idp, nil>>` that `newResolveHandler` builds panics on any request without a resolvable cookie. |
| `deployed_wiring` | `MC_deployed.cfg` | `PanicOnlyFromKnownCauses` | This run uses the deployed chain `<<idp, nil>>` and allows user deletion. A request panics only for one of four causes: it reaches the nil resolver; the user owning its session was deleted (GetAuth's not-found is not `ErrInvalidSession`); its session was logged out before `Access`; or a store call failed. |
| `dbtx` | `MC_DbTx.cfg` | `TypeOK`, `TxEndedWhenWithTxReturns` | Over three `WithTx` calls with failing Begin/Commit/Rollback, no transaction stays open at the database after `WithTx` returns. |
| `dbtx_stale_context` | `MC_DbTx_stale.cfg` | `ContextTxIsOpen` (violation) | After a failed Rollback, `container.tx` still names the finished transaction, so `HasTx` lies and the next `BeginTx` returns `ErrDatabaseTxDidBegin`. |

| `signup_current` | `MC_signup_current.cfg` | `TypeOK`, `AlreadyUsedIsReal`, `HistoryHasCurrent`, `RegistryRefinement`, `SignupsComplete` | Two sign-ups race on overlapping login IDs, with store failures, next to two password changes and a login rehash. Every committed state change is one whole abstract `SignUp`. `ErrLoginIDAlreadyUsed` is only returned when another user owns the key. Every sign-up finishes, including after a deadlock. Every committed password has a history entry, even with a stale `isPasswordChanged`. |
| `signup_legacy` | `MC_signup_legacy.cfg` | `AlreadyUsedIsReal`, `HistoryHasCurrent`, `RegistryRefinement`, `UpdatesComplete` | The legacy provider has two weak points: history is written after a failed insert, and its error is ignored. The refinement still holds, because PostgreSQL's aborted transaction masks both. Two `UpdatePrincipal` changes that lock one user's rows in opposite orders both finish, one of them possibly as the deadlock victim. (`UpdatesComplete` is checked here because this state space is the smaller one.) |
| `webapp` | `MC_webapp_pass.cfg` | `TypeOK`, `UnansweredOnlyWithoutWork` | A request is left with no response exactly when BeginTx failed or no branch matched, a case ServeHTTP does not handle: the client gets an empty 200. |
| `tenant` | `MC_tenant.cfg` | `SecretsFollowMasterKey`, `ProviderIDsUnique` | This run builds every configuration the constructors produce and sends it through both round trips. The token-store secret follows the master key the configuration ends up with, environment override included. Every provider of a configuration in use has a non-empty, unique ID. |
| `tenant_db_roundtrip` | `MC_tenant_roundtrip.cfg` | `RoundTripLossless` (violation) | `Value` followed by `Scan` changes a valid configuration: an explicit CORS origin `""` comes back as `"*"`, and a second trailing slash is removed. This contradicts the test "should be losslessly converted between Go and JSON". |
| `webapp_commit_lost` | `MC_webapp_commit.cfg` | `SuccessPageOnlyIfCommitted` (violation) | The success page is written before `CommitTx`, and the commit error is dropped. |

Each property of a passing run has a mutant in `PROJECT.json` that breaks it.

### Bounds

The middleware runs use:

- two session IDs, so one request can present one session in the cookie and another in the header, and logout and login can interleave;
- one user and two clients:
  - `c1` has access-token life 2, idle 1 and refresh enabled;
  - `c2` has no limits and refresh disabled, so its refresh secret is empty;
- `MaxTime = 3`, so both the idle and the lifetime limits expire in reachable states.

The middleware runs use one request: the hazards they check come from that request interleaving with logins, logouts and user deletion, not from a second request. Two requests racing `Access` on one session are last-write-wins, which spec 5 accepts.

`dbtx` uses three calls, so that a failure in the first call is seen by the second and the third.

The sign-up runs use two requests, and each one's lists of two login IDs overlap the other's:

- one order lets the two requests deadlock;
- one list contains a login ID that fails to normalize.

This covers a collision at the first and at the second login ID, the deadlock, and a partial loop. The current run enables store failures, so every statement can fail. The web app run enumerates both handlers, every method and every form action.

## 5. Fairness

`Spec` of the middleware has weak fairness per request on that request's own steps, because the handler goroutine runs to completion and the store clients enforce timeouts (spec 5). No middleware run checks a liveness property, though. With nothing in the handler that waits, completion would hold by the shape of the model. `PasswordPrincipal` has weak fairness per sign-up, change and login request on its steps. Its justification is that the goroutine runs, and a waiting insert or `UPDATE` is released either by the other transaction's commit or rollback (that request is fair too) or by PostgreSQL's deadlock detector, which the model's deadlock-victim step stands for. `DbTx` and `WebAppHandler` check safety only. Its cfg disables the deadlock check because the request ends after its last `WithTx` call.

## 6. Not modelled

- Token encoding and parsing is reduced to ID plus secret.
- Store TTL expiry is not modelled, nor is refresh-token exchange.
- `db.ReadOnly` around `resolve` is treated as one read scope.
- The container's thread safety is not modelled: no code under `src/` shares a request context between goroutines.
- `lazydb`'s one-time pool opening is not modelled.
- Of the password provider, these lookups are not modelled: `GetPrincipalsByLoginID`, `GetPrincipalsByClaim`, `GetPrincipalByID`, the `List*` adapters and the legacy `GetPrincipalsByEmail`. They change no state. Realms and the per-key format check are also left out: there is one login-ID key, and every login ID is valid for it. The handlers that call `UpdatePassword` and `MigratePassword` are not under `src/`. The model assumes they load and then update in the same `WithTx`, as the safe provider's `EnsureTx` requires.
- The web app provider (`GetEnterLoginIDForm`, `EnterLoginID` and the rest) is not under `src/`. It is abstracted to a write that may fail.
- `errors.HandledWithMessage` is not under `src/`. Both of its possible results for a nil error are modelled (`NilWrapIsNil`).
- Verify codes: consuming a code is a check-then-act, and its caller is not under `src/`, so its atomicity cannot be judged from this code.
- SSO link and the auth URL builder are not modelled. The link handler's state change is in `respHandler.linkActionResp`, which is not under `src/`. The auth URL's parameter order depends on `coreUrl.Query`, which is not under `src/` either.
- The gateway plan's `CanAccessGear` is a stateless switch with no caller under `src/`.
- Tenant configuration: the enum `IsValid` helpers, `GetOAuthProviderByID` and the other lookups are pure reads, left out. A `Scan` of a NULL column is not modelled (`Value` never writes one). YAML and JSON syntax errors are not modelled.
- Dependency wiring other than the resolver chain, templates and the SMS HTTP client have no concurrent or failure behaviour worth checking.
