-------------------------- MODULE PasswordPrincipal --------------------------
(***************************************************************************)
(* Password sign-up: CreatePrincipalsByLoginID of the password principal   *)
(* provider (src/pkg/auth/dependency/principal/password/provider.go, both  *)
(* the current version, lines 147-265, and the legacy one, lines 581-648), *)
(* reached through the safe provider (tx_provider.go, EnsureTx) inside the *)
(* WithTx of the sign-up request (db/context.go), for several concurrent   *)
(* requests against PostgreSQL:                                            *)
(*   - an INSERT whose unique key is held by another open transaction     *)
(*     waits for it; it then fails with 23505 if that one committed;      *)
(*   - a failed statement aborts the transaction: every later statement   *)
(*     fails and COMMIT rolls back and returns an error (lib/pq);         *)
(*   - two inserts waiting on each other: one fails (deadlock detected).  *)
(* The principal and provider_password rows of one login ID are reduced   *)
(* to the unique key they claim; password hashes to the history entry.    *)
(***************************************************************************)
EXTENDS Naturals, Sequences, FiniteSets

CONSTANTS
    Signups,         \* concurrent sign-up requests; request r creates user r
    Normalize,       \* [raw login ID -> unique key], NULL when Normalize fails
    Candidates,      \* Candidates[r]: login-ID sequences request r may send
    Legacy,          \* TRUE: the legacy provider (map loop, CreatePrincipal)
    HistoryEnabled,  \* passwordHistoryEnabled
    StoreFailures,   \* statements may fail (connection, timeout)
    NilWrapIsNil,    \* errors.HandledWithMessage(nil, msg) returns nil
    Passwords,       \* the passwords users send
    SignupPassword,  \* the password every sign-up sends
    Changes,         \* change-password requests
    ChangeTarget,    \* ChangeTarget[c]: the user whose principals c updates
    NewPassword,     \* NewPassword[c]: the password c sets
    Logins,          \* login requests that may rehash (MigratePassword)
    LoginID,         \* LoginID[l]: the raw login ID l logs in with
    NULL

VARIABLES
    rows,      \* committed provider_password rows: [uk, user, pw]
    hist,      \* committed password-history entries: [user, pw]
    pend,      \* pend[r]: unique keys inserted by r's open transaction
    pendHist,  \* pendHist[r]: r's open transaction wrote a history entry
    aborted,   \* aborted[x]: x's transaction is in the failed state
    sg,        \* sg[r]: the sign-up handler of request r
    ch,        \* ch[x]: the handler of change or login request x
    upd,       \* upd[x]: rows x's open transaction updated, [uk, pw];
               \* x holds their row locks until it ends
    chHist     \* chHist[c]: passwords c's open transaction wrote to history

vars == <<rows, hist, pend, pendHist, aborted, sg, ch, upd, chHist>>

Updaters == Changes \cup Logins

Txs == Signups \cup Updaters

Raws == DOMAIN Normalize

(* The unique key a login ID claims: the normalizer's unique key, or the  *)
(* (login_id_key, login_id) pair as given in the legacy schema.           *)
UK(raw) == IF Legacy THEN raw ELSE Normalize[raw]

UniqueKeys == {UK(x) : x \in Raws} \ {NULL}

CommittedKeys == {row.uk : row \in rows}

Fails == IF StoreFailures THEN BOOLEAN ELSE {FALSE}

Errors == {"none", "normErr", "AlreadyUsed", "Duplicated", "dbErr", "histErr"}

(* The rows and history entries a sign-up's COMMIT makes visible.        *)
SignupRows(r) == {[uk |-> k, user |-> r, pw |-> SignupPassword] : k \in pend[r]}

SignupHist(r) == IF pendHist[r] THEN {[user |-> r, pw |-> SignupPassword]} ELSE {}

Handler == [pc : {"idle", "next", "principal", "pp", "hist", "end", "done"},
            ids : Seq(Raws), todo : SUBSET Nat, cur : Nat,
            err : Errors, result : Errors \cup {"ok", "commitErr"}]

Init ==
    /\ rows = {}
    /\ hist = {}
    /\ pend = [r \in Signups |-> {}]
    /\ pendHist = [r \in Signups |-> FALSE]
    /\ aborted = [x \in Txs |-> FALSE]
    /\ sg = [r \in Signups |-> [pc |-> "idle", ids |-> <<>>, todo |-> {},
                                cur |-> 0, err |-> "none", result |-> "none"]]
    /\ ch = [x \in Updaters |-> [pc |-> "idle", todo |-> {}, cur |-> NULL,
                                  err |-> "none", result |-> "none"]]
    /\ upd = [x \in Updaters |-> {}]
    /\ chHist = [x \in Updaters |-> {}]

(* The sign-up handler calls CreatePrincipalsByLoginID of the safe         *)
(* provider inside WithTx (EnsureTx passes): the loop starts.              *)
Arrive(r) ==
    /\ sg[r].pc = "idle"
    /\ \E s \in Candidates[r] :
         sg' = [sg EXCEPT ![r].pc = "next", ![r].ids = s,
                          ![r].todo = 1..Len(s)]
    /\ UNCHANGED <<rows, hist, pend, pendHist, aborted>>

(* The current loop (line 148): the next login ID in slice order is      *)
(* normalized; a failure is wrapped from err (line 153), which is nil at  *)
(* that point, instead of from e.                                          *)
NextLoginID(r) ==
    /\ ~Legacy
    /\ sg[r].pc = "next"
    /\ IF sg[r].todo = {}
       THEN sg' = [sg EXCEPT ![r].pc = "end"]
       ELSE LET i == CHOOSE j \in sg[r].todo : \A l \in sg[r].todo : j <= l
            IN IF Normalize[sg[r].ids[i]] = NULL
               THEN sg' = [sg EXCEPT ![r].pc = "end", ![r].err =
                             IF NilWrapIsNil THEN "none" ELSE "normErr"]
               ELSE sg' = [sg EXCEPT ![r].pc = "principal", ![r].cur = i]
    /\ UNCHANGED <<rows, hist, pend, pendHist, aborted>>

(* The legacy loop ranges over a map: Go visits the login IDs in an       *)
(* unspecified order and calls CreatePrincipal for each.                  *)
NextLoginIDLegacy(r) ==
    /\ Legacy
    /\ sg[r].pc = "next"
    /\ IF sg[r].todo = {}
       THEN sg' = [sg EXCEPT ![r].pc = "end"]
       ELSE \E i \in sg[r].todo :
              sg' = [sg EXCEPT ![r].pc = "principal", ![r].cur = i]
    /\ UNCHANGED <<rows, hist, pend, pendHist, aborted>>

(* INSERT INTO principal: fails in an aborted transaction or on a store   *)
(* error; the error ends the loop (both versions).                        *)
InsertPrincipal(r) ==
    /\ sg[r].pc = "principal"
    /\ \E fail \in Fails :
         IF fail \/ aborted[r]
         THEN /\ sg' = [sg EXCEPT ![r].pc = "end", ![r].err = "dbErr"]
              /\ aborted' = [aborted EXCEPT ![r] = TRUE]
         ELSE /\ sg' = [sg EXCEPT ![r].pc = "pp"]
              /\ UNCHANGED aborted
    /\ UNCHANGED <<rows, hist, pend, pendHist>>

(* Where the loop goes once the provider_password insert has returned     *)
(* err: the legacy CreatePrincipal writes history whatever err is; the    *)
(* current createPrincipal only after a successful insert.                *)
AfterInsert(r, err) ==
    CASE Legacy /\ HistoryEnabled -> [sg EXCEPT ![r].pc = "hist", ![r].err = err]
      [] err # "none"             -> [sg EXCEPT ![r].pc = "end", ![r].err = err]
      [] HistoryEnabled           -> [sg EXCEPT ![r].pc = "hist"]
      [] OTHER                    -> [sg EXCEPT ![r].pc = "next",
                                          ![r].todo = @ \ {sg[r].cur}]

(* The other open transactions holding key k uncommitted.                 *)
Holders(r, k) == {o \in Signups \ {r} : k \in pend[o]}

(* The key request o is inserting, if it is at the provider_password      *)
(* insert.                                                                *)
Inserting(o) == IF sg[o].pc = "pp" THEN {UK(sg[o].ids[sg[o].cur])} ELSE {}

(* Mutants of InsertPassword: the login ID as sent is inserted in place   *)
(* of its unique key; any insert error is reported as a unique violation. *)
InsertPasswordRawKey(r) ==
    LET raw == sg[r].ids[sg[r].cur]
    IN /\ sg[r].pc = "pp"
       /\ Holders(r, raw) = {}
       /\ IF raw \in CommittedKeys \cup pend[r]
          THEN /\ sg' = AfterInsert(r, IF Legacy THEN "Duplicated" ELSE "AlreadyUsed")
               /\ aborted' = [aborted EXCEPT ![r] = TRUE]
               /\ UNCHANGED pend
          ELSE /\ pend' = [pend EXCEPT ![r] = @ \cup {raw}]
               /\ sg' = AfterInsert(r, "none")
               /\ UNCHANGED aborted
       /\ UNCHANGED <<rows, hist, pendHist>>

InsertPasswordAnyErrorIsUnique(r) ==
    LET k == UK(sg[r].ids[sg[r].cur])
        unique == IF Legacy THEN "Duplicated" ELSE "AlreadyUsed"
    IN /\ sg[r].pc = "pp"
       /\ \/ /\ Holders(r, k) = {}
             /\ \E fail \in Fails :
                  IF fail \/ k \in CommittedKeys \cup pend[r]
                  THEN /\ sg' = AfterInsert(r, unique)
                       /\ aborted' = [aborted EXCEPT ![r] = TRUE]
                       /\ UNCHANGED pend
                  ELSE /\ pend' = [pend EXCEPT ![r] = @ \cup {k}]
                       /\ sg' = AfterInsert(r, "none")
                       /\ UNCHANGED aborted
          \/ /\ \E o \in Holders(r, k) : Inserting(o) \cap pend[r] # {}
             /\ sg' = AfterInsert(r, unique)
             /\ aborted' = [aborted EXCEPT ![r] = TRUE]
             /\ UNCHANGED pend
       /\ UNCHANGED <<rows, hist, pendHist>>

(* INSERT INTO provider_password of the current login ID's unique key.    *)
(* It waits while another open transaction holds the key; 23505 when the  *)
(* key is committed or already inserted by this transaction               *)
(* (ErrLoginIDAlreadyUsed, legacy ErrUserDuplicated); any other error,    *)
(* including being chosen as the victim of a deadlock between two         *)
(* waiting inserts, is returned as is.  Either error aborts the tx.       *)
InsertPassword(r) ==
    LET k == UK(sg[r].ids[sg[r].cur])
        unique == IF Legacy THEN "Duplicated" ELSE "AlreadyUsed"
    IN /\ sg[r].pc = "pp"
       /\ \/ /\ Holders(r, k) = {}
             /\ \E fail \in Fails :
                  CASE fail ->
                         /\ sg' = AfterInsert(r, "dbErr")
                         /\ aborted' = [aborted EXCEPT ![r] = TRUE]
                         /\ UNCHANGED pend
                    [] k \in CommittedKeys \cup pend[r] ->
                         /\ sg' = AfterInsert(r, unique)
                         /\ aborted' = [aborted EXCEPT ![r] = TRUE]
                         /\ UNCHANGED pend
                    [] OTHER ->
                         /\ pend' = [pend EXCEPT ![r] = @ \cup {k}]
                         /\ sg' = AfterInsert(r, "none")
                         /\ UNCHANGED aborted
          \/ /\ \E o \in Holders(r, k) : Inserting(o) \cap pend[r] # {}
             /\ sg' = AfterInsert(r, "dbErr")
             /\ aborted' = [aborted EXCEPT ![r] = TRUE]
             /\ UNCHANGED pend
       /\ UNCHANGED <<rows, hist, pendHist>>

(* savePasswordHistory (current): INSERT INTO the history table in the   *)
(* same transaction; its error ends the loop.                             *)
SaveHistory(r) ==
    /\ ~Legacy
    /\ sg[r].pc = "hist"
    /\ \E fail \in Fails :
         IF fail
         THEN /\ sg' = [sg EXCEPT ![r].pc = "end", ![r].err = "histErr"]
              /\ aborted' = [aborted EXCEPT ![r] = TRUE]
              /\ UNCHANGED pendHist
         ELSE /\ pendHist' = [pendHist EXCEPT ![r] = TRUE]
              /\ sg' = [sg EXCEPT ![r].pc = "next", ![r].todo = @ \ {sg[r].cur}]
              /\ UNCHANGED aborted
    /\ UNCHANGED <<rows, hist, pend>>

(* Mutant of SaveHistoryLegacy: the history store writes outside the      *)
(* request's transaction (its own executor): the entry is committed at once.*)
SaveHistoryLegacyOutsideTx(r) ==
    /\ Legacy
    /\ sg[r].pc = "hist"
    /\ \E fail \in Fails :
         hist' = IF fail THEN hist
                 ELSE hist \cup {[user |-> r, pw |-> SignupPassword]}
    /\ sg' = IF sg[r].err # "none"
             THEN [sg EXCEPT ![r].pc = "end"]
             ELSE [sg EXCEPT ![r].pc = "next", ![r].todo = @ \ {sg[r].cur}]
    /\ UNCHANGED <<rows, pend, pendHist, aborted>>

(* Legacy CreatePrincipal, after the provider_password insert: the        *)
(* history entry is written whether or not that insert failed, and its    *)
(* error is ignored; the insert's error is returned.  In an aborted        *)
(* transaction the history insert fails too.                               *)
SaveHistoryLegacy(r) ==
    /\ Legacy
    /\ sg[r].pc = "hist"
    /\ \E fail \in Fails :
         LET ok == ~fail /\ ~aborted[r]
         IN /\ pendHist' = [pendHist EXCEPT ![r] = @ \/ ok]
            /\ aborted' = [aborted EXCEPT ![r] = ~ok]
    /\ sg' = IF sg[r].err # "none"
             THEN [sg EXCEPT ![r].pc = "end"]
             ELSE [sg EXCEPT ![r].pc = "next", ![r].todo = @ \ {sg[r].cur}]
    /\ UNCHANGED <<rows, hist, pend>>

(* The transaction of request r is over: its uncommitted writes are gone. *)
Discard(r) ==
    /\ pend' = [pend EXCEPT ![r] = {}]
    /\ pendHist' = [pendHist EXCEPT ![r] = FALSE]
    /\ aborted' = [aborted EXCEPT ![r] = FALSE]

(* Mutants of End: committing whatever CreatePrincipalsByLoginID          *)
(* returned; returning its error without rolling back.                    *)
EndCommitsOnError(r) ==
    /\ sg[r].pc = "end"
    /\ \E fail \in Fails :
         IF fail \/ aborted[r]
         THEN /\ UNCHANGED <<rows, hist>>
              /\ sg' = [sg EXCEPT ![r].pc = "done", ![r].result = "commitErr"]
         ELSE /\ rows' = rows \cup SignupRows(r)
              /\ hist' = hist \cup SignupHist(r)
              /\ sg' = [sg EXCEPT ![r].pc = "done", ![r].result =
                           IF sg[r].err = "none" THEN "ok" ELSE sg[r].err]
    /\ Discard(r)

EndSkipsRollback(r) ==
    /\ sg[r].pc = "end"
    /\ IF sg[r].err = "none"
       THEN \E fail \in Fails :
              IF fail \/ aborted[r]
              THEN /\ UNCHANGED <<rows, hist>>
                   /\ sg' = [sg EXCEPT ![r].pc = "done", ![r].result = "commitErr"]
                   /\ Discard(r)
              ELSE /\ rows' = rows \cup SignupRows(r)
                   /\ hist' = hist \cup SignupHist(r)
                   /\ sg' = [sg EXCEPT ![r].pc = "done", ![r].result = "ok"]
                   /\ Discard(r)
       ELSE /\ sg' = [sg EXCEPT ![r].pc = "done", ![r].result = sg[r].err]
            /\ UNCHANGED <<rows, hist, pend, pendHist, aborted>>

(* EndTx of the handler's WithTx: CommitTx when CreatePrincipalsByLoginID *)
(* returned nil (COMMIT of an aborted transaction rolls back and errors), *)
(* otherwise RollbackTx and its error is the result.                      *)
End(r) ==
    /\ sg[r].pc = "end"
    /\ IF sg[r].err = "none"
       THEN \E fail \in Fails :
              IF fail \/ aborted[r]
              THEN /\ UNCHANGED <<rows, hist>>
                   /\ sg' = [sg EXCEPT ![r].pc = "done", ![r].result = "commitErr"]
              ELSE /\ rows' = rows \cup SignupRows(r)
                   /\ hist' = hist \cup SignupHist(r)
                   /\ sg' = [sg EXCEPT ![r].pc = "done", ![r].result = "ok"]
       ELSE /\ UNCHANGED <<rows, hist>>
            /\ sg' = [sg EXCEPT ![r].pc = "done", ![r].result = sg[r].err]
    /\ Discard(r)

RequestStep(r) ==
    /\ \/ Arrive(r) \/ NextLoginID(r) \/ NextLoginIDLegacy(r)
       \/ InsertPrincipal(r) \/ InsertPassword(r)
       \/ SaveHistory(r) \/ SaveHistoryLegacy(r) \/ End(r)
    /\ UNCHANGED <<ch, upd, chHist>>

-----------------------------------------------------------------------------
(***************************************************************************)
(* Password change and login rehash on committed principals, each request  *)
(* in its own WithTx: a change loads the user's principals                 *)
(* (GetPrincipalsByUserID) and calls UpdatePassword (legacy:               *)
(* UpdatePrincipal) on each in the order the rows came back; a login       *)
(* loads one principal (GetPrincipalByLoginIDWithRealm) and calls           *)
(* MigratePassword with the password it verified against it.  An UPDATE    *)
(* takes the row lock until its transaction ends.                          *)
(***************************************************************************)
Loaded == [uk : UniqueKeys, pw : Passwords]

UpdateErrors == {"none", "dbErr", "histErr", "notFound", "normErr"}

ChangeHandler == [pc : {"idle", "update", "migrate", "lock", "hist", "end", "done"},
                  todo : SUBSET Loaded, cur : Loaded \cup {NULL},
                  err : UpdateErrors, result : UpdateErrors \cup {"ok", "commitErr"}]

Found(ws) == {[uk |-> w.uk, pw |-> w.pw] : w \in ws}

HeldKeys(x) == {w.uk : w \in upd[x]}

(* The other open transactions holding the row lock of key k, and the key *)
(* an updater is waiting to lock.                                          *)
LockedBy(x, k) == {o \in Updaters \ {x} : k \in HeldKeys(o)}

Locking(o) == IF ch[o].pc = "lock" THEN {ch[o].cur.uk} ELSE {}

(* GetPrincipalsByUserID: one SELECT of the user's committed principals;   *)
(* the legacy version returns ErrUserNotFound for none.                    *)
LoadByUserID(c) ==
    /\ c \in Changes
    /\ ch[c].pc = "idle"
    /\ \E fail \in Fails :
         LET ps == Found({w \in rows : w.user = ChangeTarget[c]})
         IN CASE fail ->
                   /\ ch' = [ch EXCEPT ![c].pc = "end", ![c].err = "dbErr"]
                   /\ aborted' = [aborted EXCEPT ![c] = TRUE]
              [] Legacy /\ ps = {} ->
                   /\ ch' = [ch EXCEPT ![c].pc = "end", ![c].err = "notFound"]
                   /\ UNCHANGED aborted
              [] OTHER ->
                   /\ ch' = [ch EXCEPT ![c].pc = "update", ![c].todo = ps]
                   /\ UNCHANGED aborted
    /\ UNCHANGED <<rows, hist, upd, chHist>>

(* The next principal of the loaded slice, in the order of the rows.      *)
NextPrincipal(c) ==
    /\ ch[c].pc = "update"
    /\ IF ch[c].todo = {}
       THEN ch' = [ch EXCEPT ![c].pc = "end"]
       ELSE \E p \in ch[c].todo :
              ch' = [ch EXCEPT ![c].pc = "lock", ![c].cur = p,
                               ![c].todo = @ \ {p}]
    /\ UNCHANGED <<rows, hist, aborted, upd, chHist>>

(* UPDATE provider_password SET password = pw WHERE principal_id: it waits *)
(* while another open transaction holds the row; the victim of a deadlock *)
(* and a failed statement abort the transaction; on success the handler   *)
(* goes on at pcOk.                                                        *)
UpdateRow(x, pw, pcOk) ==
    LET k == ch[x].cur.uk
        failed == /\ ch' = [ch EXCEPT ![x].pc = "end", ![x].err = "dbErr"]
                  /\ aborted' = [aborted EXCEPT ![x] = TRUE]
                  /\ UNCHANGED upd
    IN \/ /\ LockedBy(x, k) = {}
          /\ \E fail \in Fails :
               IF fail
               THEN failed
               ELSE /\ upd' = [upd EXCEPT ![x] = @ \cup {[uk |-> k, pw |-> pw]}]
                    /\ ch' = [ch EXCEPT ![x].pc = pcOk]
                    /\ UNCHANGED aborted
       \/ /\ \E o \in LockedBy(x, k) : Locking(o) \cap HeldKeys(x) # {}
          /\ failed

(* Mutant of UpdatePassword: isPasswordChanged read after setPassword.    *)
UpdatePasswordChangedAfterSet(c) ==
    /\ c \in Changes
    /\ ch[c].pc = "lock"
    /\ UpdateRow(c, NewPassword[c], "update")
    /\ UNCHANGED <<rows, hist, chHist>>

(* UpdatePassword (legacy UpdatePrincipal): isPasswordChanged compares the *)
(* new password with the hash loaded before, then the UPDATE; history is  *)
(* written only for a changed password.  setPassword (legacy: bcrypt)     *)
(* fails only for a password bcrypt refuses, which none here is.          *)
UpdatePassword(c) ==
    /\ c \in Changes
    /\ ch[c].pc = "lock"
    /\ LET changed == ch[c].cur.pw # NewPassword[c]
       IN UpdateRow(c, NewPassword[c],
                    IF HistoryEnabled /\ changed THEN "hist" ELSE "update")
    /\ UNCHANGED <<rows, hist, chHist>>

(* savePasswordHistory after the UPDATE; its error is returned.            *)
SaveChangeHistory(c) ==
    /\ ch[c].pc = "hist"
    /\ \E fail \in Fails :
         IF fail
         THEN /\ ch' = [ch EXCEPT ![c].pc = "end", ![c].err = "histErr"]
              /\ aborted' = [aborted EXCEPT ![c] = TRUE]
              /\ UNCHANGED chHist
         ELSE /\ chHist' = [chHist EXCEPT ![c] = @ \cup {NewPassword[c]}]
              /\ ch' = [ch EXCEPT ![c].pc = "update"]
              /\ UNCHANGED aborted
    /\ UNCHANGED <<rows, hist, upd>>

(* GetPrincipalByLoginIDWithRealm for one configured key: normalize (an   *)
(* error returns before any statement), one SELECT by the normalized ID,  *)
(* ErrNotFound for no row.  The legacy provider has no MigratePassword.   *)
LoadByLoginID(l) ==
    /\ l \in Logins
    /\ ~Legacy
    /\ ch[l].pc = "idle"
    /\ LET k == UK(LoginID[l])
           ps == Found({w \in rows : w.uk = k})
       IN IF k = NULL
          THEN /\ ch' = [ch EXCEPT ![l].pc = "end", ![l].err = "normErr"]
               /\ UNCHANGED aborted
          ELSE \E fail \in Fails :
                 CASE fail ->
                        /\ ch' = [ch EXCEPT ![l].pc = "end", ![l].err = "dbErr"]
                        /\ aborted' = [aborted EXCEPT ![l] = TRUE]
                   [] ps = {} ->
                        /\ ch' = [ch EXCEPT ![l].pc = "end", ![l].err = "notFound"]
                        /\ UNCHANGED aborted
                   [] OTHER ->
                        /\ ch' = [ch EXCEPT ![l].pc = "migrate",
                                            ![l].cur = CHOOSE p \in ps : TRUE]
                        /\ UNCHANGED aborted
    /\ UNCHANGED <<rows, hist, upd, chHist>>

(* MigratePassword: principal.migratePassword decides from the stored hash *)
(* whether to rehash (not migrated: return); ...                           *)
MigratePassword(l) ==
    /\ ch[l].pc = "migrate"
    /\ \E migrated \in BOOLEAN :
         ch' = [ch EXCEPT ![l].pc = IF migrated THEN "lock" ELSE "end"]
    /\ UNCHANGED <<rows, hist, aborted, upd, chHist>>

(* ... then UPDATEs the row with the hash of the password the login        *)
(* verified against the row it loaded.                                     *)
MigrateUpdate(l) ==
    /\ l \in Logins
    /\ ch[l].pc = "lock"
    /\ UpdateRow(l, ch[l].cur.pw, "end")
    /\ UNCHANGED <<rows, hist, chHist>>

(* The committed rows with the updates of x applied, and x's history.     *)
ApplyUpdates(x) ==
    {IF row.uk \in HeldKeys(x)
     THEN [row EXCEPT !.pw = (CHOOSE w \in upd[x] : w.uk = row.uk).pw]
     ELSE row : row \in rows}

UpdateHist(x) == {[user |-> ChangeTarget[x], pw |-> p] : p \in chHist[x]}

(* Mutant of EndUpdate: the error path returns without RollbackTx, so the *)
(* connection keeps the transaction and its row locks.                    *)
EndUpdateKeepsLocks(x) ==
    /\ ch[x].pc = "end"
    /\ IF ch[x].err = "none"
       THEN /\ \E fail \in Fails :
                 IF fail \/ aborted[x]
                 THEN /\ UNCHANGED <<rows, hist>>
                      /\ ch' = [ch EXCEPT ![x].pc = "done", ![x].result = "commitErr"]
                 ELSE /\ rows' = ApplyUpdates(x)
                      /\ hist' = hist \cup UpdateHist(x)
                      /\ ch' = [ch EXCEPT ![x].pc = "done", ![x].result = "ok"]
            /\ upd' = [upd EXCEPT ![x] = {}]
            /\ chHist' = [chHist EXCEPT ![x] = {}]
            /\ aborted' = [aborted EXCEPT ![x] = FALSE]
       ELSE /\ ch' = [ch EXCEPT ![x].pc = "done", ![x].result = ch[x].err]
            /\ UNCHANGED <<rows, hist, upd, chHist, aborted>>

(* EndTx of the request's WithTx, as for sign-up: COMMIT applies the      *)
(* updates and history entries (an aborted transaction rolls back and     *)
(* errors); an error rolls back.  Either way the row locks are released.  *)
EndUpdate(x) ==
    /\ ch[x].pc = "end"
    /\ IF ch[x].err = "none"
       THEN \E fail \in Fails :
              IF fail \/ aborted[x]
              THEN /\ UNCHANGED <<rows, hist>>
                   /\ ch' = [ch EXCEPT ![x].pc = "done", ![x].result = "commitErr"]
              ELSE /\ rows' = ApplyUpdates(x)
                   /\ hist' = hist \cup UpdateHist(x)
                   /\ ch' = [ch EXCEPT ![x].pc = "done", ![x].result = "ok"]
       ELSE /\ UNCHANGED <<rows, hist>>
            /\ ch' = [ch EXCEPT ![x].pc = "done", ![x].result = ch[x].err]
    /\ upd' = [upd EXCEPT ![x] = {}]
    /\ chHist' = [chHist EXCEPT ![x] = {}]
    /\ aborted' = [aborted EXCEPT ![x] = FALSE]

UpdaterStep(x) ==
    /\ \/ LoadByUserID(x) \/ NextPrincipal(x) \/ UpdatePassword(x)
       \/ SaveChangeHistory(x) \/ LoadByLoginID(x) \/ MigratePassword(x)
       \/ MigrateUpdate(x) \/ EndUpdate(x)
    /\ UNCHANGED <<pend, pendHist, sg>>

Next == \/ \E r \in Signups : RequestStep(r)
        \/ \E x \in Updaters : UpdaterStep(x)

(* Every request runs to the end of its handler: the handler goroutine is *)
(* scheduled, and PostgreSQL's deadlock detector breaks a waiting cycle.  *)
Spec == /\ Init /\ [][Next]_vars
        /\ \A r \in Signups : WF_vars(RequestStep(r))
        /\ \A x \in Updaters : WF_vars(UpdaterStep(x))

TypeOK ==
    /\ rows \subseteq [uk : UniqueKeys, user : Signups, pw : Passwords]
    /\ hist \subseteq [user : Signups, pw : Passwords]
    /\ pend \in [Signups -> SUBSET UniqueKeys]
    /\ pendHist \in [Signups -> BOOLEAN]
    /\ aborted \in [Txs -> BOOLEAN]
    /\ sg \in [Signups -> Handler]
    /\ ch \in [Updaters -> ChangeHandler]
    /\ upd \in [Updaters -> SUBSET Loaded]
    /\ chHist \in [Updaters -> SUBSET Passwords]

-----------------------------------------------------------------------------

(* The committed owner of every unique key.                                *)
OwnerMap == [k \in UniqueKeys |->
               IF k \in CommittedKeys THEN (CHOOSE row \in rows : row.uk = k).user
                                      ELSE NULL]

KeysOf(s) == {UK(s[i]) : i \in DOMAIN s}

(* The key sets a request can claim: its login IDs that all normalize.    *)
ChoiceSets == [r \in Signups |->
                 {KeysOf(s) : s \in {c \in Candidates[r] : NULL \notin KeysOf(c)}}]

R == INSTANCE PrincipalRegistry
        WITH owner <- OwnerMap, withHistory <- {h.user : h \in hist}, Choices <- ChoiceSets

(* Sign-up is all-or-nothing and login IDs are owned once: every change   *)
(* of the committed tables is a whole sign-up claiming all the unique     *)
(* keys of the login IDs it sent, none taken, with its password history.  *)
(* At stake: the loop's early returns (lines 152-181), the legacy loop's  *)
(* ignored history error, and EndTx committing only a nil result.         *)
RegistryRefinement == R!Spec

(* ErrLoginIDAlreadyUsed (legacy ErrUserDuplicated) is only reported when *)
(* another user's committed principal holds one of the request's keys:    *)
(* isUniqueViolated (line 175) must not turn store errors or deadlock     *)
(* victims into "already used".                                            *)
AlreadyUsedIsReal ==
    \A r \in Signups :
        sg[r].result \in {"AlreadyUsed", "Duplicated"} =>
            \E k \in KeysOf(sg[r].ids) \ {NULL} : OwnerMap[k] \notin {NULL, r}

(* Every sign-up that has started finishes, even when two sign-ups wait  *)
(* on each other's uncommitted login IDs.                                 *)
SignupsComplete ==
    \A r \in Signups : sg[r].pc = "next" ~> sg[r].pc = "done"

(* Password history keeps every password in use: with history enabled,   *)
(* the password of each committed principal has a committed history      *)
(* entry of its user.  At stake: UpdatePassword (legacy UpdatePrincipal)  *)
(* deciding isPasswordChanged from a principal loaded before the UPDATE,  *)
(* which a concurrent change may have made stale; MigratePassword writing *)
(* a hash with no history entry; the history insert and the UPDATE        *)
(* committing together.                                                    *)
HistoryHasCurrent ==
    HistoryEnabled =>
        \A row \in rows : [user |-> row.user, pw |-> row.pw] \in hist

(* Every change-password and login request that has started finishes,    *)
(* even when two changes lock one user's rows in opposite orders.          *)
UpdatesComplete ==
    \A x \in Updaters : ch[x].pc # "idle" ~> ch[x].pc = "done"

====
