---------------------------- MODULE Credentials ----------------------------
(***************************************************************************)
(* The password of an account, from the wizard or the "Sign in again"      *)
(* dialog (src/ui/setup.rs, src/ui/settings.rs) to the engine's lookup:    *)
(* the desktop keyring, the process's cache of it                          *)
(* (src/nextcloud/credentials.rs), the configuration file whose accounts   *)
(* are named after their login (src/storage/config.rs), and the clean-up   *)
(* after a removal (src/ui/main_window.rs).                                *)
(*                                                                         *)
(* Lookups run on three threads: the main loop, when a folder starts a     *)
(* run, a worker, for a view that asks the server something, and the       *)
(* clean-up.  Each call on the Secret Service and each hold of the cache's *)
(* lock is a step; while the main loop looks up, it does nothing else.     *)
(***************************************************************************)
EXTENDS Integers, FiniteSets

CONSTANTS
    Logins,        \* user names on the server
    Events,        \* what an instance exercises besides signing in
    MaxPasswords,  \* bound: passwords the server ever accepts
    MaxLocks       \* bound: times the keyring locks

ASSUME CredentialsAssumption == MaxPasswords \in Nat /\ MaxLocks \in Nat

None == 0
AppPasswords == 1..MaxPasswords
Readers == {"main", "worker", "cleanup"}

\* account_id: the server's address and the login name.  One server is enough.
AccountId(login) == login
Ids == {AccountId(u) : u \in Logins}
Nobody == "nobody"

ASSUME LoginsAssumption == Nobody \notin Logins

VARIABLES
    accepted,  \* the server: the passwords each login is let in with
    minted,    \* passwords handed out so far
    stored,    \* the keyring: the item of each account id
    legacy,    \* the keyring: the items of the Python client, by login
    locked,    \* whether the keyring is locked
    locks,     \* times it was
    cache,     \* PASSWORD_CACHE
    file,      \* the login of the configured account, or Nobody
    runtime,   \* the runtime of the account: its id, and the login it runs with
    reader,    \* the lookup each thread is in
    dialog,    \* the login and password being signed in with, and where
    signed,    \* history: the login that signed in last and was not refused since
    crossed    \* history: ids signed in while a lookup or a clean-up was under way

keyring == <<stored, legacy, locked, locks, cache>>
credentialVars == <<accepted, minted, keyring, file, runtime, reader, dialog, signed, crossed>>

NoRuntime == [id |-> Nobody, login |-> Nobody]
NoLookup == [at |-> "idle", id |-> Nobody, login |-> Nobody, found |-> None]
NoDialog == [where |-> "none", step |-> "none", id |-> Nobody, login |-> Nobody,
             password |-> None, raced |-> FALSE]

CredentialsInit ==
    /\ accepted = [u \in Logins |-> {1}] /\ minted = 1
    /\ stored = [i \in Ids |-> None]
    /\ legacy \in [Logins -> {None, 1}]
    /\ locked = FALSE /\ locks = 0
    /\ cache = [i \in Ids |-> None]
    /\ file = Nobody /\ runtime = NoRuntime
    /\ reader = [r \in Readers |-> NoLookup]
    /\ dialog = NoDialog
    /\ signed = Nobody /\ crossed = {}

MainFree == reader["main"].at = "idle" /\ dialog.step # "stored"
Busy(id) == \E r \in Readers : reader[r].at # "idle" /\ reader[r].id = id

-----------------------------------------------------------------------------
(* get_for_account.                                                        *)

At(r, place) == reader[r].at = place
Move(r, place, found) ==
    reader' = [reader EXCEPT ![r].at = place, ![r].found = found]

\* The cache answers first.
Begin(r, id, login) ==
    reader' = [reader EXCEPT ![r] =
        [at |-> IF cache[id] = None THEN "search" ELSE "done",
         id |-> id, login |-> login, found |-> cache[id]]]

\* A locked item is an error, not a missing password (issue #98).
Search(r) ==
    LET item == stored[reader[r].id] IN
    /\ At(r, "search")
    /\ Move(r, IF item = None THEN "legacy" ELSE IF locked THEN "done" ELSE "keep",
            IF locked THEN None ELSE item)
    /\ UNCHANGED <<accepted, minted, keyring, file, runtime, dialog, signed, crossed>>

SearchLegacy(r) ==
    LET item == legacy[reader[r].login] IN
    /\ At(r, "legacy")
    /\ Move(r, IF item = None \/ locked THEN "done" ELSE "adopt",
            IF locked THEN None ELSE item)
    /\ UNCHANGED <<accepted, minted, keyring, file, runtime, dialog, signed, crossed>>

\* A password of the Python client is stored again under the account's id;
\* that the keyring refuses is no reason not to use it.
Adopt(r) ==
    /\ At(r, "adopt")
    /\ stored' = IF locked THEN stored ELSE [stored EXCEPT ![reader[r].id] = reader[r].found]
    /\ Move(r, "keep", reader[r].found)
    /\ UNCHANGED <<accepted, minted, legacy, locked, locks, cache, file, runtime,
                   dialog, signed, crossed>>

Keep(r) ==
    /\ At(r, "keep")
    /\ cache' = [cache EXCEPT ![reader[r].id] = reader[r].found]
    /\ Move(r, "done", reader[r].found)
    /\ UNCHANGED <<accepted, minted, stored, legacy, locked, locks, file, runtime,
                   dialog, signed, crossed>>

\* A view or a watcher asks the server something.
WorkerLooksUp ==
    /\ At("worker", "idle") /\ runtime # NoRuntime
    /\ Begin("worker", runtime.id, runtime.login)
    /\ UNCHANGED <<accepted, minted, keyring, file, runtime, dialog, signed, crossed>>

\* A folder starts a run: the lookup is made on the main loop itself.
RunStarts ==
    /\ MainFree /\ runtime # NoRuntime
    /\ Begin("main", runtime.id, runtime.login)
    /\ UNCHANGED <<accepted, minted, keyring, file, runtime, dialog, signed, crossed>>

\* The lookup is over.  A run that is refused leaves the cache as it is:
\* nothing calls CredentialsStore::invalidate.
LookupOver(r) ==
    /\ r # "cleanup" /\ At(r, "done")
    /\ reader' = [reader EXCEPT ![r] = NoLookup]
    /\ UNCHANGED <<accepted, minted, keyring, file, runtime, dialog, signed, crossed>>

-----------------------------------------------------------------------------
(* Signing in.                                                             *)

\* Mutant: the cache keeps what it has.
CachedIfNew(id, password) ==
    cache' = IF cache[id] = None THEN [cache EXCEPT ![id] = password] ELSE cache

\* CredentialsStore::set, after the keyring, writes through to the cache.
Cached(id, password) == cache' = [cache EXCEPT ![id] = password]

CrossedIf(raced, id) == IF raced \/ Busy(id) THEN crossed \cup {id} ELSE crossed \ {id}

\* The names the user types into the dialog of the account.
Signable == IF "rename" \in Events THEN Logins ELSE {file}

\* The user signs in with a password the server accepts, in the wizard or in
\* the dialog of the account; the check is made on a worker.
SignIn(where) ==
    \E u \in Logins : \E p \in accepted[u] :
        /\ dialog = NoDialog /\ MainFree
        /\ IF where = "wizard" THEN file = Nobody
           ELSE file # Nobody /\ runtime # NoRuntime /\ u \in Signable
        /\ dialog' = [where |-> where, step |-> "checked", login |-> u, password |-> p,
                      id |-> IF where = "wizard" THEN AccountId(u) ELSE AccountId(file),
                      raced |-> Busy(IF where = "wizard" THEN u ELSE file)]
        /\ UNCHANGED <<accepted, minted, keyring, file, runtime, reader, signed, crossed>>

\* A keyring that is locked refuses the password: an inline error, no change.
SignInRefused ==
    /\ dialog.step = "checked" /\ MainFree /\ locked
    /\ dialog' = NoDialog
    /\ UNCHANGED <<accepted, minted, keyring, file, runtime, reader, signed, crossed>>

\* The keyring takes the password; the wizard looks for a duplicate first.
PasswordStored ==
    /\ dialog.step = "checked" /\ MainFree /\ ~locked
    /\ stored' = [stored EXCEPT ![dialog.id] = dialog.password]
    /\ dialog' = [dialog EXCEPT !.step = "stored", !.raced = @ \/ Busy(dialog.id)]
    /\ UNCHANGED <<accepted, minted, legacy, locked, locks, cache, file, runtime, reader,
                   signed, crossed>>

\* The wizard adds the account and starts its runtime.
AccountAdded ==
    /\ dialog.where = "wizard" /\ dialog.step = "stored"
    /\ Cached(dialog.id, dialog.password)
    /\ file' = dialog.login
    /\ runtime' = [id |-> dialog.id, login |-> dialog.login]
    /\ signed' = dialog.login
    /\ crossed' = CrossedIf(dialog.raced, dialog.id)
    /\ dialog' = NoDialog
    /\ UNCHANGED <<accepted, minted, stored, legacy, locked, locks, reader>>

\* The dialog keeps the password under the id it was opened for and writes the
\* login name; the file's account takes its id from that name.  The runtime is
\* refreshed if the configuration still knows its id.
SignedInAgain ==
    /\ dialog.where = "again" /\ dialog.step = "stored"
    /\ Cached(dialog.id, dialog.password)
    /\ crossed' = CrossedIf(dialog.raced, dialog.id)
    /\ dialog' = NoDialog
    /\ IF file # Nobody /\ AccountId(file) = dialog.id
       THEN /\ file' = dialog.login /\ signed' = dialog.login
            /\ runtime' = IF AccountId(dialog.login) = runtime.id
                          THEN [runtime EXCEPT !.login = dialog.login] ELSE runtime
       ELSE UNCHANGED <<file, signed, runtime>>
    /\ UNCHANGED <<accepted, minted, stored, legacy, locked, locks, reader>>

-----------------------------------------------------------------------------
(* Removal.                                                                *)

\* remove_active_account: configuration and runtime at once, the rest on a
\* worker.
RemoveAndCleanUp ==
    /\ "remove" \in Events /\ MainFree /\ file # Nobody /\ At("cleanup", "idle")
    /\ file' = Nobody /\ runtime' = NoRuntime
    /\ Begin("cleanup", AccountId(file), file)
    /\ signed' = Nobody /\ crossed' = CrossedIf(FALSE, AccountId(file))
    /\ UNCHANGED <<accepted, minted, keyring, dialog>>

\* The app password is revoked if the server can be reached; a password the
\* user typed stays.
Revoke ==
    LET c == reader["cleanup"] IN
    /\ At("cleanup", "done")
    /\ \/ accepted' = [accepted EXCEPT ![c.login] = @ \ {c.found}]
       \/ UNCHANGED accepted
    /\ Move("cleanup", "evict", c.found)
    /\ UNCHANGED <<minted, keyring, file, runtime, dialog, signed, crossed>>

\* Mutant: deleting is the keyring's business.
NothingForgotten(id) == UNCHANGED cache

Forgotten(id) == cache' = [cache EXCEPT ![id] = None]

\* CredentialsStore::delete: the cache, then the item, unless it is locked.
Evict ==
    /\ At("cleanup", "evict") /\ Forgotten(reader["cleanup"].id)
    /\ Move("cleanup", "erase", None)
    /\ UNCHANGED <<accepted, minted, stored, legacy, locked, locks, file, runtime,
                   dialog, signed, crossed>>

Erase ==
    /\ At("cleanup", "erase")
    /\ stored' = IF locked THEN stored ELSE [stored EXCEPT ![reader["cleanup"].id] = None]
    /\ reader' = [reader EXCEPT !["cleanup"] = NoLookup]
    /\ UNCHANGED <<accepted, minted, legacy, locked, locks, cache, file, runtime,
                   dialog, signed, crossed>>

-----------------------------------------------------------------------------
(* Around them.                                                            *)

\* The user makes a new password on the server...
PasswordMinted(u) ==
    /\ minted < MaxPasswords /\ minted' = minted + 1
    /\ accepted' = [accepted EXCEPT ![u] = @ \cup {minted'}]
    /\ UNCHANGED <<keyring, file, runtime, reader, dialog, signed, crossed>>

\* ... or drops the ones that were.
PasswordsDropped(u) ==
    /\ "drop" \in Events /\ accepted[u] # {} /\ dialog = NoDialog
    /\ accepted' = [accepted EXCEPT ![u] = {}]
    /\ signed' = IF signed = u THEN Nobody ELSE signed
    /\ UNCHANGED <<minted, keyring, file, runtime, reader, dialog, crossed>>

LockFlips ==
    /\ IF locked THEN UNCHANGED locks ELSE locks < MaxLocks /\ locks' = locks + 1
    /\ locked' = ~locked
    /\ UNCHANGED <<accepted, minted, stored, legacy, cache, file, runtime, reader,
                   dialog, signed, crossed>>

\* The application is started again: only the file and the keyring last.
Restart ==
    /\ "restart" \in Events
    /\ cache' = [i \in Ids |-> None]
    /\ reader' = [r \in Readers |-> NoLookup] /\ dialog' = NoDialog
    /\ runtime' = IF file = Nobody THEN NoRuntime
                  ELSE [id |-> AccountId(file), login |-> file]
    /\ UNCHANGED <<accepted, minted, stored, legacy, locked, locks, file, signed, crossed>>

Lookup(r) == Search(r) \/ SearchLegacy(r) \/ Adopt(r) \/ Keep(r) \/ LookupOver(r)

CredentialsNext ==
    \/ \E r \in Readers : Lookup(r)
    \/ WorkerLooksUp \/ RunStarts
    \/ SignIn("wizard") \/ SignIn("again") \/ SignInRefused \/ PasswordStored \/ AccountAdded \/ SignedInAgain
    \/ RemoveAndCleanUp \/ Revoke \/ Evict \/ Erase
    \/ \E u \in Logins : PasswordMinted(u) \/ PasswordsDropped(u)
    \/ LockFlips \/ Restart

CredentialsSpec == CredentialsInit /\ [][CredentialsNext]_credentialVars

-----------------------------------------------------------------------------
\* What a lookup of the runtime's account would answer now.
Answer ==
    IF cache[runtime.id] # None THEN cache[runtime.id] ELSE stored[runtime.id]

\* A sign-in that the application accepted gives the next runs a password the
\* server accepts for their login, whatever the cache and the keyring held; a
\* lookup or a clean-up that was under way may undo it, until the next sign-in.
SignInSticks ==
    signed # Nobody /\ runtime # NoRuntime /\ dialog.step # "stored" /\ signed \notin crossed
        => Answer \in accepted[runtime.login]

\* Once a removal is through, neither the keyring nor the cache has the
\* account's password (issue #28), unless the keyring was locked or a lookup was
\* under way when the account was removed.
RemovalForgets ==
    [][LET id == reader["cleanup"].id IN
       /\ Erase /\ file = Nobody /\ dialog = NoDialog /\ ~locked /\ id \notin crossed
          => stored'[id] = None /\ cache'[id] = None]_credentialVars
=============================================================================
