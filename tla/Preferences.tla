----------------------------- MODULE Preferences -----------------------------
(***************************************************************************)
(* The preferences, from the settings file to the widgets and back: what   *)
(* the loader makes of a file (src/storage/config.rs), the pages of the    *)
(* settings view (src/ui/settings.rs), each of which is built once and     *)
(* writes back all its widgets when one changes, and the window's copy of  *)
(* the configuration (src/ui/main_window.rs).                              *)
(*                                                                         *)
(* Everything runs on the main loop, and one instance of the program runs  *)
(* at a time: a step is the handler of one signal.  How the file reaches   *)
(* the disk is the subject of Settings.                                    *)
(*                                                                         *)
(* A setting is at its default, chosen, or holds what is of no use there.  *)
(* An account is named after its login: its id is derived from that and    *)
(* the server, and one server is enough.                                   *)
(***************************************************************************)
EXTENDS Integers

CONSTANTS
    Users,
    Roots,        \* the folders an account may have
    Nobody,
    Documents,    \* what the file may hold at first and what a user may import
    MaxChoices    \* bound: how often somebody does something

VARIABLES
    document,  \* the settings file
    cached,    \* MainWindow::config
    rows,      \* the accounts in the sidebar, as it was built last
    active,    \* active_account_id
    view,      \* settings_view: for whom it was built, and its widgets
    backup,    \* the file that was exported last
    running,
    choices,
    imported   \* history: the file that was imported last

preferenceVars ==
    <<document, cached, rows, active, view, backup, running, choices, imported>>

Values == {"default", "chosen", "bad"}

-----------------------------------------------------------------------------
(* The settings, by the page that shows them.                              *)

SyncFields ==
    {"local_inotify_enabled", "local_interval_enabled", "local_interval_minutes",
     "remote_push_enabled", "remote_interval_enabled", "remote_interval_minutes",
     "exclude_patterns_enabled", "max_sync_retries"}
GuardFields == {"guard_enabled", "count_threshold", "percent_threshold"}
ConnectionFields == {"custom_proxy", "trust_invalid_certificates"}
GeneralFields ==
    {"autostart", "show_notifications", "show_server_notifications", "quiet_hours"}
LoggingFields == {"save_logs", "retention_days"}
NetworkFields == {"reduce_transfer_impact", "allowed_ssids"}
HiddenFields == {"sync_hidden_files"}
DetailFields == {"detailed_output"}
SizeFields == {"size_confirm_threshold_mb"}

AccountPages == {SyncFields, GuardFields, ConnectionFields, HiddenFields, DetailFields}
AppPages == {GeneralFields, LoggingFields, NetworkFields, SizeFields}

\* The patterns have a dialog of their own, two settings have no widget.
AccountFields == (UNION AccountPages) \cup {"exclude_patterns"}
AppFields == (UNION AppPages) \cup {"global_proxy", "global_trust"}
ShownFields == (UNION AccountPages) \cup (UNION AppPages)

\* A line of text is saved when it is applied, or along with the page.
TextFields == {"custom_proxy", "quiet_hours", "allowed_ssids"}
Checked == {"custom_proxy", "quiet_hours"}

Account == [folders : SUBSET Roots, own : [AccountFields -> Values]]
IsDocument(d) ==
    \E known \in SUBSET Users :
        d \in [shape : {"single", "pairs", "folders"},
              accounts : [known -> Account], app : [AppFields -> Values]]

ASSUME PreferencesAssumption ==
    /\ Nobody \notin Users /\ MaxChoices \in Nat
    /\ \A d \in Documents : IsDocument(d)

-----------------------------------------------------------------------------
(* load and save.                                                          *)

NoAccounts == [u \in {} |-> Nobody]
DefaultConfig == [accounts |-> NoAccounts, app |-> [f \in AppFields |-> "default"]]
DefaultOwn == [f \in AccountFields |-> "default"]

\* What fails the whole load when it is of no use: numbers out of range,
\* patterns, the proxy of all accounts.
StrictFields ==
    {"local_interval_minutes", "remote_interval_minutes", "max_sync_retries",
     "exclude_patterns", "count_threshold", "percent_threshold", "retention_days",
     "global_proxy"}

\* Anything else falls back to its default; an account's own proxy is not looked at.
Meant(f, v) == IF v = "bad" /\ f # "custom_proxy" THEN "default" ELSE v

\* validate_config, in its order: migrations, then the sections.
Loads(d) ==
    /\ \A u \in DOMAIN d.accounts : \A f \in AccountFields \cap StrictFields :
           d.accounts[u].own[f] # "bad"
    /\ \A f \in AppFields \cap StrictFields : d.app[f] # "bad"

\* Before schema 3 there was one account ("single"), before schema 6 each had a
\* local and a remote folder ("pairs").  The loader moves both where they are now.
Migrated(d) == [shape |-> "folders", accounts |-> d.accounts, app |-> d.app]

Loaded(d) ==
    LET now == Migrated(d)
    IN  [accounts |-> [u \in DOMAIN now.accounts |->
             [folders |-> now.accounts[u].folders,
              own |-> [f \in AccountFields |-> Meant(f, now.accounts[u].own[f])]]],
         app |-> [f \in AppFields |-> Meant(f, now.app[f])]]

\* load().unwrap_or_default()
LoadedOrDefault(d) == IF Loads(d) THEN Loaded(d) ELSE DefaultConfig

\* save writes what it is given, in the present schema, and checks nothing.
Written(config) ==
    [shape |-> "folders", accounts |-> config.accounts, app |-> config.app]

\* An import is parsed, not loaded: what the parser does not know it leaves out,
\* the account of a single one and the folder of a pair.
Parsed(d) ==
    CASE d.shape = "single" -> [accounts |-> NoAccounts, app |-> d.app]
      [] d.shape = "pairs" ->
             [accounts |-> [u \in DOMAIN d.accounts |->
                  [folders |-> {}, own |-> d.accounts[u].own]],
              app |-> d.app]
      [] d.shape = "folders" -> [accounts |-> d.accounts, app |-> d.app]

\* persist_account finds the account, in a file that loads.
Found(u) == Loads(document) /\ u \in DOMAIN document.accounts

\* persist_account, persist_config: load, set the fields of a page, save.
Set(fields, page, shown) ==
    [f \in DOMAIN fields |-> IF f \in page THEN shown[f] ELSE fields[f]]

AccountsWith(accounts, u, account) ==
    [w \in DOMAIN accounts \cup {u} |-> IF w = u THEN account ELSE accounts[w]]

Without(accounts, u) == [w \in DOMAIN accounts \ {u} |-> accounts[w]]

AccountStored(u, page, shown) ==
    LET config == Loaded(document)
        account == config.accounts[u]
    IN  Written([accounts |-> AccountsWith(config.accounts, u,
                     [folders |-> account.folders, own |-> Set(account.own, page, shown)]),
                 app |-> config.app])

AppStored(page, shown) ==
    LET config == Loaded(document)
    IN  Written([accounts |-> config.accounts, app |-> Set(config.app, page, shown)])

-----------------------------------------------------------------------------
(* The window.                                                             *)

NoView == [up |-> FALSE]

\* outdated is history: the file was replaced, or the account renamed, since.
View(u, shown, typed, refused, outdated) ==
    [up |-> TRUE, account |-> u, shown |-> shown,
     typed |-> typed, refused |-> refused, outdated |-> outdated]

Outdated == View(view.account, view.shown, view.typed, view.refused, TRUE)

\* Mutant: the sections of the application come from the window's copy, too.
BuiltFromCache(u) ==
    View(u, [f \in ShownFields |->
             IF f \in AccountFields THEN cached.accounts[u].own[f] ELSE cached.app[f]],
         {}, FALSE, FALSE)

\* SettingsView::new: the account from the window's copy, the rest from the file.
Built(u) ==
    View(u, [f \in ShownFields |->
             IF f \in AccountFields THEN cached.accounts[u].own[f]
             ELSE LoadedOrDefault(document).app[f]],
         {}, FALSE, FALSE)

\* present_account: an unknown one gives way to the first, whichever that is.
Presented(u) ==
    IF u \in rows' THEN {u}
    ELSE IF DOMAIN cached'.accounts = {} THEN {Nobody} ELSE DOMAIN cached'.accounts

Refreshed ==
    /\ cached' = LoadedOrDefault(document')
    /\ rows' = DOMAIN cached'.accounts
    /\ active' \in Presented(active)
    /\ view' = NoView

\* reconfigure_active_account
Reconfigured ==
    /\ cached' = LoadedOrDefault(document')
    /\ UNCHANGED <<rows, active>>

WindowRests == UNCHANGED <<cached, rows, active>>

PreferencesInit ==
    /\ document \in {d \in Documents : Loads(d)}
    /\ cached = Loaded(document)
    /\ rows = DOMAIN document.accounts
    /\ active \in (IF rows = {} THEN {Nobody} ELSE rows)
    /\ view = NoView
    /\ backup = Written(DefaultConfig) /\ running = TRUE
    /\ choices = 0 /\ imported = backup

Chooses ==
    /\ running /\ choices < MaxChoices /\ choices' = choices + 1
    /\ UNCHANGED running

-----------------------------------------------------------------------------
(* The pages save themselves.                                              *)

SaveHiddenFiles(shown) ==
    IF Found(view.account)
    THEN document' = AccountStored(view.account, HiddenFields, shown) /\ Reconfigured
    ELSE UNCHANGED document /\ WindowRests

\* Two pages tell the window even of what could not be saved.
SaveDetailedOutput(shown) ==
    /\ document' = IF Found(view.account)
                   THEN AccountStored(view.account, DetailFields, shown) ELSE document
    /\ Reconfigured

SaveDeleteGuard(shown) ==
    /\ document' = IF Found(view.account)
                   THEN AccountStored(view.account, GuardFields, shown) ELSE document
    /\ Reconfigured

SaveSync(shown) ==
    IF Found(view.account)
    THEN document' = AccountStored(view.account, SyncFields, shown) /\ Reconfigured
    ELSE UNCHANGED document /\ WindowRests

\* A proxy of no use is marked, and nothing of the page is saved.
SaveAccountNetwork(shown) ==
    IF shown["custom_proxy"] # "bad" /\ Found(view.account)
    THEN document' = AccountStored(view.account, ConnectionFields, shown) /\ Reconfigured
    ELSE UNCHANGED document /\ WindowRests

\* Hours of no use are marked, and saved as none.
SaveGeneral(shown) ==
    /\ document' = IF Loads(document)
                   THEN AppStored(GeneralFields, [f \in GeneralFields |-> Meant(f, shown[f])])
                   ELSE document
    /\ WindowRests

SaveLogging(shown) ==
    /\ document' = IF Loads(document) THEN AppStored(LoggingFields, shown) ELSE document
    /\ WindowRests

SaveNetwork(shown) ==
    /\ document' = IF Loads(document) THEN AppStored(NetworkFields, shown) ELSE document
    /\ WindowRests

SaveSizeThreshold(shown) ==
    /\ document' = IF Loads(document) THEN AppStored(SizeFields, shown) ELSE document
    /\ WindowRests

Saves(page, shown) ==
    \/ page = HiddenFields /\ SaveHiddenFiles(shown)
    \/ page = DetailFields /\ SaveDetailedOutput(shown)
    \/ page = GuardFields /\ SaveDeleteGuard(shown)
    \/ page = SyncFields /\ SaveSync(shown)
    \/ page = ConnectionFields /\ SaveAccountNetwork(shown)
    \/ page = GeneralFields /\ SaveGeneral(shown)
    \/ page = LoggingFields /\ SaveLogging(shown)
    \/ page = NetworkFields /\ SaveNetwork(shown)
    \/ page = SizeFields /\ SaveSizeThreshold(shown)

PageOf(f) == CHOOSE page \in AccountPages \cup AppPages : f \in page

\* Whether the line of the proxy is marked after its page was saved.
Marked(page, shown) ==
    IF page # ConnectionFields THEN view.refused
    ELSE shown["custom_proxy"] = "bad" \/ (view.refused /\ ~Found(view.account))

\* A switch or a number.  Numbers stay in the range the loader accepts.
Choose(f, v) ==
    LET shown == Set(view.shown, {f}, [g \in {f} |-> v])
    IN  /\ Chooses /\ view.up
        /\ f \notin {"custom_proxy", "allowed_ssids"} /\ v \in {"default", "chosen"}
        /\ v # view.shown[f]
        /\ Saves(PageOf(f), shown)
        /\ view' = View(view.account, shown, view.typed, Marked(PageOf(f), shown),
                        view.outdated)
        /\ UNCHANGED <<backup, imported>>

Type(f, v) ==
    /\ Chooses /\ view.up
    /\ v # view.shown[f] /\ (v = "bad" => f \in Checked)
    /\ view' = View(view.account, Set(view.shown, {f}, [g \in {f} |-> v]),
                    view.typed \cup {f}, view.refused, view.outdated)
    /\ UNCHANGED <<document, cached, rows, active, backup, imported>>

Apply(f) ==
    /\ Chooses /\ view.up /\ f \in view.typed
    /\ Saves(PageOf(f), view.shown)
    /\ view' = View(view.account, view.shown, view.typed \ {f},
                    Marked(PageOf(f), view.shown), view.outdated)
    /\ UNCHANGED <<backup, imported>>

-----------------------------------------------------------------------------
(* What else is done in the settings and around them.                      *)

OpenSettings ==
    /\ running /\ ~view.up /\ active \in DOMAIN cached.accounts
    /\ view' = Built(active)
    /\ UNCHANGED <<document, cached, rows, active, backup, running, choices, imported>>

\* From the sidebar the view is dropped; from its own selector it is built anew.
SelectAccount(u) ==
    /\ Chooses
    /\ active' = u /\ active' # active /\ UNCHANGED <<cached, rows>>
    /\ view' \in {NoView} \cup (IF view.up /\ u \in DOMAIN cached.accounts
                                THEN {Built(u)} ELSE {})
    /\ UNCHANGED <<document, backup, imported>>

\* Mutant: whatever is typed becomes a pattern.
AnyPattern(v) == TRUE

\* validate_pattern
ValidPattern(v) == v # "bad"

\* The dialog reads the patterns from the file each time and checks what is typed.
EditPatterns(v) ==
    /\ Chooses /\ view.up /\ Found(view.account) /\ ValidPattern(v)
    /\ document' = AccountStored(view.account, {"exclude_patterns"},
                                 [f \in {"exclude_patterns"} |-> v])
    /\ Reconfigured
    /\ UNCHANGED <<view, backup, imported>>

\* Signing in again may change the login, and with it the id of the account: the
\* view and the window go on with the id they have.  Logins of other accounts are
\* left out.
SignInAgain(u) ==
    LET config == Loaded(document)
        old == view.account
    IN  /\ Chooses /\ view.up /\ Found(old) /\ u \notin DOMAIN config.accounts
        /\ document' = Written(
               [accounts |-> AccountsWith(Without(config.accounts, old), u,
                                          config.accounts[old]),
                app |-> config.app])
        /\ Reconfigured
        /\ view' = Outdated
        /\ UNCHANGED <<backup, imported>>

\* add_folder and remove_folder.  The answer of the second is not looked at.
EditAccountFolders(u, roots) ==
    LET config == Loaded(document)
    IN  /\ Chooses /\ u = active
        /\ document' = IF Found(u)
                       THEN Written(
                           [accounts |-> AccountsWith(config.accounts, u,
                                [folders |-> roots, own |-> config.accounts[u].own]),
                            app |-> config.app])
                       ELSE document
        /\ Refreshed
        /\ UNCHANGED <<backup, imported>>

\* The wizard: add_account, then its own choice of certificates for all accounts.
CompleteSetup(u, root, trust) ==
    LET config == Loaded(document)
    IN  /\ Chooses /\ Loads(document) /\ u \notin DOMAIN config.accounts
        /\ document' = Written(
               [accounts |-> AccountsWith(config.accounts, u,
                                          [folders |-> {root}, own |-> DefaultOwn]),
                app |-> Set(config.app, {"global_trust"},
                            [f \in {"global_trust"} |-> trust])])
        /\ Refreshed
        /\ UNCHANGED <<backup, imported>>

\* remove_active_account: what could not be removed from the file is removed from
\* the window all the same.
RemoveActive ==
    LET config == Loaded(document)
    IN  /\ Chooses /\ active # Nobody
        /\ document' = IF Found(active)
                       THEN Written([accounts |-> Without(config.accounts, active),
                                     app |-> config.app])
                       ELSE document
        /\ Refreshed
        /\ UNCHANGED <<backup, imported>>

ExportConfiguration ==
    /\ Chooses /\ view.up /\ Loads(document)
    /\ backup' = Written(Loaded(document))
    /\ UNCHANGED <<document, cached, rows, active, view, imported>>

\* The widgets stay as they are.
ImportConfiguration(d) ==
    /\ Chooses /\ view.up
    /\ document' = Written(Parsed(d)) /\ imported' = d
    /\ Reconfigured
    /\ view' = Outdated
    /\ UNCHANGED backup

\* A file that does not load ends the program before it has a window.
StartAgain ==
    /\ running /\ choices < MaxChoices /\ choices' = choices + 1
    /\ running' = Loads(document)
    /\ cached' = LoadedOrDefault(document) /\ rows' = DOMAIN cached'.accounts
    /\ active' \in Presented(Nobody)
    /\ view' = NoView
    /\ UNCHANGED <<document, backup, imported>>

PreferencesNext ==
    \/ \E f \in ShownFields : \E v \in Values : Choose(f, v)
    \/ \E f \in TextFields : (\E v \in Values : Type(f, v)) \/ Apply(f)
    \/ OpenSettings \/ ExportConfiguration \/ StartAgain \/ RemoveActive
    \/ \E v \in Values : EditPatterns(v)
    \/ \E u \in rows : SelectAccount(u)
    \/ \E u \in Users : \/ SignInAgain(u)
                        \/ \E roots \in SUBSET Roots : EditAccountFolders(u, roots)
                        \/ \E root \in Roots, trust \in {"default", "chosen"} :
                               CompleteSetup(u, root, trust)
    \/ \E d \in Documents \cup {backup} : ImportConfiguration(d)

PreferencesSpec == PreferencesInit /\ [][PreferencesNext]_preferenceVars

-----------------------------------------------------------------------------
\* What a page shows of a setting, as it is in the file.
OnFile(f) ==
    IF f \in AccountFields THEN Loaded(document).accounts[view.account].own[f]
    ELSE Loaded(document).app[f]

\* The file can be loaded at the next start, whatever was set in the pages and
\* dialogs, unless an import replaced it by one that cannot.
FileLoads == Loads(document) \/ document = Written(Parsed(imported))

\* A page writes back all its widgets when one of them changes, so what is on
\* display must be what is in the file, for as long as the view lives and through
\* all that the other pages, the dialogs and other accounts write meanwhile:
\* otherwise a switch resets settings nobody touched.  Excepted are lines being
\* typed, a page whose proxy is marked, and a view that an import or a new login
\* went past: these do reset or lose settings.
WidgetsShowFile ==
    view.up /\ ~view.outdated =>
        /\ Found(view.account)
        /\ \A f \in ShownFields :
               \/ f \in view.typed
               \/ f \in ConnectionFields /\ view.refused
               \/ OnFile(f) = Meant(f, view.shown[f])

\* Both, because a file that does not load cannot be shown.
SettingsAgree == FileLoads /\ WidgetsShowFile

=============================================================================
