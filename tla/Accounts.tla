------------------------------ MODULE Accounts ------------------------------
(***************************************************************************)
(* The account runtimes of src/core/account_runtime.rs and the aggregated  *)
(* states of src/state.rs: which folders run, which of them the system     *)
(* watchers reach, and which of them the window and the tray listen to.    *)
(*                                                                         *)
(* A folder's state controller lives as long as its scheduler, so the two  *)
(* share an identity, a number.  A folder that is removed and added again  *)
(* gets a new one.  Everything here runs on the main loop: a step is one   *)
(* callback with every listener it calls.                                  *)
(***************************************************************************)
EXTENDS Integers, SequencesExt

CONSTANTS
    Accounts,
    Folders,
    FolderLists,     \* per account, the folder lists it may be configured with
    Labels,          \* the states the schedulers report
    Environments,    \* settings of metered networks, Wi-Fi names, quiet hours
    MaxControllers   \* bound: folder runtimes created since the launch

\* The entry of an account that is not configured.
NoAccount == <<"none">>

ASSUME AccountsAssumption ==
    /\ IsFiniteSet(Accounts) /\ \A a \in Accounts : a \notin Nat
    /\ MaxControllers \in Nat
    /\ \A a \in Accounts : \A list \in FolderLists[a] :
           list \in Seq(Folders) /\ IsInjective(list) /\ list # NoAccount

\* From the best to the worst, by severity().
Ranking ==
    <<"unconfigured", "idle_ok", "idle_not_synced", "idle_manual_only",
      "paused_user", "paused_battery", "sync_queued", "syncing", "offline",
      "keyring_locked", "auth_required", "error", "delete_review">>

Severity(state) == CHOOSE i \in DOMAIN Ranking : Ranking[i] = state

ASSUME LabelsAssumption == Labels \subseteq Range(Ranking)

VARIABLES
    config,       \* the configured accounts, each with its folders in order
    environment,  \* the environment settings in the configuration
    network,      \* what the network monitor says
    app           \* AccountManager, with the controllers it created

accountVars == <<config, environment, network, app>>

Configured == {a \in Accounts : config[a] # NoAccount}

\* The controller an account without folders puts in their place.
IdleController(a) == a

-----------------------------------------------------------------------------
(* Aggregates.                                                             *)

EmptyAggregate == [controllers |-> <<>>, subs |-> <<>>, shown |-> "unconfigured"]

Worst(states) == CHOOSE s \in states : \A t \in states : Severity(t) <= Severity(s)

Recomputed(agg, state) ==
    [agg EXCEPT !.shown =
        IF agg.controllers = <<>> THEN "unconfigured"
        ELSE Worst({state[c] : c \in Range(agg.controllers)})]

Added(agg, c, state) ==
    Recomputed([agg EXCEPT !.controllers = Append(@, c),
                           !.subs = @ \o <<<<c, "state">>, <<c, "progress">>>>],
               state)

\* Mutant: a controller's index is taken for that of its subscriptions.
UnsubscribedOne(subs, i) ==
    [j \in 1 .. (Len(subs) - 2) |-> IF j < i THEN subs[j] ELSE subs[j + 2]]

\* Each controller holds two subscriptions, in the order it was added.
Unsubscribed(subs, i) ==
    [j \in 1 .. (Len(subs) - 2) |-> IF j < 2 * i - 1 THEN subs[j] ELSE subs[j + 2]]

Removed(agg, c, state) ==
    IF c \notin Range(agg.controllers) THEN agg
    ELSE LET i == CHOOSE i \in DOMAIN agg.controllers :
                      agg.controllers[i] = c
                      /\ \A j \in 1 .. (i - 1) : agg.controllers[j] # c
         IN  Recomputed([agg EXCEPT !.controllers = RemoveAt(@, i),
                                    !.subs = Unsubscribed(@, i)], state)

AllAdded(agg, cs, state) ==
    FoldSet(LAMBDA c, a : Added(a, c, state), agg, cs)

AllRemoved(agg, cs, state) ==
    FoldSet(LAMBDA c, a : Removed(a, c, state), agg, cs)

\* A controller changed: whoever subscribed to its state computes again.
Told(agg, c, state) ==
    IF <<c, "state">> \in Range(agg.subs) THEN Recomputed(agg, state) ELSE agg

-----------------------------------------------------------------------------
(* One account's runtime.                                                  *)

\* What a scheduler is created with, whatever the system says.
FreshGate == [online |-> TRUE, environment |-> "unset"]

NewRuntime ==
    [folders |-> [f \in Folders |-> 0], idle |-> FALSE,
     aggregate |-> EmptyAggregate, targets |-> {}, environment |-> "unset"]

Down == [folders |-> [f \in Folders |-> 0]]

Running(manager) == {a \in Accounts : manager.runtimes[a] # Down}
Live(runtime) == {runtime.folders[f] : f \in Folders} \ {0}

\* FolderRuntime::new: the next controller, and a scheduler with fresh gates.
NewFolder(manager, c) ==
    [manager EXCEPT
        !.gate = Append(@, FreshGate),
        !.state = [d \in DOMAIN @ \cup {c} |-> IF d = c THEN "idle_not_synced" ELSE @[d]]]

\* ensure_folder: the new controller is heard by the account only.
EnsureFolder(manager, a, f) ==
    IF manager.runtimes[a].folders[f] # 0 THEN manager
    ELSE LET c == Len(manager.gate) + 1
             fresh == NewFolder(manager, c)
         IN  [fresh EXCEPT
                 !.runtimes[a].folders[f] = c,
                 !.runtimes[a].aggregate = Added(@, c, fresh.state)]

\* The first half of sync_folders: what is no longer wanted is stopped and
\* leaves the account's aggregate.
DropFolders(manager, a, desired) ==
    LET gone == {f \in Folders \ Range(desired) : manager.runtimes[a].folders[f] # 0}
        stopped == {manager.runtimes[a].folders[f] : f \in gone}
    IN  [manager EXCEPT
            !.runtimes[a].folders = [f \in Folders |-> IF f \in gone THEN 0 ELSE @[f]],
            !.runtimes[a].aggregate = AllRemoved(@, stopped, manager.state)]

\* Mutant: the watchers keep the list they were started with.
TargetsKept(manager, a, desired) ==
    [manager EXCEPT !.runtimes[a].targets =
        IF @ = {} THEN Live(manager.runtimes[a]) ELSE @]

\* sync_targets: whom the watchers fan out to.
SyncTargets(manager, a, desired) ==
    [manager EXCEPT !.runtimes[a].targets =
        {manager.runtimes[a].folders[f] : f \in Range(desired)}]

EnsureFolders(manager, a, desired) ==
    FoldLeft(LAMBDA m, f : EnsureFolder(m, a, f), manager, desired)

SyncFolders(manager, a, desired) ==
    SyncTargets(EnsureFolders(DropFolders(manager, a, desired), a, desired), a, desired)

\* An account that starts without folders shows a controller of its own.
Prime(manager, a, desired) ==
    LET synced == SyncFolders(manager, a, desired)
    IN  IF desired # <<>> THEN synced
        ELSE [synced EXCEPT !.runtimes[a].idle = TRUE,
                            !.runtimes[a].aggregate = Added(@, IdleController(a), synced.state)]

\* The watchers' callbacks work through their list of schedulers.
Targets(manager, a) == manager.runtimes[a].targets

ApplyEnvironment(manager, a) ==
    [manager EXCEPT !.gate =
        [c \in DOMAIN @ |->
            IF c \notin Targets(manager, a) THEN @[c]
            ELSE [@[c] EXCEPT !.environment = manager.runtimes[a].environment]]]

ApplyOnline(manager, a, online) ==
    ApplyEnvironment(
        [manager EXCEPT !.gate =
            [c \in DOMAIN @ |->
                IF c \notin Targets(manager, a) THEN @[c] ELSE [@[c] EXCEPT !.online = online]]],
        a)

\* start: prime, then mount the watchers, which report what they see at once.
Started(manager, a, desired) ==
    ApplyOnline(Prime([manager EXCEPT !.runtimes[a] = NewRuntime], a, desired), a, network)

-----------------------------------------------------------------------------
(* All accounts.                                                           *)

Sources(runtime, a) == Live(runtime) \cup (IF runtime.idle THEN {IdleController(a)} ELSE {})

\* The tray listens to the controllers the runtime has now, and to no others.
EnsureRuntime(manager, a, desired) ==
    IF a \in Running(manager) THEN manager
    ELSE LET up == Started(manager, a, desired)
             sources == Sources(up.runtimes[a], a)
         IN  [up EXCEPT
                 !.sources[a] = sources,
                 !.tray = AllAdded(@, sources, up.state)]

EnsureRuntimes(manager, as, lists) ==
    FoldSet(LAMBDA a, m : EnsureRuntime(m, a, lists[a]), manager, as)

SetEnvironment(manager, a, values) ==
    ApplyEnvironment([manager EXCEPT !.runtimes[a].environment = values], a)

\* AccountManager::apply_environment.
EnvironmentEverywhere(manager, values) ==
    FoldSet(LAMBDA a, m : SetEnvironment(m, a, values), manager, Running(manager))

\* The monitor of every account reports.
OnlineEverywhere(manager, online) ==
    FoldSet(LAMBDA a, m : ApplyOnline(m, a, online), manager, Running(manager))

SyncAccounts(manager, as, lists) ==
    FoldSet(LAMBDA a, m : SyncFolders(m, a, lists[a]), manager, as)

\* Mutant: a new configuration reaches the folders, not their gates.
RefreshFolders(manager, lists, values) ==
    SyncAccounts(manager, {a \in Running(manager) : lists[a] # NoAccount}, lists)

\* refresh_after_config_change: folders first, then the environment gates.
Refresh(manager, lists, values) ==
    EnvironmentEverywhere(
        SyncAccounts(manager, {a \in Running(manager) : lists[a] # NoAccount}, lists),
        values)

\* Mutant: the tray keeps listening to an account that is gone.
RemoveQuietly(manager, a) ==
    [manager EXCEPT !.runtimes[a] = Down, !.sources[a] = {}]

\* AccountManager::remove: the tray forgets the controllers it was given when
\* the account started; then the runtime stops.
RemoveRuntime(manager, a) ==
    [manager EXCEPT !.tray = AllRemoved(@, manager.sources[a], manager.state),
                    !.runtimes[a] = Down, !.sources[a] = {}]

NewManager ==
    [runtimes |-> [a \in Accounts |-> Down],
     sources |-> [a \in Accounts |-> {}],
     tray |-> EmptyAggregate,
     state |-> [c \in Accounts |-> "idle_ok"],
     gate |-> <<>>]

\* AccountManager::start.
Launched ==
    EnvironmentEverywhere(EnsureRuntimes(NewManager, Configured, config), environment)

-----------------------------------------------------------------------------
(* What happens.                                                           *)

Room(n) == Len(app.gate) + n <= MaxControllers

AccountsInit ==
    /\ config \in {lists \in [Accounts -> (UNION Range(FolderLists)) \cup {NoAccount}] :
           \A a \in Accounts : lists[a] \in FolderLists[a] \cup {NoAccount}}
    /\ environment \in Environments
    /\ network \in BOOLEAN
    /\ Cardinality({pair \in Accounts \X Folders : pair[2] \in Range(config[pair[1]])})
         <= MaxControllers
    /\ app = Launched

\* A scheduler changes its folder's state.
FolderWorks(c) ==
    \E label \in Labels \ {app.state[c]} :
        LET state == [app.state EXCEPT ![c] = label] IN
        /\ app' = [app EXCEPT
               !.state = state,
               !.tray = Told(@, c, state),
               !.runtimes = [a \in Accounts |->
                   IF a \notin Running(app) THEN Down
                   ELSE [app.runtimes[a] EXCEPT !.aggregate = Told(@, c, state)]]]
        /\ UNCHANGED <<config, environment, network>>

\* Folders are added and removed in Settings; the window then refreshes.
EditFolders(a) ==
    \E list \in FolderLists[a] :
        /\ list # config[a] /\ Room(Len(list))
        /\ config' = [config EXCEPT ![a] = list]
        /\ app' = Refresh(app, config', environment)
        /\ UNCHANGED <<environment, network>>

\* Settings stores the environment gates; nothing is told until the next refresh.
EditEnvironment ==
    /\ environment' \in Environments \ {environment}
    /\ UNCHANGED <<app, config, network>>

\* The wizard saved an account: on_complete.
AddAccount(a) ==
    \E list \in FolderLists[a] :
        /\ Room(Len(list))
        /\ config' = [config EXCEPT ![a] = list]
        /\ app' = Refresh(EnsureRuntime(app, a, list), config', environment)
        /\ UNCHANGED <<environment, network>>

\* remove_active_account.
RemoveAccount(a) ==
    /\ config' = [config EXCEPT ![a] = NoAccount]
    /\ app' = Refresh(RemoveRuntime(app, a), config', environment)
    /\ UNCHANGED <<environment, network>>

\* The monitor's signal reaches the watcher of every account.
NetworkChanges ==
    /\ network' = ~network
    /\ app' = OnlineEverywhere(app, network')
    /\ UNCHANGED <<config, environment>>

AccountsNext ==
    \/ \E a \in Running(app) : \E c \in Live(app.runtimes[a]) : FolderWorks(c)
    \/ \E a \in Configured : EditFolders(a) \/ RemoveAccount(a)
    \/ \E a \in Accounts \ Configured : AddAccount(a)
    \/ EditEnvironment \/ NetworkChanges

AccountsSpec == AccountsInit /\ [][AccountsNext]_accountVars

-----------------------------------------------------------------------------
States(manager, cs) == {manager.state[c] : c \in cs}

\* An account shows the worst of its own folders, whatever was added and removed
\* on the way, or, without any, what it started with.  The tray shows the worst of
\* the controllers that running accounts were started with, so an account that is
\* removed leaves it consistent; while no folder was added or removed since, that
\* is the worst folder there is.
AggregateIsWorst ==
    LET heard == UNION {app.sources[a] : a \in Running(app)}
        worst(cs) == Worst(States(app, cs) \cup {"unconfigured"})
    IN  /\ \A a \in Running(app) :
               app.runtimes[a].aggregate.shown = worst(Sources(app.runtimes[a], a))
        /\ Range(app.tray.controllers) = heard
        /\ app.tray.shown = worst(heard)

\* Once an account or a folder was added or removed, every folder that then runs,
\* the new ones and those of the other accounts too, has the environment gates that
\* the settings say by now; and a network change has reached every one that was
\* there, the late ones too.
AccountsHear ==
    /\ config' # config =>
           \A a \in Running(app') : \A c \in Live(app'.runtimes[a]) :
               app'.gate[c].environment = environment'
    /\ network' # network =>
           \A a \in Running(app) : \A c \in Live(app.runtimes[a]) :
               app'.gate[c].online = network'

=============================================================================
