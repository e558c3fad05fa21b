# NextSync in TLA+

NextSync is a desktop client that keeps local folders in sync with Nextcloud and
OpenCloud servers. This directory holds TLA+ modules for the parts of it where mistakes
are expensive and tests are weak: the **schedulers**, which decide when a folder
synchronizes; the **native engine**, which decides what a synchronization does to two
trees of files; the **transfers**, which carry one file across an unreliable network; and
the **application** around them, which tells the schedulers what happened, keeps the
accounts, their passwords and settings, lets folders in, reviews deletions, resolves
conflicts and shows the user what is going on. TLC checks the modules on
small instances, and TLAPS proves the central facts for every instance.

- [Inventory](#inventory)
- [Modules and their correspondence to the code](#modules-and-their-correspondence-to-the-code)
- [Runs](#runs)
- [Bounds](#bounds) and [fairness](#fairness)
- [What is proved](#what-is-proved)
- [Where the code and its documentation disagree](#where-the-code-and-its-documentation-disagree)
- [What is not modelled](#what-is-not-modelled)
- [Plan](#plan)

Paths below are relative to the repository: `core/` is `src/core/`, `engine/` is
`crates/native-engine/src/`.

## Inventory

One GLib main loop runs everything except the engine and a few worker threads. For each
configured account there is an `AccountRuntime`, for each of its folders a
`FolderRuntime` with a `Scheduler`. All schedulers share one `SyncPermit`. A run of the
engine is a thread; its end comes back to the main loop as a callback. So do the events of
the push client's worker threads, of the file watcher's thread, and the answers of keyring
and server calls.

| Component | State | Operations | What is hard | What makes it correct |
| --- | --- | --- | --- | --- |
| Scheduler (`core/scheduler.rs`, `triggers.rs`, `debounce.rs`) | queue of reasons, pause and environment flags, gates left by failed runs, timers, label | request, pause, resume, network and power changes, start, finished, cooldown | a callback finds a state nobody expected; a request falls between two gates | no request is forgotten or stranded; the label is true |
| Permit (`core/sync_permit.rs`) | slots, held roots, FIFO of callbacks, pending wake-ups | acquire, wait, claim, release | a wake-up is lost; a newcomer overtakes the line | one engine at a time; turns are taken in order; nobody sleeps beside a free permit |
| Deletion guard (`core/delete_guard.rs`), review, engine's guard | manifest of the last known files, alert, approval; a copy of the setting in each guard | check, record, approve, restore, switch off; refuse a plan | the baseline moves when it should not; two guards judge the same deletion by different records | no mass deletion reaches the server unreviewed; a review shows only what users did; what was approved goes through |
| Planner (`engine/reconcile.rs`) | none | one action for each path | the table has eight rows and three kinds of node | deletes only what the other side deleted |
| Engine run (`engine/engine.rs`) | the plan, two pools, directories to refresh | discover, plan, apply, transfer, refresh, finish | users and other clients change both trees meanwhile; it dies or is cancelled half way | edits survive; success means equal trees; the trees converge |
| Journal (`engine/db.rs`) | rows, failures, root ETag | upsert, remove, rename, failure counts | rows that outlive what they describe | while the root ETag matches, the journal describes the server |
| Transfers (`engine/transfer.rs`) | part files, sidecars, chunk folders, the count of failed runs | stream and range downloads; PUT, chunked and TUS uploads; retries, resumption | the file changes under the transfer; an answer is lost; the disk refuses; it is killed and resumed | what lands is one version; it lands in the end; nothing is left behind without a reason |
| WebDAV client (`engine/http.rs`), scan (`engine/local.rs`) | none | requests; a walk of the tree | partial failures, exclusions | an incomplete answer is reported as such |
| Runner (`nextcloud/native_runner.rs`) | the cancel token | start, cancel | late results of a cancelled run | every end maps to one outcome |
| Account runtimes (`core/account_runtime.rs`) | folders, watchers, environment | add, update and remove accounts and folders, fan out changes | a folder added at run time misses the current environment | every folder hears every change |
| State controllers (`state.rs`) | label of each folder, aggregates | set, add, remove, subscribe | subscriptions are found by position in a list that changes | the tray shows the worst state |
| Push client (`nextcloud/push.rs`, `push_protocol.rs`) | generation, worker, reconnect timer, count of rejections | configure, connect, authenticate, reconnect, park, disconnect, remove | events of an old worker, a late keyring answer, a resume | one connection; interval polls stop only while it serves; it comes back |
| Credentials (`nextcloud/credentials.rs`) | cache, keyring, legacy entries | store, look up, adopt, forget | three threads, a cache that answers first, ids that change on sign-in | a new password wins; a removed account leaves none |
| Sign-in (`ui/setup.rs`, `nextcloud/login_flow.rs`) | page, flow, generation, polls | start, poll, cancel, manual sign-in, add | a poll answered after its flow was cancelled or replaced | flows end; an added account has its password |
| Conflict files (`core/conflict_files.rs`, `ui/conflict_resolver.rs`) | conflicted copies on disk | scan, keep local, keep remote, bulk | edits and runs of the engine between two file operations | no edit is lost; the newest wins |
| File watcher (`core/watcher.rs`) | inotify watches, channel, overflow flag | classify, send, consume, rescan | queues overflow; registering fails | every change is requested |
| Settings (`storage/config.rs`) | settings file, staging files | load, mutate, save | two instances; a kill or power cut between two steps | the file is whole; what was saved stays |
| Preferences (`storage/config.rs`, `ui/settings.rs`, `ui/main_window.rs`) | settings file, the window's copy, the widgets of an open view | load with migrations, validate; choose, type, apply; export, import; sign in again, add and remove | each page writes back all it displays; the view outlives what it was built from | a page resets nothing nobody touched; the file loads at the next start |
| Deletion review (`ui/deletion_presence.rs`, `deletion_restore.rs`, `server_trash.rs`) | open dialogs, probes, what was found of each row | open, group, probe, restore, trash, approve | the server changes under the probes; dialogs outlive their alert | a row says what its probe found; only what was chosen is done |
| First synchronization (`ui/setup.rs`, `ui/settings.rs`, `core/sync_safety.rs`) | wizard page, probe under way, review | type a pair of folders, probe, review, commit | the wizard is usable while its probe runs; probes fail | nobody is surprised by a merge, an old journal or a large download the probe could see |
| Progress lines (`nextcloud/native_runner.rs`, `state.rs`) | one bounded channel per folder, the line of its row | report, forward, clear | reports of a finished run arrive late; a channel nobody empties fills | a line is of the run that is under way; a run ends |
| Main window (`ui/main_window.rs`, `folder_status.rs`) | page, rows, subscriptions, pictures | switch, rebuild, refresh, open and close pages | rows listen to folders that are gone; pictures arrive late | what is shown is of the account shown |
| Push answers (`nextcloud/push.rs`, `push_protocol.rs`) | buffer, body so far | read, find the head, unchunk, upgrade | answers are cut into reads anywhere; the connection ends early | what the server sent is what is taken |
| Update check (`core/updates.rs`, `ui/about.rs`) | dialogs, the check under way | check, validate, compare, tell | versions by the precedence of SemVer | only a newer version is offered |
| Server notifications (`core/server_notifications.rs`) | ids seen, whether there was a first list | poll, apply | the setting, the network and the keyring change between question and answer | nothing is shown twice, nothing new is lost |
| Log (`core/log.rs`) | history, daily files, listeners | append, rotate, prune, tail, listen | midnight, a boundary of a block, a failing disk | what was appended is found again, in order |
| Scope (`core/exclusions.rs`, `pending_changes.rs`, `engine/local.rs`, the listing) | none | decide whether a path takes part | five parts of the program decide it, with two matchers | they decide alike |
| Network, power, suspend watchers (`core/network.rs`, `power.rs`, `suspend.rs`) and the gates they work | what was reported last, timers of a wake-up, gates of each folder | report, read the connection again, judge a request | folders come late; a gate opens without an event | the folders of an account agree; no run in quiet hours; nobody is left behind |
| API parsing, journal readers, etag store, desktop integration, the rest of the user interface, utilities | files and widgets | read, write, show | little interaction | see the components in `PROJECT.json` |

**Interactions.** Watchers, timers, clicks and the push client call `request`. `start`
consults the guard and the permit and calls the runner; the runner looks up the password,
runs the engine and calls `finished`; `finished` releases the permit, which wakes another
folder's scheduler through an idle source. The push client's last report decides whether
the schedulers poll. The engine reads and writes the disk, the server and its journal, and
knows nothing of the schedulers. The guard and the engine each keep their own record of
the folder, and the engine and the conflict window each have their own idea of what a
conflicted copy holds; both pairs disagree. And the engine's scan, its listing, the
guard, the watcher and the preview of pending changes each decide which files take part.

The hazards in `PROJECT.json` list what can go wrong at which line, with the properties
that would show it.

## Modules and their correspondence to the code

| Module | Models | State | A step is |
| --- | --- | --- | --- |
| `TurnQueue` | the abstract promise of the permit | who is inside, who is in line | enter, join the line, take the turn, leave |
| `SyncPermit` | `core/sync_permit.rs` | one record: slots, roots, callbacks, pending wake-ups, queued idle sources | operators from permit to permit |
| `Scheduler` | `core/scheduler.rs` with queue, debounce, guard; folder removal and return | `permit`, a record for each folder, orphaned engines | one callback of the main loop with every call it makes |
| `SchedulerProps` | | | the properties, and the refinement mapping to `TurnQueue` |
| `SchedulerProofs` | | | theorems about `Scheduler`: its types and the permit; its work, label and reviews |
| `DeletionGuard` | `core/delete_guard.rs`, the review in `core/scheduler.rs`, `check_delete_guard` and the deletions of `engine/engine.rs` | the files on both sides, journal, manifest, alert, approval, the run | one deed of a user, one answer, one check, one deletion |
| `Reconcile` | `engine/reconcile.rs`, `check_delete_guard` | | `Plan` is a function of scan, listing and journal |
| `SyncEngine` | `engine/engine.rs`, `db.rs`, the outcome of `transfer.rs` | both trees, the journal, the run in progress | one request or one change of the disk, with its journal row |
| `SyncEngineProps` | | | the properties |
| `EngineProofs`, `EditsProofs` | | | theorems about `Reconcile` and `SyncEngine`: types, plans and downloads; the local user's edits |
| `Download` | `engine/transfer.rs`, downloads; the failures of `engine/engine.rs` and `db.rs` | part file, two sidecars, the job, the server's file, the failed runs | one request, one write or one file operation |
| `Upload` | `engine/transfer.rs`, uploads; the failures | the local file, chunk folder or TUS upload, the published file, the failed runs | one request and its answer |
| `TransferProofs` | | | theorems about `Download`, `Upload` and `Updates` |
| `Watcher` | `core/watcher.rs`, the consumer in `core/account_runtime.rs` | kernel queue, channel, flag | one callback of the notify thread or one event of the consumer |
| `Settings` | `ConfigStore` of `storage/config.rs` | the file, what a power cut would leave, the staging files, a writer per instance | one file operation |
| `Preferences` | loading and mutating in `storage/config.rs`, the settings view of `ui/settings.rs`, the configuration of `ui/main_window.rs` | the file, the window's copy, sidebar, active account, widgets, exported backup | the handler of one signal |
| `SettingsProofs` | | | theorems about `Settings`, `Preferences`, `Progress`, `Window` and `Log` |
| `Accounts` | `core/account_runtime.rs`, `state.rs` | runtimes, subscriptions, aggregates, gates, settings | one callback of the main loop |
| `Push` | `nextcloud/push.rs`, its use in `core/account_runtime.rs` and `main.rs` | client, workers with their event queues, last report, unseen changes | one callback of the main loop or one step of a worker thread |
| `Credentials` | `nextcloud/credentials.rs` and its callers | cache, keyring, legacy entries, three lookups under way | one call on the Secret Service or one hold of the cache's lock |
| `Wizard` | sign-in of `ui/setup.rs`, `nextcloud/login_flow.rs` | page, flow, answers under way, accounts and secrets | one callback, one answer, one continuation |
| `Conflicts` | `core/conflict_files.rs`, `ui/conflict_resolver.rs`, conflicts of the engine | the file on both sides, the journal's row, the copies, the window's work | one edit, one run, one file operation |
| `Review` | the deletion review in `ui/main_window.rs`, `core/delete_guard.rs` (rows), `ui/deletion_presence.rs`, `deletion_restore.rs`, `server_trash.rs`, `core/server_state.rs` | the alert, the dialogs with their rows and probes, the server's files | one signal, one answer of a probe, one result |
| `FirstSync` | the last page of the wizard in `ui/setup.rs`, Add Folder in `ui/settings.rs`, `core/sync_safety.rs`, `ui/safety_review.rs` | folders on disk and on servers, wizard, probes, configuration | one click, one probe, one answer of a review |
| `Progress` | the sink of `nextcloud/native_runner.rs`, the forwarder of `core/account_runtime.rs`, progress in `state.rs` | run, channel and line of each folder, the slot | one report, one event forwarded, one start or end of a run |
| `Window` | `ui/main_window.rs`, `ui/folder_status.rs`, `util/avatar_cache.rs` | pages, rows, subscriptions, pictures and their fetches | the handler of one signal, one answer of the pool |
| `Wire` | how `nextcloud/push.rs` and `push_protocol.rs` read answers | what has arrived, the buffer, the body, what the worker concluded | one read, one line or part of an answer taken |
| `Updates` | `core/updates.rs`, `ui/about.rs`, its dialogs | installed version, answer, dialogs | one click, one answer |
| `ServerNotifications` | `core/server_notifications.rs` | the server's list, the watcher, what was shown | poll, answer of the thread, its continuation |
| `Ranks` | sorting, for `Review`, `Log` and `Updates` | | an element has as many before it as its place says |
| `Log` | `core/log.rs` | history, daily files, listeners, clock | one call |
| `Scope` | `engine/local.rs`, the listing of `engine/engine.rs` and `http.rs`, `core/exclusions.rs`, `core/pending_changes.rs`, the scans of guard and watcher | disk and server, the listing under way, the manifest, the preview | one directory listed, one scan, one deed of a user |
| `Surroundings` | `core/network.rs`, `power.rs`, `suspend.rs`, their targets in `core/account_runtime.rs`, `environment_gate` in `core/scheduler.rs` | connection, clock, settings, watchers, the gates of each folder | one report, one timer, one idle callback |
| `MCScheduler`, `MCSyncEngine` | | | small instances |
| `MCFolder` | composition of `Scheduler` (with the inputs of the gates, with every other input, and as a fleet of two folders), `DeletionGuard`, `Review`, `FirstSync` | `episode` | a step of the episode's module |
| `FolderProofs` | | | theorems about `DeletionGuard`, `Review`, `FirstSync` and the gates of `MCFolder` |
| `MCTransfers` | composition of `Download`, `Upload`, `Watcher`, `Settings`, `Preferences`, `Progress`, `Window`, `Wire`, `Updates`, `ServerNotifications`, `Log`, `Scope` | `direction` | a step of the part the behaviour is about |
| `MCDesktop` | composition of `Accounts`, `Push`, `Credentials`, `Wizard`, `Conflicts`, `Surroundings` | `part` | a step of the part the behaviour is about |
| `DesktopProofs` | | | theorems about `Conflicts`, `Push`, `Credentials`, `Wizard`, `Accounts` and `Surroundings`, alone and in `MCDesktop` |
| `ListTheorems` | | | lemmas about folds, lists by rank, sorted lists and lists put together, for `FolderProofs`, `DesktopProofs`, `SettingsProofs` and `TransferProofs` |

**Scheduler.** The code is single threaded, so a callback is atomic. A scheduler is a
record; a method that changes nothing else is an operator from record to record
(`ScheduleStart`, `Idle`, `Requested`, `Judged`...), which keeps nested calls such as
`set_user_paused -> request -> schedule_start` one step, as in the code. What is told
apart is what decides something: the ten triggers fall into three kinds once queued;
lengths of delays are dropped, their order is not assumed; the failure counter saturates
where the backoff starts; a mass deletion is a *batch* of files big enough to trip the
guard. `start` re-entered by an idle source, a retry timer, a probe or a backoff timer is
the same callback (`armed`). `preparing` is set and cleared inside one callback and left
out. A removed folder's scheduler is first *stopped*, then *dropped*: in between its
callbacks still find it, afterwards their weak references are dead, but a waiter's closure
stays in the permit.

**Deletion guard.** `Scheduler` takes a mass deletion as a batch, since all it does is to
wait for the answer. `DeletionGuard` opens the batch: the manifest and the journal are
sets of files, both guards compute their limits from sizes, and a run deletes file by
file, so that it can stop in between. What the first guard counts includes the engine's
own journal file (`Scanned`). The runner counts a deletion when it is announced
(`counted`), which is before the request and for either side. History variables: `lost`
is what runs nobody approved deleted on the server, `mirrored` what runs deleted here,
`run.rushed` what users deleted while a run was under way.

**Engine.** A file is a version: equal versions stand for equal size and modification
time, which is what the engine compares, and the ETag of a remote file is its version. A
version is written once, so "the content survives" is a statement about sets of
versions. The journal row holds what was seen on disk (`stamp`), on the server (`etag`)
and the file id. `rootKnown` abstracts the stored root ETag to whether it equals the
server's. A run goes through the phases of `Engine::run`: discover (or reuse the
journal), plan, the ordered loop, the two pools, the refresh of touched directories, the
end. Worker threads take jobs in any order, so the pools do too. The effect of an action
and its journal row are two writes: `Journaled` lets the process die in between. A
conflict has two steps, the rename and the fetch. The users act between runs, and on the
sides in `Concurrent` during them. History variables: `mine` are the versions the local
user wrote and nobody replaced, `gone` the paths a user removed, until the removal is
mirrored or the path is created again.

**Transfers.** A file is a sequence of blocks, each labelled with the version whose bytes
it holds, so "one version" is a statement about sequences; bytes nobody wrote are `Hole`.
The threads of a range download take their ranges in any order and interleave with edits
on the server; `SplitRanges` is the program's arithmetic. The part file and its two
sidecars are removed one after the other; a kill may fall between, and each removal may be
refused, which nobody looks at (`Removes`). What fails while the bytes come in discards the
part, and is tried again if the error is `retryable`, which an i/o error, and with it a body
that breaks off, is not (`RequestFails`). What fails later, at the checksum, the time or the
second rename, returns at once and leaves everything (`ReturnsAtOnce`). The end of a run notes
a failure or clears it (`NoteOutcome`, `NoteUpload`); what failed in three runs is left alone
until its ETag, or its size and time, are others (`GivenUp`, `UploadGivenUp`). Every run is
taken to list the server anew. An upload carries
the edition that is on disk at the moment of each read; an edition has a *stamp*, its
length and modification time, which names the chunk folder. `SyncEngine` takes a transfer
as one step with two ends; `DownloadedIsOneVersion`, `PublishedIsOneEdition` and
`TransfersLand` say when that is fair.

**Watcher and settings.** A path is left out of `Watcher`: what matters is whether a
change is still on its way (`unheard`). A save of `Settings` is the five operations of
`save`; `afterCut` holds the contents a power cut may leave: after a rename the old and
the new, after the directory is synced the new alone.

**Preferences.** A setting is at its default, chosen, or holds what is of no use there; what
the loader does with the last, refuse the file or fall back, is what tells settings apart
(`StrictFields`, `Meant`). A page is the set of settings it saves together. A file has one
of three shapes, by what the migrations have to move. How the file gets to the disk is left
to `Settings`. History variables: `view.outdated`, and `imported`.

**Application.** `Accounts` gives each controller a number that is never reused, and keeps
the subscriptions in the order of the list the code indexes. `Push` carries the generation
as the flag *current* on each worker, because it is only compared; a worker posts events
to a queue the main loop drains one by one, also after it was replaced; while it discovers
or opens its socket its connection may stall (`Stalls`), and `read_retry` waits. `Credentials`
splits a lookup where the lock is dropped. `Wizard` splits a poll into the timer, the
answer of the thread and the continuation, since the generation is compared before the
await. `Surroundings` reduces a scheduler to its gates, without interval timers, which would
hide what a report fails to start; `Accounts` says whom a report reaches, `Surroundings` what
it carries. `Conflicts` splits Keep Remote into the copy over the working file and the removal
of the conflicted copy; the other side of each split is where the rest of the world moves.

**Reviews and first synchronizations.** `Review` takes the alerts as they come, because
`DeletionGuard` says when they do; here dialogs stay open while the alert is answered,
replaced or cleared, other clients create and delete under the probes, and requests fail.
Rows and groups are computed as in `core/delete_guard.rs`, with its limits as constants.
`FirstSync` lets the wizard and the Add Folder dialog go on while a probe runs, as the code
does; what a probe saw is kept, so that the property can say what the user was asked given
what the program could know.

**What is shown and heard.** A report in `Progress` waits for room in the channel: an engine
whose channel is full stands still and keeps the slot. `Window` numbers folders and accounts
so that one that returns is another one, and keeps the subscriptions the rows hold. In
`Wire` a byte is a token (what a line says, a CR, an LF, a piece of a document) and a read
takes any number of them; `Push` has the same worker as one step. A version in `Updates` is
a sequence of marks, so that the comparison works on what the parser made of a text. A line
in `Log` is a number and its bytes, so that `tail` can be checked against the lines that
were written, block by block.

**Scope.** A name is a sequence of marks and a path a sequence of names. The engine's walk,
its listing, the guard's scan, the watcher's filter and the preview are five operators (or,
where they have state, five sets of actions) over the same disk and server; the two matchers
are recursive functions, compared with a reference definition of `fnmatch` (`Fnmatch`).

`PROJECT.json` maps each definition that models code to its lines; empty records, sets of
field names and most of the world around the program are explained in their modules.

## Runs

| Run | Instance | Shows |
| --- | --- | --- |
| `scheduler_folder` | one folder in five episodes, below | Gates: `NothingStranded`: queued work that nothing visible holds back will be looked at; `MassDeletionsWait`. Lives: `OneRunAtATime` across the return of a folder whose engine still runs. Both: `WorkLeavesInRuns`: what was asked for leaves only into a run; `SyncingIsTrue`. Guards: `UnreviewedLossesAreFew`: what nobody approved never adds up to a mass deletion, through runs that fail half-way, restarts and manifests that cannot be written; `AlertsAreTheUsers`: a review lists nothing a run deleted. Reviews: `ReviewsTellTrue`: every missing file has a row or is counted, what a row says of the server is what its probe was told, and the answers do what was chosen. Arrivals: `FirstSyncsAreReviewed`: what the probe could see, the user was asked about |
| `scheduler_fleet` | `MCFolder`, the episode `fleet`: two folders, one slot | `TakesTurns`: the permit implements `TurnQueue`. `SlotsAccounted`. Under fairness `NobodyStarves`: a request is served and the line moves |
| `engine` | a directory, a file in it and a sibling; six scenarios, below | `LocalEditsKept`, `FastPathMissesNothing`, `QuietDeletionsMirrorUsers`: the engine removes from one side only what a user removed from the other; `SuccessMeansInSync`. Under fairness `Converges` |
| `transfers` | twelve directions: a file down or up, a change, the settings and their pages, reports, the window, answers, versions, notifications, the log, the scope | Transfers: `DownloadedIsOneVersion`, `PublishedIsOneEdition`, `LeftoversHaveReasons`: a part or its bookkeeping outlives a download only after a kill, a finish the disk refused, or a refused removal; under fairness `TransfersLand`: the file lands, unless it failed in three runs and is left alone (`GivenUp`), or its upload folder is stale (`StaleFolder`). Settings: `SettingsAreWhole`, `SavesSurvive`, `SettingsAgree`: a page writes back only what the file holds or its user chose. Watcher: `ChangesAreRequested` (fair). Display: `DisplayIsTrue`: lines are of the run under way, pages and pictures of the account in front; `RunsEndOrJam` (fair): a run ends unless its channel is full and nobody empties it. Servers: `ServerIsHeard`: answers cut anywhere are taken whole and to the end, notifications are shown once and in the end; `OffersAreNewer`. Log: `LogIsTrue`. Scope: `ScopesAgree`: the parts of the program that decide which files take part decide alike |
| `desktop` | two accounts with two folders, one push channel, one password, one wizard, one file with its copies, two folders in changing surroundings | Accounts: `AggregateIsWorst`. Accounts and surroundings: `FoldersHearAll`: every folder there is hears every report, all go by one reading of the connection, none runs in quiet hours, and none is left behind when a network returns, costs nothing any more or the machine wakes up. Push: `PushIsSound`: one socket, and interval polls stop only while it serves; under fairness `PushSettles`: it serves or is parked, unless a connection stalls for good (`Stuck`). Password: `SecretsAreKept`: a sign-in's password sticks and an added account has one; `RemovalForgets`. Wizard: `FlowsEnd`. Conflicts: `EditsOutliveConflicts`, `ResolutionsHold`: a bulk resolution ends on the newest version, and it reaches the server |
| `permit_leak`, `restore_pushes_deletion`, `approval_refused`, `refresh_race`, `mixed_ranges`, `push_resume`, `keep_local` | minimal | counterexamples to what the documentation says, [below](#where-the-code-and-its-documentation-disagree) |

The episodes of `scheduler_folder`: `gates` (pause, network, metered, mass deletion, five
outcomes), `lives` (every other input: the folder is removed, dropped and added again,
settings and credentials change, batches are deleted during runs and restored), `guards`
(three files come and go on both sides, the tree vanishes, the review is answered, the
guard is switched off and on, requests fail), `reviews` (two alerts over five files, one
dialog at a time, probes that fail, a server that changes under them), `arrivals` (a
Nextcloud and an OpenCloud account, two local and two remote folders, one wizard or dialog,
one probe, one accident). `NothingStranded` speaks of the gates only: quiet hours end
without an event, and what they held back waits for the next interval.

The scenarios of `engine`, of which a behaviour follows one: `Edits` (edits, creations and
local deletions between runs), `Moves` (deletions and renames by another client; removing
a local file may fail), `Deaths` (the process dies at any step, also between an effect and
its journal row), `Rough` (other clients write during runs, transfers fail, a run is
cancelled), `Beside` (other clients write during runs, every request is answered, removing
a local file may fail), `Unlisted` (the listing fails, in part or as a whole). A property
that cannot hold in a scenario names the inputs and faults it presupposes, in its
definition. `LocalEditsKept` has two halves. In every scenario without local edits during a
run, what a download is about to replace is what the journal calls synchronized. In the
scenarios that are `Steady` (`Edits` and `Beside`) every edit stays on disk or in a
conflicted copy. Each exclusion of `Steady` is needed: without it TLC finds an edit lost,
on the tree of the run or on one with two files beside each other.

- Transfers that fail and runs that are cancelled: `refresh_dir` (`engine/engine.rs:803`)
  records the siblings of an upload, those included whose own transfer failed or never
  started; what is recorded and not on disk reads as a local deletion.
- Crashes, if there are two: the first between a conflict's rename and its fetch, so that
  the next run deletes the path on the server, the second between that DELETE and its journal
  row, so that a new local file at the path is taken for one the server deleted.
- Deletions by another client: a directory that goes takes with it the files in it that were
  never synchronized.
- Renames by another client: the file is renamed here over whatever is at its new name
  (`engine/engine.rs:711`), a file of the local user included.
- A name that is a file on the server and a directory here: the refused MKCOL is ignored and
  the row recorded, so that the directory is later taken for one the server deleted.
- Directories made inside directories: one may be made here for another client's directory
  while the user deletes the outer one; the next run removes both on the server, and the
  one after it the inner one here, with what the user has put there meanwhile.

`scheduler_folder` and `permit_leak` are checked without deadlock detection: once a
removed folder's permit slot is lost and the callbacks are used up, the system really has
nothing left to do. So are the runs of `MCTransfers` and `MCDesktop`, where a behaviour
may end: a removed account, a dialog that was answered, a file at rest, a log nobody writes. In the other runs
a deadlock would be an error.

Every property of a passing run has a mutant in `PROJECT.json`: a plausible bug in one
mapped definition that makes TLC find the property violated.

## Bounds

- `MaxCallbacks`: no input reaches a folder that waits for as many callbacks. Two allow a
  stale timer beside a current one and a woken waiter beside a registered one, the cases
  the code has guards for. Loop steps are never bounded, so liveness is not cut off.
- `KeyringRetryMax` is 0 or 1 instead of 5, `BackoffAfter` 1 instead of 3. Only "reached" and "not
  reached" are told apart.
- Two folders are enough for someone inside, someone in line and a newcomer, because a
  folder may stand in line twice. The proofs cover any number.
- Three files, three deeds and two breaks for the guards, with a manifest limit of two
  files or 60 %, and 60 % and two entries for the engine instead of a fifth and five: two
  of four files meet the count below the share, and two of three the engine's share while
  a file is left. The absolute limit of a thousand is out of reach of an instance. Two breaks let a run fail half-way and die before it records. The
  proof has no bounds.
- The tree has a directory, a file in it and one beside it: every rule about parents,
  children and siblings has an instance. Four or five edits (`MaxEdits`) suffice for an
  edit on each side, a deletion and a re-creation; the longest counterexample found
  needs four.
- `BlacklistAfter` is 2 instead of 3. `MaxInterrupts` is 1: a run dies, or is cancelled, at any
  step, and the runs after it meet what it left behind. That local edits survive is not
  claimed of crashes (`Steady`); that downloads spare them is proved for any number.
- The engine's guard has its default ratio and minimum group; three paths reach only the
  cases of an emptied folder and a plan that deletes everything.

- Transfers: files of two and three blocks and a `Threshold` of two give one range, two
  equal ranges and two unequal ones; a version of another length and, going up, one with
  the same stamp. Two or three faults on the way down (`most`, part of each circumstance) and
  two on the way up allow a fault in a transfer, one in its retry and one in the next run;
  three drops or refusing disks are three failed runs, after which the file is left alone.
  `DownloadCases` are six circumstances, by checksum, streams and the faults that meet: all of
  them but the refused removals, which have a circumstance of their own, with a checksum;
  without one, those that do not mix versions
  ([below](#where-the-code-and-its-documentation-disagree)). `ChannelRoom` and `KernelRoom` are 1
  instead of 1024 and the kernel's limit: only "full" and "not full" are told apart.
- Preferences: two accounts, one folder, three choices of a user: a change that makes the
  view old, one that is written back, and what follows. Four find nothing more. One file of
  each generation, one of them with settings of no use, and one that does not load.
- Settings: two instances, three saves and two mishaps, so that a mishap meets a save in
  progress and another one follows. The proofs have no bounds.
- Application: two accounts with up to two folders, and three controllers in a life, so
  that a list loses its first, middle and last entry. Three push workers: the current one,
  the one before and one that dies late. `MaxTroubles` 3 gives trouble during the recovery
  from trouble. `Servers` lists the combinations of troubles that meet; every combination
  of all of them is beyond the time of a run. Two sign-ins, two passwords, two polls
  instead of 600: a flow, the one that replaces it, and its giving up. Four writes make two
  conflicts with an edit between.
- Surroundings: two folders, three connections, three settings, a clock of three hours, one
  wake-up and five pieces of news: a loss of the network, its return and a change of folders
  or settings on either side of them.
- Reviews: five files, three of them in one directory, with limits of one to three instead
  of 5 to 200, so that a list, a group, a summary and a cut-off all occur; two alerts, so
  that an answer meets an alert it was not asked about; one upset on the server.
- First synchronizations: two accounts of the two kinds of server, three starting worlds (a
  new folder with old journals, one with files, one that is not there yet), one probe and
  one accident, which may fall before, during or after it.
- Progress: `EventRoom` 2 instead of 256, two reports in a run and four runs: a channel
  without a forwarder fills in the second run, and two folders compete for the slot.
- Window: two accounts, two folders, two refreshes and one report or failure each.
- Wire: two addresses, reads of up to three tokens and heads of up to sixteen instead of
  128 KiB; `ServersAnswer` lists the answers that differ in how they end (length, chunks,
  connection), in status and in content. One thing goes wrong in a life.
- Updates: `Widest` is 50 instead of 2^64-1, and the versions are those that separate the
  rules of precedence. Two checks, so that one follows another's dialog.
- Notifications: two ids and two changes of setting, keyring or network, which reach a
  baseline taken blind and one that is followed by news.
- Log: three days, two lines in memory, one or two daily files, blocks of two bytes, three
  lines of two or three bytes: lines end before, at and behind a block's boundary. One
  listener and one failing operation.
- Scope: `MaxDepth` 1 instead of 64, `RowsShown` 1 instead of 50, two deeds of the user
  between a record and a check. `WhatTakesPart` lists the disks and patterns: hidden,
  partial and unsafe names, databases, stars, question marks, classes and slashes.

## Fairness

- **Scheduler** (`Fairness`): weak fairness of each timer, of the woken waiter and of the
  end of a run. GLib dispatches every due source, and a run ends because each of its
  requests has a timeout (`engine/http.rs`). No input of a user or of the system is fair:
  `NobodyStarves` counts a folder that is visibly held back (paused, offline, under
  review...) as served, and a network that never comes back refutes nothing.
- **Engine** (`FairSpec`): weak fairness of the engine's steps together. Runs follow each
  other because triggers do (intervals, watchers); a run's steps follow each other
  because nothing in it waits for anybody. The users' edits are bounded by `MaxEdits`, so
  `Converges` reads "once the users pause".
- **Transfers** (`FairSpec` of `MCTransfers`): weak fairness of the steps of the transfer,
  for the same reasons (a read of the engine's client has a timeout), and of the notify thread and the consumer, which take what is
  there. A run's reports, its end, the forwarder and a waiter with a free slot go on
  (`Progress`); a push worker reads what is there (`WireRuns`); the timer of the
  notifications asks every minute and its thread answers. Faults, kills, edits and clicks
  are not fair and are bounded; settings, window, update check, log and scope need none.
- **Application** (`FairSpec` of `MCDesktop`): each worker thread runs, each of its events
  is handled, a socket the server closed is read, and the reconnect timer, the poll timer
  and the keyring lookup come back. A request or a handshake need not end: `read_retry`
  (`push.rs:1046`) has no limit but the stop, so a stalled worker takes no step, that its
  connection thaws is not fair, and a stall for good is the one exception (`Stuck`). A socket that is authenticated may stay open for ever.
  The wizard's timers, answers and continuations come back, because its requests have
  timeouts. In `Conflicts` the engine runs again (as above) and a resolution the window has
  begun goes on; a resolution is never begun by fairness. `PushSettles` and
  `PushReconnects` assume on top what they name (`Favourable`): from some point on there
  is a link, the server is up and the channel is switched on and configured.

## What is proved

Each theorem holds for every value of the constants that the named assumptions of its
modules allow: any folders, files, slots, users, bounds and settings. The hypotheses it has
beyond these are given. Where a property is not inductive, its invariant is named; TLC
finds each of them kept on the run's instance, too.

`SchedulerProofs`:

- `TypeInvariant`: `Spec => []TypeOK`. More than types: a remembered timer or cooldown is
  still to come (`SchedulerType`), so no flag suppresses a callback that no longer exists.
- `SingleSlotOneRun`: `MaxConcurrent = 1 => (Spec => []OneRunAtATime)`, and
  `SingleSlotAccounted` for `SlotsAccounted`. The hypothesis is what `AccountManager::new`
  asks for. Whether a release frees the slot of its own run depends on what a release means
  when nobody runs, so `SlotInv` says: at most one scheduler runs; whoever runs, or whoever's
  engine is an orphan, has the slot taken; a pending wake-up and a taken slot exclude each
  other; and each queued idle source has its pending wake-up. The leak of `Stop` is what
  makes the theorem true across removals: an orphan's slot is never given back, so nothing
  can enter beside it. The same fact refutes `NoSleepingWaiter`. With more than one slot the
  theorem would be false: an aborted waiter's release frees the slot of another run.
- `SingleSlotTakesTurns`: with one slot, the permit implements `TurnQueue`, every step of the
  scheduler being a step of the queue or none. `LineInv` ties the two lists of the permit to
  the one line of the abstraction. Its hypothesis that no folder is removed (the input
  `folders`) is needed: a removed folder may keep its slot for good, and a waiter whose
  folder is gone leaves the line without a turn.
- `LabelTellsTruth` (`SyncingIsTrue`) and `WorkIsKept` (`WorkLeavesInRuns`) rest on `WorkInv`
  of each scheduler: the label, what may be queued during a run, and that a cooldown ends in a
  call.
- `NothingUnreviewed`: until the first approval no mass deletion reaches the server;
  `OneBatchReviewed`: with one batch, as in the runs, none does that was not approved. Both
  need that no input goes past the review (`PastReview`: a restore, a deletion during a run,
  the switch of the guard); run `restore_pushes_deletion` shows the first of these to be
  needed. With several batches the second is false: the approval of one lets a run pass, and
  the run takes what has gone since with it. `Reviewed` says that until then the disk, the
  server and the baseline agree on every batch while a run is under way.
- `NothingIsStranded` (`NoStrandedWork`): queued work always has a run, a timer, a cooldown
  or a place in the permit's line, or the user is shown what holds it back. The induction
  (`MindedInv`) is over the scheduler and the permit together, because what attends to a
  folder moves between them. The inputs that hold work back without an event that ends it
  (`Silent`: `hush`, quiet hours and allowed networks; `settings`, manual runs) are excluded,
  as in the run.

`FolderProofs`:

- `LossesStayFew`: `UnreviewedLossesAreFew`. The guard looks once, when a run starts, and
  the deletions go out one by one later, possibly after earlier runs left some behind. The
  induction (`VerdictHolds`) carries the verdict along: what is lost, and what the plan may
  still delete, is among what the guard saw, unless the user deleted it since
  (`SeenCoversLost`, `SeenCoversPlan`); what is lost is not here, so a manifest recorded
  now does not list it (`LostIsGone`). `FewerIsFew` is the fact about the limits that it
  needs: a smaller part of a manifest is never more worth a review. The engine's guard
  plays no part in it.
- `ReviewsAreOfTheUsers`: `AlertsAreTheUsers`. On top of `VerdictHolds`, `MirrorsInv` says
  that between runs no manifest lists what a run deleted here, because a run that deletes
  here counts what it does and so records when it ends; `torn` remembers when it could not.
- `ReviewsAreTrue`: `ReviewsTellTrue`. `MarksInv` relates what the probes of a dialog found,
  and what is shown of it, to the history of the server that the dialog has seen, and says
  that its rows and groups are those of what was missing (`Shown`), which is of the folder
  (`AlarmInv`). That no file goes unlisted is about the lists themselves: an element of a
  finite set has as many ranks as the set has elements, each taken once (`RanksFill`), so a
  list by rank has every element once (`OrderedFiles`, `OrderedTops`); the groups and the
  loose files share out what is missing (`GroupsAreLists`), and with a summary the loose ones
  are a group (`AllFilesShown`). A count says no more than the history because different
  places of a group are different files (`SummedIsTrue`), and what was true of a history
  stays true while it grows (`SumStaysTrue`).
- `ArrivalsAreReviewed`: `FirstSyncsAreReviewed`. `ArrivalInv` follows a question from the
  probe to the entry in the configuration: what an answer claims to know of the first folder
  is so (`ToldTrue`), a review asks all that is due of what was probed (`ReviewAsksAll`), and
  a wizard that counts large downloads as confirmed was told so (`SizesAccepted`).
- `GatesStrandNothing` and `GatesAwaitReview` carry the theorems of `SchedulerProofs` into the
  episode of the gates: `NothingStranded` and `MassDeletionsWait`, with the same hypotheses,
  which the instance of the run meets.

`EngineProofs`, for every tree of paths, listing and journal:

- `IncompleteListingDeletesNothing`: a plan from an incomplete listing neither deletes nor
  moves anything on either side. `DeletionsNeedTheJournal`: a plan deletes only what the
  journal knows and exactly one side lacks. They rest on the decision table alone
  (`OnlyAbsenceDeletes`, `PlannedDeletion`), not on how paths are represented.
- `TypesHold`: `Spec => []TypeInv`, of the trees, the journal, the listing and the plan.
- `DownloadsReplaceTheJournaled`: in every scenario without local edits during a run, whatever
  fails, is cancelled or dies, and whatever other clients do, a download is about to replace
  only what the journal calls synchronized (`DownloadsSpareEdits`). `ReplacedInv` says it of
  the listing the plan was made from; `MovesInv` keeps a rename from bringing another file
  under a download.

`EditsProofs`:

- `EditsAreKept`: `LocalEditsKept`. In the scenarios that are `Steady`, every edit of the
  local user is on disk or in a conflicted copy. `Parts` says where each edit is at every
  moment of a run. What is where has its kind and its directory (`KindsInv`, `TreesInv`), and
  versions are new when written (`VersionsInv`). What the journal and the listing know is on
  the server (`RowsInv`, `ListedInv`). An edit that is on the server is on disk and in the
  journal, and the other way around (`SharedInv`, `JournalInv`, `SeenInv`). What is left of the
  plan can be carried out and replaces no edit (`TodoInv`). Once there is a plan, every edit is
  on the server or has an action of its own (`EditsInv`), and no upload fails (`UploadsInv`),
  so that no action is given up after `refresh_dir` recorded its path. `EditsStay` is part of
  it. Each action is taken through all of them.
- `FastPathIsSafe`: `FastPathMissesNothing`, in the scenarios that are `Followed`: edits and
  deletions of both sides between the runs, and runs that die, but nobody renames on the
  server, and a name is a file or a directory for good. A run stores the root's ETag whatever
  it left undone, so the induction (`Track`) has to show that it left nothing: what the plan
  may still hold at each stage (`StageInv`, `PlanInv`), that the listing has all that is on the
  server (`HeardInv`), that a version is given up only when it is gone from both sides
  (`FailuresInv`), and that file ids name one path (`IdsInv`). Both exclusions are needed;
  "What the fast path misses", below, has the behaviours.
- `SuccessIsInSync`: `SuccessMeansInSync`, where the scenario is `Steady` and nothing happens
  during a run (`Calm`). `EvenInv` says that what is through is equal on both sides, or an
  error is on record; it needs that a row of a file was written for two equal sides
  (`StampInv`), and all of `Track`, because a run on the fast path compares with the journal
  what it should compare with the server.
- `QuietDeletionsAreMirrored`: `QuietDeletionsMirrorUsers`, in the same scenarios. `Mirrored`
  says that a row of a path that is missing on one side is there because it was there
  (`GoneInv`, `DeletedInv`, `DirsInv`), that a version is met at one path only (`ApartInv`,
  `MetInv`), and what a conflict sets aside (`AsideInv`, `ConflictInv`). It holds beside
  `Even` and `Parts`, none of which is inductive without the others.

`TransferProofs`:

- `RangesTile`: the ranges of `split_ranges` cover every block exactly once. It is
  arithmetic (`Quotient`, `Multiples`), and independent of the state.
- `LeftoversAreExplained`: `LeftoversHaveReasons`. The property speaks of a download at rest,
  the induction of every step: what was swept or discarded so far is gone, unless a removal
  was refused (`CleanInv`).
- `ChecksumMeansOneVersion`: with a checksum, `DownloadedIsOneVersion`. The induction
  (`CheckedInv`) adds that between verification and rename the part file is the whole of
  the planned version. Without a checksum the property needs the hypotheses of the run,
  and `mixed_ranges` shows what happens without them.
- `OneEditionIsPublished`: `PublishedIsOneEdition`, where size and time are compared after
  the last chunk, or cannot change (`Compared`). `EditionInv` ties the checksum that goes with a
  PUT or a MOVE to one edition, and says of a TUS upload that what it has sent is a beginning
  of the file.
- `OffersFollowPrecedence`: `OffersAreNewer`, for any versions with any numbers of prerelease
  and build identifiers. The parser gives back what a text was put together from
  (`ParsedFacts`): the text is split at its first plus sign and hyphen, and nothing before them
  contains one (`TextFacts`), and the dots are the even places of a dotted list (`SplitFacts`).
  The program's order, by cases and places, is then the lexicographic order of keys that stands
  for SemVer's rules (`FollowsFacts`): both are decided by the first difference
  (`FirstDifference`), which is in the core (`CoresDecide`), in having a prerelease
  (`ReleasesDecide`), or in an identifier or the end of the shorter list (`PrereleasesDecide`).
  The hypothesis, that the parser refuses the ill-formed texts (`NoVersionIsRead`), stays with
  TLC: where it reads one, the property fails. Identifiers are numbers or words of one mark.

`SettingsProofs`:

- `NeverTorn`: `SettingsAreWhole`; `SavedForGood`: `SavesSurvive`. The common invariant
  `SettingsInv` says that what a writer is about to rename is its own content, synced
  (`StagedIsMine`, which holds because no two writers share a staging file), and that the
  file holds what was put in place last (`LastIsInPlace`). The assumption is that no
  configuration is the garbled file (`StoreAssumption`).
- `PagesAgreeWithTheFile`: `SettingsAgree`. The induction (`PreferencesInv`) needs that the
  window's copy has the accounts of the file although half of the pages do not refresh it
  (`CopyIsCurrent`: those pages do not touch accounts), and that nothing but a line that is
  checked can hold what is of no use (`InRange`). What is loaded is clean, and what is
  clean is written and loaded unchanged (`LoadedFacts`, `WrittenFacts`), so saving a page
  changes its own settings alone (`AccountStoredFacts`, `AppStoredFacts`).
- `DisplayShowsWhatIsSo`: `DisplayIsTrue`, from `LinesStandForRuns` of the rows and
  `WindowShowsWhatIsThere` of the window, each of which the composition lives. `LinesInv`
  adds that the flag that lets a report through is set only while a run is under way or in
  line. `WindowInv` has to say why a refresh may leave the view in front as it is
  (`RuntimesAreCurrent`): every account that runs has the folders it has on disk, or the last
  read failed, and then the window has no account, and no way to one but another refresh. Ids
  are unique, so that what `retain` leaves is without the one removed (`RetainedFacts`), and a
  picture that is due is of an account that is there unless its removal overtook the fetch
  (`PicturesAreDue`).
- `LogShowsWhatIsSo`: `LogIsTrue`, from `LogTellsWhatWasWritten` of the log alone. That the tail
  is the end of the files holds in every state, whatever bytes they have (`TailIsEnd`); the
  history takes its place exactly when the directory cannot be listed or a file cannot be read
  that holds some of the lines, a file behind enough lines not being opened. Each
  file is read back until there are more line feeds than lines wanted (`TailPathIsEnd`): what is
  behind a place of a text has the line ends behind it (`EndsBehind`), so only its first line may
  have lost its beginning, and that one is not among those wanted (`LastLinesBehind`). From file
  to file, the end of two lists is the end of the second and what is left of the first
  (`LastOfJoined`). The rest is an invariant (`LogInv`): while nothing goes wrong the stream is
  of the newest day there is and holds nothing back (`StreamInv`), so a day that gets a file
  is newer than all others, and the newest of the kept and that day are the newest of all
  (`NewestFacts`). Assumed is that there is a day and that the history holds a line.

`DesktopProofs`:

- `EditsOutlive`: `EditsOutliveConflicts`. The induction (`EditsInv`) needs that contents
  are new when written (`OldContents`); that a content the journal has recorded is wanted
  only while both sides, or a copy, still show it, so that no run replaces it
  (`BaseIsReplaced`); and that between the two halves of a promotion the copy may go
  because the working file, or another copy, has its content (`PromotedIsKept`).
- `ChannelIsSound`: `PushIsSound`. The client believes what the events it has heard say, while
  the workers have gone on; so `PushInv` is about the events on their way: a worker that says
  it is authenticated is, nothing follows its last word, and it does not go without one
  (`Truthful`, `Farewell`). With that, the one connection is a worker that was not told to
  stop (`Attached`), and "connected" is on record only while it serves (`Reported`).
- `SecretsStayKept`: `SecretsAreKept`, and `RemovedIsForgotten`: `RemovalForgets`, while nobody
  signs in again under another name. `SecretsInv` is about who meets whom: an account that was
  signed in to is met by no lookup that could bring an older password back (`Kept`), what a
  dialog offers is accepted, and found once stored (`Offered`), and a clean-up is alone with
  its account (`Cleared`). The hypothesis (no `rename` in `Events`) is that of the run, and
  needed: the running account keeps the id and the login it was started with, so a password
  stored under another login is not the one its runs look up.
- `AddedAccountsHaveSecrets`: `AddedHasSecret`, the wizard's half of `SecretsAreKept`: while
  sign-ins do not meet, the user the wizard knows is the one whose password was written.
- `FoldersFollowTheWorld`: `FoldersFollow`, the half of `FoldersHearAll` about the watchers.
  `WorldInv` says that the watchers are there while a folder is, that every gate has the
  settings they go by, and that all gates have one and the same reading (`OneWorld`).
- `EveryFolderHears`: `FoldersHearAll`, with `AccountsHear` of any accounts as its other half.
  A refresh and a report go through the accounts one by one, in any order, and each through the
  list its watchers were given; so the induction (`IsWell`) has that list equal to the folders
  that run (`TargetsAreLive`), and a controller's number used once.
- `AggregatesShowTheWorst`: `AggregateIsWorst`, from the same `IsWell`. An aggregate finds the two
  subscriptions of a controller by twice its index, so `Shows` ties the list of subscriptions
  to that of the controllers (`Paired`), and no controller is in the list twice: a folder's
  number is new when it is added, and the tray is given it by one account only (`TrayIsWell`).
  Adding, removing and telling controllers keep that (`AddedShows`, `RemovedShows`,
  `ToldShows`). The steps are folds over sets of folders and accounts. No lemma can take the
  folded operator as a parameter, so each fold has a copy of the same induction over the parts of
  a finite set (`AllParts`, `RecursedIn` of `ListTheorems`; then `RemovedIn`, `EnsuredIn`, `SyncedIn` and so on).
  Assumed is that accounts are finitely many and not numbers, and that the folders of a list
  are distinct.

Only model-checked:

- every liveness property (`NobodyStarves`, `Converges`, `TransfersLand`,
  `ChangesAreRequested`, `RunsEndOrJam`, `PushSettles`, `FlowsEnd`, `ServerIsHeard`): liveness
  under fairness and `ENABLED` are out of the prover's reach;
- what the other recursive functions compute: the matchers of `ScopesAgree`, the order of
  a bulk resolution (`ResolutionsHold`), and which texts `Updates` refuses. The library's induction
  theorems take an operator, which no installed prover can instantiate; an induction spelled
  out, as for the folds above, was not done for these.

What the fast path misses. A run whose root ETag is the stored one takes the journal for the
server's listing ("the server tree is the same one the journal already describes",
`engine/engine.rs:179`), and every run that comes to its end stores it, whatever it left
undone (`engine/engine.rs:494`). `FastPathIsSafe` says when that does no harm. TLC finds each of
these in the module when the theorem's hypothesis is dropped:

- A directory that both sides delete keeps its row (`engine/reconcile.rs:260`). Made here
  again, it is never created on the server while the root's ETag stays: the listing that is
  taken from the journal has it. Runs report success.
- A name that is a file here and a directory with contents on the server: the conflict is not
  resolved, what is in the directory gets no row, and the root's ETag is stored. It comes down
  only when something else changes on the server.
- Another client renames a file and writes it between two runs: the rename moves the row here,
  the new content is left for the next run, whose fast path does not look for it.
- With deletions by another client beside those of the user, `QuietDeletionsMirrorUsers`
  fails for the same stale row: what is here, not on the server, and in the journal is deleted
  here, without a look at whether it is what the journal knew (`engine/reconcile.rs:241`).

No module declares a RECURSIVE operator.

## Where the code and its documentation disagree

1. **A removed folder takes the slot with it** (`permit_leak`). `stop()` on a running
   scheduler never releases the permit, and `finished()` returns early once stopped. The
   scheduler's own comment warns of exactly this state: "every other waiter stays asleep
   forever with the permit free".
2. **Restoring from the server deletes on the server** (`restore_pushes_deletion`).
   `restore_from_server` relies on the journal being gone, but removes only top-level
   `.sync_*.db` files; the native engine's journal is `.nextsync/state.db`.
3. **An approved deletion is refused** (`approval_refused`). "You approve once", and the
   scheduler's guard lets the run pass; the engine's guard knows nothing of the approval
   and refuses a plan that empties the folder or deletes too large a share of it. The run
   fails, the approval is spent, and the next run asks again.
4. **The refresh after a transfer journals what was never downloaded** (`refresh_race`).
   The next walk takes it for a local deletion and removes what another client created.
   The same happens after a failed discovery, without a concurrent client.
5. **Ranges of two versions are mixed** (`mixed_ranges`). The version is compared before
   the ranges are requested, the requests carry no condition, and a server need not send
   a checksum.
6. **The push channel does not come back after a resume** (`push_resume`). `apply_resume`
   drops the socket "so it reconnects"; nothing reconnects it, and the schedulers go on
   skipping their interval polls, because the last report said connected.
7. **Keep Local keeps the server's version** (`keep_local`). The window takes the
   conflicted copy for the remote content; the native engine puts the local content there.

The same work showed behaviours that no document speaks against, or that take more than a
minimal run to show; they are among the hazards, with the condition that keeps them out
of a property:

- A journal row whose path is gone on both sides is kept; a later creation by another
  client is taken for a local deletion. After a crash or a cancellation between a DELETE
  and its row one side suffices.
- The stored root ETag covers more than the journal: changes made on the server during a
  run, and transfers left over by a cancellation, are hidden until it moves again.
- Local edits during a run are replaced by a finished download's rename; a failing MKCOL
  is ignored and its directory journalled; the guard's new baseline includes deletions
  that happened during the run.
- The runner takes each announced deletion, on the server too and before its request, for
  one applied here, so a failed run that merely tried re-records the guard's baseline;
  small deletions of several failing runs are then not added up.
- The guard's scan counts the engine's journal file, so an emptied folder is never
  reported as one while the journal is there, only as a mass deletion. A review of a
  folder that is missing comes back after every answer but switching the guard off.
- An approval covers whatever is missing when the run starts, not what was shown.
- A guard switched off in the settings stays on in the engine until a restart.
- A part file that was left behind, by a kill or by a finish that failed
  (`transfer.rs:109`, `:120`, `:123`), is resumed by the single-stream download without a look
  at its version (`transfer.rs:257`). With a checksum the mixture is noticed. Without one it
  lands: the circumstance of one stream with edits has neither kills nor refusing disks.
- `discard_part` removes the part first (`transfer.rs:392`). A kill after that, or the two other
  removals refused, leave the marks of finished ranges and the version without the part: the
  next download of that version makes the part anew, skips what is marked and, without a
  checksum, lands with a hole. Without one there are no refused removals, and no kills beside
  ranges.
- A download whose body breaks off is over for this run: the error is of the disk's kind, which
  `retryable` refuses (`transfer.rs:234`, `:271`). After three runs the file is left alone until
  it changes on the server (`engine/engine.rs:97`).
- A chunked upload into a folder that holds chunks of another file with the same length
  and modification time is refused, run after run (`StaleFolder`).
- The wizard's continuations compare the generation before they wait: a failure of an
  older poll cancels a newer flow, against the comment at `src/ui/setup.rs:136`.
- The watcher can go deaf in two ways (`Deaf`): registering the tree fails while the
  channel has no room for the news, or the flag is raised after the channel was emptied.
- Two instances that load before either saves lose the first one's change.
- Changed environment settings (metered networks, allowed Wi-Fi, quiet hours) reach the
  schedulers with the next added or removed account or folder, or a restart: saving them
  calls nobody (`EditEnvironment`). A changed proxy calls `reconfigure_active_account`,
  which never calls `refresh_network`, although `save_account_network` says it does
  (`src/ui/settings.rs:1277`).
- `import_configuration` says it validates "through the same loader" and that saving
  validates (`src/ui/settings.rs:2413`, `:2433`): it parses and saves. A backup with a
  number out of range is accepted and ends the program at its next start; one from before
  schema 3 loses its account, one from before schema 6 its folders, because the migrations
  are the loader's.
- After an import, or a sign-in under another login, the open settings view keeps its
  widgets: the next switch writes the old values back, or finds its account gone and says
  nothing.
- An account's proxy that is no URL keeps the switch beside it from being saved; quiet hours
  that are none are marked and saved as none; the wizard's choice to trust invalid
  certificates becomes that of all accounts (`src/ui/setup.rs:1422`).
- A lookup under way while its account is removed puts the password back into the cache;
  a removal's clean-up under way while the account is added again takes the new one away.

- *Reviews.* Dismissing the notification opens the review as a click on it does. The
  answer of a dialog approves whatever alert there is by then, and the answer that copies
  files back clears a newer alert. The caps of 100 rows and 200 children (`GROUP_ROW_CAP`, `TOTAL_CHILD_CAP`) are
  out of reach: a list has 50 files at most.
- *First synchronizations.* The wizard finishes without a review when the probe fails, or
  when the remote folder is not there, even if the local one has old journals
  (`src/ui/setup.rs:1317` says otherwise; the Add Folder dialog asks). Only the first
  folder's remote is probed. Two clicks on Finish start two probes, a late answer closes
  whichever wizard is open, and the spaces found for an earlier sign-in replace those of a
  later one. Old journals are `.sync*` files here: `.nextsync/state.db` is not seen.
- *Progress.* A folder added while the application runs never gets its forwarder (nor a
  file watcher, nor its lines in the log and its notifications). Its channel takes 256 reports; then its
  engine waits for room for ever, with the only slot (`Jammed`).
- *Window.* A picture under way while its account is removed is stored afterwards, against
  the comment for issue #135. The rows' "Pause sync" is labelled once, and
  quota and number of files go when the status text changes. Two writes of the
  emblem are not ordered. Removing a folder puts its local tree into the trash although the
  settings could not be saved. Opening the conflicts of a folder raises an open window of
  another one. A refresh that cannot load the settings shows no accounts while they run on;
  a removal that cannot be saved leaves the account listed without a runtime.
- *Answers.* A half line makes `take_line` loop for ever (`Spins`): it waits for one byte
  and has it. A request of the push client has no limit in time over all its reads, nor has one
  read: on a half-dead connection the worker stays connecting (`Stuck`) until the network, the
  switch, a removal or a resume ends it. The schedulers poll meanwhile.
- *Updates.* A number beyond 64 bits counts as 0, in a version's core as in its prerelease, so
  `OffersAreNewer` is about versions whose numbers fit (`NumbersFit`).
- *Notifications.* A locked keyring at the first poll counts as an empty first list, so that
  the backlog is shown later, against `src/core/server_notifications.rs:149`; turning the
  setting on again shows what came meanwhile. An account added later gets no watcher.
- *Log.* Nobody calls `configure`, so the switch for saving logs and the number of days do
  nothing. Unsubscribing inside a listener panics, which `src/core/log.rs:36` takes for
  allowed. A clock that goes back can make `prune` remove the file just opened. One daily file
  that cannot be read takes the lines of all others from the tail, which then is the history.
- *Scope.* Entries more than 65 names deep are listed and downloaded but never scanned, so
  that the next run deletes them on the server (the listing has no limit, against the
  comment at `engine/local.rs:84`). A name with a backslash is scanned under another path,
  with a slash (`engine/local.rs:53`), as two names. A `.nextsync` on the server is listed and never scanned
  when hidden files take part. Files named like `sync.db` are the engine's to carry and
  invisible to the guard. Classes (`[...]`) are understood by the application's matcher
  only. The guard and the preview count hidden files, and the engine's own journal, when
  the engine leaves them out. Changed exclusions reach the guard at once, the engine and
  the watcher at the next start, and what they newly exclude is missing for the guard.
- *Surroundings.* The request made when the network returns is judged by the Wi-Fi name read
  while there was none, so with a list of allowed names the return of the network starts
  nothing; gates of names and quiet hours open in silence (`NobodyLeftBehind` excepts them).
  A change of network without a loss in between is not passed on, so its cost and name are
  read late. The battery is read when an account starts and never again
  (`PowerWatcher::refresh` has no caller), and a folder added later starts as if online and
  on mains.
- `desktop_integration.rs` has no caller. A program launched with `--background` keeps that
  flag, so that later activations do not present its window.

Combinations kept out of the passing scenarios of the engine because one of these is
behind them are named in the notes of the hazards.

## What is not modelled

- Graphical code: widgets, layout and texts. Of `ui/` the handlers that change state or ask
  a question are modelled: sign-ins, first synchronizations, the settings view, the removal
  of accounts and folders, the main window with its rows and pages, the review, the conflict
  window, the update check. The tray and the building of
  dialogs are not.
- Parsing and formatting: the API's JSON, dates and checksums in PROPFIND answers, push
  frames and TLS, the journal readers, URLs and paths in the settings, the engine's
  configuration and command line. They have no state between two calls.
- The fingerprint that ties a manifest to an account; the etag store, which one caller
  reads and writes in one go; the statistics over the journal.
- The D-Bus messages behind the network and suspend signals, autostart, proxies and
  certificates of the WebDAV client.
- Times: only their order, and that cannot be relied upon either.
- Directories as targets of renames by other clients, directory ETags, symbolic links and
  case-insensitive names.
- The transfers are not inside the engine's run in one model: the engine's pools treat a
  transfer as one step, and the product of the two state spaces is out of TLC's reach.

The map covers about three in ten of the lines of Rust (31.4 % of 44,566, the unit tests
included, which live beside the code they test). What remains is, in its largest parts, the building of
widgets, parsers of server answers, and formatting.

## Plan

Written, in this order: the permit and its abstraction, the scheduler around it with its
proofs, the planner with its proofs, the engine; the transfers with their proofs, the
watcher, the settings and the preferences with their proofs; accounts, push channel,
passwords, wizard, conflict resolution with its proof, the surroundings; the deletion guards
with their proof, reviews and first synchronizations; progress, window, answers, updates,
notifications, log and scope; then the proofs of the scheduler's work, the engine's edits,
uploads, first synchronizations, the push channel and the passwords. Worth adding:

1. Proofs: `ListingsAgree` of the scope, with its matchers as parameters; the engine-level consequence of `IncompleteListingDeletesNothing` (a
   run on an incomplete listing removes nothing); the engine with directories inside others.
2. The API's JSON and the frames of the push channel as parsers over marks, as `Wire` and
   `Updates` do it, with the errors they tell apart.
3. The tray and the presence of the window.
4. `Push` with `Wire` as its worker, and `DeletionGuard` with `Review` as its user: both
   compositions are beyond a run's time at the present bounds.
