------------------------------ MODULE Scheduler ------------------------------
(***************************************************************************)
(* The folder schedulers of src/core/scheduler.rs, one per folder, with    *)
(* their debounce gate, their coalescing queue, their deletion guard and   *)
(* the permit they share.                                                  *)
(*                                                                         *)
(* Everything runs on one GLib main loop: a callback (a timer, an idle     *)
(* source, a watcher, a click, the end of a run) is one step, with every   *)
(* call it makes.  A scheduler is a record; the methods of SchedulerInner  *)
(* that touch nothing else are functions from the record before the call   *)
(* to the record after it.  `preparing' is set and cleared inside one      *)
(* callback and never seen by another, so it is left out.                  *)
(***************************************************************************)
EXTENDS SyncPermit, FiniteSets

CONSTANTS
    Batches,          \* groups of files, each big enough to trip the deletion guard
    Inputs,           \* the kinds of user and system input an instance exercises
    Requests,         \* the triggers its watchers, timers and clicks issue
    Outcomes,         \* the ends its runs may have
    KeyringRetryMax,  \* KEYRING_RETRY_MAX, the fast retries
    BackoffAfter,     \* failures in a row after which a run is delayed (3)
    MaxCallbacks      \* bound: no input reaches a folder that awaits as many

ASSUME BoundsAssumption ==
    {KeyringRetryMax, BackoffAfter, MaxCallbacks} \subseteq Nat

VARIABLES
    sched,   \* the scheduler of each folder
    orphans  \* folders whose engine still runs after its scheduler was stopped

vars == <<permit, sched, orphans>>

-----------------------------------------------------------------------------
(* Triggers and states.                                                    *)

LocalTriggers == {"LocalInotify", "LocalInterval", "LocalRecovery"}

Triggers ==
    LocalTriggers \cup
    {"RemotePush", "RemoteInterval", "Manual", "Startup",
     "NetworkRestored", "Resume", "Retry"}

\* Once queued, only these reasons are told apart.
Reasons == {"Manual", "LocalInotify", "Automatic"}
Reason(t) == IF t \in {"Manual", "LocalInotify"} THEN t ELSE "Automatic"

SyncOutcome ==
    {"Success", "Conflict", "AuthFailed", "NoCredentials", "KeyringLocked",
     "Failed", "NetworkError"}

ASSUME OutcomesAssumption == Outcomes \subseteq SyncOutcome
ASSUME RequestsAssumption == Requests \subseteq Triggers

AppState ==
    {"IdleOk", "IdleManualOnly", "IdleNotSynced", "SyncQueued", "Syncing",
     "PausedUser", "PausedBattery", "Offline", "Error", "AuthRequired",
     "KeyringLocked", "DeleteReview"}

SchedulerRecord ==
    [phase         : {"live", "stopped", "dropped"},
     running       : BOOLEAN,
     queue         : SUBSET Reasons,
     state         : AppState,
     \* callbacks to come: calls of start (the latest is start_source, when
     \* `source' says so), the debounce timer, the cooldown timers
     source        : BOOLEAN,
     armed         : Nat,
     settling      : BOOLEAN,
     cooldown      : BOOLEAN,
     coolTimers    : Nat,
     coolCallback  : BOOLEAN,
     \* what the user, the settings and the system last said
     online        : BOOLEAN,
     userPaused    : BOOLEAN,
     batteryPaused : BOOLEAN,
     metered       : BOOLEAN,
     hushed        : BOOLEAN,   \* no allowed Wi-Fi, or within the quiet hours
     manualOnly    : BOOLEAN,
     pushReady     : BOOLEAN,
     \* what earlier requests and runs left behind
     localDirty    : BOOLEAN,
     remotePending : BOOLEAN,
     authRequired  : BOOLEAN,
     unreachable   : BOOLEAN,
     keyringLocked : BOOLEAN,
     keyringTries  : 0..KeyringRetryMax,
     failures      : 0..BackoffAfter,   \* saturates
     everSynced    : BOOLEAN,
     \* the deletion guard: the batches on disk, in its baseline and on the
     \* server, those the alert lists, those the engine found gone
     guarded       : BOOLEAN,
     alert         : SUBSET Batches,
     bypass        : BOOLEAN,
     disk          : SUBSET Batches,
     baseline      : SUBSET Batches,
     server        : SUBSET Batches,
     foundGone     : SUBSET Batches,
     approved      : SUBSET Batches]    \* history: what the user approved

\* A source that is remembered is still to come.
SchedulerType ==
    {s \in SchedulerRecord : /\ s.source => s.armed > 0
                             /\ s.cooldown => s.coolTimers > 0}

NewScheduler ==
    [phase |-> "live", running |-> FALSE, queue |-> {}, state |-> "IdleNotSynced",
     source |-> FALSE, armed |-> 0, settling |-> FALSE,
     cooldown |-> FALSE, coolTimers |-> 0, coolCallback |-> FALSE,
     online |-> TRUE, userPaused |-> FALSE, batteryPaused |-> FALSE,
     metered |-> FALSE, hushed |-> FALSE, manualOnly |-> FALSE, pushReady |-> FALSE,
     localDirty |-> FALSE, remotePending |-> FALSE, authRequired |-> FALSE,
     unreachable |-> FALSE, keyringLocked |-> FALSE, keyringTries |-> 0,
     failures |-> 0, everSynced |-> FALSE, guarded |-> TRUE,
     alert |-> {}, bypass |-> FALSE, disk |-> Batches, baseline |-> Batches,
     server |-> Batches, foundGone |-> {}, approved |-> {}]

Init ==
    /\ permit = FreePermit
    /\ sched = [f \in Folders |-> NewScheduler]
    /\ orphans = {}

-----------------------------------------------------------------------------
(* The methods of SchedulerInner.                                          *)

Paused(s) == s.userPaused \/ s.batteryPaused

\* environment_gate(manual)
Gated(s, manual) == ~manual /\ (s.metered \/ s.hushed)

\* Mutant: the comparison swapped.
NotInBaseline(s) == s.disk \ s.baseline

\* What DeleteGuard::check would report.
Missing(s) == s.baseline \ s.disk

IdleState(s) ==
    IF s.alert # {} THEN "DeleteReview"
    ELSE IF s.userPaused THEN "PausedUser"
    ELSE IF s.batteryPaused THEN "PausedBattery"
    ELSE IF ~s.online THEN "Offline"
    ELSE IF s.authRequired THEN "AuthRequired"
    ELSE IF s.manualOnly THEN "IdleManualOnly"
    ELSE IF s.everSynced THEN "IdleOk"
    ELSE "IdleNotSynced"

\* Mutant: the label is left as it was.
Relabelled(s) == s

Idle(s) == [s EXCEPT !.state = IdleState(s)]

\* Every timer that re-enters start: at most one is the current source.
Armed(s) ==
    IF s.phase # "live" \/ s.source \/ s.running
    THEN s
    ELSE [s EXCEPT !.source = TRUE, !.armed = @ + 1]

ScheduleStart(s) ==
    IF s.cooldown \/ Armed(s) = s THEN s ELSE [Armed(s) EXCEPT !.state = "SyncQueued"]

ScheduleDebounce(s) == [s EXCEPT !.state = "SyncQueued", !.settling = TRUE]

ScheduleKeyringRetry(s) ==
    IF Armed(s) # s /\ s.keyringTries < KeyringRetryMax
    THEN [Armed(s) EXCEPT !.keyringTries = @ + 1]
    ELSE Armed(s)   \* schedule_keyring_watch

ScheduleServerProbe(s) == IF s.unreachable THEN Armed(s) ELSE s

Queued(s, t) == [s EXCEPT !.queue = @ \cup {Reason(t)}]

\* The requests that are dropped outright.
Ignores(s, t) ==
    \/ s.phase # "live"
    \/ t = "RemoteInterval" /\ s.pushReady
    \/ t = "LocalInotify" /\ (s.running \/ s.cooldown)

\* The one request that enters start at once, on the same stack.
StartsNow(s, t) ==
    /\ t = "Manual" /\ s.keyringLocked /\ s.online /\ ~s.running
    /\ ~Ignores(s, t)
    /\ s.alert = {} \/ s.bypass

\* request(trigger), except for that one.
Requested(s, t) ==
    LET manual == t = "Manual"
        q      == Queued(s, t)
    IN  IF Ignores(s, t) THEN s
        ELSE IF s.alert # {} /\ ~s.bypass THEN [q EXCEPT !.state = "DeleteReview"]
        ELSE IF s.running THEN q
        ELSE IF Paused(s) /\ ~manual
             THEN IF t \in LocalTriggers
                  THEN [s EXCEPT !.localDirty = TRUE]
                  ELSE [s EXCEPT !.remotePending = TRUE]
        ELSE IF s.authRequired /\ ~manual THEN [q EXCEPT !.state = "AuthRequired"]
        ELSE IF s.unreachable /\ ~manual THEN [q EXCEPT !.state = "Offline"]
        ELSE IF ~s.online THEN [q EXCEPT !.state = "Offline"]
        ELSE IF s.keyringLocked /\ ~manual THEN ScheduleStart(q)
        ELSE IF Gated(s, manual) THEN [q EXCEPT !.state = "Offline"]
        ELSE IF t = "LocalInotify" THEN ScheduleDebounce(q)
        ELSE ScheduleStart(q)

\* Mutant: leaving a pause forgets what arrived meanwhile.
ResumedIdle(s) == Idle([s EXCEPT !.localDirty = FALSE, !.remotePending = FALSE])

\* Leaving a pause: what arrived meanwhile is one Resume request.
Resumed(s) ==
    LET clean == [s EXCEPT !.localDirty = FALSE, !.remotePending = FALSE]
    IN  IF (s.localDirty \/ s.remotePending \/ s.queue # {}) /\ ~s.manualOnly
        THEN Requested(clean, "Resume")
        ELSE Idle(clean)

\* Mutant: coming back online requests nothing.
ReconnectedQuietly(s) == Idle(s)

\* Coming back online, or off a metered network.
Reconnected(s) ==
    IF s.queue # {} \/ ~s.manualOnly
    THEN Requested(s, "NetworkRestored")
    ELSE Idle(s)

-----------------------------------------------------------------------------
(* start: why it aborts, and what each end of it leaves.                   *)

StartVerdict(s) ==
    LET manual == "Manual" \in s.queue
    IN  IF s.phase # "live" \/ s.running \/ s.queue = {} \/ ~s.online THEN "nothing"
        ELSE IF Gated(s, manual) THEN "gated"
        ELSE IF Paused(s) /\ ~manual THEN "paused"
        ELSE IF s.authRequired /\ ~manual THEN "unauthorized"
        ELSE IF s.alert # {} /\ ~s.bypass THEN "underReview"
        ELSE IF s.guarded /\ ~s.bypass /\ Missing(s) # {} THEN "massDeletion"
        ELSE "go"

Aborted(s, verdict) ==
    CASE verdict = "nothing"      -> s
      [] verdict = "gated"        -> [s EXCEPT !.state = "Offline"]
      [] verdict = "paused"       -> [s EXCEPT !.queue = {}, !.localDirty = TRUE]
      [] verdict = "unauthorized" -> [s EXCEPT !.state = "AuthRequired"]
      [] verdict = "underReview"  -> [s EXCEPT !.state = "DeleteReview"]
      [] verdict = "massDeletion" -> [s EXCEPT !.state = "DeleteReview",
                                               !.alert = Missing(s)]

Waiting(s) == [s EXCEPT !.bypass = FALSE, !.state = "SyncQueued"]

Running(s) ==
    [s EXCEPT !.bypass = FALSE, !.state = "Syncing", !.queue = {},
              !.running = TRUE, !.foundGone = Batches \ s.disk]

\* start_with_permit_turn of the scheduler s0 of f; `turn' when a release woke
\* it, and p the permit after it claimed that turn.
Start(f, s0, p, turn) ==
    LET s       == [s0 EXCEPT !.source = FALSE]
        verdict == StartVerdict(s)
        enters  == (turn \/ WaiterCount(p) = 0) /\ CanAcquire(p, f)
    IN  /\ UNCHANGED orphans
        /\ \/ /\ verdict # "go"
              /\ sched' = [sched EXCEPT ![f] = Aborted(s, verdict)]
              /\ permit' = IF turn THEN Released(p) ELSE p
           \/ /\ verdict = "go" /\ enters
              /\ sched' = [sched EXCEPT ![f] = Running(s)]
              /\ permit' = Acquired(p, f)
           \/ /\ verdict = "go" /\ ~enters
              /\ sched' = [sched EXCEPT ![f] = Waiting(s)]
              /\ permit' = WaitForRelease(p, f)

Become(f, s) ==
    /\ sched' = [sched EXCEPT ![f] = s]
    /\ UNCHANGED <<permit, orphans>>

\* request(t) on the scheduler of f, whose record is s by then.
Submit(f, s, t) ==
    IF StartsNow(s, t)
    THEN Start(f, Queued(s, t), permit, FALSE)
    ELSE Become(f, Requested(s, t))

-----------------------------------------------------------------------------
(* Inputs of the user and of the system.                                   *)

Live(f) == sched[f].phase = "live"

Accepts(f, input) == input \in Inputs /\ Live(f)

Registrations(f) ==
    LET Of(q) == {i \in DOMAIN q : q[i] = f}
    IN  Cardinality(Of(permit.waiters)) + Cardinality(Of(permit.idles))

\* The one bound: inputs wait while too many callbacks of f are to come.  The
\* steps of the loop only turn one callback into another.
Room(f) ==
    sched[f].armed + sched[f].coolTimers + Registrations(f) < MaxCallbacks

Request(f, t) == Live(f) /\ Room(f) /\ Submit(f, sched[f], t)

SetUserPaused(f) ==
    LET s == [sched[f] EXCEPT !.userPaused = ~@]
    IN  /\ Accepts(f, "pause") /\ Room(f)
        /\ Become(f, IF s.userPaused THEN [s EXCEPT !.state = "PausedUser"]
                     ELSE Resumed(s))

SetBatteryPaused(f) ==
    LET s == [sched[f] EXCEPT !.batteryPaused = ~@]
    IN  /\ Accepts(f, "battery") /\ Room(f)
        /\ Become(f, IF s.batteryPaused THEN [s EXCEPT !.state = "PausedBattery"]
                     ELSE IF s.userPaused THEN s
                     ELSE Resumed(s))

SetOnline(f) ==
    LET s     == [sched[f] EXCEPT !.online = ~@]
        probe == IF s.unreachable THEN ScheduleServerProbe(Queued(s, "Retry")) ELSE s
    IN  /\ Accepts(f, "network") /\ Room(f)
        /\ Become(f, IF s.online THEN Reconnected(probe)
                     ELSE [s EXCEPT !.state = "Offline"])

SetMetered(f) ==
    LET s == [sched[f] EXCEPT !.metered = ~@]
    IN  /\ Accepts(f, "metered") /\ Room(f)
        /\ Become(f, IF ~s.metered /\ s.online THEN Reconnected(s) ELSE s)

\* set_active_ssid, set_allowed_ssids, set_quiet_hours and the clock: nothing
\* is requested when the gate opens.
SetHushed(f) ==
    /\ Accepts(f, "hush")
    /\ Become(f, [sched[f] EXCEPT !.hushed = ~@])

SetRemotePushReady(f) ==
    /\ Accepts(f, "push")
    /\ Become(f, [sched[f] EXCEPT !.pushReady = ~@])

UpdateSyncConfig(f) ==
    /\ Accepts(f, "settings")
    /\ Become(f, [sched[f] EXCEPT !.manualOnly = ~@])

CredentialsRenewed(f) ==
    /\ Accepts(f, "credentials") /\ Room(f)
    /\ Submit(f, [sched[f] EXCEPT !.authRequired = FALSE], "Manual")

\* The user, or another program, deletes a batch; a run in flight sees the
\* deletion or has already scanned that part of the tree.
LoseBatch(f, b) ==
    LET s == [sched[f] EXCEPT !.disk = @ \ {b}]
    IN  /\ Accepts(f, "delete") /\ b \in sched[f].disk
        /\ ~sched[f].running \/ "deleteInFlight" \in Inputs
        /\ \/ Become(f, s)
           \/ s.running /\ Become(f, [s EXCEPT !.foundGone = @ \cup {b}])

ApproveDeleteOnce(f) ==
    LET s == sched[f]
    IN  /\ Accepts(f, "delete") /\ s.alert # {} /\ Room(f)
        /\ Submit(f, [s EXCEPT !.alert = {}, !.bypass = TRUE,
                               !.approved = @ \cup s.alert], "Manual")

\* The engine keeps its journal where restore_from_server does not look, so
\* all that changes is the baseline.
RestoreFromServer(f) ==
    LET s == sched[f]
    IN  /\ Accepts(f, "restore") /\ s.alert # {} /\ Room(f)
        /\ Submit(f, [s EXCEPT !.alert = {}, !.bypass = FALSE,
                               !.baseline = s.disk], "Manual")

\* The guard is switched off in the settings, or on again.
SetGuardEnabled(f) ==
    LET s       == [sched[f] EXCEPT !.guarded = ~@]
        cleared == [s EXCEPT !.alert = {}, !.bypass = FALSE, !.state = "IdleNotSynced"]
    IN  /\ Accepts(f, "guard") /\ Room(f)
        /\ IF s.guarded \/ s.alert = {} THEN Become(f, s)
           ELSE Submit(f, cleared, "Manual")

\* stop, when a folder or an account is removed.  A run is cancelled but its
\* slot is not given back: finished does nothing once stopped.
Stop(f) ==
    LET s == sched[f]
    IN  /\ Accepts(f, "folders")
        /\ sched' = [sched EXCEPT ![f] =
               [s EXCEPT !.phase = "stopped", !.queue = {}, !.alert = {},
                         !.localDirty = FALSE, !.remotePending = FALSE,
                         !.armed = IF s.source THEN @ - 1 ELSE @, !.source = FALSE,
                         !.settling = FALSE,
                         !.coolTimers = IF s.cooldown THEN @ - 1 ELSE @,
                         !.cooldown = FALSE, !.coolCallback = FALSE,
                         !.running = FALSE]]
        /\ orphans' = IF s.running THEN orphans \cup {f} ELSE orphans
        /\ UNCHANGED permit

\* The last handle on a stopped scheduler goes: its weak references die.
Drop(f) ==
    /\ sched[f].phase = "stopped"
    /\ sched' = [sched EXCEPT ![f] = [NewScheduler EXCEPT !.phase = "dropped"]]
    /\ permit' = Forgotten(permit, f)
    /\ UNCHANGED orphans

\* ensure_folder: a new scheduler asks for its first run.  (Bound: no folder is
\* added while as many callbacks of removed ones are left on the permit.)
AddFolder(f) ==
    /\ sched[f].phase = "dropped"
    /\ WaiterCount(permit) < MaxCallbacks
    /\ Become(f, Requested(NewScheduler, "Startup"))

-----------------------------------------------------------------------------
(* Callbacks of the main loop.                                             *)

\* An idle source or timer armed to call start.
StartTimer(f) ==
    LET s == sched[f]
    IN  /\ s.armed > 0
        /\ Start(f, [s EXCEPT !.armed = @ - 1], permit, FALSE)

\* The idle source a release queued for the oldest waiter.
WokenWaiter ==
    LET f    == Head(permit.idles)
        rest == [permit EXCEPT !.idles = Tail(@)]
    IN  /\ permit.idles # <<>>
        /\ IF f = Dropped
           THEN permit' = rest /\ UNCHANGED <<sched, orphans>>
           ELSE Start(f, sched[f], ClaimReleasedTurn(rest), TRUE)

DebounceReady(f) ==
    LET s == sched[f]
    IN  /\ s.settling
        /\ Become(f, ScheduleStart([s EXCEPT !.settling = FALSE]))

\* Mutant: what was queued during a run is not looked at (issue #127).
CooldownOverlooksQueue(s) ==
    IF s.phase # "live" \/ Paused(s) THEN s ELSE Idle(s)

\* cooldown_finished, when the callback was not taken by an older timer.
CooldownFinished(s) ==
    IF s.phase # "live" \/ Paused(s) THEN s
    ELSE IF s.queue = {} \/ ~s.online THEN Idle(s)
    ELSE IF s.failures < BackoffAfter THEN ScheduleStart(s)
    ELSE Armed(s)

CooldownTimer(f) ==
    LET s == sched[f]
        t == [s EXCEPT !.coolTimers = @ - 1, !.cooldown = FALSE, !.coolCallback = FALSE]
    IN  /\ s.coolTimers > 0
        /\ Become(f, IF s.coolCallback THEN CooldownFinished(t) ELSE t)

-----------------------------------------------------------------------------
(* The end of a run.                                                       *)

Completed == {"Success", "Conflict"}
Cooled == Completed \cup {"Failed"}   \* the ends that count as a run

\* The flags and the state `finished' sets for each outcome.
Judged(s, o) ==
    LET reset  == [s EXCEPT !.keyringLocked = FALSE, !.keyringTries = 0,
                            !.authRequired = FALSE, !.unreachable = FALSE,
                            !.failures = 0, !.everSynced = TRUE]
        failed == [s EXCEPT !.keyringLocked = o = "KeyringLocked",
                            !.failures = IF @ < BackoffAfter THEN @ + 1 ELSE @]
    IN  CASE o = "Success"  -> Idle(reset)
          [] o = "Conflict" -> [reset EXCEPT !.state = "IdleOk"]
          [] o \in {"AuthFailed", "NoCredentials"} ->
                 [failed EXCEPT !.authRequired = TRUE, !.state = "AuthRequired"]
          [] o = "KeyringLocked" -> [failed EXCEPT !.state = "KeyringLocked"]
          [] o = "Failed"        -> [failed EXCEPT !.state = "Error"]
          [] o = "NetworkError"  ->
                 [failed EXCEPT !.unreachable = TRUE, !.state = "Offline"]

\* The baseline moves after a complete run, and after any run that counted
\* deletions.
Rebaselined(s, o, deleted) ==
    IF (o \in Completed \/ deleted) /\ s.alert = {} /\ s.guarded
    THEN [s EXCEPT !.baseline = s.disk]
    ELSE s

\* What finished arms once the slot is back.
Followed(s, o) ==
    LET done == [s EXCEPT !.running = FALSE]
    IN  IF o \in Cooled
        THEN [done EXCEPT !.queue = @ \ {"LocalInotify"}, !.cooldown = TRUE,
                          !.coolTimers = @ + 1, !.coolCallback = TRUE]
        ELSE IF o = "KeyringLocked" THEN ScheduleKeyringRetry(Queued(done, "Retry"))
        ELSE IF o = "NetworkError" THEN ScheduleServerProbe(Queued(done, "Retry"))
        ELSE done

\* A run that ends has propagated every deletion it found, or, when it failed
\* half way, some of them; `deleted' when the sink counted any.
Finished(f, o, gone, deleted) ==
    LET s    == sched[f]
        left == [s EXCEPT !.server = @ \ gone, !.foundGone = {}]
    IN  /\ s.running
        /\ gone \subseteq s.foundGone
        /\ o \in Completed => gone = s.foundGone
        /\ o \notin Cooled \cup {"AuthFailed"} => gone = {} /\ ~deleted
        /\ gone \cap s.server # {} => deleted
        /\ sched' = [sched EXCEPT ![f] =
               Followed(Rebaselined(Judged(left, o), o, deleted), o)]
        /\ permit' = Released(permit)
        /\ UNCHANGED orphans

\* The cancelled engine of a removed folder ends; nobody listens.
OrphanEnds(f) ==
    /\ f \in orphans
    /\ orphans' = orphans \ {f}
    /\ UNCHANGED <<permit, sched>>

-----------------------------------------------------------------------------

UserStep(f) ==
    \/ \E t \in Requests : Request(f, t)
    \/ SetUserPaused(f)
    \/ CredentialsRenewed(f)
    \/ \E b \in Batches : LoseBatch(f, b)
    \/ ApproveDeleteOnce(f)
    \/ RestoreFromServer(f)
    \/ SetGuardEnabled(f)
    \/ UpdateSyncConfig(f)
    \/ Stop(f)
    \/ Drop(f)
    \/ AddFolder(f)

SystemStep(f) ==
    \/ SetBatteryPaused(f)
    \/ SetOnline(f)
    \/ SetMetered(f)
    \/ SetHushed(f)
    \/ SetRemotePushReady(f)

RunEnds(f) ==
    \E o \in Outcomes, gone \in SUBSET Batches, deleted \in BOOLEAN :
        Finished(f, o, gone, deleted)

LoopStep(f) ==
    \/ StartTimer(f)
    \/ DebounceReady(f)
    \/ CooldownTimer(f)
    \/ RunEnds(f)
    \/ OrphanEnds(f)

Next ==
    \/ \E f \in Folders : UserStep(f) \/ SystemStep(f) \/ LoopStep(f)
    \/ WokenWaiter

Spec == Init /\ [][Next]_vars

\* The main loop dispatches every source that is due, and a run ends: every
\* request of the engine has a timeout.
Fairness ==
    /\ \A f \in Folders :
           /\ WF_vars(StartTimer(f))
           /\ WF_vars(DebounceReady(f))
           /\ WF_vars(CooldownTimer(f))
           /\ WF_vars(RunEnds(f))
    /\ WF_vars(WokenWaiter)

FairSpec == Spec /\ Fairness

=============================================================================
