---------------------------- MODULE DeletionGuard ----------------------------
(***************************************************************************)
(* What stands between a deletion on this computer and the server, for one *)
(* folder: the guard of the scheduler with its manifest of the files that  *)
(* were here (core/delete_guard.rs), the review and its three answers      *)
(* (core/scheduler.rs), and the guard of the engine, which looks at the    *)
(* plan of the run that the first one let through (engine.rs).  The two    *)
(* keep records of their own, the manifest and the journal, and each its   *)
(* own copy of the setting.                                                *)
(*                                                                         *)
(* A file is there or not; edits, renames, directories and the order of    *)
(* transfers belong to SyncEngine; when a run starts, and what becomes of  *)
(* one that has no credentials or no server, to Scheduler.                 *)
(***************************************************************************)
EXTENDS Integers, FiniteSets

CONSTANTS
    Files,             \* what the user may have in the folder
    StateDb,           \* the engine's own .nextsync/state.db, in the folder too
    CountThreshold,    \* DeleteGuardConfig of the account
    PercentThreshold,
    EngineGroup,       \* DeleteGuardConfig of the engine: min_group,
    EnginePercent,     \* max_delete_ratio
    Stampede,          \* MASS_REMOTE_DELETE
    NoManifest, NoAlert,
    MaxDeeds,          \* bound: what users do
    MaxBreaks          \* bound: requests that fail, saves that fail, restarts

ASSUME GuardedFolderAssumption ==
    /\ IsFiniteSet(Files) /\ StateDb \notin Files
    /\ {CountThreshold, PercentThreshold} \subseteq Int
    /\ {EngineGroup, EnginePercent, Stampede, MaxDeeds, MaxBreaks} \subseteq Nat
    /\ \A files \in SUBSET (Files \cup {StateDb}) :
           /\ files # NoManifest
           /\ \A reason \in {"folder_missing", "folder_emptied", "mass_local_deletion"} :
                  [reason |-> reason, missing |-> files] # NoAlert

VARIABLES
    onDisk, rooted,   \* the files here, and whether the folder is there at all
    onServer,
    journal,          \* rows of the engine's journal
    hasDb,            \* whether there is a journal
    manifest,         \* the files that were here when the guard last recorded
    guarded,          \* the setting, and whether the scheduler has a guard
    strict,           \* the runner's copy of the setting, from when it was made
    alert,            \* delete_alert
    bypass,           \* delete_bypass_once
    run,              \* the run in progress
    lost,             \* history: deleted on the server by runs nobody approved
    mirrored,         \* history: deleted here by runs, because the server had
    torn,             \* history: a run deleted here and nobody recorded it
    deeds, breaks

guardVars == <<onDisk, rooted, onServer, journal, hasDb, manifest, guarded, strict,
               alert, bypass, run, lost, mirrored, torn, deeds, breaks>>

folderVars == <<onDisk, rooted, onServer, journal, hasDb>>

NoRun == [at |-> "idle", approved |-> FALSE, watched |-> FALSE, seen |-> {}, rushed |-> {},
         here |-> {}, there |-> {}, gets |-> {}, puts |-> {},
         counted |-> FALSE, mirrors |-> FALSE, failed |-> FALSE]

-----------------------------------------------------------------------------
(* The guard of the scheduler.                                             *)

Maximum(m, n) == IF m >= n THEN m ELSE n
Minimum(m, n) == IF m <= n THEN m ELSE n

CountLimit == Maximum(CountThreshold, 1)
PercentLimit == Minimum(Maximum(PercentThreshold, 1), 100)

\* Many(missing, previous): the deletion is worth a review.
Many(missing, previous) ==
    /\ missing > 0
    /\ missing >= CountLimit \/ missing * 100 >= PercentLimit * previous

\* scan_local_files skips what nextcloudcmd wrote and the excluded names, but
\* not .nextsync, so the journal counts as one of the user's files.
Scanned == IF rooted THEN onDisk \cup (IF hasDb THEN {StateDb} ELSE {}) ELSE {}

\* Mutant: what was created since makes up for what disappeared.
Shrinkage == Cardinality(manifest) - Cardinality(Scanned)

Disappeared == Cardinality(manifest \ Scanned)

Alert(reason, missing) == [reason |-> reason, missing |-> missing]

Check ==
    IF manifest = NoManifest THEN NoAlert
    ELSE IF ~rooted THEN Alert("folder_missing", {})
    ELSE IF manifest # {} /\ Scanned = {} THEN Alert("folder_emptied", manifest)
    ELSE IF Many(Disappeared, Cardinality(manifest))
         THEN Alert("mass_local_deletion", manifest \ Scanned)
    ELSE NoAlert

-----------------------------------------------------------------------------
(* The users.                                                              *)

Deed == deeds < MaxDeeds /\ deeds' = deeds + 1
Break == breaks < MaxBreaks /\ breaks' = breaks + 1

Back(f) == lost' = lost \ {f} /\ mirrored' = mirrored \ {f}

CreateHere(f) ==
    /\ Deed /\ f \notin onDisk
    /\ onDisk' = onDisk \cup {f} /\ rooted' = TRUE
    /\ Back(f)
    /\ UNCHANGED <<onServer, journal, hasDb, manifest, guarded, strict, alert, bypass, run,
                   torn, breaks>>

\* What is deleted here while a run is under way is not what its guard saw.
Rushed(gone) == run' = IF run.at = "idle" THEN run ELSE [run EXCEPT !.rushed = @ \cup gone]

DeleteHere(gone) ==
    /\ Deed /\ gone # {} /\ gone \subseteq onDisk
    /\ onDisk' = onDisk \ gone
    /\ Rushed(gone)
    /\ UNCHANGED <<rooted, onServer, journal, hasDb, manifest, guarded, strict, alert, bypass,
                   lost, mirrored, torn, breaks>>

\* The folder goes as a whole, the engine's journal in it too; a mount point
\* stays behind empty.
TreeVanishes(stays) ==
    /\ Deed /\ rooted /\ run.at = "idle"
    /\ onDisk' = {} /\ journal' = {} /\ hasDb' = FALSE /\ rooted' = stays
    /\ UNCHANGED <<onServer, manifest, guarded, strict, alert, bypass, run, lost, mirrored,
                   torn, breaks>>

CreateThere(f) ==
    /\ Deed /\ f \notin onServer
    /\ onServer' = onServer \cup {f}
    /\ Back(f)
    /\ UNCHANGED <<onDisk, rooted, journal, hasDb, manifest, guarded, strict, alert, bypass,
                   run, torn, breaks>>

DeleteThere(gone) ==
    /\ Deed /\ gone # {} /\ gone \subseteq onServer
    /\ onServer' = onServer \ gone
    /\ UNCHANGED <<onDisk, rooted, journal, hasDb, manifest, guarded, strict, alert, bypass,
                   run, lost, mirrored, torn, breaks>>

-----------------------------------------------------------------------------
(* The review.                                                             *)

ApproveOnce ==
    /\ alert # NoAlert /\ alert.reason # "folder_missing"
    /\ alert' = NoAlert /\ bypass' = TRUE
    /\ UNCHANGED <<folderVars, manifest, guarded, strict, run, lost, mirrored, torn, deeds,
                   breaks>>

\* record_current: the manifest may not be written, and nobody asks.
RecordCurrent ==
    \/ manifest' = Scanned /\ UNCHANGED breaks
    \/ Break /\ UNCHANGED manifest

\* The journals it removes are nextcloudcmd's; the engine's stays.
AnswerRestore ==
    /\ alert # NoAlert
    /\ RecordCurrent
    /\ alert' = NoAlert /\ bypass' = FALSE
    /\ UNCHANGED <<folderVars, guarded, strict, run, lost, mirrored, torn, deeds>>

\* apply_guard_config: without a guard there is no review.  The runner keeps
\* the setting it was made with.
SetGuard ==
    /\ Deed
    /\ guarded' = ~guarded
    /\ IF guarded THEN alert' = NoAlert /\ bypass' = (bypass /\ alert = NoAlert)
                  ELSE UNCHANGED <<alert, bypass>>
    /\ UNCHANGED <<folderVars, manifest, strict, run, lost, mirrored, torn, breaks>>

-----------------------------------------------------------------------------
(* A run.                                                                  *)

\* start, once nothing but the guard is in the way.
StartRun ==
    /\ run.at = "idle" /\ alert = NoAlert
    /\ LET found == IF guarded /\ ~bypass THEN Check ELSE NoAlert
       IN  IF found # NoAlert
           THEN alert' = found /\ UNCHANGED <<run, bypass>>
           ELSE /\ run' = [NoRun EXCEPT !.at = "started", !.approved = bypass,
                                       !.watched = guarded /\ ~bypass,
                                       !.seen = IF manifest = NoManifest
                                                THEN {} ELSE manifest \ Scanned]
                /\ bypass' = FALSE
                /\ UNCHANGED alert
    /\ UNCHANGED <<folderVars, manifest, guarded, strict, lost, mirrored, torn, deeds, breaks>>

GoneHere == (onServer \cap journal) \ onDisk
GoneThere == (onDisk \cap journal) \ onServer

\* check_delete_guard, on the plan of the run.
EngineRefuses ==
    LET deletes == Cardinality(GoneHere) + Cardinality(GoneThere)
        planned == Cardinality(onServer \cup onDisk)
        total   == Maximum(Maximum(planned, Cardinality(onDisk)),
                           Maximum(Cardinality(journal), 1))
    IN  /\ strict /\ deletes > 0
        /\ \/ journal # {} /\ onDisk = {}
           \/ deletes >= total
           \/ deletes >= Maximum(EngineGroup, 1) /\ deletes * 100 > EnginePercent * total
           \/ Cardinality(GoneHere) >= Stampede

\* Discovery, scan, plan and guard; files that both sides have are recorded.
\* A refusal is a failed run that did nothing.
Scan ==
    /\ run.at = "started"
    /\ rooted' = TRUE /\ hasDb' = TRUE
    /\ IF EngineRefuses
       THEN run' = NoRun /\ UNCHANGED journal
       ELSE /\ run' = [run EXCEPT !.at = "deleting", !.here = GoneThere, !.there = GoneHere,
                                  !.gets = onServer \ (onDisk \cup journal),
                                  !.puts = onDisk \ (onServer \cup journal)]
            /\ journal' = journal \cup (onServer \cap onDisk)
    /\ UNCHANGED <<onDisk, onServer, manifest, guarded, strict, alert, bypass, lost, mirrored,
                   torn, deeds, breaks>>

\* Action::DeleteLocal.  Whether the file could be removed nobody asks.
RemoveHere(f) ==
    /\ run.at = "deleting" /\ f \in run.here
    /\ journal' = journal \ {f}
    /\ \/ /\ onDisk' = onDisk \ {f} /\ mirrored' = mirrored \cup {f}
          /\ UNCHANGED breaks
       \/ Break /\ UNCHANGED <<onDisk, mirrored>>
    /\ run' = [run EXCEPT !.here = @ \ {f}, !.counted = TRUE, !.mirrors = TRUE]
    /\ UNCHANGED <<rooted, onServer, hasDb, manifest, guarded, strict, alert, bypass, lost,
                   torn, deeds>>

\* Action::DeleteRemote.  Its progress event says "delete", as that of a local
\* deletion does, and comes before the request: the runner counts it, whatever
\* becomes of it.
RemoveThere(f) ==
    /\ run.at = "deleting" /\ f \in run.there
    /\ \/ /\ onServer' = onServer \ {f} /\ journal' = journal \ {f}
          /\ lost' = IF run.watched /\ f \notin run.rushed \cup onDisk
                     THEN lost \cup {f} ELSE lost
          /\ run' = [run EXCEPT !.there = @ \ {f}, !.counted = TRUE]
          /\ UNCHANGED breaks
       \/ /\ Break
          /\ run' = [run EXCEPT !.there = @ \ {f}, !.counted = TRUE, !.failed = TRUE]
          /\ UNCHANGED <<onServer, journal, lost>>
    /\ UNCHANGED <<onDisk, rooted, hasDb, manifest, guarded, strict, alert, bypass, mirrored,
                   torn, deeds>>

\* The two pools: what could not be transferred fails the run.
Transfer ==
    /\ run.at = "deleting" /\ run.here \cup run.there = {}
    /\ LET gets == run.gets \cap onServer
           puts == run.puts \cap onDisk
       IN  \/ /\ onDisk' = onDisk \cup gets /\ onServer' = onServer \cup puts
              /\ journal' = journal \cup gets \cup puts
              /\ lost' = lost \ (gets \cup puts) /\ mirrored' = mirrored \ (gets \cup puts)
              /\ run' = [run EXCEPT !.at = "ended",
                                    !.failed = @ \/ gets # run.gets \/ puts # run.puts]
              /\ UNCHANGED breaks
           \/ /\ Break /\ gets \cup puts # {}
              /\ run' = [run EXCEPT !.at = "ended", !.failed = TRUE]
              /\ UNCHANGED <<onDisk, onServer, journal, lost, mirrored>>
    /\ UNCHANGED <<rooted, hasDb, manifest, guarded, strict, alert, bypass, torn, deeds>>

\* A rejected password or a cancellation ends the run where it is; the deletion
\* that was rejected has been counted.
GiveUp ==
    /\ run.at = "deleting" /\ Break
    /\ \E asked \in {FALSE, run.there # {}} :
           run' = [run EXCEPT !.at = "ended", !.failed = TRUE, !.counted = @ \/ asked]
    /\ UNCHANGED <<folderVars, manifest, guarded, strict, alert, bypass, lost, mirrored, torn,
                   deeds>>

\* Mutant: only after a run that succeeded (issue #276).
RecordsSuccess == guarded /\ ~run.failed

\* finished: when the guard records anew what is here.
Records == guarded /\ (~run.failed \/ run.counted)

RunEnded ==
    /\ run.at = "ended"
    /\ IF Records THEN RecordCurrent ELSE UNCHANGED <<manifest, breaks>>
    /\ torn' = (torn \/ (run.mirrors /\ ~guarded) \/ breaks' # breaks)
    /\ run' = NoRun
    /\ UNCHANGED <<folderVars, guarded, strict, alert, bypass, lost, mirrored, deeds>>

\* The application ends or dies, with its run, and is started again.
Restart ==
    /\ Break
    /\ run' = NoRun /\ alert' = NoAlert /\ bypass' = FALSE /\ strict' = guarded
    /\ torn' = (torn \/ run.mirrors)
    /\ UNCHANGED <<folderVars, manifest, guarded, lost, mirrored, deeds>>

-----------------------------------------------------------------------------
\* A folder that is new here, and what the server has for it.
GuardInit ==
    /\ onDisk = {} /\ rooted = TRUE /\ hasDb = FALSE
    /\ onServer \in SUBSET Files
    /\ journal = {} /\ manifest = NoManifest
    /\ guarded = TRUE /\ strict = TRUE
    /\ alert = NoAlert /\ bypass = FALSE /\ run = NoRun
    /\ lost = {} /\ mirrored = {} /\ torn = FALSE
    /\ deeds = 0 /\ breaks = 0

GuardNext ==
    \/ \E f \in Files :
           CreateHere(f) \/ CreateThere(f) \/ RemoveHere(f) \/ RemoveThere(f)
    \/ \E gone \in SUBSET Files : DeleteHere(gone) \/ DeleteThere(gone)
    \/ \E stays \in BOOLEAN : TreeVanishes(stays)
    \/ ApproveOnce \/ AnswerRestore \/ SetGuard
    \/ StartRun \/ Scan \/ Transfer \/ GiveUp \/ RunEnded \/ Restart

GuardSpec == GuardInit /\ [][GuardNext]_guardVars

-----------------------------------------------------------------------------
\* "Before a mass local deletion is propagated, sync stops": what runs nobody
\* approved have deleted on the server, of the files the guard knows, never
\* adds up to what the guard would stop, through runs that fail half-way,
\* restarts and saves that fail; what users delete while a run is under way is
\* not counted.
UnreviewedLossesAreFew ==
    manifest # NoManifest =>
        ~Many(Cardinality(lost \cap manifest), Cardinality(manifest))

\* A review lists what disappeared by the user's hand, never what a run deleted
\* because the server had (issue #276), unless a run was interrupted, its
\* manifest could not be written or the guard was off when it ended.
AlertsAreTheUsers ==
    ~torn /\ alert # NoAlert => alert.missing \cap mirrored = {}

\* "A one-time approval (delete_bypass_once) skips the guard so the run can
\* propagate the deletions" (scheduler.rs): no guard stops an approved run.
ApprovedRunsPropagate ==
    [][run.at = "started" /\ run.approved /\ Scan => run'.at = "deleting"]_guardVars

=============================================================================
