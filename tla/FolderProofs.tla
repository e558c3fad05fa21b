---------------------------- MODULE FolderProofs ----------------------------
(***************************************************************************)
(* One folder, in the episodes of MCFolder: the deletion guard, the reviews*)
(* it raises, the first synchronization, and the gates of the scheduler.   *)
(*                                                                         *)
(* The guard.  It looks once, when a run starts; the deletions go out one  *)
(* by one afterwards, and those of earlier runs that failed are in lost    *)
(* already.  The invariant carries the guard's verdict along: whatever is  *)
(* lost, and whatever the run may still delete, is among what the guard    *)
(* saw (run.seen), unless the user deleted it since (run.rushed).          *)
(***************************************************************************)
EXTENDS MCFolder, SchedulerProofs, ListTheorems, FiniteSetTheorems, FunctionTheorems, TLAPS

\* What a manifest may list.
Known == Files \cup {StateDb}

\* What a run knows.
Runs ==
    [at : {"idle", "started", "deleting", "ended"},
     approved : BOOLEAN, watched : BOOLEAN,
     seen : SUBSET Known, rushed : SUBSET Files,
     here : SUBSET Files, there : SUBSET Files,
     gets : SUBSET Files, puts : SUBSET Files,
     counted : BOOLEAN, mirrors : BOOLEAN, failed : BOOLEAN]

\* ... while one is under way, or between two.
RunType == run \in Runs

\* The types of what the guard compares.
GuardTypes ==
    /\ onDisk \in SUBSET Files /\ onServer \in SUBSET Files /\ lost \in SUBSET Files
    /\ manifest \in (SUBSET Known) \cup {NoManifest}
    /\ bypass \in BOOLEAN /\ RunType

\* A lost file is not here, so no manifest recorded now would list it.
LostIsGone == lost \cap onDisk = {}

\* No review while a run is under way, and nothing of a run is left after it.
RestsBetweenRuns ==
    /\ alert # NoAlert => run.at = "idle"
    /\ run.at = "idle" => ~run.watched

\* The verdict of the guard on the run under way covers what was lost before...
SeenCoversLost ==
    run.watched /\ manifest # NoManifest =>
        /\ lost \cap manifest \subseteq run.seen
        /\ run.seen \subseteq manifest
        /\ ~Many(Cardinality(run.seen), Cardinality(manifest))

\* ... and what the run may delete: all that is gone before its scan, all that
\* its plan names after it.
SeenCoversPlan ==
    run.watched /\ manifest # NoManifest =>
        /\ run.at = "started" =>
               (manifest \cap Files) \ onDisk \subseteq run.seen \cup run.rushed
        /\ run.at = "deleting" =>
               (run.there \cap manifest) \ onDisk \subseteq run.seen \cup run.rushed

\* One run never deletes a file on both sides.
OneSideOnly == run.here \cap run.there = {}

\* The inductive invariant of the guard.
VerdictHolds ==
    /\ GuardTypes /\ LostIsGone /\ RestsBetweenRuns
    /\ SeenCoversLost /\ SeenCoversPlan /\ OneSideOnly
    /\ UnreviewedLossesAreFew

-----------------------------------------------------------------------------
(* Few of a manifest.                                                      *)

\* A manifest is finite, so it can be counted.
LEMMA KnownIsFinite == IsFiniteSet(Known)
BY GuardedFolderAssumption, FS_Singleton, FS_Union DEF Known

\* A smaller part of a manifest is never more worth a review than a larger one.
LEMMA FewerIsFew ==
    ASSUME NEW whole \in SUBSET Known, NEW part, part \subseteq whole, NEW total \in Nat,
           ~Many(Cardinality(whole), total)
    PROVE  ~Many(Cardinality(part), total)
<1>1. IsFiniteSet(whole)
    BY KnownIsFinite, FS_Subset
<1>2. IsFiniteSet(part) /\ Cardinality(part) <= Cardinality(whole)
    BY <1>1, FS_Subset
<1>3. Cardinality(part) \in Nat /\ Cardinality(whole) \in Nat
    BY <1>1, <1>2, FS_CardinalityType
<1>4. CountLimit \in Int /\ PercentLimit \in Int
    BY GuardedFolderAssumption DEF CountLimit, PercentLimit, Maximum, Minimum
<1> DEFINE share == PercentLimit * total
<1>5. share \in Int
    BY <1>4
<1> HIDE DEF share
<1>6. \A n \in Nat : Many(n, total) <=> n > 0 /\ (n >= CountLimit \/ n * 100 >= share)
    BY DEF Many, share
<1> QED
    BY <1>2, <1>3, <1>4, <1>5, <1>6

\* Nothing gone is never worth a review.
LEMMA NoneIsFew == \A total : ~Many(Cardinality({}), total)
BY FS_EmptySet DEF Many

\* The counts of a manifest and of what is gone of it are numbers.
LEMMA ManifestCounts ==
    ASSUME GuardTypes, manifest # NoManifest
    PROVE  manifest \in SUBSET Known /\ Cardinality(manifest) \in Nat
BY KnownIsFinite, FS_Subset, FS_CardinalityType DEF GuardTypes

\* What is here now lists nothing that was lost.
LEMMA ScanListsNoLost ==
    ASSUME GuardTypes, LostIsGone
    PROVE  Scanned \in SUBSET Known /\ lost \cap Scanned = {}
BY GuardedFolderAssumption DEF GuardTypes, LostIsGone, Scanned, Known

\* What was few of a manifest stays few while the losses do not grow.
LEMMA FewStay ==
    ASSUME GuardTypes, UnreviewedLossesAreFew, manifest # NoManifest,
           NEW left, left \subseteq lost
    PROVE  ~Many(Cardinality(left \cap manifest), Cardinality(manifest))
<1>1. left \cap manifest \subseteq lost \cap manifest /\ lost \cap manifest \in SUBSET Known
    BY ManifestCounts
<1> QED
    BY <1>1, ManifestCounts, FewerIsFew DEF UnreviewedLossesAreFew

\* Losses among what a guard saw and let through are few.
LEMMA FewOfTheSeen ==
    ASSUME GuardTypes, manifest # NoManifest, run.watched, SeenCoversLost,
           NEW gone, gone \cap manifest \subseteq run.seen
    PROVE  ~Many(Cardinality(gone \cap manifest), Cardinality(manifest))
BY ManifestCounts, FewerIsFew DEF SeenCoversLost

-----------------------------------------------------------------------------
(* What the guard records and what it lets through.                        *)

\* A manifest recorded now keeps the losses few: none of them is in it.
LEMMA RecordingKeepsFew ==
    ASSUME GuardTypes, LostIsGone, UnreviewedLossesAreFew, RecordCurrent, lost' = lost
    PROVE  /\ manifest' \in (SUBSET Known) \cup {NoManifest}
           /\ UnreviewedLossesAreFew'
<1>1. CASE manifest' = Scanned
    BY <1>1, ScanListsNoLost, NoneIsFew DEF UnreviewedLossesAreFew
<1>2. CASE manifest' = manifest
    BY <1>2 DEF GuardTypes, UnreviewedLossesAreFew
<1> QED
    BY <1>1, <1>2 DEF RecordCurrent

\* When the guard has no objection, what is gone of the manifest is little.
LEMMA ClearedMeansFew ==
    ASSUME GuardTypes, Check = NoAlert, manifest # NoManifest
    PROVE  ~Many(Cardinality(manifest \ Scanned), Cardinality(manifest))
<1>1. /\ {} \in SUBSET Known /\ manifest \in SUBSET Known
      /\ manifest \ Scanned \in SUBSET Known
    BY ManifestCounts
<1>2. /\ Alert("folder_missing", {}) # NoAlert
      /\ Alert("folder_emptied", manifest) # NoAlert
      /\ Alert("mass_local_deletion", manifest \ Scanned) # NoAlert
    BY <1>1, GuardedFolderAssumption DEF Alert, Known
<1> QED
    BY <1>2 DEF Check, Disappeared

-----------------------------------------------------------------------------
(* The steps.                                                              *)

\* Nothing of the run or the manifest moves, and nobody loses more.
LEMMA DeedsKeepVerdict ==
    ASSUME VerdictHolds, NEW f \in Files, CreateHere(f) \/ CreateThere(f)
    PROVE  VerdictHolds'
<1>1. /\ lost' \subseteq lost /\ lost' \cap onDisk' = {}
      /\ onDisk' \in SUBSET Files /\ onServer' \in SUBSET Files /\ onDisk \subseteq onDisk'
      /\ manifest' = manifest /\ run' = run /\ alert' = alert /\ bypass' = bypass
    BY DEF VerdictHolds, GuardTypes, LostIsGone, CreateHere, CreateThere, Back
<1>2. GuardTypes'
    BY <1>1 DEF VerdictHolds, GuardTypes, RunType
<1>3. LostIsGone' /\ RestsBetweenRuns' /\ OneSideOnly'
    BY <1>1 DEF VerdictHolds, LostIsGone, RestsBetweenRuns, OneSideOnly
<1>4. SeenCoversLost' /\ SeenCoversPlan'
    BY <1>1 DEF VerdictHolds, SeenCoversLost, SeenCoversPlan
<1>5. UnreviewedLossesAreFew'
    BY <1>1, FewStay DEF VerdictHolds, UnreviewedLossesAreFew
<1> QED
    BY <1>2, <1>3, <1>4, <1>5 DEF VerdictHolds

\* What goes here during a run is remembered as rushed.
LEMMA RushKeepsVerdict ==
    ASSUME VerdictHolds, NEW gone \in SUBSET Files, DeleteHere(gone)
    PROVE  VerdictHolds'
<1>1. /\ onDisk' = onDisk \ gone /\ lost' = lost /\ manifest' = manifest
      /\ onServer' = onServer /\ alert' = alert /\ bypass' = bypass
    BY DEF DeleteHere
<1>2. CASE run.at = "idle"
    <2>1. run' = run
        BY <1>2 DEF DeleteHere, Rushed
    <2>2. ~run.watched
        BY <1>2 DEF VerdictHolds, RestsBetweenRuns
    <2> QED
        BY <1>1, <2>1, <2>2
        DEF VerdictHolds, GuardTypes, RunType, LostIsGone, RestsBetweenRuns, SeenCoversLost,
            SeenCoversPlan, OneSideOnly, UnreviewedLossesAreFew
<1>3. CASE run.at # "idle"
    <2>1. run' = [run EXCEPT !.rushed = @ \cup gone]
        BY <1>3 DEF DeleteHere, Rushed
    <2>2. /\ run'.at = run.at /\ run'.watched = run.watched /\ run'.seen = run.seen
          /\ run'.here = run.here /\ run'.there = run.there
          /\ run'.rushed = run.rushed \cup gone
        BY <2>1 DEF VerdictHolds, GuardTypes, RunType, Runs
    <2>3. GuardTypes'
        BY <1>1, <2>1 DEF VerdictHolds, GuardTypes, RunType, Runs
    <2>4. LostIsGone' /\ RestsBetweenRuns' /\ OneSideOnly' /\ UnreviewedLossesAreFew'
        BY <1>1, <2>2
        DEF VerdictHolds, LostIsGone, RestsBetweenRuns, OneSideOnly, UnreviewedLossesAreFew
    <2>5. SeenCoversLost' /\ SeenCoversPlan'
        BY <1>1, <2>2 DEF VerdictHolds, SeenCoversLost, SeenCoversPlan
    <2> QED
        BY <2>3, <2>4, <2>5 DEF VerdictHolds
<1> QED
    BY <1>2, <1>3

\* A tree vanishes between two runs.
LEMMA VanishingKeepsVerdict ==
    ASSUME VerdictHolds, NEW stays \in BOOLEAN, TreeVanishes(stays)
    PROVE  VerdictHolds'
<1>1. ~run.watched
    BY DEF VerdictHolds, RestsBetweenRuns, TreeVanishes
<1> QED
    BY <1>1 DEF VerdictHolds, GuardTypes, RunType, LostIsGone, RestsBetweenRuns,
                SeenCoversLost, SeenCoversPlan, OneSideOnly, UnreviewedLossesAreFew, TreeVanishes

\* Between two runs the run is NoRun, and typed.
LEMMA NoRunIsTyped ==
    NoRun \in Runs /\ NoRun.at = "idle" /\ ~NoRun.watched /\ NoRun.here = {} /\ NoRun.there = {}
<1>1. NoRun \in Runs
    BY DEF NoRun, Runs
<1>2. NoRun.at = "idle" /\ NoRun.here = {} /\ NoRun.there = {}
    BY DEF NoRun
<1>3. ~NoRun.watched
    BY DEF NoRun
<1> QED
    BY <1>1, <1>2, <1>3

\* The user deletes on the server, or throws the switch.
LEMMA UntouchedKeepsVerdict ==
    ASSUME VerdictHolds,
           (\E gone \in SUBSET Files : DeleteThere(gone)) \/ ApproveOnce \/ SetGuard
    PROVE  VerdictHolds'
<1>1. /\ onDisk' = onDisk /\ onServer' \subseteq onServer /\ lost' = lost
      /\ manifest' = manifest /\ run' = run /\ alert' \in {alert, NoAlert}
    BY DEF DeleteThere, ApproveOnce, SetGuard, folderVars
<1>2. bypass' \in BOOLEAN
    BY DEF DeleteThere, ApproveOnce, SetGuard, VerdictHolds, GuardTypes
<1> QED
    BY <1>1, <1>2 DEF VerdictHolds, GuardTypes, RunType, LostIsGone, RestsBetweenRuns,
                SeenCoversLost, SeenCoversPlan, OneSideOnly, UnreviewedLossesAreFew

\* The manifest moves only while no run that a guard let through is under way.
LEMMA RestoreKeepsVerdict ==
    ASSUME VerdictHolds, AnswerRestore
    PROVE  VerdictHolds'
<1>1. ~run.watched
    BY DEF VerdictHolds, RestsBetweenRuns, AnswerRestore
<1>2. /\ onDisk' = onDisk /\ onServer' = onServer /\ lost' = lost /\ run' = run
      /\ alert' = NoAlert /\ bypass' = FALSE /\ RecordCurrent
    BY DEF AnswerRestore, folderVars
<1>3. manifest' \in (SUBSET Known) \cup {NoManifest} /\ UnreviewedLossesAreFew'
    BY <1>2, RecordingKeepsFew DEF VerdictHolds
<1> QED
    BY <1>1, <1>2, <1>3 DEF VerdictHolds, GuardTypes, RunType, LostIsGone, RestsBetweenRuns,
                            SeenCoversLost, SeenCoversPlan, OneSideOnly

\* A run that ends records what is here, or leaves the manifest as it was.
LEMMA EndKeepsVerdict ==
    ASSUME VerdictHolds, RunEnded \/ Restart
    PROVE  VerdictHolds'
<1>1. /\ onDisk' = onDisk /\ onServer' = onServer /\ lost' = lost /\ run' = NoRun
      /\ bypass' \in {bypass, FALSE}
    BY DEF RunEnded, Restart, folderVars
<1>2. manifest' \in (SUBSET Known) \cup {NoManifest} /\ UnreviewedLossesAreFew'
    <2>1. CASE RecordCurrent
        BY <1>1, <2>1, RecordingKeepsFew DEF VerdictHolds
    <2>2. CASE manifest' = manifest
        BY <1>1, <2>2 DEF VerdictHolds, GuardTypes, UnreviewedLossesAreFew
    <2> QED
        BY <2>1, <2>2 DEF RunEnded, Restart
<1>3. RunType' /\ run'.at = "idle" /\ ~run'.watched /\ run'.here = {} /\ run'.there = {}
    BY <1>1, NoRunIsTyped DEF RunType
<1> QED
    BY <1>1, <1>2, <1>3 DEF VerdictHolds, GuardTypes, LostIsGone, RestsBetweenRuns,
                            SeenCoversLost, SeenCoversPlan, OneSideOnly

\* The guard looks: what it let through is little, and covers what was lost.
LEMMA StartKeepsVerdict ==
    ASSUME VerdictHolds, StartRun
    PROVE  VerdictHolds'
<1> DEFINE found == IF guarded /\ ~bypass THEN Check ELSE NoAlert
<1>1. /\ onDisk' = onDisk /\ onServer' = onServer /\ lost' = lost /\ manifest' = manifest
      /\ run.at = "idle" /\ ~run.watched
    BY DEF StartRun, folderVars, VerdictHolds, RestsBetweenRuns
<1>2. CASE found # NoAlert
    <2>1. run' = run
        BY <1>2 DEF StartRun
    <2>2. bypass' = bypass
        BY <1>2 DEF StartRun
    <2> QED
        BY <1>1, <2>1, <2>2 DEF VerdictHolds, GuardTypes, RunType, LostIsGone, RestsBetweenRuns,
                          SeenCoversLost, SeenCoversPlan, OneSideOnly, UnreviewedLossesAreFew
<1>3. CASE found = NoAlert
    <2>1. /\ run' = [NoRun EXCEPT !.at = "started", !.approved = bypass,
                                  !.watched = guarded /\ ~bypass,
                                  !.seen = IF manifest = NoManifest
                                           THEN {} ELSE manifest \ Scanned]
          /\ alert' = NoAlert /\ bypass' = FALSE
        BY <1>3 DEF StartRun
    <2>2. /\ run'.at = "started" /\ run'.here = {} /\ run'.there = {} /\ run'.rushed = {}
          /\ run'.watched = (guarded /\ ~bypass)
          /\ manifest # NoManifest => run'.seen = manifest \ Scanned
        BY <2>1 DEF NoRun
    <2>3. GuardTypes'
        <3> DEFINE seen == IF manifest = NoManifest THEN {} ELSE manifest \ Scanned
                   watched == guarded /\ ~bypass
        <3>1. seen \in SUBSET Known /\ watched \in BOOLEAN /\ bypass \in BOOLEAN
            BY DEF VerdictHolds, GuardTypes
        <3>2. run' = [NoRun EXCEPT !.at = "started", !.approved = bypass,
                                   !.watched = watched, !.seen = seen]
            BY <2>1
        <3> HIDE DEF seen, watched
        <3>3. run' \in Runs
            BY <3>1, <3>2, NoRunIsTyped DEF Runs
        <3> QED
            BY <1>1, <2>1, <3>3 DEF VerdictHolds, GuardTypes, RunType
    <2>4. LostIsGone' /\ RestsBetweenRuns' /\ OneSideOnly' /\ UnreviewedLossesAreFew'
        BY <1>1, <2>1, <2>2
        DEF VerdictHolds, LostIsGone, RestsBetweenRuns, OneSideOnly, UnreviewedLossesAreFew
    <2>5. SeenCoversLost' /\ SeenCoversPlan'
        <3> SUFFICES ASSUME run'.watched, manifest # NoManifest
                     PROVE  SeenCoversLost' /\ SeenCoversPlan'
            BY <1>1 DEF SeenCoversLost, SeenCoversPlan
        <3>1. ~Many(Cardinality(manifest \ Scanned), Cardinality(manifest))
            BY <1>3, <2>2, ClearedMeansFew DEF VerdictHolds
        <3>2. lost \cap manifest \subseteq manifest \ Scanned
            BY ScanListsNoLost DEF VerdictHolds
        <3>3. (manifest \cap Files) \ onDisk \subseteq manifest \ Scanned
            BY GuardedFolderAssumption DEF Scanned
        <3> QED
            BY <1>1, <2>2, <3>1, <3>2, <3>3 DEF SeenCoversLost, SeenCoversPlan
    <2> QED
        BY <2>3, <2>4, <2>5 DEF VerdictHolds
<1> QED
    BY <1>2, <1>3

\* What the plan deletes on the server is gone here, so the guard saw it go or
\* the user did it since.
LEMMA ScanKeepsVerdict ==
    ASSUME VerdictHolds, Scan
    PROVE  VerdictHolds'
<1>1. /\ onDisk' = onDisk /\ onServer' = onServer /\ lost' = lost /\ manifest' = manifest
      /\ alert' = alert /\ bypass' = bypass /\ run.at = "started"
    BY DEF Scan
<1>2. alert = NoAlert
    BY <1>1 DEF VerdictHolds, RestsBetweenRuns
<1>3. CASE EngineRefuses
    <2>1. run' = NoRun
        BY <1>3 DEF Scan
    <2> QED
        BY <1>1, <1>2, <2>1, NoRunIsTyped
        DEF VerdictHolds, GuardTypes, RunType, LostIsGone, RestsBetweenRuns, SeenCoversLost,
            SeenCoversPlan, OneSideOnly, UnreviewedLossesAreFew
<1>4. CASE ~EngineRefuses
    <2> DEFINE gets == onServer \ (onDisk \cup journal)
               puts == onDisk \ (onServer \cup journal)
    <2>1. run' = [run EXCEPT !.at = "deleting", !.here = GoneThere, !.there = GoneHere,
                             !.gets = gets, !.puts = puts]
        BY <1>4 DEF Scan
    <2>2. /\ GoneThere \in SUBSET Files /\ GoneHere \in SUBSET Files
          /\ gets \in SUBSET Files /\ puts \in SUBSET Files
          /\ GoneHere \cap GoneThere = {} /\ GoneHere \cap onDisk = {}
        BY DEF VerdictHolds, GuardTypes, GoneHere, GoneThere
    <2> HIDE DEF gets, puts
    <2>3. RunType'
        BY <2>1, <2>2 DEF VerdictHolds, GuardTypes, RunType, Runs
    <2>4. /\ run'.at = "deleting" /\ run'.here = GoneThere /\ run'.there = GoneHere
          /\ run'.watched = run.watched /\ run'.seen = run.seen /\ run'.rushed = run.rushed
        BY <2>1 DEF VerdictHolds, GuardTypes, RunType, Runs
    <2>5. GuardTypes' /\ LostIsGone' /\ UnreviewedLossesAreFew'
        BY <1>1, <2>3 DEF VerdictHolds, GuardTypes, LostIsGone, UnreviewedLossesAreFew
    <2>6. RestsBetweenRuns' /\ OneSideOnly'
        BY <1>1, <1>2, <2>2, <2>4 DEF RestsBetweenRuns, OneSideOnly
    <2>7. SeenCoversLost' /\ SeenCoversPlan'
        BY <1>1, <2>2, <2>4 DEF VerdictHolds, SeenCoversLost, SeenCoversPlan
    <2> QED
        BY <2>5, <2>6, <2>7 DEF VerdictHolds
<1> QED
    BY <1>3, <1>4

\* A deletion here is not one of those on the server.
LEMMA RemoveHereKeepsVerdict ==
    ASSUME VerdictHolds, NEW f \in Files, RemoveHere(f)
    PROVE  VerdictHolds'
<1>1. /\ onDisk' \in {onDisk, onDisk \ {f}} /\ onServer' = onServer /\ lost' = lost
      /\ manifest' = manifest /\ alert' = alert /\ bypass' = bypass
      /\ run.at = "deleting" /\ f \in run.here
      /\ run' = [run EXCEPT !.here = @ \ {f}, !.counted = TRUE, !.mirrors = TRUE]
    BY DEF RemoveHere
<1>2. RunType'
    BY <1>1 DEF VerdictHolds, GuardTypes, RunType, Runs
<1>3. /\ run'.at = run.at /\ run'.here = run.here \ {f} /\ run'.there = run.there
      /\ run'.watched = run.watched /\ run'.seen = run.seen /\ run'.rushed = run.rushed
    BY <1>1 DEF VerdictHolds, GuardTypes, RunType, Runs
<1>4. GuardTypes' /\ LostIsGone' /\ UnreviewedLossesAreFew'
    BY <1>1, <1>2 DEF VerdictHolds, GuardTypes, LostIsGone, UnreviewedLossesAreFew
<1>5. RestsBetweenRuns' /\ OneSideOnly' /\ SeenCoversLost'
    BY <1>1, <1>3 DEF VerdictHolds, RestsBetweenRuns, OneSideOnly, SeenCoversLost
<1>6. SeenCoversPlan'
    BY <1>1, <1>3 DEF VerdictHolds, SeenCoversPlan, OneSideOnly
<1> QED
    BY <1>4, <1>5, <1>6 DEF VerdictHolds

\* What goes on the server is among what the guard saw, or does not count.
LEMMA RemoveThereKeepsVerdict ==
    ASSUME VerdictHolds, NEW f \in Files, RemoveThere(f)
    PROVE  VerdictHolds'
<1>1. /\ onDisk' = onDisk /\ onServer' \subseteq onServer /\ manifest' = manifest
      /\ alert' = alert /\ bypass' = bypass /\ run.at = "deleting" /\ f \in run.there
      /\ lost' = lost \/ (lost' = lost \cup {f} /\ run.watched /\ f \notin run.rushed \cup onDisk)
    BY DEF RemoveThere
<1>2. \/ run' = [run EXCEPT !.there = @ \ {f}, !.counted = TRUE]
      \/ run' = [run EXCEPT !.there = @ \ {f}, !.counted = TRUE, !.failed = TRUE]
    BY DEF RemoveThere
<1>3. RunType'
    <2>1. RunType
        BY DEF VerdictHolds, GuardTypes
    <2> QED
        BY ONLY <1>2, <2>1, ZenonT(30) DEF RunType, Runs
<1>4. /\ run'.at = run.at /\ run'.here = run.here /\ run'.there = run.there \ {f}
      /\ run'.watched = run.watched /\ run'.seen = run.seen /\ run'.rushed = run.rushed
    BY <1>2 DEF VerdictHolds, GuardTypes, RunType, Runs
<1>5. GuardTypes' /\ LostIsGone'
    BY <1>1, <1>3 DEF VerdictHolds, GuardTypes, LostIsGone
<1>6. RestsBetweenRuns' /\ OneSideOnly' /\ SeenCoversPlan'
    BY <1>1, <1>4 DEF VerdictHolds, RestsBetweenRuns, OneSideOnly, SeenCoversPlan
<1>7. run.watched /\ manifest # NoManifest => lost' \cap manifest \subseteq run.seen
    BY <1>1 DEF VerdictHolds, SeenCoversLost, SeenCoversPlan
<1>8. SeenCoversLost'
    BY <1>1, <1>4, <1>7 DEF VerdictHolds, SeenCoversLost
<1>9. UnreviewedLossesAreFew'
    <2>1. CASE lost' = lost
        BY <1>1, <2>1 DEF VerdictHolds, UnreviewedLossesAreFew
    <2>2. CASE lost' # lost
        BY <1>1, <1>7, <2>2, FewOfTheSeen DEF VerdictHolds, UnreviewedLossesAreFew
    <2> QED
        BY <2>1, <2>2
<1> QED
    BY <1>5, <1>6, <1>8, <1>9 DEF VerdictHolds

\* Transfers bring back, an abandoned run does nothing more, and neither has a
\* deletion left that counts.
LEMMA LastStepsKeepVerdict ==
    ASSUME VerdictHolds, Transfer \/ GiveUp
    PROVE  VerdictHolds'
<1>1. /\ manifest' = manifest /\ alert' = alert /\ bypass' = bypass
      /\ run.at = "deleting"
    BY DEF Transfer, GiveUp
<1>2. /\ onDisk' \in SUBSET Files /\ onServer' \in SUBSET Files /\ lost' \subseteq lost
      /\ lost' \cap onDisk' = {}
    BY DEF Transfer, GiveUp, folderVars, VerdictHolds, GuardTypes, LostIsGone
<1>3. \E ending \in BOOLEAN :
          \/ run' = [run EXCEPT !.at = "ended", !.failed = ending]
          \/ run' = [run EXCEPT !.at = "ended", !.failed = TRUE, !.counted = ending]
    <2>1. CASE Transfer
        <3> DEFINE missed == run.failed \/ run.gets \cap onServer # run.gets
                                       \/ run.puts \cap onDisk # run.puts
        <3>1. \/ run' = [run EXCEPT !.at = "ended", !.failed = missed]
              \/ run' = [run EXCEPT !.at = "ended", !.failed = TRUE]
            BY <2>1 DEF Transfer
        <3>2. missed \in BOOLEAN
            OBVIOUS
        <3> QED
            BY <3>1, <3>2
    <2>2. CASE GiveUp
        <3>1. PICK asked \in {FALSE, run.there # {}} :
                  run' = [run EXCEPT !.at = "ended", !.failed = TRUE,
                                     !.counted = run.counted \/ asked]
            BY <2>2 DEF GiveUp
        <3>2. (run.counted \/ asked) \in BOOLEAN
            OBVIOUS
        <3> QED
            BY <3>1, <3>2
    <2> QED
        BY <2>1, <2>2
<1>4. RunType'
    <2>1. RunType
        BY DEF VerdictHolds, GuardTypes
    <2> QED
        BY ONLY <1>3, <2>1, ZenonT(30) DEF RunType, Runs
<1>5. /\ run'.at = "ended" /\ run'.here = run.here /\ run'.there = run.there
      /\ run'.watched = run.watched /\ run'.seen = run.seen
    BY <1>3 DEF VerdictHolds, GuardTypes, RunType, Runs
<1>6. GuardTypes' /\ LostIsGone'
    BY <1>1, <1>2, <1>4 DEF VerdictHolds, GuardTypes, LostIsGone
<1>7. RestsBetweenRuns' /\ OneSideOnly' /\ SeenCoversLost' /\ SeenCoversPlan'
    BY <1>1, <1>2, <1>5
    DEF VerdictHolds, RestsBetweenRuns, OneSideOnly, SeenCoversLost, SeenCoversPlan
<1>8. UnreviewedLossesAreFew'
    BY <1>1, <1>2, FewStay DEF VerdictHolds, UnreviewedLossesAreFew
<1> QED
    BY <1>6, <1>7, <1>8 DEF VerdictHolds

-----------------------------------------------------------------------------
\* The verdict holds of an empty folder.
LEMMA VerdictHoldsAtFirst == GuardInit => VerdictHolds
<1> SUFFICES ASSUME GuardInit PROVE VerdictHolds
    OBVIOUS
<1>1. /\ onDisk = {} /\ onServer \in SUBSET Files /\ lost = {} /\ manifest = NoManifest
      /\ alert = NoAlert /\ bypass = FALSE /\ run = NoRun
    BY DEF GuardInit
<1> QED
    BY <1>1, NoRunIsTyped
    DEF VerdictHolds, GuardTypes, RunType, LostIsGone, RestsBetweenRuns, SeenCoversLost,
        SeenCoversPlan, OneSideOnly, UnreviewedLossesAreFew

\* Every step of the guard's world keeps the verdict.
LEMMA VerdictIsKept == VerdictHolds /\ [GuardNext]_guardVars => VerdictHolds'
<1> SUFFICES ASSUME VerdictHolds, [GuardNext]_guardVars PROVE VerdictHolds'
    OBVIOUS
<1>1. CASE \E f \in Files :
              CreateHere(f) \/ CreateThere(f) \/ RemoveHere(f) \/ RemoveThere(f)
    BY <1>1, DeedsKeepVerdict, RemoveHereKeepsVerdict, RemoveThereKeepsVerdict
<1>2. CASE \E gone \in SUBSET Files : DeleteHere(gone)
    BY <1>2, RushKeepsVerdict
<1>3. CASE (\E gone \in SUBSET Files : DeleteThere(gone)) \/ ApproveOnce \/ SetGuard
    BY <1>3, UntouchedKeepsVerdict
<1>4. CASE \E stays \in BOOLEAN : TreeVanishes(stays)
    BY <1>4, VanishingKeepsVerdict
<1>5. CASE AnswerRestore \/ StartRun \/ Scan \/ Transfer \/ GiveUp \/ RunEnded \/ Restart
    BY <1>5, RestoreKeepsVerdict, StartKeepsVerdict, ScanKeepsVerdict, LastStepsKeepVerdict,
       EndKeepsVerdict
<1>6. CASE UNCHANGED guardVars
    BY <1>6
    DEF guardVars, VerdictHolds, GuardTypes, RunType, LostIsGone, RestsBetweenRuns,
        SeenCoversLost, SeenCoversPlan, OneSideOnly, UnreviewedLossesAreFew
<1> QED
    BY <1>1, <1>2, <1>3, <1>4, <1>5, <1>6 DEF GuardNext

\* For any set of files, any thresholds of either guard and any number of deeds,
\* failures, restarts and answers: what runs nobody approved have deleted on the
\* server, of the files in the manifest, never amounts to what the scheduler's
\* guard would have stopped for review.
THEOREM LossesStayFew == GuardSpec => []UnreviewedLossesAreFew
<1>1. VerdictHolds => UnreviewedLossesAreFew
    BY DEF VerdictHolds
<1> QED
    BY VerdictHoldsAtFirst, VerdictIsKept, <1>1, PTL DEF GuardSpec

-----------------------------------------------------------------------------
(***************************************************************************)
(* The reviews are of the user's own deletions: what runs deleted here     *)
(* because the server no longer had it is never asked about.               *)
(***************************************************************************)

\* What runs deleted here is not here, and no manifest lists it but while the run
\* is under way; so no review lists it either.
MirrorsRecorded ==
    ~torn => /\ alert # NoAlert => alert.missing \cap mirrored = {}
             /\ ~run.mirrors /\ manifest # NoManifest => mirrored \cap manifest = {}

\* ... which lasts because only a run that counts what it did mirrors deletions.
MirrorsInv ==
    /\ VerdictHolds
    /\ mirrored \in SUBSET Files /\ mirrored \cap onDisk = {}
    /\ breaks \in Nat /\ torn \in BOOLEAN
    /\ run.mirrors => run.at \in {"deleting", "ended"} /\ run.counted
    /\ MirrorsRecorded

\* Nothing is mirrored at first.
LEMMA MirrorsAtFirst == GuardInit => MirrorsInv
<1> SUFFICES ASSUME GuardInit PROVE MirrorsInv
  OBVIOUS
<1>1. VerdictHolds
  BY VerdictHoldsAtFirst
<1>2. /\ onDisk = {} /\ mirrored = {} /\ breaks = 0 /\ torn = FALSE
      /\ alert = NoAlert /\ manifest = NoManifest /\ run = NoRun
  BY DEF GuardInit
<1>3. ~run.mirrors
  BY <1>2 DEF NoRun
<1> QED
  BY <1>1, <1>2, <1>3 DEF MirrorsInv, MirrorsRecorded

\* What is recorded now lists nothing that a run deleted here.
LEMMA ScanListsNoMirrored ==
  ASSUME MirrorsInv PROVE Scanned \cap mirrored = {}
  BY GuardedFolderAssumption DEF MirrorsInv, Scanned

\* No step puts what a run deleted into a manifest or a review.
LEMMA MirrorsStep == MirrorsInv /\ [GuardNext]_guardVars => MirrorsInv'
<1> SUFFICES ASSUME MirrorsInv, [GuardNext]_guardVars PROVE MirrorsInv'
  OBVIOUS
<1>1. VerdictHolds'
  BY VerdictIsKept DEF MirrorsInv
<1>2. /\ GuardTypes /\ RestsBetweenRuns /\ run \in Runs /\ Runs = Runs'
      /\ (run.mirrors => run.at \in {"deleting", "ended"} /\ run.counted)
  BY DEF MirrorsInv, VerdictHolds, GuardTypes, RunType, Runs
<1>3. NoRun.at = "idle" /\ ~NoRun.mirrors
  BY DEF NoRun
<1>4. CASE UNCHANGED guardVars
  BY <1>1, <1>4 DEF guardVars, MirrorsInv, MirrorsRecorded
<1>5. ASSUME NEW f \in Files, CreateHere(f) \/ CreateThere(f) PROVE MirrorsInv'
  <2>1. /\ mirrored' = mirrored \ {f} /\ onDisk' \subseteq onDisk \cup {f}
        /\ UNCHANGED <<manifest, alert, run, torn, breaks>>
    BY <1>5 DEF CreateHere, CreateThere, Back
  <2> QED
    BY <1>1, <2>1 DEF MirrorsInv, MirrorsRecorded
<1>6. ASSUME NEW gone \in SUBSET Files, DeleteHere(gone) PROVE MirrorsInv'
  <2>1. /\ onDisk' \subseteq onDisk /\ UNCHANGED <<manifest, alert, torn, breaks, mirrored>>
        /\ run' = run \/ run' = [run EXCEPT !.rushed = @ \cup gone]
    BY <1>6 DEF DeleteHere, Rushed
  <2>2. run'.at = run.at /\ run'.mirrors = run.mirrors /\ run'.counted = run.counted
    BY <1>2, <2>1 DEF Runs
  <2> QED
    BY <1>1, <2>1, <2>2 DEF MirrorsInv, MirrorsRecorded
<1>7. CASE \/ \E gone \in SUBSET Files : DeleteThere(gone)
           \/ \E stays \in BOOLEAN : TreeVanishes(stays)
           \/ ApproveOnce \/ SetGuard
  <2>1. /\ onDisk' \subseteq onDisk /\ UNCHANGED <<manifest, run, torn, breaks, mirrored>>
        /\ alert' = alert \/ alert' = NoAlert
    BY <1>7 DEF DeleteThere, TreeVanishes, ApproveOnce, SetGuard, folderVars
  <2> QED
    BY <1>1, <2>1 DEF MirrorsInv, MirrorsRecorded
<1>8. CASE AnswerRestore
  <2>1. /\ UNCHANGED <<onDisk, run, torn, mirrored>> /\ alert' = NoAlert /\ RecordCurrent
        /\ breaks' \in {breaks, breaks + 1}
    BY <1>8 DEF AnswerRestore, folderVars, RecordCurrent, Break
  <2>2. manifest' = manifest \/ manifest' = Scanned
    BY <2>1 DEF RecordCurrent
  <2> QED
    BY <1>1, <2>1, <2>2, ScanListsNoMirrored DEF MirrorsInv, MirrorsRecorded
<1>9. CASE StartRun
  <2>1. UNCHANGED <<onDisk, manifest, torn, mirrored, breaks>> /\ run.at = "idle" /\ ~run.mirrors
    BY <1>2, <1>9 DEF StartRun, folderVars
  <2>2. CASE run' = run
    <3>1. alert' # NoAlert =>
              alert'.missing \subseteq (IF manifest = NoManifest THEN {} ELSE manifest)
      BY <1>9, <2>2 DEF StartRun, Check, Alert
    <3> QED
      BY <1>1, <1>2, <2>1, <2>2, <3>1 DEF MirrorsInv, MirrorsRecorded
  <2>3. CASE run' # run
    <3>1. alert' = NoAlert
      BY <1>9, <2>3 DEF StartRun
    <3>2. ~run'.mirrors
      BY <1>9, <2>3 DEF StartRun, NoRun
    <3> QED
      BY <1>1, <2>1, <3>1, <3>2 DEF MirrorsInv, MirrorsRecorded
  <2> QED
    BY <2>2, <2>3
<1>10. CASE Scan
  <2>1. UNCHANGED <<onDisk, manifest, torn, mirrored, breaks, alert>> /\ ~run.mirrors
    BY <1>2, <1>10 DEF Scan
  <2>2. ~run'.mirrors
    BY <1>2, <1>3, <1>10 DEF Scan, Runs
  <2> QED
    BY <1>1, <2>1, <2>2 DEF MirrorsInv, MirrorsRecorded
<1>11. ASSUME NEW f \in Files, RemoveHere(f) PROVE MirrorsInv'
  <2>1. /\ UNCHANGED <<manifest, torn, alert>> /\ breaks' \in {breaks, breaks + 1}
        /\ \/ onDisk' = onDisk \ {f} /\ mirrored' = mirrored \cup {f}
           \/ UNCHANGED <<onDisk, mirrored>>
        /\ run.at = "deleting" /\ alert = NoAlert
    BY <1>2, <1>11 DEF RemoveHere, RestsBetweenRuns, Break
  <2>2. run'.mirrors /\ run'.counted /\ run'.at = run.at
    BY <1>2, <1>11 DEF RemoveHere, Runs
  <2> QED
    BY <1>1, <2>1, <2>2 DEF MirrorsInv, MirrorsRecorded
<1>12. ASSUME NEW f \in Files, RemoveThere(f) PROVE MirrorsInv'
  <2>1. /\ UNCHANGED <<onDisk, manifest, torn, alert, mirrored>>
        /\ breaks' \in {breaks, breaks + 1}
    BY <1>12 DEF RemoveThere, Break
  <2>2. run'.mirrors = run.mirrors /\ run'.counted /\ run'.at = run.at
    BY <1>2, <1>12 DEF RemoveThere, Runs
  <2> QED
    BY <1>1, <2>1, <2>2 DEF MirrorsInv, MirrorsRecorded
<1>13. CASE Transfer \/ GiveUp
  <2>1. /\ UNCHANGED <<manifest, torn, alert>> /\ breaks' \in {breaks, breaks + 1}
        /\ mirrored' \subseteq mirrored /\ mirrored' \cap onDisk' = {}
    BY <1>13 DEF Transfer, GiveUp, Break, folderVars, MirrorsInv
  <2>2. /\ run'.mirrors = run.mirrors /\ run'.at = "ended"
        /\ run.counted => run'.counted
    BY <1>2, <1>13 DEF Transfer, GiveUp, Runs
  <2> QED
    BY <1>1, <2>1, <2>2 DEF MirrorsInv, MirrorsRecorded
<1>14. CASE RunEnded
  <2>1. /\ UNCHANGED <<onDisk, alert, mirrored>> /\ alert = NoAlert
        /\ run' = NoRun
        /\ torn' = (torn \/ (run.mirrors /\ ~guarded) \/ breaks' # breaks)
    BY <1>2, <1>14 DEF RunEnded, folderVars, RestsBetweenRuns
  <2>2. /\ breaks' \in {breaks, breaks + 1}
        /\ manifest' = manifest \/ manifest' = Scanned
        /\ breaks' = breaks /\ Records => manifest' = Scanned
    BY <1>14 DEF RunEnded, RecordCurrent, Break, MirrorsInv
  <2>3. run.mirrors /\ guarded => Records
    BY <1>2 DEF Records
  <2>4. breaks' \in Nat /\ torn' \in BOOLEAN /\ alert' = NoAlert /\ ~run'.mirrors
    BY <1>3, <2>1, <2>2 DEF MirrorsInv
  <2>5. manifest' = Scanned => mirrored' \cap manifest' = {}
    BY <2>1, ScanListsNoMirrored
  <2>6. ~torn' => ~torn /\ (run.mirrors => Records) /\ breaks' = breaks
    BY <2>1, <2>3
  <2>7. ~torn' /\ manifest' # Scanned => ~torn /\ ~run.mirrors /\ manifest' = manifest
    BY <2>2, <2>6
  <2>8. MirrorsRecorded'
    BY <2>1, <2>4, <2>5, <2>7 DEF MirrorsInv, MirrorsRecorded
  <2>9. /\ mirrored' \in SUBSET Files /\ mirrored' \cap onDisk' = {}
        /\ (run'.mirrors => run'.at \in {"deleting", "ended"} /\ run'.counted)
    BY <2>1, <2>4 DEF MirrorsInv
  <2> QED
    BY <1>1, <2>4, <2>8, <2>9 DEF MirrorsInv
<1>15. CASE Restart
  <2>1. /\ UNCHANGED <<onDisk, manifest, mirrored>> /\ alert' = NoAlert /\ run' = NoRun
        /\ torn' = (torn \/ run.mirrors) /\ breaks' = breaks + 1
    BY <1>15 DEF Restart, Break, folderVars
  <2>2. breaks' \in Nat /\ torn' \in BOOLEAN /\ ~run'.mirrors
    BY <1>3, <2>1 DEF MirrorsInv
  <2>3. ~torn' => ~torn /\ ~run.mirrors
    BY <2>1
  <2>4. MirrorsRecorded'
    BY <2>1, <2>3 DEF MirrorsInv, MirrorsRecorded
  <2> QED
    BY <1>1, <2>1, <2>2, <2>4 DEF MirrorsInv
<1> QED
  BY <1>4, <1>5, <1>6, <1>7, <1>8, <1>9, <1>10, <1>11, <1>12, <1>13, <1>14, <1>15 DEF GuardNext

\* For any files, thresholds, deeds, failures and restarts: until a run that
\* deleted here ends unrecorded (interrupted, with the guard off, or unable to
\* write), no review lists what a run had itself deleted here to follow the server
\* (the manifest is written after the run, scheduler.rs).
THEOREM ReviewsAreOfTheUsers == GuardSpec => []AlertsAreTheUsers
<1>1. MirrorsInv => AlertsAreTheUsers
  BY DEF MirrorsInv, MirrorsRecorded, AlertsAreTheUsers
<1> QED
  BY <1>1, MirrorsAtFirst, MirrorsStep, PTL DEF GuardSpec

-----------------------------------------------------------------------------
(* What a review lists.                                                    *)

\* The files of a row or a group, in the order of their names.
LEMMA OrderedFiles ==
  ASSUME NEW files \in SUBSET Nat, IsFiniteSet(files)
  PROVE  ListsOnce(InOrder(files), files)
<1> DEFINE R == {p \in files \X files : p[1] < p[2]}
           list == InOrder(files)
           c == Cardinality(files)
<1>1. /\ \A d \in files : <<d, d>> \notin R
      /\ \A d, e \in files : d # e => <<d, e>> \in R \/ <<e, d>> \in R
      /\ \A b, d, e \in files : <<b, d>> \in R /\ <<d, e>> \in R => <<b, e>> \in R
  OBVIOUS
<1>2. \A e \in files : {d \in files : d < e} = {d \in files : <<d, e>> \in R} OBVIOUS
<1>3. /\ \A n \in 1..c : \E e \in files : RankIn(files, R, e) = n - 1
      /\ \A order \in [1..c -> files] :
             (\A i \in 1..c : RankIn(files, R, order[i]) = i - 1) => ListsOnce(order, files)
  <2> HIDE DEF R
  <2> QED BY <1>1, RanksFill
<1>4. \A e \in files : Cardinality({d \in files : d < e}) = RankIn(files, R, e)
  BY <1>2 DEF RankIn
<1>5. \A n \in 1..c : \E e \in files : Cardinality({d \in files : d < e}) = n - 1
  <2> HIDE DEF R, c
  <2> QED BY <1>3, <1>4
<1>6. list = [i \in 1..c |-> CHOOSE e \in files : Cardinality({d \in files : d < e}) = i - 1]
  BY DEF InOrder, Rising, Ranked
<1>7. \A i \in 1..c : list[i] \in files /\ Cardinality({d \in files : d < list[i]}) = i - 1
  <2> HIDE DEF c, R
  <2> QED BY <1>5, <1>6
<1>8. list \in [1..c -> files] /\ \A i \in 1..c : RankIn(files, R, list[i]) = i - 1
  <2> HIDE DEF c, R, list
  <2> QED BY <1>4, <1>6, <1>7
<1> QED BY <1>3, <1>8

\* The directories that are groups, the largest first.
LEMMA OrderedTops ==
  ASSUME NEW files \in SUBSET Goods, IsFiniteSet(files)
  PROVE  \E big : IsFiniteSet(big) /\ ListsOnce(Tops(files), big)
<1> DEFINE size(s) == Cardinality(Under(files, s))
           Larger(s, t) == size(s) > size(t) \/ (size(s) = size(t) /\ s < t)
           tops == {TopOf[p] : p \in files} \ {0}
           big == {top \in tops : size(top) > GroupMin}
           R == {p \in big \X big : Larger(p[1], p[2])}
           list == Tops(files)
           c == Cardinality(big)
           Before(e) == {d \in big : Larger(d, e)}
<1>1. big \in SUBSET Nat /\ IsFiniteSet(big)
  <2>1. IsFiniteSet({TopOf[p] : p \in files})
    <3> DEFINE f == [p \in files |-> TopOf[p]]
               image == {TopOf[p] : p \in files}
    <3>1. f \in Surjection(files, image) BY DEF Surjection
    <3> HIDE DEF f, image
    <3> QED BY <3>1, FS_Surjection DEF image
  <2>2. IsFiniteSet(tops) BY <2>1, FS_Subset
  <2>3. big \in SUBSET tops OBVIOUS
  <2>4. IsFiniteSet(big)
    <3> HIDE DEF big, tops
    <3> QED BY <2>2, <2>3, FS_Subset
  <2>5. tops \in SUBSET Nat BY ReviewAssumption
  <2> QED BY <2>3, <2>4, <2>5
<1>2. \A s \in big : size(s) \in Nat
  <2> TAKE s \in big
  <2>1. Under(files, s) \in SUBSET files BY DEF Under
  <2> QED BY <2>1, FS_Subset, FS_CardinalityType
<1>3. /\ \A d \in big : ~Larger(d, d)
      /\ \A d, e \in big : d # e => Larger(d, e) \/ Larger(e, d)
      /\ \A b, d, e \in big : Larger(b, d) /\ Larger(d, e) => Larger(b, e)
  <2> HIDE DEF size, big
  <2> QED BY <1>1, <1>2
<1>4. /\ \A d \in big : <<d, d>> \notin R
      /\ \A d, e \in big : d # e => <<d, e>> \in R \/ <<e, d>> \in R
      /\ \A b, d, e \in big : <<b, d>> \in R /\ <<d, e>> \in R => <<b, e>> \in R
  <2> HIDE DEF Larger, big
  <2> QED BY <1>3
<1>5. /\ \A n \in 1..c : \E e \in big : RankIn(big, R, e) = n - 1
      /\ \A order \in [1..c -> big] :
             (\A i \in 1..c : RankIn(big, R, order[i]) = i - 1) => ListsOnce(order, big)
  <2> HIDE DEF R, big
  <2> QED BY <1>1, <1>4, RanksFill
<1>6. \A e \in big : Cardinality(Before(e)) = RankIn(big, R, e)
  <2> TAKE e \in big
  <2>1. Before(e) = {d \in big : <<d, e>> \in R}
    <3> HIDE DEF Larger, big
    <3> QED OBVIOUS
  <2> HIDE DEF Before, R
  <2> QED BY <2>1 DEF RankIn
<1>7. list = [i \in 1..c |-> CHOOSE e \in big : Cardinality(Before(e)) = i - 1]
  BY DEF Tops, Ranked
<1>8. list \in [1..c -> big] /\ \A i \in 1..c : RankIn(big, R, list[i]) = i - 1
  <2> HIDE DEF c, R, big, Before, list
  <2>1. \A i \in 1..c : list[i] \in big /\ Cardinality(Before(list[i])) = i - 1
    BY <1>5, <1>6, <1>7
  <2> QED BY <1>6, <1>7, <2>1
<1>9. ListsOnce(list, big)
  <2> HIDE DEF c, R, big, list
  <2> QED BY <1>5, <1>8
<1> QED BY <1>1, <1>9

\* What the rows and the groups of a review stand for: the files of the group i, and
\* what is in no group.
GroupFiles(files, i) == Under(files, Tops(files)[i])
LooseFiles(files) == {p \in files : TopOf[p] \notin ToSet(Tops(files))}

\* The groups, each with the files of one directory; and the files of the others.
LEMMA GroupsAreLists ==
  ASSUME NEW files \in SUBSET Goods
  PROVE  \E c \in Nat :
           /\ DOMAIN Tops(files) = 1..c /\ GroupsOf(files) \in [1..c -> Seq(files)]
           /\ \A i, j \in 1..c : i # j => Tops(files)[i] # Tops(files)[j]
           /\ \A i \in 1..c : ListsOnce(GroupsOf(files)[i], GroupFiles(files, i))
           /\ ListsOnce(SinglesOf(files), LooseFiles(files))
<1>1. IsFiniteSet(files) /\ files \in SUBSET Nat
  BY ReviewAssumption, FS_Subset
<1>2. PICK big : IsFiniteSet(big) /\ ListsOnce(Tops(files), big)
  BY <1>1, OrderedTops
<1> DEFINE c == Cardinality(big)
<1>3. c \in Nat BY <1>2, FS_CardinalityType
<1>4. DOMAIN Tops(files) = 1..c /\ \A i, j \in 1..c : i # j => Tops(files)[i] # Tops(files)[j]
  BY <1>2 DEF ListsOnce
<1>5. \A some \in SUBSET files : ListsOnce(InOrder(some), some) /\ InOrder(some) \in Seq(files)
  <2> TAKE some \in SUBSET files
  <2>1. IsFiniteSet(some) BY <1>1, FS_Subset
  <2>2. Cardinality(some) \in Nat BY <2>1, FS_CardinalityType
  <2>3. ListsOnce(InOrder(some), some) BY <1>1, <2>1, OrderedFiles
  <2> QED BY <2>2, <2>3 DEF ListsOnce
<1>6. \A i \in 1..c : GroupFiles(files, i) \in SUBSET files BY DEF GroupFiles, Under
<1>7. LooseFiles(files) \in SUBSET files BY DEF LooseFiles
<1>8. GroupsOf(files) = [i \in 1..c |-> InOrder(GroupFiles(files, i))]
  BY <1>4 DEF GroupsOf, GroupFiles
<1>9. SinglesOf(files) = InOrder(LooseFiles(files))
  BY DEF SinglesOf, LooseFiles
<1> HIDE DEF c
<1> QED BY <1>3, <1>4, <1>5, <1>6, <1>7, <1>8, <1>9

\* The first of a list are among it.
LEMMA FirstAreAmong ==
  ASSUME NEW S, NEW list \in Seq(S), NEW n \in Nat
  PROVE  FirstOf(list, n) \in Seq(S)
BY DEF FirstOf

\* What the review of some files shows: rows for some of them, and groups of which each
\* lists other files; no file is without a row and without a group.
LEMMA AllFilesShown ==
  ASSUME NEW files \in SUBSET Goods
  PROVE  /\ RowsOf(files) \in Seq(files)
         /\ \E n \in Nat : \E parts \in [1..n -> SUBSET files] :
              /\ HeadsOf(files) \in [1..n -> Seq(files)]
              /\ \A i \in 1..n : ListsOnce(HeadsOf(files)[i], parts[i])
              /\ \A i, j \in 1..n : i # j => parts[i] \cap parts[j] = {}
              /\ \A p \in files : p \in ToSet(RowsOf(files)) \/ \E i \in 1..n : p \in parts[i]
<1>1. PICK c \in Nat :
         /\ DOMAIN Tops(files) = 1..c /\ GroupsOf(files) \in [1..c -> Seq(files)]
         /\ \A i, j \in 1..c : i # j => Tops(files)[i] # Tops(files)[j]
         /\ \A i \in 1..c : ListsOnce(GroupsOf(files)[i], GroupFiles(files, i))
         /\ ListsOnce(SinglesOf(files), LooseFiles(files))
  BY GroupsAreLists
<1> DEFINE groups == GroupsOf(files)
           singles == SinglesOf(files)
           loose == LooseFiles(files)
           shared(i) == GroupFiles(files, i)
<1>2. loose \in SUBSET files /\ \A i \in 1..c : shared(i) \in SUBSET files
  BY DEF LooseFiles, GroupFiles, Under
<1>3. IsFiniteSet(files) /\ IsFiniteSet(loose)
  BY <1>2, ReviewAssumption, FS_Subset
<1>4. ToSet(singles) = loose /\ singles \in Seq(files)
  <2>1. ToSet(singles) = loose /\ singles \in Seq(loose) BY <1>1, <1>3, ListsHave
  <2> QED BY <1>2, <2>1
<1>5. \A p \in files : p \in loose \/ \E i \in 1..c : p \in shared(i)
  BY <1>1 DEF LooseFiles, GroupFiles, Under, ToSet
<1>6. /\ \A i, j \in 1..c : i # j => shared(i) \cap shared(j) = {}
      /\ \A i \in 1..c : shared(i) \cap loose = {}
  BY <1>1 DEF LooseFiles, GroupFiles, Under, ToSet
<1>7. RowsOf(files) \in Seq(files)
      /\ (~InSummary(files) => loose \subseteq ToSet(RowsOf(files)))
  <2>1. CASE InSummary(files)
    BY <1>4, <2>1, FirstAreAmong, ReviewAssumption DEF RowsOf
  <2>2. CASE ~InSummary(files)
    <3> DEFINE firsts == [i \in DOMAIN groups |-> FirstOf(groups[i], ChildCap)]
               flat == FlattenSeq(firsts)
    <3>1. firsts \in [1..c -> Seq(files)]
      <4>1. \A i \in 1..c : FirstOf(groups[i], ChildCap) \in Seq(files)
        BY <1>1, FirstAreAmong, ReviewAssumption
      <4>2. DOMAIN groups = 1..c BY <1>1
      <4> HIDE DEF groups
      <4> QED BY <4>1, <4>2
    <3>2. flat \in Seq(files)
      <4> HIDE DEF firsts
      <4> QED BY <3>1, FlattenedIn
    <3>3. RowsOf(files) = flat \o singles BY <2>2 DEF RowsOf
    <3>4. \A x \in ToSet(singles) : x \in ToSet(flat \o singles)
      <4> HIDE DEF flat, singles
      <4> TAKE x \in ToSet(singles)
      <4>1. PICK i \in DOMAIN singles : singles[i] = x BY DEF ToSet
      <4>2. /\ Len(flat) + i \in DOMAIN (flat \o singles)
            /\ (flat \o singles)[Len(flat) + i] = x
        BY <1>4, <3>2, <4>1
      <4> QED BY <4>2 DEF ToSet
    <3>5. RowsOf(files) \in Seq(files)
      <4> HIDE DEF flat, singles
      <4> QED BY <1>4, <3>2, <3>3
    <3> QED BY <1>4, <3>3, <3>4, <3>5
  <2> QED BY <2>1, <2>2
<1>8. CASE InSummary(files) /\ singles # <<>>
  <2> DEFINE n == c + 1
             parts == [i \in 1..n |-> IF i <= c THEN shared(i) ELSE loose]
             heads == HeadsOf(files)
  <2>1. heads = groups \o <<singles>> BY <1>8 DEF HeadsOf
  <2>2. heads \in [1..n -> Seq(files)] /\ heads[n] = singles
        /\ \A i \in 1..c : heads[i] = groups[i]
    <3> HIDE DEF groups, singles, heads
    <3>1. groups \in Seq(Seq(files)) /\ Len(groups) = c BY <1>1 DEF groups
    <3>2. /\ heads \in Seq(Seq(files)) /\ Len(heads) = c + 1 /\ heads[c + 1] = singles
          /\ \A i \in 1..c : heads[i] = groups[i]
      BY <1>4, <2>1, <3>1
    <3> QED BY <3>2
  <2>3. parts \in [1..n -> SUBSET files]
    <3> HIDE DEF shared, loose
    <3> QED BY <1>2
  <2>4. \A i \in 1..n : ListsOnce(heads[i], parts[i])
    <3> HIDE DEF heads
    <3> QED BY <1>1, <2>2
  <2>5. \A i, j \in 1..n : i # j => parts[i] \cap parts[j] = {}
    <3> HIDE DEF shared, loose
    <3> QED BY <1>6
  <2>6. \A p \in files : \E i \in 1..n : p \in parts[i]
    <3> HIDE DEF shared, loose
    <3> TAKE p \in files
    <3>1. CASE p \in loose
      <4>1. n \in 1..n /\ parts[n] = loose OBVIOUS
      <4> QED BY <3>1, <4>1
    <3>2. CASE p \notin loose
      <4>1. PICK i \in 1..c : p \in shared(i) BY <1>5, <3>2
      <4> QED BY <4>1
    <3> QED BY <3>1, <3>2
  <2>7. n \in Nat OBVIOUS
  <2> HIDE DEF parts, n
  <2> QED BY <1>7, <2>2, <2>3, <2>4, <2>5, <2>6, <2>7
<1>9. CASE ~(InSummary(files) /\ singles # <<>>)
  <2> DEFINE parts == [i \in 1..c |-> shared(i)]
             heads == HeadsOf(files)
  <2>1. heads = groups
    <3>1. heads = groups \o <<>> BY <1>9 DEF HeadsOf
    <3>2. groups \in Seq(Seq(files)) BY <1>1
    <3> HIDE DEF groups, heads
    <3> QED BY <3>1, <3>2
  <2>2. parts \in [1..c -> SUBSET files]
    <3> HIDE DEF shared
    <3> QED BY <1>2
  <2>3. /\ \A i \in 1..c : ListsOnce(heads[i], parts[i])
        /\ \A i, j \in 1..c : i # j => parts[i] \cap parts[j] = {}
    <3> HIDE DEF shared, heads
    <3>1. \A i \in 1..c : ListsOnce(groups[i], shared(i)) BY <1>1 DEF shared
    <3> QED BY <1>6, <2>1, <3>1
  <2>4. \A p \in files : p \in ToSet(RowsOf(files)) \/ \E i \in 1..c : p \in parts[i]
    <3> TAKE p \in files
    <3>1. CASE p \in loose
      <4>1. singles # <<>> BY <1>4, <3>1 DEF ToSet
      <4>2. ~InSummary(files) BY <1>9, <4>1
      <4> QED BY <1>7, <3>1, <4>2
    <3>2. CASE p \notin loose
      <4> HIDE DEF shared, loose
      <4>1. PICK i \in 1..c : p \in shared(i) BY <1>5, <3>2
      <4> QED BY <4>1
    <3> QED BY <3>1, <3>2
  <2> HIDE DEF parts, heads
  <2> QED BY <1>1, <1>7, <2>1, <2>2, <2>3, <2>4 DEF heads
<1> QED BY <1>8, <1>9

-----------------------------------------------------------------------------
(***************************************************************************)
(* What an open review says of its files: it lists all that is missing, a  *)
(* mark is what the server really had for the file at some time while the  *)
(* dialog was open, and the counts of a group say no more than that,       *)
(* however the probes overlap with each other and with what others do.     *)
(***************************************************************************)

\* The scheduler's alert names files of the folder.
Alarms == [missing : SUBSET Goods, approvable : BOOLEAN, raised : BOOLEAN]
AlarmInv == guardian \in [alert : Alarms, bypass : BOOLEAN, alerts : Nat]

\* The fields of an open dialog.
ReviewFields ==
    {"open", "missing", "answers", "copies", "rows", "heads", "left", "found", "asked",
     "labelled", "marks", "sums", "saw"}

\* What a probe found, or a mark shows, of each file was so at some time.
Witnessed(shown, saw) ==
    /\ DOMAIN shown = Goods
    /\ \A p \in Goods : shown[p] \in {"present", "gone"} => shown[p] \in saw[p]

\* The history of a dialog has what the server has now.
UpToDate(saw, has) == \A p \in Goods : Result(p, has) \in saw[p]

\* The rows and groups are those of what is missing, and no count says too much.
Sums == [present : Nat, gone : Nat, unchecked : Nat]
Shown(review) ==
    /\ review.missing \in SUBSET Goods
    /\ review.rows = RowsOf(review.missing) /\ review.heads = HeadsOf(review.missing)
    /\ \A p \in Goods : review.found[p] \in {"unchecked", "present", "gone"}
    /\ \A i \in DOMAIN review.sums :
           /\ i \in DOMAIN review.heads /\ review.sums[i] \in Sums
           /\ SumIsTrue(review, review.heads[i], review.sums[i])

\* A dialog whose history has what its probes found and what its marks show.
Witness(review, has) ==
    /\ ReviewFields \subseteq DOMAIN review
    /\ DOMAIN review.saw = Goods /\ UpToDate(review.saw, has)
    /\ Witnessed(review.found, review.saw) /\ Witnessed(review.marks, review.saw)
    /\ Shown(review)

\* Every open dialog is such a dialog.
MarksInv ==
    /\ DOMAIN reviews = Slots
    /\ \A d \in Slots : "open" \in DOMAIN reviews[d]
    /\ \A d \in Slots : reviews[d].open => Witness(reviews[d], cloud.has)

\* No dialog is open at first.
LEMMA MarksAtFirst == ReviewInit => MarksInv /\ AlarmInv
  BY DEF ReviewInit, MarksInv, Closed, AlarmInv, Alarms, NoAlarm

\* An alert names what is missing, which is of the folder, and is only taken back.
LEMMA AlarmStep == AlarmInv /\ [ReviewNext]_reviewVars => AlarmInv'
<1> SUFFICES ASSUME AlarmInv, [ReviewNext]_reviewVars PROVE AlarmInv'
  OBVIOUS
<1>1. NoAlarm \in Alarms
  BY DEF NoAlarm, Alarms
<1>2. CASE Raise
  <2>1. PICK gone \in Losses \cup {{}} :
          guardian' = [guardian EXCEPT
               !.alert = [missing |-> gone, approvable |-> gone # {}, raised |-> TRUE],
               !.alerts = @ + 1]
    BY <1>2 DEF Raise
  <2> DEFINE alarm == [missing |-> gone, approvable |-> gone # {}, raised |-> TRUE]
  <2>2. alarm \in Alarms
    BY ReviewAssumption DEF Alarms
  <2>3. guardian' = [guardian EXCEPT !.alert = alarm, !.alerts = @ + 1]
    BY <2>1
  <2> HIDE DEF alarm
  <2>4. guardian' = [alert |-> alarm, bypass |-> guardian.bypass, alerts |-> guardian.alerts + 1]
    BY <2>3 DEF AlarmInv
  <2>5. guardian.bypass \in BOOLEAN /\ guardian.alerts + 1 \in Nat
    BY DEF AlarmInv
  <2> QED
    BY <2>2, <2>4, <2>5 DEF AlarmInv
<1>3. CASE ClearAlert \/ UseApproval \/ PromotionOver
  BY <1>1, <1>3 DEF ClearAlert, UseApproval, PromotionOver, Rescanned, AlarmInv
<1>4. ASSUME NEW d \in Slots, Decide(d) \/ RestoreCopies(d) \/ RestoreTrash(d) PROVE AlarmInv'
  BY <1>1, <1>4 DEF Decide, RestoreCopies, RestoreTrash, Answer, Approved, Rescanned, AlarmInv
<1>5. CASE UNCHANGED guardian
  BY <1>5 DEF AlarmInv
<1> QED
  BY <1>2, <1>3, <1>4, <1>5
  DEF ReviewNext, reviewVars, ServerLoses, ServerGets, ActOnNotice, PollRequests,
      ReviewDeletions, NoSecret, MarkRows, Probe, ProbeFails, PromoteOne, MoveItem

\* A group of what is missing has each of some files once.
LEMMA GroupIsList ==
  ASSUME NEW files \in SUBSET Goods, NEW i \in DOMAIN HeadsOf(files)
  PROVE  \E part \in SUBSET Goods :
            ListsOnce(HeadsOf(files)[i], part) /\ ToSet(HeadsOf(files)[i]) = part
<1>1. PICK part \in SUBSET Goods : ListsOnce(HeadsOf(files)[i], part)
  BY AllFilesShown
<1>2. IsFiniteSet(part)
  BY ReviewAssumption, FS_Subset
<1> QED
  BY <1>1, <1>2, ListsHave

\* A count that was true stays so while the history grows.
LEMMA SumStaysTrue ==
  ASSUME NEW files \in SUBSET Goods, NEW i \in DOMAIN HeadsOf(files), NEW sum \in Sums,
         NEW r, NEW t, \A p \in Goods : r.saw[p] \subseteq t.saw[p],
         SumIsTrue(r, HeadsOf(files)[i], sum)
  PROVE  SumIsTrue(t, HeadsOf(files)[i], sum)
<1> DEFINE head == HeadsOf(files)[i]
           Of(review, what) == {p \in ToSet(head) : what \in review.saw[p]}
<1>1. ToSet(head) \in SUBSET Goods /\ IsFiniteSet(ToSet(head))
  <2>1. PICK part \in SUBSET Goods : ToSet(head) = part
    BY GroupIsList
  <2>2. IsFiniteSet(part)
    BY ReviewAssumption, FS_Subset
  <2> QED
    BY <2>1, <2>2
<1> HIDE DEF head
<1>2. ASSUME NEW what
      PROVE  /\ Cardinality(Of(r, what)) \in Nat /\ Cardinality(Of(t, what)) \in Nat
             /\ Cardinality(Of(r, what)) <= Cardinality(Of(t, what))
  <2>1. Of(t, what) \in SUBSET ToSet(head) /\ Of(r, what) \in SUBSET Of(t, what)
    BY <1>1
  <2> HIDE DEF Of
  <2> QED
    BY <1>1, <2>1, FS_Subset, FS_CardinalityType
<1>3. /\ sum.present <= Cardinality(Of(r, "present")) /\ sum.gone <= Cardinality(Of(r, "gone"))
      /\ sum.present + sum.gone + sum.unchecked = Len(head)
  BY DEF SumIsTrue, head
<1>4. sum.present \in Nat /\ sum.gone \in Nat
  BY DEF Sums
<1>5. sum.present <= Cardinality(Of(t, "present")) /\ sum.gone <= Cardinality(Of(t, "gone"))
  <2> HIDE DEF Of
  <2> QED
    BY <1>2, <1>3, <1>4
<1> QED
  BY <1>3, <1>5 DEF SumIsTrue, head

\* Three disjoint sets together.
LEMMA ThreeParts ==
  ASSUME NEW A, NEW B, NEW C, IsFiniteSet(A), IsFiniteSet(B), IsFiniteSet(C),
         A \cap B = {}, (A \cup B) \cap C = {}
  PROVE  Cardinality((A \cup B) \cup C) = Cardinality(A) + Cardinality(B) + Cardinality(C)
<1>1. /\ Cardinality(A) \in Nat /\ Cardinality(B) \in Nat /\ Cardinality(C) \in Nat
      /\ Cardinality({}) = 0
  BY FS_CardinalityType, FS_EmptySet
<1>2. IsFiniteSet(A \cup B) /\ Cardinality(A \cup B) = Cardinality(A) + Cardinality(B) - 0
  BY <1>1, FS_Union
<1>3. Cardinality((A \cup B) \cup C) = Cardinality(A \cup B) + Cardinality(C) - 0
  <2> DEFINE D == A \cup B
  <2>1. IsFiniteSet(D) /\ D \cap C = {}
    BY <1>2
  <2> HIDE DEF D
  <2>2. Cardinality(D \cup C) = Cardinality(D) + Cardinality(C) - 0
    BY <1>1, <2>1, FS_Union
  <2> QED
    BY <2>2 DEF D
<1> QED
  BY <1>1, <1>2, <1>3

\* The counts of a group are those of what was found of its files.
LEMMA SummedIsTrue ==
  ASSUME NEW r, NEW has, Witness(r, has), NEW i \in DOMAIN r.heads
  PROVE  Summed(r, r.heads[i]) \in Sums /\ SumIsTrue(r, r.heads[i], Summed(r, r.heads[i]))
<1> DEFINE head == r.heads[i]
           kind(k) == IF k > GroupCheckCap THEN "unchecked" ELSE r.found[head[k]]
           With(what) == {k \in DOMAIN head : kind(k) = what}
           count(what) == Cardinality(With(what))
           Of(what) == {p \in ToSet(head) : what \in r.saw[p]}
<1>1. PICK part \in SUBSET Goods : ListsOnce(head, part) /\ ToSet(head) = part
  BY GroupIsList DEF Witness, Shown
<1>2. IsFiniteSet(part)
  BY ReviewAssumption, FS_Subset
<1> DEFINE c == Cardinality(part)
<1>3. c \in Nat /\ DOMAIN head = 1..c /\ Len(head) = c
  BY <1>1, <1>2, FS_CardinalityType, ListsHave DEF ListsOnce
<1>4. IsFiniteSet(DOMAIN head) /\ Cardinality(DOMAIN head) = c
  <2> HIDE DEF c, head
  <2> QED
    BY <1>3, FS_Interval
<1>5. \A k \in DOMAIN head : head[k] \in part
  BY <1>1 DEF ListsOnce
<1>6. \A k \in DOMAIN head : kind(k) \in {"unchecked", "present", "gone"}
  <2> HIDE DEF head
  <2> QED
    BY <1>5 DEF Witness, Shown
<1>7. ASSUME NEW what PROVE IsFiniteSet(With(what)) /\ count(what) \in Nat
  <2>1. With(what) \in SUBSET DOMAIN head
    OBVIOUS
  <2> HIDE DEF With, head
  <2> QED
    BY <1>4, <2>1, FS_Subset, FS_CardinalityType
<1>8. ASSUME NEW what \in {"present", "gone"} PROVE count(what) <= Cardinality(Of(what))
  <2> DEFINE f == [k \in With(what) |-> head[k]]
  <2>1. \A k \in With(what) : head[k] \in Of(what)
    <3> TAKE k \in With(what)
    <3>1. k \in DOMAIN head /\ r.found[head[k]] = what
      <4> HIDE DEF head
      <4> QED
        BY <1>8
    <3>2. head[k] \in Goods /\ head[k] \in ToSet(head)
      BY <1>1, <1>5, <3>1
    <3> HIDE DEF head
    <3>3. what \in r.saw[head[k]]
      BY <1>8, <3>1, <3>2 DEF Witness, Witnessed
    <3> QED
      BY <3>2, <3>3
  <2>2. \A k, n \in With(what) : head[k] = head[n] => k = n
    BY <1>1, <1>3 DEF ListsOnce
  <2>3. f \in Injection(With(what), Of(what))
    <3> HIDE DEF With, Of, head
    <3> QED
      BY <2>1, <2>2 DEF Injection, IsInjective
  <2>4. IsFiniteSet(Of(what))
    <3>1. Of(what) \in SUBSET part
      BY <1>1
    <3> HIDE DEF Of
    <3> QED
      BY <1>2, <3>1, FS_Subset
  <2> HIDE DEF With, Of, f
  <2> QED
    BY <2>3, <2>4, FS_Injection
<1>9. count("present") + count("gone") + count("unchecked") = c
  <2>1. /\ With("present") \cap With("gone") = {}
        /\ (With("present") \cup With("gone")) \cap With("unchecked") = {}
    BY DEF With
  <2>2. (With("present") \cup With("gone")) \cup With("unchecked") = DOMAIN head
    <3> HIDE DEF head, kind
    <3> QED
      BY <1>6
  <2> HIDE DEF With, c, head
  <2>3. Cardinality((With("present") \cup With("gone")) \cup With("unchecked"))
          = Cardinality(With("present")) + Cardinality(With("gone")) + Cardinality(With("unchecked"))
    BY <1>7, <2>1, ThreeParts
  <2> QED
    BY <1>4, <2>2, <2>3
<1>10. Summed(r, head)
         = [present |-> count("present"), gone |-> count("gone"), unchecked |-> count("unchecked")]
  BY DEF Summed
<1> DEFINE sum == Summed(r, head)
<1>11. /\ sum.present = count("present") /\ sum.gone = count("gone")
       /\ sum.unchecked = count("unchecked") /\ sum \in Sums
  <2> HIDE DEF With
  <2> QED
    BY <1>7, <1>10 DEF Sums
<1> HIDE DEF sum, With, c
<1>12. /\ sum.present <= Cardinality(Of("present")) /\ sum.gone <= Cardinality(Of("gone"))
       /\ sum.present + sum.gone + sum.unchecked = Len(head)
  BY <1>3, <1>8, <1>9, <1>11
<1>13. SumIsTrue(r, head, sum)
  BY <1>12 DEF SumIsTrue
<1> QED
  BY <1>11, <1>13 DEF sum

\* What a dialog shows stays as it is while only its probes and its history go on.
LEMMA ShownStays ==
  ASSUME NEW r, NEW t, Shown(r), t.missing = r.missing, t.rows = r.rows, t.heads = r.heads,
         t.sums = r.sums, \A p \in Goods : t.found[p] \in {"unchecked", "present", "gone"},
         \A p \in Goods : r.saw[p] \subseteq t.saw[p]
  PROVE  Shown(t)
<1>1. \A i \in DOMAIN t.sums : SumIsTrue(t, t.heads[i], t.sums[i])
  BY SumStaysTrue DEF Shown
<1> QED
  BY <1>1 DEF Shown

\* A dialog opens with nothing found and nothing marked.
LEMMA OpensUnmarked ==
  ASSUME NEW raised \in Alarms, NEW r, r = Opened(raised)
  PROVE  Witness(r, cloud.has) /\ "open" \in DOMAIN r
<1>1. /\ ReviewFields \subseteq DOMAIN r /\ r.saw = Seen(cloud.has)
      /\ r.found = [p \in Goods |-> "unchecked"] /\ r.marks = [p \in Goods |-> "plain"]
  BY DEF Opened, ReviewFields
<1>2. DOMAIN r.saw = Goods /\ UpToDate(r.saw, cloud.has)
  BY <1>1 DEF Seen, UpToDate
<1>3. Witnessed(r.found, r.saw) /\ Witnessed(r.marks, r.saw)
  BY <1>1 DEF Witnessed
<1>4. /\ r.missing = raised.missing /\ r.rows = RowsOf(r.missing)
      /\ r.heads = HeadsOf(r.missing) /\ r.sums = <<>>
  BY DEF Opened
<1>5. Shown(r)
  BY <1>1, <1>4 DEF Shown, Alarms
<1> QED
  BY <1>1, <1>2, <1>3, <1>5 DEF Witness, ReviewFields

\* A step that opens, closes or changes one dialog, on a server that rests.
LEMMA OneChanges ==
  ASSUME MarksInv, UNCHANGED cloud, NEW d \in Slots, NEW r,
         reviews' = [reviews EXCEPT ![d] = r],
         "open" \in DOMAIN r, r.open => Witness(r, cloud.has)
  PROVE  MarksInv'
  BY DEF MarksInv

\* The server changes, and the history of every dialog with it.
LEMMA ServerMoves ==
  ASSUME MarksInv, NEW files, NEW bin, Changed(files, bin)
  PROVE  MarksInv'
<1>1. /\ cloud'.has = files
      /\ reviews' = [d \in Slots |->
             IF reviews[d].open
             THEN [reviews[d] EXCEPT !.saw =
                       [p \in Goods |-> reviews[d].saw[p] \cup {Result(p, files)}]]
             ELSE reviews[d]]
  BY DEF Changed
<1>2. ASSUME NEW d \in Slots, reviews[d].open
      PROVE  "open" \in DOMAIN reviews'[d] /\ Witness(reviews'[d], files)
  <2> DEFINE r == reviews[d]
             saw == [p \in Goods |-> r.saw[p] \cup {Result(p, files)}]
             t == [r EXCEPT !.saw = saw]
  <2>1. Witness(r, cloud.has) /\ reviews'[d] = t
    BY <1>1, <1>2 DEF MarksInv
  <2>2. DOMAIN saw = Goods /\ \A p \in Goods : saw[p] = r.saw[p] \cup {Result(p, files)}
    OBVIOUS
  <2> HIDE DEF saw
  <2>3. UpToDate(saw, files)
    BY <2>2 DEF UpToDate
  <2>4. /\ DOMAIN t = DOMAIN r /\ t.saw = saw /\ t.found = r.found /\ t.marks = r.marks
        /\ t.missing = r.missing /\ t.rows = r.rows /\ t.heads = r.heads /\ t.sums = r.sums
    BY <2>1 DEF Witness, ReviewFields
  <2> HIDE DEF t, r
  <2>5. Witnessed(t.found, saw) /\ Witnessed(t.marks, saw)
    BY <2>1, <2>2, <2>4 DEF Witness, Witnessed
  <2>6. Shown(r) /\ \A p \in Goods : t.found[p] \in {"unchecked", "present", "gone"}
    BY <2>1, <2>4 DEF Witness, Shown
  <2>7. Shown(t)
    BY <2>2, <2>4, <2>6, ShownStays
  <2> QED
    BY <2>1, <2>2, <2>3, <2>4, <2>5, <2>7 DEF Witness, ReviewFields
<1> QED
  BY <1>1, <1>2 DEF MarksInv

\* A probe finds what the server has now.
LEMMA ProbeIsWitnessed ==
  ASSUME MarksInv, NEW d \in Slots, NEW k, Probe(d, k)
  PROVE  MarksInv'
<1> DEFINE r == reviews[d]
           first == Head(r.left[k])
           found == [r.found EXCEPT ![first] = Result(first, cloud.has)]
           left == [r.left EXCEPT ![k] = Tail(@)]
           t == [r EXCEPT !.found = found, !.left = left, !.asked = TRUE]
<1>1. r.open /\ Witness(r, cloud.has)
  BY DEF Probe, Probing, MarksInv
<1>2. reviews' = [reviews EXCEPT ![d] = t] /\ UNCHANGED cloud
  BY DEF Probe
<1>3. Witnessed(found, r.saw) /\ \A p \in Goods : found[p] \in {"unchecked", "present", "gone"}
  <2>1. DOMAIN r.found = Goods /\ Shown(r) /\ UpToDate(r.saw, cloud.has)
        /\ \A p \in Goods : r.found[p] \in {"present", "gone"} => r.found[p] \in r.saw[p]
    BY <1>1 DEF Witness, Witnessed
  <2>2. DOMAIN found = Goods
        /\ \A p \in Goods : found[p] = r.found[p] \/ found[p] = Result(p, cloud.has)
    BY <2>1
  <2> HIDE DEF found, r
  <2> QED
    BY <2>1, <2>2 DEF Witnessed, UpToDate, Shown, Result
<1> HIDE DEF found, left
<1>4. /\ DOMAIN t = DOMAIN r /\ t.saw = r.saw /\ t.found = found /\ t.marks = r.marks
      /\ t.missing = r.missing /\ t.rows = r.rows /\ t.heads = r.heads /\ t.sums = r.sums
  BY <1>1 DEF Witness, ReviewFields
<1> HIDE DEF t
<1>5. Shown(t)
  BY <1>1, <1>3, <1>4, ShownStays DEF Witness
<1>6. Witness(t, cloud.has) /\ "open" \in DOMAIN t
  BY <1>1, <1>3, <1>4, <1>5 DEF Witness, ReviewFields
<1> QED
  BY <1>2, <1>6, OneChanges

\* The fields of two dialogs that show the same.
Alike(r, t) ==
    /\ DOMAIN t = DOMAIN r /\ t.saw = r.saw /\ t.found = r.found /\ t.marks = r.marks
    /\ t.missing = r.missing /\ t.rows = r.rows /\ t.heads = r.heads /\ t.sums = r.sums

\* What is given up is not found.
LEMMA StoppingFindsNothing ==
  ASSUME MarksInv, NEW d \in Slots, NEW r, Probing(d), UNCHANGED cloud,
         reviews' = [reviews EXCEPT ![d] = r], Alike(reviews[d], r)
  PROVE  MarksInv'
<1>1. Witness(reviews[d], cloud.has)
  BY DEF Probing, MarksInv
<1>2. Shown(r)
  BY <1>1, ShownStays DEF Witness, Shown, Alike
<1>3. Witness(r, cloud.has) /\ "open" \in DOMAIN r
  BY <1>1, <1>2 DEF Witness, ReviewFields, Alike
<1> QED
  BY <1>3, OneChanges

\* The marks are what was found.
LEMMA MarksAreFound ==
  ASSUME MarksInv, NEW d \in Slots, MarkRows(d)
  PROVE  MarksInv'
<1> DEFINE r == reviews[d]
           marks == [p \in Goods |-> IF p \in ToSet(r.rows) THEN r.found[p] ELSE "plain"]
           sums == [i \in DOMAIN r.heads |-> Summed(r, r.heads[i])]
           t == [r EXCEPT !.labelled = TRUE, !.marks = marks, !.sums = sums]
           u == [r EXCEPT !.labelled = TRUE]
<1>1. r.open /\ Witness(r, cloud.has) /\ UNCHANGED cloud
  BY DEF MarkRows, Probing, MarksInv
<1>2. Witnessed(marks, r.saw)
  BY <1>1 DEF Witness, Witnessed
<1>3. reviews' = [reviews EXCEPT ![d] = t] \/ reviews' = [reviews EXCEPT ![d] = u]
  BY DEF MarkRows, Labelled
<1>4. DOMAIN sums = DOMAIN r.heads
      /\ \A i \in DOMAIN sums : sums[i] \in Sums /\ SumIsTrue(r, r.heads[i], sums[i])
  <2> HIDE DEF r
  <2> QED
    BY <1>1, SummedIsTrue
<1> HIDE DEF marks, sums
<1>5. /\ DOMAIN t = DOMAIN r /\ t.saw = r.saw /\ t.found = r.found /\ t.marks = marks
      /\ t.missing = r.missing /\ t.rows = r.rows /\ t.heads = r.heads /\ t.sums = sums
      /\ Alike(r, u)
  BY <1>1 DEF Witness, ReviewFields, Alike
<1> HIDE DEF t, u, r
<1>6. Shown(t)
  BY <1>1, <1>4, <1>5 DEF Witness, Shown, SumIsTrue
<1>7. Shown(u)
  BY <1>1, <1>5, ShownStays DEF Witness, Shown, Alike
<1>8. /\ Witness(t, cloud.has) /\ "open" \in DOMAIN t
      /\ Witness(u, cloud.has) /\ "open" \in DOMAIN u
  BY <1>1, <1>2, <1>5, <1>6, <1>7 DEF Witness, ReviewFields, Alike
<1> QED
  BY <1>1, <1>3, <1>8, OneChanges

\* Every step of the reviews and of the server keeps the dialogs witnessed.
LEMMA MarksStep == MarksInv /\ AlarmInv /\ [ReviewNext]_reviewVars => MarksInv'
<1> SUFFICES ASSUME MarksInv, AlarmInv, [ReviewNext]_reviewVars PROVE MarksInv'
  OBVIOUS
<1>1. CASE \/ Raise \/ ClearAlert \/ UseApproval \/ ActOnNotice \/ PromoteOne \/ PromotionOver
           \/ UNCHANGED reviewVars
  <2>1. UNCHANGED <<cloud, reviews>>
    BY <1>1 DEF Raise, ClearAlert, UseApproval, ActOnNotice, PromoteOne, PromotionOver, reviewVars
  <2> QED
    BY <2>1 DEF MarksInv
<1>2. ASSUME NEW p \in Goods, ServerLoses(p) \/ ServerGets(p) PROVE MarksInv'
  BY <1>2, ServerMoves DEF ServerLoses, ServerGets
<1>3. CASE MoveItem
  <2>1. PICK p \in rescue.items :
          \/ Changed(cloud.has \cup {p}, cloud.bin \ {p})
          \/ UNCHANGED <<cloud, reviews>>
    BY <1>3 DEF MoveItem
  <2> QED
    BY <2>1, ServerMoves DEF MarksInv
<1>4. CASE PollRequests \/ ReviewDeletions
  <2>1. PICK d \in Slots : Present(d) /\ UNCHANGED cloud
    BY <1>4 DEF PollRequests, ReviewDeletions
  <2>2. CASE reviews' = [reviews EXCEPT ![d] = Opened(guardian.alert)]
    <3>1. guardian.alert \in Alarms
      BY DEF AlarmInv
    <3> QED
      BY <2>1, <2>2, <3>1, OpensUnmarked, OneChanges
  <2>3. CASE reviews' = reviews
    BY <2>1, <2>3 DEF MarksInv
  <2> QED
    BY <2>1, <2>2, <2>3 DEF Present
<1>5. ASSUME NEW d \in Slots, NEW k \in 1..Probers, Probe(d, k) PROVE MarksInv'
  BY <1>5, ProbeIsWitnessed
<1>6. ASSUME NEW d \in Slots, NEW k \in 1..Probers, ProbeFails(d, k) PROVE MarksInv'
  <2> DEFINE r == Stopped(reviews[d], k)
  <2>1. Probing(d) /\ UNCHANGED cloud /\ reviews' = [reviews EXCEPT ![d] = r]
    BY <1>6 DEF ProbeFails
  <2>2. ReviewFields \subseteq DOMAIN reviews[d]
    BY <2>1 DEF Probing, MarksInv, Witness
  <2>3. Alike(reviews[d], r)
    BY <2>2 DEF Stopped, ReviewFields, Alike
  <2> HIDE DEF r
  <2> QED
    BY <2>1, <2>3, StoppingFindsNothing
<1>7. ASSUME NEW d \in Slots, NoSecret(d) PROVE MarksInv'
  <2> DEFINE left == [k \in 1..Probers |-> <<>>]
             r == [reviews[d] EXCEPT !.left = left, !.asked = TRUE]
  <2>1. Probing(d) /\ UNCHANGED cloud /\ reviews' = [reviews EXCEPT ![d] = r]
    BY <1>7 DEF NoSecret
  <2>2. ReviewFields \subseteq DOMAIN reviews[d]
    BY <2>1 DEF Probing, MarksInv, Witness
  <2> HIDE DEF left
  <2>3. Alike(reviews[d], r)
    BY <2>2 DEF ReviewFields, Alike
  <2> HIDE DEF r
  <2> QED
    BY <2>1, <2>3, StoppingFindsNothing
<1>8. ASSUME NEW d \in Slots, MarkRows(d) PROVE MarksInv'
  BY <1>8, MarksAreFound
<1>9. ASSUME NEW d \in Slots, Decide(d) \/ RestoreCopies(d) \/ RestoreTrash(d) PROVE MarksInv'
  <2>1. reviews' = [reviews EXCEPT ![d] = Closed] /\ UNCHANGED cloud
    BY <1>9 DEF Decide, RestoreCopies, RestoreTrash, Answer
  <2>2. "open" \in DOMAIN Closed /\ ~Closed.open
    BY DEF Closed
  <2> QED
    BY <2>1, <2>2, OneChanges
<1> QED
  BY <1>1, <1>2, <1>3, <1>4, <1>5, <1>6, <1>7, <1>8, <1>9 DEF ReviewNext

\* A dialog that shows the rows and groups of what is missing lists all of it.
LEMMA ShownIsListed ==
  ASSUME NEW r, Shown(r)
  PROVE  AllAreListed(r)
<1> DEFINE files == r.missing
<1>1. files \in SUBSET Goods
  BY DEF Shown
<1>2. RowsOf(files) \in Seq(files)
  BY <1>1, AllFilesShown
<1>3. PICK n \in Nat : \E parts \in [1..n -> SUBSET files] :
        /\ HeadsOf(files) \in [1..n -> Seq(files)]
        /\ \A i \in 1..n : ListsOnce(HeadsOf(files)[i], parts[i])
        /\ \A i, j \in 1..n : i # j => parts[i] \cap parts[j] = {}
        /\ \A p \in files : p \in ToSet(RowsOf(files)) \/ \E i \in 1..n : p \in parts[i]
  BY <1>1, AllFilesShown
<1>4. PICK parts \in [1..n -> SUBSET files] :
        /\ HeadsOf(files) \in [1..n -> Seq(files)]
        /\ \A i \in 1..n : ListsOnce(HeadsOf(files)[i], parts[i])
        /\ \A i, j \in 1..n : i # j => parts[i] \cap parts[j] = {}
        /\ \A p \in files : p \in ToSet(RowsOf(files)) \/ \E i \in 1..n : p \in parts[i]
  BY <1>3
<1>5. \A i \in 1..n : ToSet(HeadsOf(files)[i]) = parts[i]
  <2> TAKE i \in 1..n
  <2>1. IsFiniteSet(parts[i])
    BY <1>1, ReviewAssumption, FS_Subset
  <2> QED
    BY <1>4, <2>1, ListsHave
<1>6. ToSet(RowsOf(files)) \subseteq files
  BY <1>2 DEF ToSet
<1>7. r.rows = RowsOf(files) /\ r.heads = HeadsOf(files) /\ DOMAIN HeadsOf(files) = 1..n
  BY <1>4 DEF Shown
<1> HIDE DEF files
<1>8. \A p \in files :
          \/ \E i \in DOMAIN r.heads : p \in ToSet(r.heads[i])
          \/ p \in ToSet(r.rows)
  <2> TAKE p \in files
  <2>1. CASE p \in ToSet(RowsOf(files))
    BY <1>7, <2>1
  <2>2. ASSUME NEW i \in 1..n, p \in parts[i] PROVE p \in ToSet(r.heads[i])
    BY <1>5, <1>7, <2>2
  <2> QED
    BY <1>4, <1>7, <2>1, <2>2
<1>9. /\ \A i, j \in DOMAIN r.heads : i # j => ToSet(r.heads[i]) \cap ToSet(r.heads[j]) = {}
      /\ \A i \in DOMAIN r.heads : ToSet(r.heads[i]) \subseteq files
  BY <1>4, <1>5, <1>7
<1> QED
  BY <1>6, <1>7, <1>8, <1>9 DEF AllAreListed, files

\* For any files, directories, caps, dialogs and probers: an open review lists all that
\* is missing, marks no file as still on the server, or gone from it, that was not so
\* when a probe asked, and counts no more of them in a group (deletion_presence.rs).
THEOREM ReviewsAreTrue == ReviewSpec => []ReviewsTellTrue
<1>1. MarksInv => ReviewsTellTrue
  <2> SUFFICES ASSUME MarksInv, NEW d \in Slots, reviews[d].open
               PROVE  /\ AllAreListed(reviews[d])
                      /\ MarksAreTrue(reviews[d])
                      /\ \A i \in DOMAIN reviews[d].sums :
                             SumIsTrue(reviews[d], reviews[d].heads[i], reviews[d].sums[i])
    BY DEF ReviewsTellTrue
  <2>1. Witness(reviews[d], cloud.has)
    BY DEF MarksInv
  <2>2. AllAreListed(reviews[d])
    BY <2>1, ShownIsListed DEF Witness
  <2> QED
    BY <2>1, <2>2 DEF Witness, Witnessed, MarksAreTrue, Shown
<1> QED
  BY <1>1, MarksAtFirst, MarksStep, AlarmStep, PTL DEF ReviewSpec

-----------------------------------------------------------------------------
(***************************************************************************)
(* The first synchronization.  A wizard or the dialog of one folder asks   *)
(* the server about the folders, shows the warnings that are due and, once *)
(* they are answered, writes the folders into the configuration.  The      *)
(* probe runs beside the dialog, and the lists may change underneath it.   *)
(***************************************************************************)

\* The wizards and the probes that may be under way.
Wizards == 1..MaxSetups
Asking == 1..MaxInquiries

\* The fields the steps rely on.
SetupsShape ==
    /\ DOMAIN setups = Wizards
    /\ \A w \in Wizards :
           {"open", "page", "cloud", "folders", "space", "sized"} \subseteq DOMAIN setups[w]

\* An account has its folders.
RegistryShape ==
    /\ DOMAIN registry = Clouds
    /\ \A c \in Clouds : {"there", "folders"} \subseteq DOMAIN registry[c]

\* A probe under way knows who asked and what about.
InquiryShape(q) ==
    /\ "stage" \in DOMAIN q
    /\ q.stage # "free" =>
           /\ {"who", "cloud", "folders", "threshold", "remote", "asked", "altered", "truth",
               "due"} \subseteq DOMAIN q
           /\ q.who \in Wizards \cup {TheDialog}

\* Where on the server a pair of folders points to.
Aim(source, pair) == IF source \in OpenClouds THEN pair.space ELSE pair.place

\* What the probe said of the first folder is so.
ToldTrue(q) ==
    q.stage = "answered" /\ q.remote.known =>
        LET amount == q.truth[Aim(q.cloud, q.folders[1])]
        IN  /\ q.remote.filled = (amount # "nothing")
            /\ q.remote.size # "unknown" /\ amount = "much" => q.remote.size = "over"

\* What is due of a folder list is asked.
AsksAll(asked, due, known) ==
    /\ \A n \in DOMAIN due : "old" \in due[n] => "old" \in asked
    /\ known /\ 1 \in DOMAIN due => due[1] \subseteq asked

\* A dialog is about the one folder that was typed into it; a wizard reviews
\* only what the server could be asked about.
ReviewAsksAll(q) ==
    /\ q.stage # "free" /\ q.who = TheDialog => 1 \in DOMAIN q.folders /\ ~q.altered
    /\ q.stage = "review" =>
           /\ ~q.altered => AsksAll(q.asked, q.due, q.remote.known)
           /\ IF q.who = TheDialog THEN 1 \in DOMAIN q.due ELSE q.remote.known

\* A wizard that counts large downloads as confirmed was told so by the user.
SizesAccepted == \A w \in Wizards : setups[w].sized => w \in accepted

\* A probe that is typed, told the truth and leads to the warnings that are due.
Fine(q) == InquiryShape(q) /\ ToldTrue(q) /\ ReviewAsksAll(q)

\* Every probe is fine.
InquiriesFine == DOMAIN inquiries = Asking /\ \A i \in Asking : Fine(inquiries[i])

\* The inductive invariant of the arrivals.
ArrivalInv ==
    /\ SetupsShape /\ RegistryShape /\ InquiriesFine
    /\ SizesAccepted
    /\ FirstSyncsAreReviewed

\* Nothing has been asked or configured at first.
LEMMA InitArrivals == FirstSyncInit => ArrivalInv
  BY DEF FirstSyncInit, ArrivalInv, SetupsShape, RegistryShape, InquiriesFine, Fine,
         InquiryShape, ToldTrue, ReviewAsksAll, SizesAccepted,
         FirstSyncsAreReviewed, NewSetup, Unasked, Unconfigured, Wizards, Asking

-----------------------------------------------------------------------------
\* Whatever is due of a list of folders is asked, if the probe told the truth of
\* the first one.
LEMMA DueIsAsked ==
  ASSUME NEW remote, NEW empty \in BOOLEAN, NEW source, NEW folders, NEW truth, NEW threshold,
         empty /\ 1 \in DOMAIN folders => LocalEmpty(folders[1].home),
         remote.known /\ 1 \in DOMAIN folders =>
             LET amount == truth[Aim(source, folders[1])]
             IN  /\ remote.filled = (amount # "nothing")
                 /\ remote.size # "unknown" /\ amount = "much" => remote.size = "over"
  PROVE  AsksAll(Warnings(remote, empty, Journals(folders), threshold),
                 Due(folders, source, truth, remote.size # "unknown", threshold), remote.known)
<1> DEFINE asked == Warnings(remote, empty, Journals(folders), threshold)
           due == Due(folders, source, truth, remote.size # "unknown", threshold)
<1>1. /\ DOMAIN due = DOMAIN folders
      /\ \A n \in DOMAIN folders : "old" \in due[n] => homes[folders[n].home].journals
  BY DEF Due
<1>2. \A n \in DOMAIN due : "old" \in due[n] => "old" \in asked
  BY <1>1 DEF Warnings, Journals, HomesOf
<1>3. ASSUME remote.known, 1 \in DOMAIN folders PROVE due[1] \subseteq asked
  <2> DEFINE amount == truth[Aim(source, folders[1])]
             home == homes[folders[1].home]
  <2>1. due[1] = {x \in {"merge", "old", "large"} :
                    \/ x = "merge" /\ amount \in {"little", "much"} /\ (home.files \/ home.journals)
                    \/ x = "old" /\ home.journals
                    \/ x = "large" /\ remote.size # "unknown" /\ threshold /\ amount = "much"}
    BY <1>3 DEF Due, Aim
  <2>2. home.files \/ home.journals => ~empty
    BY <1>3 DEF LocalEmpty, Home
  <2>3. home.journals => Journals(folders)
    BY <1>3 DEF Journals, HomesOf
  <2>4. amount \in {"little", "much"} => remote.filled
    BY <1>3
  <2>5. remote.size # "unknown" /\ amount = "much" => remote.size = "over"
    BY <1>3
  <2> QED
    BY <1>3, <2>1, <2>2, <2>3, <2>4, <2>5 DEF Warnings
<1> QED
  BY <1>1, <1>2, <1>3 DEF AsksAll

-----------------------------------------------------------------------------
(* What is committed.                                                      *)

\* What FirstSyncsAreReviewed says of one configured folder.
Examined(f, accepters) ==
    /\ (f.known \/ f.who = TheDialog) /\ ~f.altered =>
           /\ "old" \in f.due => "old" \in f.asked
           /\ f.known /\ f.first => f.due \subseteq f.asked
    /\ f.sized => f.who \in accepters

\* An entry whose warnings were asked is a reviewed one.
LEMMA EntryReviewed ==
  ASSUME NEW pair, NEW sized, NEW who, NEW asked, NEW due, NEW known, NEW first, NEW altered,
         known \/ who = TheDialog => altered \/ ("old" \in due => "old" \in asked),
         known /\ first => altered \/ due \subseteq asked,
         NEW accepters, sized => who \in accepters
  PROVE  Examined(Entry(pair, sized, who, asked, due, known, first, altered), accepters)
  BY DEF Examined, Entry

\* What was reviewed stays so: confirmations are never taken back.
LEMMA StillReviewed ==
  ASSUME FirstSyncsAreReviewed, accepted \subseteq accepted'
  PROVE  \A c \in Clouds : \A f \in registry[c].folders : Examined(f, accepted')
  BY DEF FirstSyncsAreReviewed, Examined

\* A wizard that finishes writes only folders whose warnings were asked.
LEMMA FinishKeeps ==
  ASSUME ArrivalInv, NEW w \in Wizards, NEW after, NEW sized, NEW asked, NEW due,
         NEW known, NEW altered, FinishSetup(w, after, sized, asked, due, known, altered),
         accepted \subseteq accepted', sized => w \in accepted',
         known /\ ~altered => AsksAll(asked, due, TRUE)
  PROVE  RegistryShape' /\ SetupsShape' /\ SizesAccepted' /\ FirstSyncsAreReviewed'
<1> DEFINE setup == setups[w]
           source == setup.cloud
<1>1. SetupsShape /\ RegistryShape /\ SizesAccepted /\ FirstSyncsAreReviewed
  BY DEF ArrivalInv
<1>2. SetupsShape' /\ SizesAccepted'
  BY <1>1 DEF FinishSetup, SetupsShape, SizesAccepted
<1>3. CASE registry' = registry
  BY <1>1, <1>2, <1>3, StillReviewed
  DEF RegistryShape, FirstSyncsAreReviewed, Examined
<1>4. CASE registry' # registry
  <2> DEFINE added == {Entry(setup.folders[n], sized, w, asked,
                             IF n \in DOMAIN due THEN due[n] ELSE {},
                             known, n = 1, altered) : n \in DOMAIN setup.folders}
  <2>1. registry' = [registry EXCEPT ![source] = [there |-> TRUE, folders |-> added]]
    BY <1>4 DEF FinishSetup
  <2>2. w # TheDialog
    BY DEF Wizards, TheDialog
  <2>3. ASSUME NEW f \in added PROVE Examined(f, accepted')
    <3>1. PICK n \in DOMAIN setup.folders :
              f = Entry(setup.folders[n], sized, w, asked,
                        IF n \in DOMAIN due THEN due[n] ELSE {}, known, n = 1, altered)
      OBVIOUS
    <3> DEFINE mine == IF n \in DOMAIN due THEN due[n] ELSE {}
    <3>2. known /\ ~altered => /\ "old" \in mine => "old" \in asked
                               /\ n = 1 => mine \subseteq asked
      BY DEF AsksAll
    <3> DEFINE first == n = 1
    <3>3. f = Entry(setup.folders[n], sized, w, asked, mine, known, first, altered)
      BY <3>1
    <3> HIDE DEF mine
    <3>4. known \/ w = TheDialog => altered \/ ("old" \in mine => "old" \in asked)
      BY <2>2, <3>2
    <3>6. known /\ first => altered \/ mine \subseteq asked
      BY <3>2
    <3> HIDE DEF first
    <3>5. Examined(Entry(setup.folders[n], sized, w, asked, mine, known, first, altered), accepted')
      BY <3>4, <3>6, EntryReviewed
    <3> QED
      BY <3>3, <3>5
  <2> HIDE DEF added
  <2>4. RegistryShape'
    BY <1>1, <2>1 DEF RegistryShape
  <2>5. \A c \in Clouds : \A f \in registry'[c].folders :
            f \in added \/ f \in registry[c].folders
    BY <1>1, <2>1 DEF RegistryShape
  <2>6. \A c \in Clouds : \A f \in registry'[c].folders : Examined(f, accepted')
    BY <1>1, <2>3, <2>5, StillReviewed
  <2> QED
    BY <1>2, <2>4, <2>6 DEF FirstSyncsAreReviewed, Examined
<1> QED
  BY <1>3, <1>4

\* So does the dialog of one folder.
LEMMA CommitKeeps ==
  ASSUME ArrivalInv, NEW q, NEW asked, NEW due, CommitFolder(q, asked, due),
         AsksAll(asked, due, q.remote.known), 1 \in DOMAIN due,
         accepted \subseteq accepted', "large" \in asked => TheDialog \in accepted'
  PROVE  RegistryShape' /\ FirstSyncsAreReviewed'
<1>1. RegistryShape /\ FirstSyncsAreReviewed
  BY DEF ArrivalInv
<1>2. CASE registry' = registry
  BY <1>1, <1>2, StillReviewed
  DEF RegistryShape, FirstSyncsAreReviewed, Examined
<1>3. CASE registry' # registry
  <2> DEFINE entry == Entry(q.folders[1], "large" \in asked, TheDialog, asked, due[1],
                            q.remote.known, TRUE, FALSE)
  <2>1. registry' = [registry EXCEPT ![q.cloud].folders = @ \cup {entry}]
    BY <1>3 DEF CommitFolder
  <2>2. Examined(entry, accepted')
    BY EntryReviewed DEF AsksAll
  <2> HIDE DEF entry
  <2>3. RegistryShape'
    BY <1>1, <2>1 DEF RegistryShape
  <2>4. \A c \in Clouds : \A f \in registry'[c].folders :
            f = entry \/ f \in registry[c].folders
    BY <1>1, <2>1 DEF RegistryShape
  <2>5. \A c \in Clouds : \A f \in registry'[c].folders : Examined(f, accepted')
    BY <1>1, <2>2, <2>4, StillReviewed
  <2> QED
    BY <2>3, <2>5 DEF FirstSyncsAreReviewed, Examined
<1> QED
  BY <1>2, <1>3

-----------------------------------------------------------------------------
(* The steps.                                                              *)

\* The steps inside a wizard leave its confirmation of large downloads alone.
LEMMA WizardStepsKeep ==
  ASSUME ArrivalInv, NEW w \in Wizards,
         \/ OpenSetup(w) \/ GoBack(w) \/ OfferFolder(w)
         \/ \E c \in Clouds : SignIn(w, c)
         \/ \E h \in Homes : ForgetFolder(w, h)
         \/ \E wish \in Wishes : CollectFolder(w, wish[1], wish[2])
  PROVE  ArrivalInv'
<1>1. /\ UNCHANGED <<registry, inquiries, accepted>>
      /\ DOMAIN setups' = DOMAIN setups
      /\ \A v \in Wizards \ {w} : setups'[v] = setups[v]
      /\ DOMAIN setups'[w] = DOMAIN setups[w]
      /\ setups'[w].sized = setups[w].sized
  <2> USE DEF ArrivalInv, SetupsShape
  <2>1. CASE OpenSetup(w) BY <2>1 DEF OpenSetup
  <2>2. CASE GoBack(w) \/ OfferFolder(w) BY <2>2 DEF GoBack, OfferFolder
  <2>3. ASSUME NEW c \in Clouds, SignIn(w, c) PROVE <1>1!:
    BY <2>3 DEF SignIn
  <2>4. ASSUME NEW h \in Homes, ForgetFolder(w, h) PROVE <1>1!:
    BY <2>4 DEF ForgetFolder
  <2>5. ASSUME NEW wish \in Wishes, CollectFolder(w, wish[1], wish[2]) PROVE <1>1!:
    BY <2>5 DEF CollectFolder
  <2> QED
    BY <2>1, <2>2, <2>3, <2>4, <2>5
<1> QED
  BY <1>1 DEF ArrivalInv, SetupsShape, RegistryShape, InquiriesFine, SizesAccepted,
              FirstSyncsAreReviewed

\* A list of spaces that arrives changes no answer.
LEMMA SpacesKeep ==
  ASSUME ArrivalInv, NEW s, SpacesFound(s) PROVE ArrivalInv'
<1>1. /\ UNCHANGED <<registry, inquiries, accepted>>
      /\ DOMAIN setups' = DOMAIN setups
      /\ \A v \in Wizards : /\ DOMAIN setups'[v] = DOMAIN setups[v]
                            /\ setups'[v].sized = setups[v].sized
  BY DEF ArrivalInv, SetupsShape, SpacesFound
<1> QED
  BY <1>1 DEF ArrivalInv, SetupsShape, RegistryShape, InquiriesFine, SizesAccepted,
              FirstSyncsAreReviewed

\* A new probe claims nothing.
LEMMA InquiresKeeps ==
  ASSUME InquiriesFine, NEW who \in Wizards \cup {TheDialog}, NEW source, NEW folders,
         Inquires(who, source, folders), who = TheDialog => 1 \in DOMAIN folders
  PROVE  InquiriesFine'
<1> DEFINE q == [stage |-> "probing", who |-> who, cloud |-> source, folders |-> folders,
                 threshold |-> Threshold, remote |-> Unknown, asked |-> {}, altered |-> FALSE,
                 truth |-> [p \in Places \cup {NoPlace} |-> "nowhere"], due |-> <<>>]
<1>1. PICK i \in Asking : inquiries' = [inquiries EXCEPT ![i] = q]
  BY DEF Inquires, InquiriesFine
<1>2. Fine(q)
  BY DEF Fine, InquiryShape, ToldTrue, ReviewAsksAll
<1> HIDE DEF q
<1> QED
  BY <1>1, <1>2 DEF InquiriesFine

\* Neither does one that is over.
LEMMA UnaskedKeeps ==
  ASSUME InquiriesFine, NEW i \in Asking, inquiries' = [inquiries EXCEPT ![i] = Unasked]
  PROVE  InquiriesFine'
<1>1. Fine(Unasked)
  BY DEF Fine, InquiryShape, ToldTrue, ReviewAsksAll, Unasked
<1> QED
  BY <1>1 DEF InquiriesFine

\* What an answer says of the first folder is so, when it says anything.
LEMMA ProbeKeeps ==
  ASSUME ArrivalInv, NEW i \in Asking, ProbeAnswers(i) PROVE ArrivalInv'
<1> DEFINE q == inquiries[i]
           new == inquiries'[i]
           place == IF q.cloud \in OpenClouds THEN q.folders[1].space ELSE q.folders[1].place
           truth == [p \in Places \cup {NoPlace} |->
                        IF p = NoPlace THEN "nowhere" ELSE holdings[q.cloud][p]]
           amount == truth[place]
           Tell(size) == [known |-> TRUE, filled |-> Filled(amount), size |-> size]
           Says(remote) == inquiries' = [inquiries EXCEPT ![i].stage = "answered",
                                             ![i].remote = remote, ![i].truth = truth]
           Told(remote) == remote.known =>
               /\ remote.filled = (amount # "nothing")
               /\ remote.size # "unknown" /\ amount = "much" => remote.size = "over"
<1>1. InquiryShape(q) /\ ReviewAsksAll(q) /\ q.stage = "probing"
  BY DEF ArrivalInv, InquiriesFine, Fine, ProbeAnswers
<1>2. Told(Unknown)
  BY DEF Unknown
<1>3. ASSUME NEW size, size = "unknown" \/ size \in TreeSize(amount) \/ size \in QuotaUsed(amount)
      PROVE  Told(Tell(size))
  BY <1>3 DEF Filled, TreeSize, QuotaUsed
<1>4. \/ Says(Unknown) \/ Says(Tell("unknown"))
      \/ \E size \in TreeSize(amount) \cup QuotaUsed(amount) : Says(Tell(size))
  BY Zenon DEF ProbeAnswers
<1> HIDE DEF Told, Tell, Says, amount
<1>5. PICK remote : Says(remote) /\ Told(remote)
  BY <1>2, <1>3, <1>4
<1>6. /\ DOMAIN new = DOMAIN q /\ new.stage = "answered" /\ new.remote = remote
      /\ new.truth = truth /\ new.cloud = q.cloud /\ new.folders = q.folders
      /\ new.who = q.who /\ new.altered = q.altered
  <2> HIDE DEF truth
  <2> QED
    BY <1>1, <1>5 DEF ArrivalInv, InquiriesFine, InquiryShape, Says
<1>7. Fine(new)
  <2>1. ToldTrue(new)
    BY <1>6, <1>5 DEF ToldTrue, Aim, Told, amount
  <2> HIDE DEF truth, new
  <2> QED
    BY <1>1, <1>6, <2>1 DEF Fine, InquiryShape, ReviewAsksAll
<1>8. DOMAIN inquiries' = DOMAIN inquiries /\ \A j \in Asking \ {i} : inquiries'[j] = inquiries[j]
  <2> HIDE DEF truth
  <2> QED
    BY <1>5 DEF ArrivalInv, InquiriesFine, Says
<1>9. UNCHANGED <<setups, registry, accepted>>
  BY DEF ProbeAnswers
<1> QED
  BY <1>7, <1>8, <1>9
  DEF ArrivalInv, SetupsShape, RegistryShape, InquiriesFine, SizesAccepted, FirstSyncsAreReviewed

\* The wizard is told: the review that follows asks all that is due, of the
\* folders that were probed; without an answer nothing is claimed to be known.
LEMMA SetupHearsKeeps ==
  ASSUME ArrivalInv, NEW i \in Asking, SetupHears(i) PROVE ArrivalInv'
<1> DEFINE q == inquiries[i]
           w == q.who
           folders == setups[w].folders
           changed == folders # q.folders \/ setups[w].cloud # q.cloud
           due == Due(folders, q.cloud, q.truth, q.remote.size # "unknown", Threshold)
           asked == Warnings(q.remote, \A h \in HomesOf(folders) : LocalEmpty(h),
                             Journals(folders), Threshold)
<1>1. /\ Fine(q) /\ q.stage = "answered" /\ w \in Wizards /\ UNCHANGED accepted
      /\ SizesAccepted /\ InquiriesFine
  BY DEF ArrivalInv, InquiriesFine, Fine, InquiryShape, SetupHears
<1>2. CASE q.remote.known
  <2> DEFINE new == inquiries'[i]
  <2>1. /\ inquiries' = [inquiries EXCEPT ![i].stage = "review", ![i].folders = folders,
                                          ![i].asked = asked, ![i].altered = changed,
                                          ![i].due = due]
        /\ UNCHANGED <<setups, registry>>
    BY <1>2 DEF SetupHears
  <2>2. ~changed => AsksAll(asked, due, q.remote.known)
    <3> SUFFICES ASSUME ~changed PROVE AsksAll(asked, due, q.remote.known)
      OBVIOUS
    <3> DEFINE empty == \A h \in HomesOf(folders) : LocalEmpty(h)
    <3>1. empty /\ 1 \in DOMAIN folders => LocalEmpty(folders[1].home)
      BY DEF HomesOf
    <3>2. LET amount == q.truth[Aim(q.cloud, folders[1])]
          IN  /\ q.remote.filled = (amount # "nothing")
              /\ q.remote.size # "unknown" /\ amount = "much" => q.remote.size = "over"
      BY <1>1, <1>2 DEF Fine, ToldTrue
    <3> HIDE DEF empty, folders, q
    <3> QED
      BY <3>1, <3>2, DueIsAsked DEF empty
  <2> HIDE DEF asked, due, changed, folders
  <2>3. /\ DOMAIN new = DOMAIN q /\ new.stage = "review" /\ new.who = w
        /\ new.asked = asked /\ new.due = due /\ new.altered = changed
        /\ new.remote = q.remote
    BY <1>1, <2>1 DEF InquiriesFine, Fine, InquiryShape
  <2>4. Fine(new)
    <3>1. w # TheDialog
      BY <1>1 DEF Wizards, TheDialog
    <3> HIDE DEF new
    <3> QED
      BY <1>1, <1>2, <2>2, <2>3, <3>1 DEF Fine, InquiryShape, ToldTrue, ReviewAsksAll
  <2>5. InquiriesFine'
    BY <1>1, <2>1, <2>4 DEF InquiriesFine
  <2> QED
    BY <1>1, <2>1, <2>5
    DEF ArrivalInv, SetupsShape, RegistryShape, SizesAccepted, FirstSyncsAreReviewed
<1>3. CASE ~q.remote.known
  <2>1. /\ inquiries' = [inquiries EXCEPT ![i] = Unasked]
        /\ FinishSetup(w, homes, setups[w].sized, {}, due, FALSE, changed)
    BY <1>3 DEF SetupHears
  <2>2. InquiriesFine'
    BY <1>1, <2>1, UnaskedKeeps
  <2>3. setups[w].sized => w \in accepted'
    BY <1>1 DEF SizesAccepted
  <2> HIDE DEF due, changed
  <2> DEFINE sized == setups[w].sized
  <2> HIDE DEF w, sized
  <2>4. RegistryShape' /\ SetupsShape' /\ SizesAccepted' /\ FirstSyncsAreReviewed'
    BY <1>1, <2>1, <2>3, FinishKeeps DEF sized
  <2> QED
    BY <2>2, <2>4 DEF ArrivalInv
<1> QED
  BY <1>2, <1>3

\* The dialog is told: with nothing to ask nothing is due.
LEMMA DialogHearsKeeps ==
  ASSUME ArrivalInv, NEW i \in Asking, DialogHears(i) PROVE ArrivalInv'
<1> DEFINE q == inquiries[i]
           home == q.folders[1].home
           asked == Warnings(q.remote, LocalEmpty(home), Journals(q.folders), q.threshold)
           due == Due(q.folders, q.cloud, q.truth, q.remote.size # "unknown", q.threshold)
<1>1. /\ Fine(q) /\ q.stage = "answered" /\ q.who = TheDialog
      /\ UNCHANGED <<setups, accepted>> /\ InquiriesFine
  BY DEF ArrivalInv, InquiriesFine, DialogHears
<1>2. 1 \in DOMAIN q.folders /\ ~q.altered
  BY <1>1 DEF Fine, ReviewAsksAll
<1>3. 1 \in DOMAIN due
  BY <1>2 DEF Due
<1>4. AsksAll(asked, due, q.remote.known)
  <2> DEFINE empty == LocalEmpty(home)
             folders == q.folders
  <2>1. empty /\ 1 \in DOMAIN folders => LocalEmpty(folders[1].home)
    OBVIOUS
  <2>2. empty \in BOOLEAN
    BY DEF LocalEmpty
  <2>3. q.remote.known =>
            LET amount == q.truth[Aim(q.cloud, folders[1])]
            IN  /\ q.remote.filled = (amount # "nothing")
                /\ q.remote.size # "unknown" /\ amount = "much" => q.remote.size = "over"
    BY <1>1 DEF Fine, ToldTrue
  <2> HIDE DEF empty, folders, q
  <2> QED
    BY <2>1, <2>2, <2>3, DueIsAsked DEF empty, folders
<1> HIDE DEF asked, due
<1>5. CASE asked # {}
  <2> DEFINE new == inquiries'[i]
  <2>1. /\ inquiries' = [inquiries EXCEPT ![i].stage = "review", ![i].asked = asked,
                                          ![i].due = due]
        /\ UNCHANGED registry
    BY <1>5 DEF DialogHears, asked, due
  <2>2. /\ DOMAIN new = DOMAIN q /\ new.stage = "review" /\ new.who = TheDialog
        /\ new.asked = asked /\ new.due = due /\ new.altered = q.altered
        /\ new.remote = q.remote /\ new.folders = q.folders
    BY <1>1, <2>1 DEF InquiriesFine, Fine, InquiryShape
  <2>3. Fine(new)
    <3> HIDE DEF new
    <3> QED
      BY <1>1, <1>2, <1>3, <1>4, <2>2 DEF Fine, InquiryShape, ToldTrue, ReviewAsksAll
  <2>4. InquiriesFine'
    BY <1>1, <2>1, <2>3 DEF InquiriesFine
  <2> QED
    BY <1>1, <2>1, <2>4
    DEF ArrivalInv, SetupsShape, RegistryShape, SizesAccepted, FirstSyncsAreReviewed
<1>6. CASE asked = {}
  <2>1. /\ inquiries' = [inquiries EXCEPT ![i] = Unasked] /\ CommitFolder(q, {}, due)
    BY <1>6 DEF DialogHears, asked, due
  <2>2. InquiriesFine'
    BY <1>1, <2>1, UnaskedKeeps
  <2> HIDE DEF q
  <2>3. RegistryShape' /\ FirstSyncsAreReviewed'
    BY <1>1, <1>3, <1>4, <1>6, <2>1, CommitKeeps
  <2> QED
    BY <1>1, <2>2, <2>3 DEF ArrivalInv, SetupsShape, SizesAccepted
<1> QED
  BY <1>5, <1>6

\* The user decides: what the review asked is what the entry says was asked.
LEMMA DecidesKeeps ==
  ASSUME ArrivalInv, NEW i \in Asking, NEW fresh \in BOOLEAN, Decides(i, fresh)
  PROVE  ArrivalInv'
<1> DEFINE q == inquiries[i]
           w == q.who
<1>1. /\ Fine(q) /\ q.stage = "review" /\ InquiriesFine /\ SizesAccepted
      /\ accepted' = accepted \cup (IF "large" \in q.asked THEN {w} ELSE {})
      /\ inquiries' = [inquiries EXCEPT ![i] = Unasked]
  BY DEF ArrivalInv, InquiriesFine, Decides
<1>2. InquiriesFine'
  BY <1>1, UnaskedKeeps
<1>3. ~q.altered => AsksAll(q.asked, q.due, q.remote.known)
  BY <1>1 DEF Fine, ReviewAsksAll
<1>4. CASE w = TheDialog
  <2>1. CommitFolder(q, q.asked, q.due) /\ UNCHANGED setups
    BY <1>4 DEF Decides
  <2>2. ~q.altered /\ 1 \in DOMAIN q.due
    BY <1>1, <1>4 DEF Fine, ReviewAsksAll
  <2>3. "large" \in q.asked => TheDialog \in accepted'
    BY <1>1, <1>4
  <2> DEFINE asked == q.asked
             due == q.due
  <2> HIDE DEF q, asked, due
  <2>4. RegistryShape' /\ FirstSyncsAreReviewed'
    BY <1>1, <1>3, <2>1, <2>2, <2>3, CommitKeeps DEF asked, due
  <2> QED
    BY <1>1, <1>2, <2>1, <2>4 DEF ArrivalInv, SetupsShape, SizesAccepted
<1>5. CASE w # TheDialog
  <2> DEFINE sized == setups[w].sized \/ "large" \in q.asked
  <2>1. w \in Wizards /\ q.remote.known
    BY <1>1, <1>5 DEF Fine, InquiryShape, ReviewAsksAll
  <2>2. PICK after : FinishSetup(w, after, sized, q.asked, q.due, TRUE, q.altered)
    BY <1>5 DEF Decides
  <2>3. sized => w \in accepted'
    BY <1>1, <2>1 DEF SizesAccepted
  <2>4. ~q.altered => AsksAll(q.asked, q.due, TRUE)
    BY <1>3, <2>1 DEF AsksAll
  <2> DEFINE asked == q.asked
             due == q.due
             altered == q.altered
  <2> HIDE DEF sized, w, q, asked, due, altered
  <2>5. RegistryShape' /\ SetupsShape' /\ SizesAccepted' /\ FirstSyncsAreReviewed'
    <3>1. FinishSetup(w, after, sized, asked, due, TRUE, altered)
      BY <2>2 DEF asked, due, altered
    <3>2. TRUE /\ ~altered => AsksAll(asked, due, TRUE)
      BY <2>4 DEF asked, due, altered
    <3> QED
      BY <1>1, <2>1, <2>3, <3>1, <3>2, FinishKeeps
  <2> QED
    BY <1>2, <2>5 DEF ArrivalInv
<1> QED
  BY <1>4, <1>5

\* What happens around the wizards and the dialog, and what they give up.
LEMMA OutsideKeeps ==
  ASSUME ArrivalInv,
         \/ \E c \in Clouds : AccountRemoved(c) \/ \E p \in Places : OthersWrite(c, p)
         \/ \E h \in Homes : HomeChanges(h)
         \/ ThresholdSet
  PROVE  ArrivalInv'
<1>1. UNCHANGED <<setups, inquiries, accepted>>
  BY DEF AccountRemoved, OthersWrite, HomeChanges, ThresholdSet
<1>2. RegistryShape' /\ FirstSyncsAreReviewed'
  <2>1. CASE UNCHANGED registry
    BY <1>1, <2>1 DEF ArrivalInv, RegistryShape, FirstSyncsAreReviewed
  <2>2. ASSUME NEW c \in Clouds, registry' = [registry EXCEPT ![c] = Unconfigured]
        PROVE  RegistryShape' /\ FirstSyncsAreReviewed'
    BY <1>1, <2>2 DEF ArrivalInv, RegistryShape, FirstSyncsAreReviewed, Unconfigured
  <2> QED
    BY <2>1, <2>2 DEF AccountRemoved, OthersWrite, HomeChanges, ThresholdSet
<1> QED
  BY <1>1, <1>2 DEF ArrivalInv, SetupsShape, InquiriesFine, SizesAccepted

\* A review that is cancelled configures nothing.
LEMMA CancelsKeeps ==
  ASSUME ArrivalInv, NEW i \in Asking, Cancels(i) PROVE ArrivalInv'
<1>1. /\ inquiries' = [inquiries EXCEPT ![i] = Unasked] /\ UNCHANGED <<registry, accepted>>
      /\ DOMAIN setups' = DOMAIN setups
      /\ \A v \in Wizards : /\ DOMAIN setups'[v] = DOMAIN setups[v]
                            /\ setups'[v].sized = setups[v].sized
  BY DEF ArrivalInv, SetupsShape, Cancels
<1>2. InquiriesFine'
  BY <1>1, UnaskedKeeps DEF ArrivalInv
<1> QED
  BY <1>1, <1>2 DEF ArrivalInv, SetupsShape, RegistryShape, SizesAccepted,
                    FirstSyncsAreReviewed

\* Neither Finish nor Add configures a folder before its probe.
LEMMA AsksKeep ==
  ASSUME ArrivalInv,
         \/ \E w \in Wizards : FinishClicked(w)
         \/ \E c \in Clouds, wish \in Wishes : AddClicked(c, wish[1], wish[2])
  PROVE  ArrivalInv'
<1>1. ASSUME NEW w \in Wizards, FinishClicked(w) PROVE ArrivalInv'
  <2>1. UNCHANGED accepted
    BY <1>1 DEF FinishClicked
  <2>2. CASE setups[w].folders = <<>>
    <3> DEFINE sized == setups[w].sized
    <3>1. FinishSetup(w, homes, sized, {}, <<>>, FALSE, FALSE) /\ UNCHANGED inquiries
      BY <1>1, <2>2 DEF FinishClicked
    <3>2. sized => w \in accepted'
      BY <2>1 DEF ArrivalInv, SizesAccepted
    <3> HIDE DEF sized
    <3>3. RegistryShape' /\ SetupsShape' /\ SizesAccepted' /\ FirstSyncsAreReviewed'
      BY <2>1, <3>1, <3>2, FinishKeeps
    <3> QED
      BY <3>1, <3>3 DEF ArrivalInv, InquiriesFine
  <2>3. CASE setups[w].folders # <<>>
    <3> DEFINE source == setups[w].cloud
               folders == setups[w].folders
    <3>1. Inquires(w, source, folders) /\ UNCHANGED <<setups, registry>>
      BY <1>1, <2>3 DEF FinishClicked
    <3>2. w # TheDialog
      BY DEF Wizards, TheDialog
    <3> HIDE DEF source, folders
    <3>3. InquiriesFine'
      BY <3>1, <3>2, InquiresKeeps DEF ArrivalInv
    <3> QED
      BY <2>1, <3>1, <3>3
      DEF ArrivalInv, SetupsShape, RegistryShape, SizesAccepted, FirstSyncsAreReviewed
  <2> QED
    BY <2>2, <2>3
<1>2. ASSUME NEW c \in Clouds, NEW home, NEW text, AddClicked(c, home, text) PROVE ArrivalInv'
  <2> DEFINE folders == <<Pair(c, home, RemotePathFor(home, text), KnownSpace(c))>>
  <2>1. Inquires(TheDialog, c, folders) /\ UNCHANGED <<setups, registry, accepted>>
    BY <1>2 DEF AddClicked
  <2>2. 1 \in DOMAIN folders
    OBVIOUS
  <2> HIDE DEF folders
  <2>3. InquiriesFine'
    BY <2>1, <2>2, InquiresKeeps DEF ArrivalInv
  <2> QED
    BY <2>1, <2>3
    DEF ArrivalInv, SetupsShape, RegistryShape, SizesAccepted, FirstSyncsAreReviewed
<1> QED
  BY <1>1, <1>2

\* Every step of the setup keeps the invariant.
LEMMA ArrivalStep == ArrivalInv /\ [FirstSyncNext]_firstSyncVars => ArrivalInv'
<1> SUFFICES ASSUME ArrivalInv, [FirstSyncNext]_firstSyncVars PROVE ArrivalInv'
  OBVIOUS
<1>1. DOMAIN setups = Wizards /\ DOMAIN inquiries = Asking
  BY DEF ArrivalInv, SetupsShape, InquiriesFine
<1>2. CASE \E i \in Asking : ProbeAnswers(i) \/ SetupHears(i) \/ DialogHears(i) \/ Cancels(i)
  BY <1>2, ProbeKeeps, SetupHearsKeeps, DialogHearsKeeps, CancelsKeeps
<1>3. CASE \E i \in Asking : \E fresh \in BOOLEAN : Decides(i, fresh)
  BY <1>3, DecidesKeeps
<1>4. CASE \E s \in searches : SpacesFound(s)
  BY <1>4, SpacesKeep
<1>5. CASE UNCHANGED firstSyncVars
  BY <1>5 DEF firstSyncVars, ArrivalInv, SetupsShape, RegistryShape, InquiriesFine,
              SizesAccepted, FirstSyncsAreReviewed
<1> QED
  BY <1>1, <1>2, <1>3, <1>4, <1>5, WizardStepsKeep, AsksKeep, OutsideKeeps DEF FirstSyncNext

\* For any accounts, folders and servers, and any number of wizards, probes and
\* changes underneath them: no folder comes into the configuration with
\* something unasked that the user should have been asked (sync_safety.rs).
THEOREM ArrivalsAreReviewed == FirstSyncSpec => []FirstSyncsAreReviewed
<1>1. ArrivalInv => FirstSyncsAreReviewed
  BY DEF ArrivalInv
<1> QED
  BY <1>1, InitArrivals, ArrivalStep, PTL DEF FirstSyncSpec

-----------------------------------------------------------------------------
(* The episodes of MCFolder.                                               *)

\* What the steps of an episode may change.
episodeVars == <<vars, episode, guardVars, reviewVars, firstSyncVars>>

\* In the episode of the gates the schedulers take their own steps.
LEMMA GatesTakeSchedulerSteps ==
  [FolderNext]_episodeVars => episode' = episode /\ (episode = "gates" => [Next]_vars)
<1> SUFFICES ASSUME [FolderNext]_episodeVars
             PROVE  episode' = episode /\ (episode = "gates" => [Next]_vars)
  OBVIOUS
<1>1. CASE UNCHANGED episodeVars
  BY <1>1 DEF episodeVars
<1>2. CASE FolderNext
  BY <1>2 DEF FolderNext
<1> QED
  BY <1>1, <1>2

\* What the run checks of the gates, for any batches, folders and inputs other than
\* the silent ones (quiet hours, allowed networks, manual runs: Silent): nothing
\* queued is stranded behind a gate once the reason for it is gone (scheduler.rs).
THEOREM GatesStrandNothing ==
  ASSUME Silent \cap Inputs = {} PROVE FolderSpec => []NothingStranded
<1> DEFINE Inv == episode = "gates" => AllWork /\ MindedInv
<1>1. FolderInit => Inv
  BY InitType, InitWork, InitMinded DEF FolderInit, AllWork
<1>2. Inv /\ [FolderNext]_episodeVars => Inv'
  BY GatesTakeSchedulerSteps, WorkStep, MindedStep
<1>3. Inv => NothingStranded
  BY MindedIsNotStranded DEF NothingStranded
<1> QED
  BY <1>1, <1>2, <1>3, PTL DEF FolderSpec, episodeVars

\* ... and, for one batch of deletions, any folders and inputs but a restore, a
\* deletion while a run is under way and the switch of the guard (PastReview): no
\* mass deletion goes out before the user has approved it.
THEOREM GatesAwaitReview ==
  ASSUME PastReview \cap Inputs = {}, \A a, b \in Batches : a = b
  PROVE  FolderSpec => []MassDeletionsWait
<1> DEFINE Inv == episode = "gates" => AllReviewed
<1>1. FolderInit => Inv
  BY InitType, InitWork DEF FolderInit, AllReviewed
<1>2. Inv /\ [FolderNext]_episodeVars => Inv'
  BY GatesTakeSchedulerSteps, ReviewStep
<1>3. Inv => MassDeletionsWait
  BY OneBatchNeedsApproval DEF MassDeletionsWait
<1> QED
  BY <1>1, <1>2, <1>3, PTL DEF FolderSpec, episodeVars
=============================================================================
