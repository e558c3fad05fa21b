------------------------------ MODULE Download ------------------------------
(***************************************************************************)
(* One file coming down from the server: download() of the engine's        *)
(* transfer.rs with its two ways of fetching (one stream, or byte ranges   *)
(* in parallel), its part file and the two sidecars beside it, its retries *)
(* and its checksum, against a server whose file may change at any moment, *)
(* a disk that may refuse and a process that may be killed at any step;    *)
(* and the engine's record of the runs that failed (engine.rs, db.rs).     *)
(*                                                                         *)
(* A file is a sequence of blocks, and a block is the version whose bytes  *)
(* it holds: version v is the sequence v, v, ..., Size[v] times.  Bytes    *)
(* nobody wrote (set_len extends the part file) are Hole.                  *)
(***************************************************************************)
EXTENDS Integers, Sequences, FiniteSets

CONSTANTS
    Size,           \* Size[v]: blocks of version v; its domain is the versions
    Threshold,      \* multipart_threshold, in blocks
    MaxRetries,     \* max_retries
    DownloadSettings,   \* the circumstances to explore, see Settings
    MaxRemoteEdits, MaxLocalDeletes     \* bounds

ASSUME SizeAssumption ==
    DOMAIN Size \subseteq Nat \ {0} /\ \A v \in DOMAIN Size : Size[v] \in Nat \ {0}
ASSUME ThresholdAssumption == Threshold \in Nat /\ MaxRetries \in Nat

\* checksum: the server lists one; streams: multipart_streams; faults: what
\* may go wrong, "edit", "disk", "keep" (a file cannot be removed) and "kill" among
\* it; most: a bound, how many faults strike.
DownloadFaults == {"drop", "refuse", "probe", "norange", "cancel", "edit", "disk", "keep", "kill"}
Settings == [checksum : BOOLEAN, streams : Nat, faults : SUBSET DownloadFaults,
             most : Nat]

ASSUME SettingsAssumption == DownloadSettings \subseteq Settings

VARIABLES
    setting,    \* the circumstances of this behaviour
    remote,     \* the version the server holds
    dest,       \* the file at its place in the synced folder
    part,       \* <dest>.part
    rangesDone, \* <dest>.part.ranges: the byte ranges marked complete
    partOf,     \* <dest>.part.etag: the version the part was started from
    job,        \* the download in progress
    ended,      \* how the last download ended
    kept,       \* history: the last download could not remove something
    downFailures, \* the journal's row of failed runs: the version and how many
    downFaults, remoteEdits, localDeletes   \* spent bounds

downloadVars ==
    <<setting, remote, dest, part, rangesDone, partOf, job, ended, kept, downFailures,
      downFaults, remoteEdits, localDeletes>>

Versions == DOMAIN Size
Hole == 0
NoVersion == 0
Absent == <<-1>>
Block == Versions \cup {Hole}

Whole(v) == [i \in 1..Size[v] |-> v]

Min2(a, b) == IF a <= b THEN a ELSE b
Max2(a, b) == IF a <= b THEN b ELSE a

\* Mutant: the division's remainder is not given to the last range.
SplitRangesShort(size, streams) ==
    LET n == Min2(Max2(streams, 1), size)
        chunk == size \div n
    IN  {<<i * chunk, i * chunk + chunk - 1>> : i \in 0..(n - 1)}

\* split_ranges: contiguous ranges of offsets, the last takes the remainder.
SplitRanges(size, streams) ==
    LET n == Min2(Max2(streams, 1), size)
        chunk == size \div n
    IN  {<<i * chunk, IF i + 1 = n THEN size - 1 ELSE i * chunk + chunk - 1>> : i \in 0..(n - 1)}

Idle == [pc |-> "idle", plan |-> NoVersion, attempt |-> 0, seen |-> NoVersion,
         pending |-> {}, failed |-> FALSE, verdict |-> "fail", after |-> "fail"]
NoFailure == [of |-> NoVersion, count |-> 0]

DownloadInit ==
    /\ setting \in DownloadSettings
    /\ remote \in Versions
    /\ dest = Absent /\ part = Absent /\ rangesDone = {} /\ partOf = NoVersion
    /\ job = Idle /\ ended = "never" /\ kept = FALSE /\ downFailures = NoFailure
    /\ downFaults = 0 /\ remoteEdits = 0 /\ localDeletes = 0

At(pc) == job.pc = pc
Goto(pc) == job' = [job EXCEPT !.pc = pc]

\* The attempt failed: the part goes; then comes another attempt if the error is
\* retryable ("retry"), or the end, which the engine counts ("fail") unless the
\* run was cancelled or the login refused ("uncounted").
Failing(verdict) == [job EXCEPT !.pc = "discard", !.after = verdict]

\* The download returns; the run has yet to note how.
Returns(how) == job' = [Idle EXCEPT !.pc = "over", !.plan = job.plan] /\ ended' = how

Strikes(fault) ==
    /\ fault \in setting.faults /\ downFaults < setting.most
    /\ downFaults' = downFaults + 1

Server == <<setting, remote, remoteEdits>>
Disk   == <<dest, part, rangesDone, partOf>>
Calm   == <<ended, kept, downFailures, localDeletes>>

\* The file is removed, or cannot be: nobody looks.
Removes(thing, nothing) ==
    \/ thing' = nothing /\ UNCHANGED <<kept, downFaults>>
    \/ UNCHANGED thing /\ kept' = TRUE /\ Strikes("keep")

-----------------------------------------------------------------------------
\* filter_blacklisted: a version that failed in BLACKLIST_AFTER runs is left alone
\* until the file changes.
BlacklistAfter == 3
GivenUp == downFailures.of = remote /\ downFailures.count >= BlacklistAfter

\* The engine lists the server and plans a download of the listed version.
StartDownload ==
    /\ At("idle") /\ dest # Whole(remote) /\ ~GivenUp
    /\ job' = [Idle EXCEPT !.pc = "attempt", !.plan = remote] /\ kept' = FALSE
    /\ UNCHANGED <<Server, Disk, ended, downFailures, localDeletes, downFaults>>

\* The loop head looks at the cancel token, then picks the way to fetch: ranges
\* for a large file, when a probe of one byte answers 206.
Cancelled ==
    /\ At("attempt") /\ Strikes("cancel")
    /\ job' = Failing("uncounted")
    /\ UNCHANGED <<Server, Disk, Calm>>

Large == setting.streams > 1 /\ Size[job.plan] >= Threshold

ChooseRanges ==
    /\ At("attempt") /\ Large
    /\ Goto("versions")
    /\ UNCHANGED <<Server, Disk, Calm, downFaults>>

ChooseStream ==
    /\ At("attempt")
    /\ IF Large THEN Strikes("probe") ELSE UNCHANGED downFaults
    /\ Goto("get")
    /\ UNCHANGED <<Server, Disk, Calm>>

-----------------------------------------------------------------------------
\* try_download: resume behind the bytes the part already has.
Offset == IF part = Absent THEN 0 ELSE Len(part)

OpenStream ==
    /\ At("get") /\ (Offset = 0 \/ Offset < Size[remote])
    /\ part' = IF part = Absent THEN <<>> ELSE part
    /\ job' = [job EXCEPT !.pc = "stream", !.seen = remote]
    /\ UNCHANGED <<Server, dest, rangesDone, partOf, Calm, downFaults>>

\* The server answers 200 and sends the whole file: the part is truncated.
RangeIgnored ==
    /\ At("get") /\ Offset > 0 /\ Strikes("norange")
    /\ part' = <<>>
    /\ job' = [job EXCEPT !.pc = "stream", !.seen = remote]
    /\ UNCHANGED <<Server, dest, rangesDone, partOf, Calm>>

\* The range starts past the end: 416, which is not retryable.
OutOfRange ==
    /\ At("get") /\ Offset > 0 /\ Offset >= Size[remote]
    /\ job' = Failing("fail")
    /\ UNCHANGED <<Server, Disk, Calm, downFaults>>

ReadBlock ==
    /\ At("stream") /\ Len(part) < Size[job.seen]
    /\ part' = Append(part, job.seen)
    /\ UNCHANGED <<Server, dest, rangesDone, partOf, job, Calm, downFaults>>

StreamEnds ==
    /\ At("stream") /\ Len(part) = Size[job.seen]
    /\ Goto("verify")
    /\ UNCHANGED <<Server, Disk, Calm, downFaults>>

-----------------------------------------------------------------------------
\* try_download_ranges: a part of another version is discarded first.
KeepsPart == partOf = job.plan

CheckPartVersion ==
    /\ At("versions")
    /\ job' = IF KeepsPart THEN [job EXCEPT !.pc = "allocate"]
              ELSE [job EXCEPT !.pc = "discard", !.after = "allocate"]
    /\ UNCHANGED <<Server, Disk, Calm, downFaults>>

\* The file is sized, the version remembered and the missing ranges planned.
Resized(data, n) ==
    [i \in 1..n |-> IF data # Absent /\ i <= Len(data) THEN data[i] ELSE Hole]

Allocate ==
    /\ At("allocate")
    /\ part' = Resized(part, Size[job.plan])
    /\ job' = [job EXCEPT !.pc = "remember"]
    /\ UNCHANGED <<Server, dest, rangesDone, partOf, Calm, downFaults>>

RememberVersion ==
    /\ At("remember")
    /\ partOf' = job.plan
    /\ job' = [job EXCEPT !.pc = "fetch", !.failed = FALSE, !.verdict = "fail",
                          !.pending = SplitRanges(Size[job.plan], setting.streams) \ rangesDone]
    /\ UNCHANGED <<Server, dest, part, rangesDone, Calm, downFaults>>

\* One thread per range: its bytes, of whatever the server holds now, are
\* written at their offset and the range is marked.
FetchRange(r) ==
    /\ At("fetch") /\ r \in job.pending /\ r[2] < Size[remote]
    /\ part' = [i \in DOMAIN part |-> IF i - 1 \in r[1]..r[2] THEN remote ELSE part[i]]
    /\ rangesDone' = rangesDone \cup {r}
    /\ job' = [job EXCEPT !.pending = @ \ {r}]
    /\ UNCHANGED <<Server, dest, partOf, Calm, downFaults>>

\* The range came back short, or starts past the end of the file; only the
\* first error of the threads decides about a retry.
FetchFails(r, verdict) ==
    job' = [job EXCEPT !.pending = @ \ {r}, !.failed = TRUE,
                       !.verdict = IF job.failed THEN @ ELSE verdict]

RangeShort(r) ==
    /\ At("fetch") /\ r \in job.pending /\ r[2] >= Size[remote]
    /\ FetchFails(r, IF r[1] < Size[remote] THEN "retry" ELSE "fail")
    /\ UNCHANGED <<Server, Disk, Calm, downFaults>>

\* A thread that starts after a failure does not fetch at all.
RangeSkipped(r) ==
    /\ At("fetch") /\ r \in job.pending /\ job.failed
    /\ job' = [job EXCEPT !.pending = @ \ {r}]
    /\ UNCHANGED <<Server, Disk, Calm, downFaults>>

JoinRanges ==
    /\ At("fetch") /\ job.pending = {}
    /\ job' = IF job.failed THEN Failing(job.verdict) ELSE [job EXCEPT !.pc = "verify"]
    /\ UNCHANGED <<Server, Disk, Calm, downFaults>>

-----------------------------------------------------------------------------
\* The bytes match the listed checksum, when there is one.
Verified == setting.checksum => part = Whole(job.plan)

Verify ==
    /\ At("verify")
    /\ job' = IF Verified THEN [job EXCEPT !.pc = "rename"] ELSE Failing("retry")
    /\ UNCHANGED <<Server, Disk, Calm, downFaults>>

\* The part, given the listed mtime, takes the file's place.
Rename ==
    /\ job.pc \in {"rename", "replace"}
    /\ dest' = part /\ part' = Absent
    /\ Goto("sweepRanges")
    /\ UNCHANGED <<Server, rangesDone, partOf, Calm, downFaults>>

\* It cannot: the old file is removed, if it can be, and the part renamed again.
RenameFails ==
    /\ At("rename") /\ Strikes("disk")
    /\ dest' \in {dest, Absent}
    /\ Goto("replace")
    /\ UNCHANGED <<Server, part, rangesDone, partOf, Calm>>

\* The folder of the file cannot be made, the part not be read for its checksum,
\* its mtime not be set, or the second rename fails: the download returns at once,
\* and the part and its sidecars stay.
ReturnsAtOnce ==
    /\ \/ At("attempt") /\ job.attempt = 0
       \/ At("verify") /\ setting.checksum
       \/ job.pc \in {"rename", "replace"}
    /\ Strikes("disk")
    /\ Returns("unfinished")
    /\ UNCHANGED <<Server, Disk, kept, downFailures, localDeletes>>

\* Mutant: the range bookkeeping is left behind after the rename.
SweepNothing ==
    /\ At("sweepRanges")
    /\ Goto("sweepVersion")
    /\ UNCHANGED <<Server, Disk, Calm, downFaults>>

SweepRanges ==
    /\ At("sweepRanges")
    /\ Removes(rangesDone, {})
    /\ Goto("sweepVersion")
    /\ UNCHANGED <<Server, dest, part, partOf, ended, downFailures, localDeletes>>

SweepVersion ==
    /\ At("sweepVersion")
    /\ Removes(partOf, NoVersion)
    /\ Returns("done")
    /\ UNCHANGED <<Server, dest, part, rangesDone, downFailures, localDeletes>>

-----------------------------------------------------------------------------
\* discard_part: the part, then its ranges, then its version.
DiscardPart ==
    /\ At("discard")
    /\ Removes(part, Absent) /\ Goto("discardRanges")
    /\ UNCHANGED <<Server, dest, rangesDone, partOf, ended, downFailures, localDeletes>>

DiscardRanges ==
    /\ At("discardRanges")
    /\ Removes(rangesDone, {}) /\ Goto("discardVersion")
    /\ UNCHANGED <<Server, dest, part, partOf, ended, downFailures, localDeletes>>

TriesAgain == job.after = "retry" /\ job.attempt < MaxRetries

DiscardVersion ==
    /\ At("discardVersion")
    /\ Removes(partOf, NoVersion)
    /\ \/ /\ job.after = "allocate"
          /\ Goto("allocate") /\ UNCHANGED ended
       \/ /\ TriesAgain
          /\ job' = [job EXCEPT !.pc = "attempt", !.attempt = @ + 1]
          /\ UNCHANGED ended
       \/ /\ job.after # "allocate" /\ ~TriesAgain
          /\ Returns(IF job.after = "uncounted" THEN "uncounted" ELSE "failed")
    /\ UNCHANGED <<Server, dest, part, rangesDone, downFailures, localDeletes>>

\* When the downloads of the run are over: record_failure counts the runs that
\* failed with this version, clear_failure forgets them.
NoteOutcome ==
    /\ At("over")
    /\ job' = Idle
    /\ downFailures' = CASE ended = "done" -> NoFailure
                     [] ended \in {"failed", "unfinished"} ->
                           [of |-> job.plan,
                            count |-> IF downFailures.of = job.plan THEN downFailures.count + 1 ELSE 1]
                     [] OTHER -> downFailures
    /\ UNCHANGED <<Server, Disk, ended, kept, localDeletes, downFaults>>

-----------------------------------------------------------------------------
\* Faults.  A request is not answered, or refused: for now, or for good, or the
\* login with it; or the body is the page a server answers for a collection
\* (is_webdav_banner), which is retryable.  A range is answered with the whole
\* file.  The body breaks off, or the part cannot be opened, written or synced: an
\* i/o error, which is not.
RequestFails ==
    /\ \/ /\ At("get") /\ Strikes("refuse")
          /\ \E verdict \in {"retry", "fail", "uncounted"} : job' = Failing(verdict)
       \/ /\ At("stream") /\ Strikes("drop")
          /\ job' = Failing("fail")
       \/ /\ \/ job.pc \in {"get", "stream", "allocate", "remember"}
             \/ At("fetch") /\ job.pending = {} /\ ~job.failed
          /\ Strikes("disk")
          /\ job' = Failing("fail")
       \/ \E r \in job.pending :
             /\ At("fetch")
             /\ \/ /\ Strikes("refuse")
                   /\ \E verdict \in {"retry", "fail", "uncounted"} : FetchFails(r, verdict)
                \/ Strikes("norange") /\ FetchFails(r, "retry")
                \/ (Strikes("drop") \/ Strikes("disk")) /\ FetchFails(r, "fail")
    /\ UNCHANGED <<Server, Disk, Calm>>

\* The process dies; the files stay as they are.
Kill ==
    /\ ~At("idle") /\ Strikes("kill")
    /\ job' = Idle /\ ended' = "killed"
    /\ UNCHANGED <<Server, Disk, kept, downFailures, localDeletes>>

\* Another client replaces the file on the server.
RemoteEdit ==
    /\ "edit" \in setting.faults /\ remoteEdits < MaxRemoteEdits
    /\ remoteEdits' = remoteEdits + 1
    /\ remote' \in Versions \ {remote}
    /\ UNCHANGED <<setting, Disk, job, Calm, downFaults>>

\* The user deletes the file before the journal has its row (the run was killed,
\* or its listing of the directory failed): the same version comes down again.
LocalDelete ==
    /\ At("idle") /\ dest # Absent /\ localDeletes < MaxLocalDeletes
    /\ dest' = Absent /\ localDeletes' = localDeletes + 1
    /\ UNCHANGED <<Server, part, rangesDone, partOf, job, ended, kept, downFailures, downFaults>>

-----------------------------------------------------------------------------
DownloadStep ==
    \/ StartDownload \/ ChooseRanges \/ ChooseStream
    \/ OpenStream \/ OutOfRange \/ ReadBlock \/ StreamEnds
    \/ CheckPartVersion \/ Allocate \/ RememberVersion
    \/ \E r \in job.pending : FetchRange(r) \/ RangeShort(r) \/ RangeSkipped(r)
    \/ JoinRanges \/ Verify \/ Rename \/ SweepRanges \/ SweepVersion
    \/ DiscardPart \/ DiscardRanges \/ DiscardVersion
    \/ NoteOutcome

DownloadNext ==
    DownloadStep \/ RangeIgnored \/ Cancelled \/ RequestFails \/ RenameFails \/ ReturnsAtOnce
                 \/ Kill \/ RemoteEdit \/ LocalDelete

DownloadSpec == DownloadInit /\ [][DownloadNext]_downloadVars

-----------------------------------------------------------------------------
\* "Bytes from another version of the file must never be mixed in": a
\* downloaded file is one version of the server, from its first byte to its
\* last.
DownloadedIsOneVersion == dest = Absent \/ \E v \in Versions : dest = Whole(v)

\* The part file and its bookkeeping, which would be taken for the user's own
\* files or trusted by the next download, outlive a download neither when it is
\* done nor when its fetching fails or is cancelled, however it was interrupted
\* before: only a kill leaves them, or a disk that refuses the finished part or a
\* removal.
Leftover == part # Absent \/ rangesDone # {} \/ partOf # NoVersion

LeftoversHaveReasons == At("idle") /\ Leftover => kept \/ ended \in {"killed", "unfinished"}

=============================================================================
