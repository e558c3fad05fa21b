--------------------------- MODULE SyncEngineProps ---------------------------
(***************************************************************************)
(* What a synchronization must never do to the two trees, and must achieve.*)
(***************************************************************************)
EXTENDS SyncEngine

InSync == local = remote

\* The scenarios in which nothing changes during a run and every request of a
\* run is answered: only the process dies, or a local deletion is refused.
Undisturbed == scenario.concurrent = {} /\ scenario.faults \subseteq {"crash", "unlink"}

\* The scenarios in which the engine keeps every edit: other clients write, also
\* during a run, and the local user between the runs; every request is answered
\* and every run comes to its end.  A name is a file or a directory for good, and
\* no directory is made inside another.
Steady ==
    /\ scenario.inputs \subseteq {"localWrite", "remoteWrite", "mkdir", "localDelete"}
    /\ scenario.concurrent \subseteq {"remote"} /\ scenario.faults \subseteq {"unlink"}
    /\ FilePaths \cap DirPaths = {} /\ \A p \in Paths : Above(p) \subseteq DirPaths
    /\ "mkdir" \in scenario.inputs => \A p \in DirPaths : Above(p) = {}

\* What the local user wrote, and nobody replaced knowing it, is on disk or in a
\* conflict copy, whatever other clients write meanwhile.
EditsStay == mine \subseteq VersionsAt(local, Paths) \cup aside

\* Whatever fails, is cancelled or dies: what a download is about to replace is
\* the version the journal calls synchronized.
DownloadsSpareEdits ==
    \A p \in Paths :
        run.todo[p] = "download" /\ IsFile(local[p])
            => journal[p].here /\ ~LocalChanged(local[p], journal[p])

LocalEditsKept ==
    /\ Steady => EditsStay
    /\ "local" \notin scenario.concurrent => DownloadsSpareEdits

RemovedBy(side, p) == \E a \in Above(p) \cup {p} : a \in gone[side]

DeletesOnlyWhatUsersDeleted ==
    \A p \in Paths :
        /\ Present(remote[p]) /\ ~Present(remote'[p]) => RemovedBy("local", p)
        /\ Present(local[p]) /\ ~Present(local'[p]) /\ aside' = aside
               => RemovedBy("remote", p)

\* "If a folder disappears locally, it disappears on the server, and the other
\* way around": the engine removes from one side only what a user removed from
\* the other.
DeletionsMirrorUsers == [][EngineStep => DeletesOnlyWhatUsersDeleted]_vars

\* The same while nothing disturbs a run and no run dies.
QuietDeletionsMirrorUsers ==
    [][/\ EngineStep /\ Undisturbed /\ ~CanFail("crash")
       => DeletesOnlyWhatUsersDeleted]_vars

\* While the stored root ETag is the server's, the walk of the tree is skipped
\* because "the server tree is the same one the journal already describes":
\* no file of the server is missing from the journal or newer there.
FastPathMissesNothing ==
    Undisturbed /\ run.phase = "idle" /\ rootKnown =>
        \A p \in Paths :
            Present(remote[p]) => journal[p].here /\ journal[p].etag = remote[p].ver

\* A run that reports success leaves the two sides equal, when no deletion was
\* refused on disk.
SuccessMeansInSync ==
    [][Finish /\ exit' = "Success" /\ Undisturbed /\ ~CanFail("unlink") => InSync]_vars

\* Once the users pause, the two sides become equal and stay so, unless the
\* deletion guard refuses the plan.
Converges == Undisturbed => <>[](InSync \/ exit = "Safety")

=============================================================================
