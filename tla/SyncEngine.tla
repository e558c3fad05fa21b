----------------------------- MODULE SyncEngine -----------------------------
(***************************************************************************)
(* Runs of the native engine (crates/native-engine/src/engine.rs) on one   *)
(* folder, beside the local user and the other clients of the server, and  *)
(* the journal that outlives them (db.rs).                                 *)
(*                                                                         *)
(* A step is one request or one change of the disk, with what the journal  *)
(* keeps of it, or one change of the journal.                              *)
(* Between two steps the user edits, another client writes, the process    *)
(* dies.  The retries of one transfer (transfer.rs) are inside its step,   *)
(* which ends well or not; the part file it writes to is renamed over the  *)
(* destination at its end.                                                 *)
(***************************************************************************)
EXTENDS Reconcile

CONSTANTS
    BlacklistAfter,  \* BLACKLIST_AFTER
    FilePaths,       \* where the users of an instance put files
    DirPaths,        \* ... and directories
    Scenarios,       \* what happens around the runs: one of these, to the end
    MaxEdits,        \* bound: how many inputs
    MaxInterrupts    \* bound: how many runs are cancelled or die

ASSUME BoundsAssumption == {BlacklistAfter, MaxEdits, MaxInterrupts} \subseteq Nat

\* What the users and other clients do, the sides that change while a run is in
\* progress, what may fail, and how many inputs there are.
ASSUME ScenariosAssumption ==
    Scenarios \subseteq [inputs : SUBSET STRING, concurrent : SUBSET {"local", "remote"},
                         faults : SUBSET STRING, edits : 0..MaxEdits]

VARIABLES
    scenario,  \* the one of Scenarios that is played
    local,     \* the tree on disk
    aside,     \* the versions in conflict copies: new files, not followed further
    remote,    \* the tree on the server
    ids,       \* the file ids of the server
    journal,   \* the table `entries'
    failures,  \* the table `failures'
    rootKnown, \* the stored root_etag is the server's root ETag
    run,       \* the run in progress
    exit,      \* how the last run ended
    clock,     \* inputs so far
    interrupts,\* cancelled and crashed runs so far
    mine,      \* history: versions the local user wrote and nobody replaced
    gone       \* history: the paths a user removed from each side, until mirrored

disk   == <<local, aside>>
server == <<remote, ids>>
db     == <<journal, failures, rootKnown>>
users  == <<scenario, clock, interrupts, mine, gone>>
vars   == <<disk, server, db, run, exit, users>>

-----------------------------------------------------------------------------

Versions == 0..(Len(Tree) + MaxEdits)
Ids      == 0..(3 * Len(Tree) + 1)

Nodes == {Absent, Directory} \cup {File(v) : v \in Versions \ {0}}

Listings == [here : BOOLEAN, dir : BOOLEAN, etag : Versions, id : Ids]
Entries  == [here : BOOLEAN, dir : BOOLEAN, stamp : Versions, etag : Versions, id : Ids]

\* A failed transfer of one version, and the failed runs in a row.
Failures == [of : {"none", "download", "upload"}, ver : Versions, runs : 0..BlacklistAfter]
NoFailure == [of |-> "none", ver |-> 0, runs |-> 0]

Phases == {"idle", "listed", "loop", "downloads", "uploads", "refresh"}

Runs ==
    [phase     : Phases,
     complete  : BOOLEAN,
     seen      : [Paths -> Listings],    \* the remote listing
     scan      : [Paths -> Nodes],       \* the local scan
     todo      : [Paths -> Actions],     \* the part of the plan to come
     from      : [Paths -> Paths \cup {Root}],
     ok        : SUBSET Paths,           \* ok_paths and failed_paths of a pool
     failed    : SUBSET Paths,
     touched   : SUBSET (Paths \cup {Root}),   \* the directories to refresh
     errors    : BOOLEAN,
     conflicts : BOOLEAN,
     cancelled : BOOLEAN]

Nothing(value) == [p \in Paths |-> value]

NoRun ==
    [phase |-> "idle", complete |-> FALSE, seen |-> Nothing(NotListed),
     scan |-> Nothing(Absent), todo |-> Nothing("none"), from |-> Nothing(Root),
     ok |-> {}, failed |-> {}, touched |-> {},
     errors |-> FALSE, conflicts |-> FALSE, cancelled |-> FALSE]

\* Either a folder that was never synchronized, or one where every path is in
\* sync: directories at DirPaths, files elsewhere.
InitialNode(p) == IF p \in DirPaths THEN Directory ELSE File(Place(p))

Init ==
    /\ scenario \in Scenarios
    /\ \E tree \in {Nothing(Absent), [p \in Paths |-> InitialNode(p)]} :
           LET Id(p) == IF IsFile(tree[p]) THEN Place(p) ELSE 0
           IN  /\ local = tree /\ aside = {}
               /\ remote = tree /\ ids = [p \in Paths |-> Id(p)]
               /\ journal = [p \in Paths |->
                      IF Present(tree[p])
                      THEN Known(IsDir(tree[p]), tree[p].ver, tree[p].ver, Id(p))
                      ELSE NotKnown]
               /\ failures = Nothing(NoFailure)
               /\ rootKnown \in {FALSE, \E p \in Paths : Present(tree[p])}
               /\ run = NoRun /\ exit = "None"
               /\ clock = 0 /\ interrupts = 0 /\ mine = {} /\ gone = [local |-> {}, remote |-> {}]

-----------------------------------------------------------------------------
(* The trees.                                                              *)

Writable(tree, p) == \A a \in Above(p) : IsDir(tree[a])

Without(tree, p) == [q \in Paths |-> IF q \in Subtree(p) THEN Absent ELSE tree[q]]

\* create_dir_all of the parent, then p itself; impossible below a file.
Reachable(tree, p) == \A a \in Above(p) : ~IsFile(tree[a])
WithParents(tree, p) ==
    [q \in Paths |-> IF q \in Above(p) /\ Reachable(tree, p) THEN Directory ELSE tree[q]]

VersionsAt(tree, ps) == {tree[p].ver : p \in {q \in ps : IsFile(tree[q])}}

FreshId ==
    LET used == {ids[p] : p \in Paths} \cup {journal[p].id : p \in Paths}
                \cup {run.seen[p].id : p \in Paths}
    IN  CHOOSE i \in Ids \ {0} : i \notin used

\* The server stores version v at p; an overwritten file keeps its id.
ServerPut(p, v) ==
    /\ remote' = [remote EXCEPT ![p] = File(v)]
    /\ ids' = [ids EXCEPT ![p] = IF IsFile(remote[p]) THEN @ ELSE FreshId]
    /\ rootKnown' = FALSE

ServerRemove(p) ==
    /\ remote' = Without(remote, p)
    /\ ids' = [q \in Paths |-> IF q \in Subtree(p) THEN 0 ELSE ids[q]]
    /\ rootKnown' = (rootKnown /\ ~Present(remote[p]))

-----------------------------------------------------------------------------
(* The local user.                                                         *)

May(input, side) ==
    /\ input \in scenario.inputs /\ clock < scenario.edits
    /\ run.phase = "idle" \/ side \in scenario.concurrent
    /\ clock' = clock + 1
    /\ UNCHANGED <<scenario, aside, journal, failures, run, exit, interrupts>>

Fresh == Len(Tree) + clock + 1

\* What is created anew at p is not what was removed from there, on either side.
Created(p, tree) ==
    IF Present(tree[p]) THEN gone
    ELSE [local |-> gone.local \ {p}, remote |-> gone.remote \ {p}]
Removed(p, side) == [gone EXCEPT ![side] = @ \cup Subtree(p)]

LocalWrite(p) ==
    /\ May("localWrite", "local")
    /\ p \in FilePaths /\ Writable(local, p) /\ ~IsDir(local[p])
    /\ local' = [local EXCEPT ![p] = File(Fresh)]
    /\ mine' = (mine \ VersionsAt(local, {p})) \cup {Fresh}
    /\ gone' = Created(p, local)
    /\ UNCHANGED <<server, rootKnown>>

LocalMkdir(p) ==
    /\ May("mkdir", "local")
    /\ p \in DirPaths /\ Writable(local, p) /\ ~Present(local[p])
    /\ local' = [local EXCEPT ![p] = Directory]
    /\ gone' = Created(p, local)
    /\ UNCHANGED <<server, rootKnown, mine>>

LocalDelete(p) ==
    /\ May("localDelete", "local")
    /\ Present(local[p])
    /\ local' = Without(local, p)
    /\ mine' = mine \ VersionsAt(local, Subtree(p))
    /\ gone' = Removed(p, "local")
    /\ UNCHANGED <<server, rootKnown>>

-----------------------------------------------------------------------------
(* Another client of the server.                                           *)

RemoteWrite(p) ==
    /\ May("remoteWrite", "remote")
    /\ p \in FilePaths /\ Writable(remote, p) /\ ~IsDir(remote[p])
    /\ ServerPut(p, Fresh)
    /\ mine' = mine \ VersionsAt(remote, {p})
    /\ gone' = Created(p, remote)
    /\ UNCHANGED local

RemoteMkdir(p) ==
    /\ May("mkdir", "remote")
    /\ p \in DirPaths /\ Writable(remote, p) /\ ~Present(remote[p])
    /\ remote' = [remote EXCEPT ![p] = Directory]
    /\ rootKnown' = FALSE
    /\ gone' = Created(p, remote)
    /\ UNCHANGED <<local, ids, mine>>

RemoteDelete(p) ==
    /\ May("remoteDelete", "remote")
    /\ Present(remote[p])
    /\ ServerRemove(p)
    /\ mine' = mine \ VersionsAt(remote, Subtree(p))
    /\ gone' = Removed(p, "remote")
    /\ UNCHANGED local

\* A rename on the server keeps the file id and the ETag of the file.
RemoteMove(p, q) ==
    /\ May("move", "remote")
    /\ IsFile(remote[p]) /\ ~Present(remote[q]) /\ q \in FilePaths
    /\ Writable(remote, q)
    /\ remote' = [remote EXCEPT ![p] = Absent, ![q] = remote[p]]
    /\ ids' = [ids EXCEPT ![p] = 0, ![q] = ids[p]]
    /\ rootKnown' = FALSE
    /\ gone' = [local |-> gone.local \ {q}, remote |-> (gone.remote \cup {p}) \ {q}]
    /\ UNCHANGED <<local, mine>>

-----------------------------------------------------------------------------
(* The beginning of a run.                                                 *)

CanFail(fault) == fault \in scenario.faults

FromJournal ==
    [p \in Paths |->
        IF journal[p].here
        THEN Listed(journal[p].dir, journal[p].etag, journal[p].id)
        ELSE NotListed]

\* discover_remote when the listings of `unread' fail.
ServerListing(unread) ==
    [p \in Paths |->
        IF Present(remote[p]) /\ ({Root} \cup Above(p)) \cap unread = {}
        THEN Listed(IsDir(remote[p]), remote[p].ver, ids[p])
        ELSE NotListed]

\* The remote side as the run will see it: the journal when the root ETag did
\* not move, a walk of the tree otherwise, in part when a listing fails; a walk
\* that is cancelled has seen nothing.
Discover ==
    LET Becomes(seen, complete) ==
            /\ run' = [NoRun EXCEPT !.phase = "listed", !.seen = seen,
                                    !.complete = complete]
            /\ UNCHANGED interrupts
        unreadable == IF CanFail("listing")
                      THEN SUBSET ({Root} \cup {p \in Paths : IsDir(remote[p])})
                      ELSE {{}}
    IN  /\ run.phase = "idle"
        /\ \/ /\ rootKnown /\ \E p \in Paths : journal[p].here
              /\ Becomes(FromJournal, TRUE)
           \/ /\ \/ ~rootKnown
                 \/ \A p \in Paths : ~journal[p].here
                 \/ CanFail("listing")
              /\ \/ \E unread \in unreadable :
                        Becomes(ServerListing(unread), unread = {})
                 \/ /\ CanFail("cancel") /\ interrupts < MaxInterrupts
                    /\ run' = [NoRun EXCEPT !.phase = "listed", !.cancelled = TRUE]
                    /\ interrupts' = interrupts + 1
        /\ UNCHANGED <<disk, server, db, exit, scenario, clock, mine, gone>>

\* signature_for: the version that a transfer is about.
Signature(action, p, scan) ==
    [of |-> action, ver |-> IF action = "download" THEN run.seen[p].etag ELSE scan[p].ver]

FailedBefore(p, signature) ==
    [of |-> failures[p].of, ver |-> failures[p].ver] = signature

\* filter_blacklisted
Blacklisted(plan, p) ==
    /\ plan[p] \in {"download", "upload"}
    /\ FailedBefore(p, Signature(plan[p], p, local))
    /\ failures[p].runs >= BlacklistAfter

\* scan_local, reconcile, filter_blacklisted and guard_deletes.
MakePlan ==
    LET whole == Plan(local, run.seen, journal, run.complete)
        plan  == [p \in Paths |-> IF Blacklisted(whole, p) THEN "none" ELSE whole[p]]
        Source(p) == MoveSources(p, local, run.seen, journal, run.complete)
        refused == Refuses(plan, Cardinality({p \in Paths : Present(local[p])}),
                           Cardinality({p \in Paths : journal[p].here}))
    IN  /\ run.phase = "listed"
        /\ \/ /\ refused
              /\ run' = NoRun /\ exit' = "Safety"
           \/ /\ ~refused
              /\ run' = [run EXCEPT
                    !.phase = "loop", !.scan = local, !.todo = plan,
                    !.from = [p \in Paths |-> IF Source(p) = {} THEN Root
                                              ELSE CHOOSE q \in Source(p) : TRUE]]
              /\ UNCHANGED exit
        /\ UNCHANGED <<disk, server, db, users>>

-----------------------------------------------------------------------------
(* The loop over the plan.                                                 *)

\* The loop takes one action at a time in the order of the plan, the pools
\* take theirs in any order.
IsNext(p) ==
    /\ run.todo[p] # "none"
    /\ \A q \in Paths \ {p} :
           run.todo[q] # "none" =>
               \/ Rank(run.todo[p]) < Rank(run.todo[q])
               \/ /\ Rank(run.todo[p]) = Rank(run.todo[q])
                  /\ Precedes(p, q) \/ run.todo[p] \in {"download", "upload"}

Takes(p, action) ==
    /\ run.phase = "loop" /\ ~run.cancelled
    /\ run.todo[p] = action /\ IsNext(p)
    /\ UNCHANGED <<exit, scenario, clock, mine, gone, failures>>

Done(p) == [run EXCEPT !.todo[p] = "none"]
Erred(p) == [run EXCEPT !.todo[p] = "none", !.errors = TRUE]

\* record: the journal entry of what the scan and the listing saw.
Recorded(p) ==
    LET l == run.scan[p]
        r == run.seen[p]
    IN  [journal EXCEPT ![p] =
            Known(IF Present(l) THEN IsDir(l) ELSE r.dir,
                  IF Present(l) THEN l.ver ELSE r.etag, r.etag, r.id)]

Forgotten(p) == [journal EXCEPT ![p] = NotKnown]

Renamed(p, from) == [journal EXCEPT ![p] = journal[from], ![from] = NotKnown]

\* The journal follows what was done to the disk or to the server, unless the
\* process dies in between.
Journaled(p, rows) ==
    \/ /\ journal' = rows
       /\ run' = Done(p)
       /\ UNCHANGED interrupts
    \/ /\ CanFail("crash") /\ interrupts < MaxInterrupts
       /\ run' = NoRun
       /\ interrupts' = interrupts + 1
       /\ UNCHANGED journal

Record(p) ==
    /\ Takes(p, "record")
    /\ Journaled(p, Recorded(p))
    /\ UNCHANGED <<disk, server, rootKnown>>

MkdirLocal(p) ==
    /\ Takes(p, "mkdirLocal")
    /\ IF Reachable(local, p) /\ ~IsFile(local[p])
       THEN /\ local' = [WithParents(local, p) EXCEPT ![p] = Directory]
            /\ Journaled(p, Recorded(p))
       ELSE /\ local' = WithParents(local, p)
            /\ run' = Erred(p)
            /\ UNCHANGED <<journal, interrupts>>
    /\ UNCHANGED <<aside, server, rootKnown>>

\* The outcome of the MKCOL is ignored: the entry is recorded in any case.
MkdirRemote(p) ==
    /\ Takes(p, "mkdirRemote")
    /\ Journaled(p, Recorded(p))
    /\ \/ /\ Writable(remote, p) /\ ~Present(remote[p])
          /\ remote' = [remote EXCEPT ![p] = Directory]
          /\ rootKnown' = FALSE
       \/ /\ ~Writable(remote, p) \/ Present(remote[p]) \/ CanFail("mkdir")
          /\ UNCHANGED <<remote, rootKnown>>
    /\ UNCHANGED <<disk, ids>>

\* The rename replaces whatever file is at p by then.
MoveLocal(p) ==
    LET from  == run.from[p]
        tree  == WithParents(local, p)
        moves == /\ Reachable(local, p)
                 /\ \/ ~Present(local[from])
                    \/ ~Present(local[p]) \/ local[p].kind = local[from].kind
    IN  /\ Takes(p, "moveLocal")
        /\ IF ~moves
           THEN /\ local' = tree
                /\ run' = Erred(p)
                /\ UNCHANGED <<journal, interrupts>>
           ELSE /\ local' = IF Present(local[from])
                            THEN [tree EXCEPT ![p] = local[from], ![from] = Absent]
                            ELSE tree
                /\ Journaled(p, IF journal[from].here THEN Renamed(p, from) ELSE journal)
        /\ UNCHANGED <<aside, server, rootKnown>>

DeleteLocal(p) ==
    /\ Takes(p, "deleteLocal")
    /\ Journaled(p, Forgotten(p))
    /\ \/ local' = Without(local, p)
       \/ CanFail("unlink") /\ UNCHANGED local
    /\ UNCHANGED <<aside, server, rootKnown>>

DeleteRemote(p) ==
    /\ Takes(p, "deleteRemote")
    /\ \/ /\ ServerRemove(p)
          /\ Journaled(p, Forgotten(p))
       \/ /\ CanFail("delete")
          /\ run' = Erred(p)
          /\ UNCHANGED <<server, rootKnown, journal, interrupts>>
    /\ UNCHANGED disk

\* Conflict, first half: the local file is renamed to a conflict copy.
SetAside(p) ==
    /\ Takes(p, "conflict")
    /\ IF IsDir(local[p])
       THEN /\ run' = [Done(p) EXCEPT !.conflicts = TRUE]
            /\ UNCHANGED disk
       ELSE /\ run' = [run EXCEPT !.todo[p] = "fetch"]
            /\ local' = [local EXCEPT ![p] = Absent]
            /\ aside' = aside \cup VersionsAt(local, {p})
    /\ UNCHANGED <<server, rootKnown, journal, interrupts>>

-----------------------------------------------------------------------------
(* Transfers.                                                              *)

CanDownload(p) == IsFile(remote[p]) /\ Reachable(local, p) /\ ~IsDir(local[p])

\* The file that arrives replaces whatever file is there by then.
Downloaded(p) == [WithParents(local, p) EXCEPT ![p] = remote[p]]

\* Conflict, second half: the remote version takes the place.
Fetch(p) ==
    /\ Takes(p, "fetch")
    /\ \/ /\ run.seen[p].dir /\ Reachable(local, p) /\ ~IsFile(local[p])
          /\ local' = [WithParents(local, p) EXCEPT ![p] = Directory]
          /\ run' = [Done(p) EXCEPT !.conflicts = TRUE]
       \/ /\ ~run.seen[p].dir /\ CanDownload(p)
          /\ local' = Downloaded(p)
          /\ run' = [Done(p) EXCEPT !.conflicts = TRUE,
                                    !.touched = @ \cup {ParentDir(p)}]
       \/ /\ IF run.seen[p].dir
             THEN ~Reachable(local, p) \/ IsFile(local[p])
             ELSE ~CanDownload(p) \/ CanFail("transfer")
          /\ local' = WithParents(local, p)
          /\ run' = Erred(p)
    /\ UNCHANGED <<aside, server, journal, rootKnown, interrupts>>

OpenPool(phase) == [run EXCEPT !.phase = phase, !.ok = {}, !.failed = {}]

\* The loop is through: nothing but transfers is left.  A run that is cancelled
\* after the last look at the token gets here too.
StartDownloads ==
    /\ run.phase = "loop"
    /\ \A p \in Paths : run.todo[p] \in {"none", "download", "upload"}
    /\ run' = OpenPool("downloads")
    /\ UNCHANGED <<disk, server, db, exit, users>>

Transferred(p, good) ==
    IF good THEN [Done(p) EXCEPT !.ok = @ \cup {p}]
            ELSE [Done(p) EXCEPT !.failed = @ \cup {p}, !.errors = TRUE]

Download(p) ==
    /\ run.phase = "downloads" /\ run.todo[p] = "download"
    /\ \/ /\ CanDownload(p)
          /\ local' = Downloaded(p)
          /\ run' = Transferred(p, TRUE)
       \/ /\ ~CanDownload(p) \/ CanFail("transfer")
          /\ local' = WithParents(local, p)
          /\ run' = Transferred(p, FALSE)
    /\ UNCHANGED <<aside, server, db, exit, users>>

\* A PUT without a precondition: the server keeps what arrives last.
CanUpload(p) == IsFile(local[p]) /\ Writable(remote, p) /\ ~IsDir(remote[p])

Upload(p) ==
    /\ run.phase = "uploads" /\ run.todo[p] = "upload"
    /\ \/ /\ CanUpload(p)
          /\ ServerPut(p, local[p].ver)
          /\ run' = Transferred(p, TRUE)
       \/ /\ ~CanUpload(p) \/ CanFail("transfer")
          /\ run' = Transferred(p, FALSE)
          /\ UNCHANGED <<server, rootKnown>>
    /\ UNCHANGED <<disk, journal, failures, exit, users>>

\* record_failure and clear_failure for what a pool did.
FailuresAfter(action) ==
    LET Counted(p) ==
            LET signature == Signature(action, p, run.scan)
                before    == IF FailedBefore(p, signature) THEN failures[p].runs ELSE 0
            IN  [of |-> signature.of, ver |-> signature.ver,
                 runs |-> IF before < BlacklistAfter THEN before + 1 ELSE before]
    IN  [p \in Paths |->
            IF p \in run.ok THEN NoFailure
            ELSE IF p \in run.failed THEN Counted(p)
            ELSE failures[p]]

\* Mutant: what a pool transferred is not read back.
ClosePoolUnread(phase, action, next) ==
    /\ run.phase = phase
    /\ run.cancelled \/ Doing(run.todo, {action}) = {}
    /\ failures' = FailuresAfter(action)
    /\ run' = [OpenPool(next) EXCEPT
                  !.todo = [p \in Paths |-> IF run.todo[p] = action THEN "none"
                                            ELSE run.todo[p]]]
    /\ UNCHANGED <<disk, server, journal, rootKnown, exit, users>>

\* A pool ends when its jobs are done, or cancelled with some left over.
ClosePool(phase, action, next) ==
    /\ run.phase = phase
    /\ run.cancelled \/ Doing(run.todo, {action}) = {}
    /\ failures' = FailuresAfter(action)
    /\ run' = [OpenPool(next) EXCEPT
                  !.touched = @ \cup {ParentDir(p) : p \in run.ok},
                  !.todo = [p \in Paths |-> IF run.todo[p] = action THEN "none"
                                            ELSE run.todo[p]]]
    /\ UNCHANGED <<disk, server, journal, rootKnown, exit, users>>

CloseDownloads == ClosePool("downloads", "download", "uploads")
CloseUploads   == ClosePool("uploads", "upload", "refresh")

-----------------------------------------------------------------------------
(* The end of a run.                                                       *)

\* refresh_dir: every entry of the directory as the server lists it now, with
\* the size and the time of whatever is on disk now.
RefreshDir(d) ==
    LET listed == {p \in Paths : ParentDir(p) = d /\ Present(remote[p])}
        Stamp(p) == IF IsDir(remote[p]) \/ IsDir(local[p]) THEN 0
                    ELSE IF IsFile(local[p]) THEN local[p].ver
                    ELSE remote[p].ver
    IN  /\ run.phase = "refresh" /\ d \in run.touched
        /\ run' = [run EXCEPT !.touched = @ \ {d}]
        /\ \/ journal' = [p \in Paths |->
                  IF p \in listed
                  THEN Known(IsDir(remote[p]), Stamp(p), remote[p].ver, ids[p])
                  ELSE journal[p]]
           \/ CanFail("listing") /\ UNCHANGED journal
        /\ UNCHANGED <<disk, server, failures, rootKnown, exit, users>>

\* The root ETag is stored whatever the run left undone.
Finish ==
    /\ run.phase = "refresh" /\ run.touched = {}
    /\ exit' = IF run.errors THEN "Failed"
               ELSE IF run.conflicts THEN "Conflict" ELSE "Success"
    /\ run' = NoRun
    /\ \/ rootKnown' = TRUE
       \/ CanFail("listing") /\ UNCHANGED rootKnown
    /\ gone' = [local  |-> {p \in gone.local : Present(remote[p])},
                remote |-> {p \in gone.remote : Present(local[p])}]
    /\ UNCHANGED <<disk, server, journal, failures, scenario, clock, interrupts, mine>>

\* Error::Cancelled out of the loop, which looks at the token before each action.
StopCancelled ==
    /\ run.phase = "loop" /\ run.cancelled
    /\ \E p \in Paths : run.todo[p] # "none"
    /\ run' = NoRun
    /\ UNCHANGED <<disk, server, db, exit, users>>

Cancel ==
    /\ CanFail("cancel") /\ interrupts < MaxInterrupts
    /\ run.phase # "idle" /\ ~run.cancelled
    /\ run' = [run EXCEPT !.cancelled = TRUE]
    /\ interrupts' = interrupts + 1
    /\ UNCHANGED <<disk, server, db, exit, scenario, clock, mine, gone>>

\* The process dies, or the run returns early because the server rejects the
\* credentials: everything but the disk and the database is forgotten.
Crash ==
    /\ CanFail("crash") /\ interrupts < MaxInterrupts
    /\ run.phase # "idle"
    /\ run' = NoRun
    /\ interrupts' = interrupts + 1
    /\ UNCHANGED <<disk, server, db, exit, scenario, clock, mine, gone>>

-----------------------------------------------------------------------------

UserStep ==
    \E p \in Paths :
        \/ LocalWrite(p)
        \/ LocalMkdir(p)
        \/ LocalDelete(p)
        \/ RemoteWrite(p)
        \/ RemoteMkdir(p)
        \/ RemoteDelete(p)
        \/ \E q \in Paths \ {p} : RemoteMove(p, q)

PathStep(p) ==
    \/ Record(p)
    \/ MkdirLocal(p)
    \/ MkdirRemote(p)
    \/ MoveLocal(p)
    \/ SetAside(p)
    \/ Fetch(p)
    \/ DeleteLocal(p)
    \/ DeleteRemote(p)
    \/ Download(p)
    \/ Upload(p)

EngineStep ==
    \/ Discover
    \/ MakePlan
    \/ \E p \in Paths : PathStep(p)
    \/ StartDownloads
    \/ CloseDownloads
    \/ CloseUploads
    \/ \E d \in Paths \cup {Root} : RefreshDir(d)
    \/ Finish
    \/ StopCancelled

Next == UserStep \/ EngineStep \/ Cancel \/ Crash

Spec == Init /\ [][Next]_vars

\* The scheduler starts a run again and again (module Scheduler), and every
\* request of a run ends: it has a timeout.
FairSpec == Spec /\ WF_vars(EngineStep)

=============================================================================
