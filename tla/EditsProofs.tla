---------------------------- MODULE EditsProofs -----------------------------
(***************************************************************************)
(* No run loses an edit of the local user (LocalEditsKept), what the       *)
(* discovery leaves out by its fast path changed nowhere                   *)
(* (FastPathMissesNothing), a run that reports success leaves the two      *)
(* sides equal (SuccessMeansInSync), and what it deletes on the server the *)
(* user deleted here (QuietDeletionsMirrorUsers), where nothing but the    *)
(* process interferes with a run.                                          *)
(*                                                                         *)
(* For the edits the invariant has to say where each is at every moment of *)
(* a run, and what the journal, the listing and the rest of the plan say   *)
(* of it: SharedInv, JournalInv and SeenInv tie the version on the server  *)
(* to the one on disk and to the rows, TodoInv keeps the plan true while   *)
(* it is carried out, EditsInv finds for every edit the server or an       *)
(* action that is still to come, and UploadsInv says that no such action   *)
(* is given up.  The other parts are what these rest on.  Each lemma takes *)
(* one action through all of them.                                         *)
(***************************************************************************)
EXTENDS EngineProofs

-----------------------------------------------------------------------------
(* The invariant.                                                          *)

\* A name is a file or a directory on both sides, in the journal and in what the
\* run has seen.
KindsInv ==
    \A p \in Paths :
        IF p \in DirPaths
        THEN /\ ~IsFile(local[p]) /\ ~IsFile(remote[p]) /\ ~IsFile(run.scan[p])
             /\ journal[p].here => journal[p].dir
             /\ run.seen[p].here => run.seen[p].dir
        ELSE /\ ~IsDir(local[p]) /\ ~IsDir(remote[p]) /\ ~IsDir(run.scan[p])
             /\ ~journal[p].dir /\ ~run.seen[p].dir

\* What is there is in a directory that is there.
TreesInv ==
    \A p \in Paths : \A a \in Above(p) :
        /\ Present(local[p]) => Present(local[a])
        /\ Present(remote[p]) => Present(remote[a])

\* The last version that anybody wrote.
Newest == Len(Tree) + clock

\* No version is newer than the last input.
VersionsInv ==
    /\ \A v \in mine : v \in 1..Newest
    /\ \A p \in Paths :
           /\ local[p].ver <= Newest /\ remote[p].ver <= Newest /\ run.scan[p].ver <= Newest
           /\ journal[p].stamp <= Newest /\ journal[p].etag <= Newest
           /\ run.seen[p].etag <= Newest

\* What the journal knows is on the server; the directories of the server are in
\* the journal when nobody makes one.
RowsInv ==
    /\ \A p \in Paths :
           journal[p].here => Present(remote[p]) \/ run.todo[p] = "deleteRemote"
    /\ "mkdir" \notin scenario.inputs =>
           \A p \in DirPaths \cap Paths : Present(remote[p]) => journal[p].here

\* A listing has all that the journal knows.
ListedInv ==
    run.phase = "listed" =>
        /\ run.complete
        /\ \A p \in Paths : /\ run.seen[p].here => Present(remote[p])
                            /\ journal[p].here => run.seen[p].here

\* Uploaded by this run, whose row is still to be written.
AwaitsRefresh(p) ==
    \/ run.phase = "uploads" /\ p \in run.ok
    \/ run.phase = "refresh" /\ ParentDir(p) \in run.touched

\* An edit of the local user that is on the server is on disk, and in the journal.
SharedInv ==
    \A p \in Paths \ DirPaths :
        IsFile(remote[p]) /\ remote[p].ver \in mine =>
            /\ local[p] = remote[p]
            /\ \/ AwaitsRefresh(p)
               \/ /\ journal[p].here
                  /\ journal[p].stamp = remote[p].ver /\ journal[p].etag = remote[p].ver

\* An edit that is in the journal is on the server,
JournalInv ==
    \A p \in Paths \ DirPaths :
        journal[p].here =>
            \A v \in {journal[p].stamp, journal[p].etag} : v \in mine => remote[p] = File(v)

\* ... and so is one that the run has seen there, and the other way around.
SeenInv ==
    run.phase \in {"listed", "loop"} =>
        \A p \in Paths \ DirPaths :
            /\ run.seen[p].here /\ run.seen[p].etag \in mine => remote[p] = File(run.seen[p].etag)
            /\ IsFile(remote[p]) /\ remote[p].ver \in mine =>
                   run.seen[p].here /\ run.seen[p].etag = remote[p].ver

\* What a plan may hold in each phase of a run.
Pending(phase) ==
    CASE phase = "loop" -> {"none", "mkdirLocal", "mkdirRemote", "conflict", "fetch", "record",
                            "deleteRemote", "download", "upload"}
      [] phase = "downloads" -> {"none", "download", "upload"}
      [] phase = "uploads" -> {"none", "upload"}
      [] OTHER -> {"none"}

\* The directories an upload needs are on the server, or planned before it.
ParentsReady(p) ==
    \A a \in Above(p) : Present(remote[a]) \/ run.todo[a] = "mkdirRemote"

\* What is left of the plan can be carried out, and replaces no edit.
TodoAt(p) ==
    /\ run.todo[p] \in Pending(run.phase)
    /\ run.todo[p] = "download" =>
           p \notin DirPaths /\ (IsFile(local[p]) => local[p].ver \notin mine)
    /\ run.todo[p] = "upload" => p \notin DirPaths /\ IsFile(local[p]) /\ ParentsReady(p)
    /\ run.todo[p] = "conflict" =>
           /\ p \notin DirPaths /\ IsFile(local[p])
           /\ journal[p].here => journal[p].stamp # local[p].ver
    /\ run.todo[p] = "fetch" =>
           p \notin DirPaths /\ ~Present(local[p]) /\ \A a \in Above(p) : Present(local[a])
    /\ run.todo[p] = "record" =>
           /\ Present(local[p]) /\ Present(remote[p]) /\ run.seen[p].here
           /\ run.scan[p] = local[p]
           /\ p \notin DirPaths /\ local[p].ver \in mine => remote[p] = local[p]
    /\ run.todo[p] = "mkdirLocal" =>
           p \in DirPaths /\ Present(remote[p]) /\ run.seen[p].here /\ Above(p) = {}
    /\ run.todo[p] = "mkdirRemote" =>
           p \in DirPaths /\ Present(local[p]) /\ Present(run.scan[p]) /\ ParentsReady(p)
    /\ run.todo[p] = "deleteRemote" =>
           /\ ~Present(local[p])
           /\ \A q \in Below(p) : journal[q].here => run.todo[q] = "deleteRemote"

\* ... at every path.
TodoInv == \A p \in Paths : TodoAt(p)

\* Once there is a plan, an edit is on the server or about to be settled.
EditsInv ==
    run.phase \notin {"idle", "listed"} =>
        \A p \in Paths : IsFile(local[p]) /\ local[p].ver \in mine =>
            remote[p] = local[p] \/ run.todo[p] \in {"upload", "conflict"}

\* No upload fails.
UploadsInv ==
    /\ \A p \in Paths : failures[p].of # "upload"
    /\ run.phase = "uploads" => run.failed = {}
    /\ ~run.cancelled

\* The parts of the invariant.
Parts == /\ KindsInv /\ TreesInv /\ VersionsInv /\ RowsInv /\ ListedInv /\ SharedInv
         /\ JournalInv /\ SeenInv /\ TodoInv /\ EditsInv /\ UploadsInv /\ EditsStay

\* The invariant of the steady scenarios.
SteadyInv == Steady => Parts

\* What the steady scenarios exclude.
LEMMA SteadyFacts ==
    ASSUME Steady
    PROVE  /\ \A x \in {"crash", "listing", "cancel", "transfer", "mkdir", "delete"} : ~CanFail(x)
           /\ "local" \notin scenario.concurrent
           /\ "remoteDelete" \notin scenario.inputs /\ "move" \notin scenario.inputs
           /\ \A p \in FilePaths : p \notin DirPaths
           /\ \A p \in Paths : Above(p) \subseteq DirPaths
           /\ "mkdir" \in scenario.inputs => \A p \in DirPaths : Above(p) = {}
BY DEF Steady, CanFail

\* Versions are numbers.
LEMMA VersionNumbers ==
    ASSUME TypeInv
    PROVE  /\ Newest \in Nat
           /\ \A q \in Paths : /\ run.scan[q].ver \in Nat /\ local[q].ver \in Nat
                               /\ remote[q].ver \in Nat /\ journal[q].stamp \in Nat
                               /\ journal[q].etag \in Nat /\ run.seen[q].etag \in Nat
<1>1. Newest \in Nat
  BY TreeAssumption, ScenariosAssumption, BoundsAssumption DEF TypeInv, Newest
<1>2. \A q \in Paths : /\ run.scan[q].ver \in Nat /\ local[q].ver \in Nat
                      /\ remote[q].ver \in Nat /\ journal[q].stamp \in Nat
                      /\ journal[q].etag \in Nat /\ run.seen[q].etag \in Nat
  BY NodeFacts DEF TypeInv, Runs, Entries, Listings, Versions
<1> QED BY <1>1, <1>2

-----------------------------------------------------------------------------
(* The local user.                                                         *)

\* What an edit or a deletion of the local user leaves alone.
LEMMA LocalFacts ==
    ASSUME TypeInv, Steady, Parts, NEW input, May(input, "local"), UNCHANGED <<server, rootKnown>>
    PROVE  /\ run.phase = "idle" /\ \A q \in Paths : run.todo[q] = "none"
           /\ UNCHANGED <<scenario, remote, ids, journal, failures, run, aside>>
           /\ Newest' = Newest + 1 /\ Fresh = Newest + 1 /\ Newest \in Nat
           /\ input \in scenario.inputs
<1>1. clock \in Nat /\ Len(Tree) \in Nat
  BY TreeAssumption, ScenariosAssumption, BoundsAssumption DEF TypeInv
<1>2. /\ run.phase = "idle" \/ "local" \in scenario.concurrent
      /\ UNCHANGED <<scenario, aside, journal, failures, run, exit, interrupts>>
      /\ clock' = clock + 1 /\ input \in scenario.inputs
  BY MayFacts
<1>3. run.phase = "idle" BY <1>2, SteadyFacts
<1>4. \A q \in Paths : run.todo[q] = "none" BY <1>3 DEF Parts, TodoInv, TodoAt, Pending
<1> QED BY <1>1, <1>2, <1>3, <1>4 DEF Newest, Fresh, server

\* The parts that speak of the plan say nothing of an idle engine.
LEMMA IdleParts ==
    ASSUME TypeInv, Parts, run.phase = "idle", \A q \in Paths : run.todo[q] = "none",
           UNCHANGED <<failures, run>>
    PROVE  (ListedInv /\ SeenInv /\ TodoInv /\ EditsInv /\ UploadsInv)'
<1>1. TodoInv' BY DEF TodoInv, TodoAt, Pending
<1>2. (ListedInv /\ SeenInv /\ EditsInv)' BY DEF ListedInv, SeenInv, EditsInv
<1>3. UploadsInv' BY DEF Parts, UploadsInv
<1> QED BY <1>1, <1>2, <1>3

\* A file written on disk is a new version, newer than any the server or the
\* journal has.
LEMMA LocalWriteSteady ==
    ASSUME TypeInv, Steady, Parts, NEW p \in Paths, LocalWrite(p)
    PROVE  Parts'
<1>1. /\ run.phase = "idle" /\ \A q \in Paths : run.todo[q] = "none"
      /\ UNCHANGED <<scenario, remote, ids, journal, failures, run, aside>>
      /\ Newest' = Newest + 1 /\ Fresh = Newest + 1 /\ Newest \in Nat
  BY LocalFacts DEF LocalWrite
<1>2. /\ p \notin DirPaths /\ \A a \in Above(p) : IsDir(local[a])
      /\ local' = [local EXCEPT ![p] = File(Fresh)]
      /\ mine' = (mine \ VersionsAt(local, {p})) \cup {Fresh}
  BY SteadyFacts DEF LocalWrite, Writable
<1>3. local \in [Paths -> Nodes] /\ remote \in [Paths -> Nodes] /\ Fresh \in Versions \ {0}
  BY MayFacts DEF TypeInv, LocalWrite
<1>4. /\ IsFile(File(Fresh)) /\ File(Fresh).ver = Fresh /\ Present(File(Fresh))
      /\ ~IsDir(File(Fresh))
  BY <1>3, NodesHold, NodeFacts
<1>5. \A q \in Paths : local'[q] = IF q = p THEN File(Fresh) ELSE local[q] BY <1>2, <1>3
<1>6. IsFile(local[p]) => local[p].ver \notin mine'
  <2>1. local[p].ver <= Newest BY DEF Parts, VersionsInv
  <2>2. IsFile(local[p]) => local[p].ver \in VersionsAt(local, {p}) BY DEF VersionsAt
  <2>3. local[p].ver # Fresh BY <1>1, <1>3, <2>1, NodeFacts DEF Versions
  <2> QED BY <1>2, <2>2, <2>3
<1>7. \A v \in mine' : v = Fresh \/ v \in mine BY <1>2
<1>8. KindsInv' BY <1>1, <1>2, <1>4, <1>5 DEF Parts, KindsInv
<1>9. TreesInv'
  <2> SUFFICES ASSUME NEW q \in Paths, NEW a \in Above(q)
               PROVE  /\ Present(local'[q]) => Present(local'[a])
                      /\ Present(remote'[q]) => Present(remote'[a])
    BY DEF TreesInv
  <2>1. a \in Paths /\ a # q BY AboveFacts
  <2>2. /\ Present(local[q]) => Present(local[a])
        /\ Present(remote[q]) => Present(remote[a])
    BY DEF Parts, TreesInv
  <2>3. q = p => Present(local[a]) BY <1>2, <1>3, <2>1, NodeFacts
  <2> QED BY <1>1, <1>4, <1>5, <2>1, <2>2, <2>3
<1>10. VersionsInv'
  <2>1. \A v \in mine' : v \in 1..Newest' BY <1>1, <1>7 DEF Parts, VersionsInv
  <2>3. \A q \in Paths : local'[q].ver = Fresh \/ local'[q].ver = local[q].ver BY <1>4, <1>5
  <2> QED BY VersionNumbers, <1>1, <2>1, <2>3 DEF Parts, VersionsInv
<1>11. RowsInv' BY <1>1 DEF Parts, RowsInv
<1>12. SharedInv'
  <2> SUFFICES ASSUME NEW q \in Paths \ DirPaths, IsFile(remote[q]), remote[q].ver \in mine'
               PROVE  /\ local'[q] = remote[q]
                      /\ \/ AwaitsRefresh(q)
                         \/ /\ journal[q].here
                            /\ journal[q].stamp = remote[q].ver /\ journal[q].etag = remote[q].ver
    BY <1>1 DEF SharedInv, AwaitsRefresh
  <2>1. remote[q].ver # Fresh
    BY <1>1, <1>3, NodeFacts DEF Parts, VersionsInv, Versions
  <2>2. remote[q].ver \in mine BY <1>7, <2>1
  <2>3. local[q] = remote[q] BY <2>2 DEF Parts, SharedInv
  <2>4. q # p BY <1>6, <2>3
  <2> QED BY <1>5, <2>2, <2>4 DEF Parts, SharedInv
<1>13. JournalInv'
  <2> SUFFICES ASSUME NEW q \in Paths \ DirPaths, journal[q].here,
                      NEW v \in {journal[q].stamp, journal[q].etag}, v \in mine'
               PROVE  remote[q] = File(v)
    BY <1>1 DEF JournalInv
  <2>1. v <= Newest /\ v \in Nat
    BY DEF Parts, VersionsInv, TypeInv, Entries, Versions
  <2>2. v \in mine BY <1>1, <1>7, <2>1
  <2> QED BY <2>2 DEF Parts, JournalInv
<1>14. EditsStay'
  <2> SUFFICES ASSUME NEW v \in mine', v \notin aside PROVE v \in VersionsAt(local', Paths)
    BY <1>1 DEF EditsStay
  <2>1. CASE v = Fresh BY <1>4, <1>5, <2>1 DEF VersionsAt
  <2>2. CASE v # Fresh
    <3>1. v \in mine /\ v \notin VersionsAt(local, {p}) BY <1>2, <2>2
    <3>2. PICK q \in Paths : IsFile(local[q]) /\ local[q].ver = v
      BY <3>1 DEF Parts, EditsStay, VersionsAt
    <3>3. q # p BY <3>1, <3>2 DEF VersionsAt
    <3> QED BY <1>5, <3>2, <3>3 DEF VersionsAt
  <2> QED BY <2>1, <2>2
<1>15. (ListedInv /\ SeenInv /\ TodoInv /\ EditsInv /\ UploadsInv)' BY <1>1, IdleParts
<1> QED
  BY <1>8, <1>9, <1>10, <1>11, <1>12, <1>13, <1>14, <1>15 DEF Parts

\* A directory made on disk holds no edit.
LEMMA LocalMkdirSteady ==
    ASSUME TypeInv, Steady, Parts, NEW p \in Paths, LocalMkdir(p)
    PROVE  Parts'
<1>1. /\ run.phase = "idle" /\ \A q \in Paths : run.todo[q] = "none"
      /\ UNCHANGED <<scenario, remote, ids, journal, failures, run, aside>>
      /\ Newest' = Newest + 1 /\ Newest \in Nat
  BY LocalFacts DEF LocalMkdir
<1>2. /\ p \in DirPaths /\ ~Present(local[p]) /\ \A a \in Above(p) : IsDir(local[a])
      /\ local' = [local EXCEPT ![p] = Directory] /\ mine' = mine
  BY DEF LocalMkdir, Writable
<1>3. local \in [Paths -> Nodes] /\ remote \in [Paths -> Nodes] BY DEF TypeInv
<1>4. /\ ~IsFile(Directory) /\ Directory.ver = 0 /\ Present(Directory) BY NodesHold
<1>5. \A q \in Paths : local'[q] = IF q = p THEN Directory ELSE local[q] BY <1>2, <1>3
<1>6. ~IsFile(local[p]) BY <1>2, <1>3, NodeFacts
<1>7. KindsInv' BY <1>1, <1>2, <1>4, <1>5 DEF Parts, KindsInv
<1>8. TreesInv'
  <2> SUFFICES ASSUME NEW q \in Paths, NEW a \in Above(q)
               PROVE  /\ Present(local'[q]) => Present(local'[a])
                      /\ Present(remote'[q]) => Present(remote'[a])
    BY DEF TreesInv
  <2>1. a \in Paths /\ a # q BY AboveFacts
  <2>2. /\ Present(local[q]) => Present(local[a])
        /\ Present(remote[q]) => Present(remote[a])
    BY DEF Parts, TreesInv
  <2>3. q = p => Present(local[a]) BY <1>2, <1>3, <2>1, NodeFacts
  <2> QED BY <1>1, <1>4, <1>5, <2>1, <2>2, <2>3
<1>9. VersionsInv'
  <2>2. \A q \in Paths : local'[q].ver = 0 \/ local'[q].ver = local[q].ver BY <1>4, <1>5
  <2> QED BY VersionNumbers, <1>1, <1>2, <2>2 DEF Parts, VersionsInv
<1>10. RowsInv' BY <1>1 DEF Parts, RowsInv
<1>11. SharedInv'
  <2> SUFFICES ASSUME NEW q \in Paths \ DirPaths, IsFile(remote[q]), remote[q].ver \in mine
               PROVE  /\ local'[q] = remote[q]
                      /\ \/ AwaitsRefresh(q)
                         \/ /\ journal[q].here
                            /\ journal[q].stamp = remote[q].ver /\ journal[q].etag = remote[q].ver
    BY <1>1, <1>2 DEF SharedInv, AwaitsRefresh
  <2> QED BY <1>2, <1>5 DEF Parts, SharedInv
<1>12. JournalInv' BY <1>1, <1>2 DEF Parts, JournalInv
<1>13. EditsStay'
  <2> SUFFICES ASSUME NEW v \in mine, v \notin aside PROVE v \in VersionsAt(local', Paths)
    BY <1>1, <1>2 DEF EditsStay
  <2>1. PICK q \in Paths : IsFile(local[q]) /\ local[q].ver = v
    BY DEF Parts, EditsStay, VersionsAt
  <2> QED BY <1>5, <1>6, <2>1 DEF VersionsAt
<1>14. (ListedInv /\ SeenInv /\ TodoInv /\ EditsInv /\ UploadsInv)' BY <1>1, IdleParts
<1> QED BY <1>7, <1>8, <1>9, <1>10, <1>11, <1>12, <1>13, <1>14 DEF Parts

\* What the local user deletes is no edit to keep any more.
LEMMA LocalDeleteSteady ==
    ASSUME TypeInv, Steady, Parts, NEW p \in Paths, LocalDelete(p)
    PROVE  Parts'
<1>1. /\ run.phase = "idle" /\ \A q \in Paths : run.todo[q] = "none"
      /\ UNCHANGED <<scenario, remote, ids, journal, failures, run, aside>>
      /\ Newest' = Newest + 1 /\ Newest \in Nat
  BY LocalFacts DEF LocalDelete
<1>2. local' = Without(local, p) /\ mine' = mine \ VersionsAt(local, Subtree(p))
  BY DEF LocalDelete
<1>3. local \in [Paths -> Nodes] /\ remote \in [Paths -> Nodes] BY DEF TypeInv
<1>4. /\ ~IsFile(Absent) /\ ~IsDir(Absent) /\ Absent.ver = 0 /\ ~Present(Absent) BY NodesHold
<1>5. \A q \in Paths : local'[q] = IF q \in Subtree(p) THEN Absent ELSE local[q]
  BY <1>2, <1>3, SubtreeRemoved
<1>6. \A q \in Paths : q \in Subtree(p) /\ IsFile(local[q]) => local[q].ver \notin mine'
  BY <1>2 DEF VersionsAt, Subtree, Below
<1>7. KindsInv' BY <1>1, <1>4, <1>5 DEF Parts, KindsInv
<1>8. TreesInv'
  <2> SUFFICES ASSUME NEW q \in Paths, NEW a \in Above(q)
               PROVE  /\ Present(local'[q]) => Present(local'[a])
                      /\ Present(remote'[q]) => Present(remote'[a])
    BY DEF TreesInv
  <2>1. a \in Paths /\ (a \in Subtree(p) => q \in Subtree(p)) BY AboveFacts, SubtreeFacts
  <2>2. /\ Present(local[q]) => Present(local[a])
        /\ Present(remote[q]) => Present(remote[a])
    BY DEF Parts, TreesInv
  <2> QED BY <1>1, <1>4, <1>5, <2>1, <2>2
<1>9. VersionsInv'
  <2>2. \A q \in Paths : local'[q].ver = 0 \/ local'[q].ver = local[q].ver BY <1>4, <1>5
  <2> QED BY VersionNumbers, <1>1, <1>2, <2>2 DEF Parts, VersionsInv
<1>10. RowsInv' BY <1>1 DEF Parts, RowsInv
<1>11. SharedInv'
  <2> SUFFICES ASSUME NEW q \in Paths \ DirPaths, IsFile(remote[q]), remote[q].ver \in mine'
               PROVE  /\ local'[q] = remote[q]
                      /\ \/ AwaitsRefresh(q)
                         \/ /\ journal[q].here
                            /\ journal[q].stamp = remote[q].ver /\ journal[q].etag = remote[q].ver
    BY <1>1 DEF SharedInv, AwaitsRefresh
  <2>1. remote[q].ver \in mine BY <1>2
  <2>2. local[q] = remote[q] BY <2>1 DEF Parts, SharedInv
  <2>3. q \notin Subtree(p) BY <1>6, <2>2
  <2> QED BY <1>5, <2>1, <2>3 DEF Parts, SharedInv
<1>12. JournalInv' BY <1>1, <1>2 DEF Parts, JournalInv
<1>13. EditsStay'
  <2> SUFFICES ASSUME NEW v \in mine', v \notin aside PROVE v \in VersionsAt(local', Paths)
    BY <1>1 DEF EditsStay
  <2>1. PICK q \in Paths : IsFile(local[q]) /\ local[q].ver = v
    BY <1>2 DEF Parts, EditsStay, VersionsAt
  <2> QED BY <1>5, <1>6, <2>1 DEF VersionsAt
<1>14. (ListedInv /\ SeenInv /\ TodoInv /\ EditsInv /\ UploadsInv)' BY <1>1, IdleParts
<1> QED BY <1>7, <1>8, <1>9, <1>10, <1>11, <1>12, <1>13, <1>14 DEF Parts

-----------------------------------------------------------------------------
(* Another client of the server.                                           *)

\* What another client leaves alone, at any moment of a run.
LEMMA RemoteFacts ==
    ASSUME TypeInv, NEW input, May(input, "remote"), UNCHANGED local
    PROVE  /\ UNCHANGED <<scenario, local, journal, failures, run, aside>>
           /\ Newest' = Newest + 1 /\ Fresh = Newest + 1 /\ Newest \in Nat
           /\ input \in scenario.inputs
<1>1. clock \in Nat /\ Len(Tree) \in Nat
  BY TreeAssumption, ScenariosAssumption, BoundsAssumption DEF TypeInv
<1>2. /\ UNCHANGED <<scenario, aside, journal, failures, run, exit, interrupts>>
      /\ clock' = clock + 1 /\ input \in scenario.inputs
  BY MayFacts
<1> QED BY <1>1, <1>2 DEF Newest, Fresh

\* Another client replaces an edit knowing it: it is no edit to keep any more.
LEMMA RemoteWriteSteady ==
    ASSUME TypeInv, Steady, Parts, NEW p \in Paths, RemoteWrite(p)
    PROVE  Parts'
<1>1. /\ UNCHANGED <<scenario, local, journal, failures, run, aside>>
      /\ Newest' = Newest + 1 /\ Fresh = Newest + 1 /\ Newest \in Nat
  BY RemoteFacts DEF RemoteWrite
<1>2. /\ p \notin DirPaths /\ \A a \in Above(p) : IsDir(remote[a])
      /\ mine' = mine \ VersionsAt(remote, {p}) /\ ServerPut(p, Fresh)
  BY SteadyFacts DEF RemoteWrite, Writable
<1>3. local \in [Paths -> Nodes] /\ remote \in [Paths -> Nodes] /\ Fresh \in Versions \ {0}
  BY MayFacts DEF TypeInv, RemoteWrite
<1>4. /\ IsFile(File(Fresh)) /\ File(Fresh).ver = Fresh /\ Present(File(Fresh))
      /\ ~IsDir(File(Fresh))
  BY <1>3, NodesHold, NodeFacts
<1>5. \A q \in Paths : remote'[q] = IF q = p THEN File(Fresh) ELSE remote[q]
  BY <1>2, <1>3, PutFacts
<1>6. mine' \subseteq mine /\ (IsFile(remote[p]) => remote[p].ver \notin mine')
  BY <1>2 DEF VersionsAt
<1>7. Fresh \notin mine' BY <1>1, <1>6 DEF Parts, VersionsInv
<1>8. \A v \in mine' : remote[p] # File(v)
  <2>1. \A v \in mine' : v \in Versions \ {0}
    BY <1>6 DEF Parts, VersionsInv, TypeInv
  <2> QED BY <1>6, <2>1, NodesHold
<1>9. KindsInv' BY <1>1, <1>2, <1>4, <1>5 DEF Parts, KindsInv
<1>10. TreesInv'
  <2> SUFFICES ASSUME NEW q \in Paths, NEW a \in Above(q)
               PROVE  /\ Present(local'[q]) => Present(local'[a])
                      /\ Present(remote'[q]) => Present(remote'[a])
    BY DEF TreesInv
  <2>1. a \in Paths /\ a # q BY AboveFacts
  <2>2. /\ Present(local[q]) => Present(local[a])
        /\ Present(remote[q]) => Present(remote[a])
    BY DEF Parts, TreesInv
  <2>3. q = p => Present(remote[a]) BY <1>2, <1>3, <2>1, NodeFacts
  <2> QED BY <1>1, <1>4, <1>5, <2>1, <2>2, <2>3
<1>11. VersionsInv'
  <2>1. \A v \in mine' : v \in 1..Newest' BY <1>1, <1>6 DEF Parts, VersionsInv
  <2>2. \A q \in Paths : remote'[q].ver = Fresh \/ remote'[q].ver = remote[q].ver BY <1>4, <1>5
  <2> QED BY VersionNumbers, <1>1, <2>1, <2>2 DEF Parts, VersionsInv
<1>12. RowsInv' BY <1>1, <1>2, <1>4, <1>5 DEF Parts, RowsInv
<1>13. ListedInv' BY <1>1, <1>4, <1>5 DEF Parts, ListedInv
<1>14. SharedInv'
  <2> SUFFICES ASSUME NEW q \in Paths \ DirPaths, IsFile(remote'[q]), remote'[q].ver \in mine'
               PROVE  /\ local[q] = remote'[q]
                      /\ \/ AwaitsRefresh(q)
                         \/ /\ journal[q].here
                            /\ journal[q].stamp = remote'[q].ver /\ journal[q].etag = remote'[q].ver
    BY <1>1 DEF SharedInv, AwaitsRefresh
  <2>1. q # p BY <1>4, <1>5, <1>7
  <2> QED BY <1>5, <1>6, <2>1 DEF Parts, SharedInv
<1>15. JournalInv' BY <1>1, <1>5, <1>6, <1>8 DEF Parts, JournalInv
<1>16. SeenInv'
  <2> SUFFICES ASSUME run.phase \in {"listed", "loop"}, NEW q \in Paths \ DirPaths
               PROVE  /\ run.seen[q].here /\ run.seen[q].etag \in mine'
                             => remote'[q] = File(run.seen[q].etag)
                      /\ IsFile(remote'[q]) /\ remote'[q].ver \in mine' =>
                             run.seen[q].here /\ run.seen[q].etag = remote'[q].ver
    BY <1>1 DEF SeenInv
  <2> QED BY <1>4, <1>5, <1>6, <1>7, <1>8 DEF Parts, SeenInv
<1>17. TodoInv'
  <2> SUFFICES ASSUME NEW q \in Paths PROVE TodoAt(q)' BY DEF TodoInv
  <2>1. TodoAt(q) BY DEF Parts, TodoInv
  <2>2. ParentsReady(q) => ParentsReady(q)' BY <1>1, <1>4, <1>5, AboveFacts DEF ParentsReady
  <2>3. Present(remote[q]) => Present(remote'[q]) BY <1>4, <1>5
  <2>4. q \notin DirPaths /\ local[q].ver \in mine' /\ Present(local[q]) /\ remote[q] = local[q]
            => remote'[q] = local[q]
    <3>1. q \notin DirPaths /\ Present(local[q]) => IsFile(local[q])
      BY <1>3, NodeFacts DEF Parts, KindsInv
    <3> QED BY <1>5, <1>6, <3>1
  <2> QED BY <1>1, <1>6, <2>1, <2>2, <2>3, <2>4 DEF TodoAt
<1>18. EditsInv'
  <2> SUFFICES ASSUME run.phase \notin {"idle", "listed"}, NEW q \in Paths, IsFile(local[q]),
                      local[q].ver \in mine'
               PROVE  remote'[q] = local[q] \/ run.todo[q] \in {"upload", "conflict"}
    BY <1>1 DEF EditsInv
  <2>1. remote[q] = local[q] \/ run.todo[q] \in {"upload", "conflict"}
    BY <1>6 DEF Parts, EditsInv
  <2> QED BY <1>5, <1>6, <2>1
<1>19. UploadsInv' BY <1>1 DEF Parts, UploadsInv
<1>20. EditsStay' BY <1>1, <1>6 DEF Parts, EditsStay
<1> QED
  BY <1>9, <1>10, <1>11, <1>12, <1>13, <1>14, <1>15, <1>16, <1>17, <1>18, <1>19, <1>20 DEF Parts

\* A directory made on the server holds no edit.
LEMMA RemoteMkdirSteady ==
    ASSUME TypeInv, Steady, Parts, NEW p \in Paths, RemoteMkdir(p)
    PROVE  Parts'
<1>1. /\ UNCHANGED <<scenario, local, journal, failures, run, aside, mine>>
      /\ Newest' = Newest + 1 /\ Newest \in Nat /\ "mkdir" \in scenario.inputs
  BY RemoteFacts DEF RemoteMkdir
<1>2. /\ p \in DirPaths /\ ~Present(remote[p]) /\ \A a \in Above(p) : IsDir(remote[a])
      /\ remote' = [remote EXCEPT ![p] = Directory]
  BY DEF RemoteMkdir, Writable
<1>3. local \in [Paths -> Nodes] /\ remote \in [Paths -> Nodes] BY DEF TypeInv
<1>4. /\ ~IsFile(Directory) /\ Directory.ver = 0 /\ Present(Directory) /\ IsDir(Directory)
  BY NodesHold
<1>5. \A q \in Paths : remote'[q] = IF q = p THEN Directory ELSE remote[q] BY <1>2, <1>3
<1>6. KindsInv' BY <1>1, <1>2, <1>4, <1>5 DEF Parts, KindsInv
<1>7. TreesInv'
  <2> SUFFICES ASSUME NEW q \in Paths, NEW a \in Above(q)
               PROVE  /\ Present(local'[q]) => Present(local'[a])
                      /\ Present(remote'[q]) => Present(remote'[a])
    BY DEF TreesInv
  <2>1. a \in Paths /\ a # q BY AboveFacts
  <2>2. /\ Present(local[q]) => Present(local[a])
        /\ Present(remote[q]) => Present(remote[a])
    BY DEF Parts, TreesInv
  <2>3. q = p => Present(remote[a]) BY <1>2, <1>3, <2>1, NodeFacts
  <2> QED BY <1>1, <1>4, <1>5, <2>1, <2>2, <2>3
<1>8. VersionsInv'
  <2>1. \A q \in Paths : remote'[q].ver = 0 \/ remote'[q].ver = remote[q].ver BY <1>4, <1>5
  <2> QED BY VersionNumbers, <1>1, <2>1 DEF Parts, VersionsInv
<1>9. RowsInv' BY <1>1, <1>4, <1>5 DEF Parts, RowsInv
<1>10. ListedInv' BY <1>1, <1>4, <1>5 DEF Parts, ListedInv
<1>11. \A q \in Paths \ DirPaths : remote'[q] = remote[q] BY <1>2, <1>5
<1>12. SharedInv' BY <1>1, <1>11 DEF Parts, SharedInv, AwaitsRefresh
<1>13. JournalInv' BY <1>1, <1>11 DEF Parts, JournalInv
<1>14. SeenInv' BY <1>1, <1>11 DEF Parts, SeenInv
<1>15. TodoInv'
  <2> SUFFICES ASSUME NEW q \in Paths PROVE TodoAt(q)' BY DEF TodoInv
  <2>1. TodoAt(q) BY DEF Parts, TodoInv
  <2>2. ParentsReady(q) => ParentsReady(q)' BY <1>1, <1>4, <1>5, AboveFacts DEF ParentsReady
  <2>3. Present(remote[q]) => Present(remote'[q]) BY <1>4, <1>5
  <2> QED BY <1>1, <1>11, <2>1, <2>2, <2>3 DEF TodoAt
<1>16. EditsInv'
  <2>1. \A q \in Paths : IsFile(local[q]) => q \notin DirPaths BY DEF Parts, KindsInv
  <2> QED BY <1>1, <1>11, <2>1 DEF Parts, EditsInv
<1>17. UploadsInv' BY <1>1 DEF Parts, UploadsInv
<1>18. EditsStay' BY <1>1 DEF Parts, EditsStay
<1> QED
  BY <1>6, <1>7, <1>8, <1>9, <1>10, <1>12, <1>13, <1>14, <1>15, <1>16, <1>17, <1>18 DEF Parts

-----------------------------------------------------------------------------
(* The beginning of a run, and its end.                                    *)

\* A step of the engine is not an input.
Quiet == UNCHANGED <<scenario, clock, mine>>

\* A step of the engine adds no version and no edit.
LEMMA QuietFacts == ASSUME Quiet PROVE Newest' = Newest /\ mine' = mine /\ scenario' = scenario
BY DEF Quiet, Newest

\* A run may end when nothing is planned and every row is written.
LEMMA EndSteady ==
    ASSUME TypeInv, Steady, Parts, Quiet, UNCHANGED <<local, aside, remote, journal, failures>>,
           run' = NoRun, \A q \in Paths : run.todo[q] = "none" /\ ~AwaitsRefresh(q)
    PROVE  Parts'
<1>1. /\ run'.phase = "idle" /\ ~run'.cancelled
      /\ \A q \in Paths : /\ run'.todo[q] = "none" /\ ~run'.seen[q].here /\ ~run'.seen[q].dir
                          /\ run'.seen[q].etag = 0 /\ run'.scan[q] = Absent
  BY NoRunFacts, EntryFacts
<1>2. /\ ~IsFile(Absent) /\ ~IsDir(Absent) /\ Absent.ver = 0 BY NodesHold
<1>3. KindsInv' BY <1>1, <1>2 DEF Parts, KindsInv
<1>4. TreesInv' BY DEF Parts, TreesInv
<1>5. VersionsInv'
  <2>1. Newest \in Nat BY VersionNumbers
  <2> QED BY <1>1, <1>2, <2>1, QuietFacts DEF Parts, VersionsInv
<1>6. RowsInv' BY <1>1, QuietFacts DEF Parts, RowsInv
<1>7. (ListedInv /\ SeenInv /\ EditsInv)' BY <1>1 DEF ListedInv, SeenInv, EditsInv
<1>8. SharedInv' BY QuietFacts DEF Parts, SharedInv
<1>9. JournalInv' BY QuietFacts DEF Parts, JournalInv
<1>10. TodoInv' BY <1>1 DEF TodoInv, TodoAt, Pending
<1>11. UploadsInv' BY <1>1 DEF Parts, UploadsInv
<1>12. EditsStay' BY QuietFacts DEF Parts, EditsStay
<1> QED BY <1>3, <1>4, <1>5, <1>6, <1>7, <1>8, <1>9, <1>10, <1>11, <1>12 DEF Parts

\* The listing is complete: every request is answered.  The journal, when the walk
\* is skipped, says as much of every edit as the server would.
LEMMA DiscoverSteady ==
    ASSUME TypeInv, Steady, Parts, Discover
    PROVE  Parts'
<1>1. /\ UNCHANGED <<local, aside, remote, ids, journal, failures>> /\ Quiet
      /\ run.phase = "idle" /\ run' \in Runs /\ run'.phase = "listed"
      /\ \A q \in Paths : run'.todo[q] = "none" /\ run'.scan[q] = Absent
      /\ \/ run'.seen = FromJournal /\ run'.complete /\ ~run'.cancelled
         \/ \E unread \in SUBSET ({Root} \cup Paths) :
                /\ run'.seen = ServerListing(unread) /\ (run'.complete <=> unread = {})
                /\ ~run'.cancelled /\ (CanFail("listing") \/ unread = {})
         \/ CanFail("cancel")
  BY DiscoverFacts DEF disk, server, db, Quiet
<1>2. /\ run'.seen \in {FromJournal, ServerListing({})} /\ run'.complete /\ ~run'.cancelled
  BY <1>1, SteadyFacts
<1>3. /\ \A q \in Paths : run.todo[q] = "none" /\ ~AwaitsRefresh(q)
  BY <1>1 DEF Parts, TodoInv, TodoAt, Pending, AwaitsRefresh
<1>4. ASSUME NEW q \in Paths
      PROVE  \/ /\ run'.seen[q].here <=> journal[q].here
                /\ journal[q].here => /\ run'.seen[q].dir = journal[q].dir
                                      /\ run'.seen[q].etag = journal[q].etag
                /\ ~journal[q].here => ~run'.seen[q].dir /\ run'.seen[q].etag = 0
             \/ /\ run'.seen[q].here <=> Present(remote[q])
                /\ Present(remote[q]) => /\ run'.seen[q].dir = IsDir(remote[q])
                                         /\ run'.seen[q].etag = remote[q].ver
                /\ ~Present(remote[q]) => ~run'.seen[q].dir /\ run'.seen[q].etag = 0
  <2>1. journal[q] \in Entries /\ remote[q] \in Nodes /\ ids[q] \in Ids BY DEF TypeInv
  <2>2. /\ journal[q].dir \in BOOLEAN /\ journal[q].etag \in Versions /\ journal[q].id \in Ids
        /\ remote[q].ver \in Versions /\ IsDir(remote[q]) \in BOOLEAN
    BY <2>1, NodeFacts DEF Entries, IsDir
  <2>3. CASE run'.seen = FromJournal
    <3>1. run'.seen[q] = IF journal[q].here
                         THEN Listed(journal[q].dir, journal[q].etag, journal[q].id) ELSE NotListed
      BY <2>3 DEF FromJournal
    <3> QED BY <3>1, <2>2, EntryFacts
  <2>4. CASE run'.seen = ServerListing({})
    <3>1. run'.seen[q] = IF Present(remote[q])
                         THEN Listed(IsDir(remote[q]), remote[q].ver, ids[q]) ELSE NotListed
      BY <2>4 DEF ServerListing
    <3> QED BY <3>1, <2>1, <2>2, EntryFacts
  <2> QED BY <1>2, <2>3, <2>4
<1>5. \A q \in Paths : journal[q].here => Present(remote[q]) BY <1>3 DEF Parts, RowsInv
<1>6. \A q \in Paths : /\ Present(remote[q]) => IsFile(remote[q]) \/ IsDir(remote[q])
                       /\ IsFile(remote[q]) => remote[q] = File(remote[q].ver) /\ Present(remote[q])
  BY NodeFacts DEF TypeInv
<1>7. ~IsFile(Absent) /\ ~IsDir(Absent) /\ Absent.ver = 0 BY NodesHold
<1>8. KindsInv'
  <2> SUFFICES ASSUME NEW q \in Paths
               PROVE  IF q \in DirPaths THEN run'.seen[q].here => run'.seen[q].dir
                      ELSE ~run'.seen[q].dir
    BY <1>1, <1>7 DEF Parts, KindsInv
  <2>1. IF q \in DirPaths
        THEN ~IsFile(remote[q]) /\ (journal[q].here => journal[q].dir)
        ELSE ~IsDir(remote[q]) /\ ~journal[q].dir
    BY DEF Parts, KindsInv
  <2> QED BY <1>4, <1>6, <2>1
<1>9. TreesInv' BY <1>1 DEF Parts, TreesInv
<1>10. VersionsInv'
  <2>1. Newest \in Nat BY VersionNumbers
  <2>2. \A q \in Paths : run'.seen[q].etag <= Newest BY <1>4, <2>1 DEF Parts, VersionsInv
  <2> QED BY <1>1, <1>7, <2>1, <2>2, QuietFacts DEF Parts, VersionsInv
<1>11. RowsInv' BY <1>1, <1>5, QuietFacts DEF Parts, RowsInv
<1>12. ListedInv' BY <1>1, <1>2, <1>4, <1>5 DEF ListedInv
<1>13. SharedInv' BY <1>1, <1>3, QuietFacts DEF Parts, SharedInv
<1>14. JournalInv' BY <1>1, QuietFacts DEF Parts, JournalInv
<1>15. SeenInv'
  <2> SUFFICES ASSUME NEW q \in Paths \ DirPaths
               PROVE  /\ run'.seen[q].here /\ run'.seen[q].etag \in mine
                             => remote[q] = File(run'.seen[q].etag)
                      /\ IsFile(remote[q]) /\ remote[q].ver \in mine =>
                             run'.seen[q].here /\ run'.seen[q].etag = remote[q].ver
    BY <1>1, QuietFacts DEF SeenInv
  <2>1. /\ journal[q].here /\ journal[q].etag \in mine => remote[q] = File(journal[q].etag)
        /\ IsFile(remote[q]) /\ remote[q].ver \in mine =>
               journal[q].here /\ journal[q].etag = remote[q].ver
    BY <1>3 DEF Parts, JournalInv, SharedInv
  <2>2. ~IsDir(remote[q]) BY DEF Parts, KindsInv
  <2> QED BY <1>4, <1>6, <2>1, <2>2
<1>16. TodoInv' BY <1>1 DEF TodoInv, TodoAt, Pending
<1>17. EditsInv' BY <1>1 DEF EditsInv
<1>18. UploadsInv' BY <1>1, <1>2 DEF Parts, UploadsInv
<1>19. EditsStay' BY <1>1, QuietFacts DEF Parts, EditsStay
<1> QED
  BY <1>8, <1>9, <1>10, <1>11, <1>12, <1>13, <1>14, <1>15, <1>16, <1>17, <1>18, <1>19 DEF Parts

\* A plan holds the decision for each path, or leaves out a download.
LEMMA SteadyPlan ==
    ASSUME TypeInv, Steady, Parts, run.phase = "listed", NEW q \in Paths
    PROVE  \E d \in Actions \ {"moveLocal", "deleteLocal", "fetch"} :
               /\ Means(d, local[q], run.seen[q], journal[q], run.complete)
               /\ Planned(q) = d \/ (d = "download" /\ Planned(q) = "none")
<1> DEFINE moved == \E s \in Paths :
                        q \in MoveSources(s, local, run.seen, journal, run.complete)
           l == local[q]
           r == run.seen[q]
           j == journal[q]
           c == run.complete
           d == Decision(l, r, j, c, moved)
<1>1. ASSUME NEW s \in Paths PROVE MoveSources(s, local, run.seen, journal, run.complete) = {}
  BY DEF Parts, ListedInv, MoveSources, KnownAs
<1>2. ~\E a \in Above(q) : IsFile(local[a])
  BY SteadyFacts, AboveFacts DEF Parts, KindsInv
<1>3. failures[q].of # "upload" BY DEF Parts, UploadsInv
<1>4. l \in Nodes /\ r.dir \in BOOLEAN BY DEF TypeInv, Runs, Listings
<1>5. r.here \/ ~j.here BY DEF Parts, ListedInv
<1>6. /\ Planned(q) # "none" => Planned(q) = d
      /\ Planned(q) = "none" => d = "none" \/ d = "download"
  BY <1>1, <1>2, <1>3, PlannedFacts DEF Shadowed
<1>7. Means(d, l, r, j, c)
  <2> HIDE DEF moved, l, r, j, c
  <2> QED BY <1>4, DecisionMeans
<1>8. d \in Actions \ {"moveLocal", "fetch"}
  <2> HIDE DEF moved, l, r, j, c
  <2> QED BY DecisionType DEF Actions
<1>9. d # "deleteLocal"
  <2> HIDE DEF l, r, j, c, d
  <2> QED BY <1>5, <1>7 DEF Means
<1> HIDE DEF d
<1> QED BY <1>6, <1>7, <1>8, <1>9

\* The plan uploads or sets aside every edit that is not on the server.
LEMMA PlanSteady ==
    ASSUME TypeInv, Steady, Parts, MakePlan
    PROVE  Parts'
<1>1. /\ UNCHANGED <<local, aside, remote, ids, journal, failures>> /\ Quiet
      /\ run.phase = "listed"
  BY PlanFacts DEF disk, server, db, users, Quiet
<1>2. \A q \in Paths : run.todo[q] = "none" /\ ~AwaitsRefresh(q)
  BY <1>1 DEF Parts, TodoInv, TodoAt, Pending, AwaitsRefresh
<1>3. CASE run' = NoRun BY <1>1, <1>2, <1>3, EndSteady
<1>4. CASE run' # NoRun
  <2>1. /\ run' \in Runs /\ run'.phase = "loop" /\ run'.seen = run.seen
        /\ run'.cancelled = run.cancelled
        /\ run'.scan = local /\ \A q \in Paths : run'.todo[q] = Planned(q)
    BY <1>4, PlanFacts
  <2>2. \A q \in Paths : /\ local[q] \in Nodes /\ remote[q] \in Nodes
                         /\ run.seen[q].dir \in BOOLEAN
    BY DEF TypeInv, Runs, Listings
  <2>3. run.complete /\ \A q \in Paths : /\ run.seen[q].here => Present(remote[q])
                                         /\ journal[q].here => run.seen[q].here
    BY <1>1 DEF Parts, ListedInv
  <2>4. \A q \in Paths : \E d \in Actions \ {"moveLocal", "deleteLocal", "fetch"} :
               /\ Means(d, local[q], run.seen[q], journal[q], run.complete)
               /\ Planned(q) = d \/ (d = "download" /\ Planned(q) = "none")
    BY <1>1, SteadyPlan
  <2>5. ASSUME NEW q \in Paths, IsDir(local[q]), ~run.seen[q].here PROVE Planned(q) = "mkdirRemote"
    <3>1. PICK d \in Actions \ {"moveLocal", "deleteLocal", "fetch"} :
               /\ Means(d, local[q], run.seen[q], journal[q], run.complete)
               /\ Planned(q) = d \/ (d = "download" /\ Planned(q) = "none")
      BY <2>4
    <3>2. ~journal[q].here /\ Present(local[q]) /\ ~IsFile(local[q])
      BY <2>2, <2>3, <2>5, NodeFacts
    <3>3. d = "mkdirRemote" BY <2>5, <3>1, <3>2 DEF Means, Actions
    <3> QED BY <3>1, <3>3
  <2>6. ASSUME NEW q \in Paths, Present(local[q]) PROVE ParentsReady(q)'
    <3> SUFFICES ASSUME NEW a \in Above(q)
                 PROVE  Present(remote[a]) \/ run'.todo[a] = "mkdirRemote"
      BY <1>1 DEF ParentsReady
    <3>1. a \in Paths /\ a \in DirPaths BY AboveFacts, SteadyFacts
    <3>2. Present(local[a]) BY <2>6 DEF Parts, TreesInv
    <3>3. IsDir(local[a]) BY <2>2, <3>1, <3>2, NodeFacts DEF Parts, KindsInv
    <3> QED BY <2>1, <2>3, <2>5, <3>1, <3>3
  <2>7. KindsInv' BY <1>1, <2>1 DEF Parts, KindsInv
  <2>8. TreesInv' BY <1>1 DEF Parts, TreesInv
  <2>9. VersionsInv' BY <1>1, <2>1, QuietFacts DEF Parts, VersionsInv
  <2>10. RowsInv' BY <1>1, <2>3, QuietFacts DEF Parts, RowsInv
  <2>11. ListedInv' BY <2>1 DEF ListedInv
  <2>12. SharedInv' BY <1>1, <1>2, QuietFacts DEF Parts, SharedInv
  <2>13. JournalInv' BY <1>1, QuietFacts DEF Parts, JournalInv
  <2>14. SeenInv' BY <1>1, <2>1, QuietFacts DEF Parts, SeenInv
  <2>15. \A q \in Paths :
             IF q \in DirPaths
             THEN ~IsFile(local[q]) /\ (run.seen[q].here => run.seen[q].dir)
             ELSE ~IsDir(local[q]) /\ ~run.seen[q].dir
    BY DEF Parts, KindsInv
  <2>16. TodoInv'
    <3> SUFFICES ASSUME NEW q \in Paths PROVE TodoAt(q)' BY DEF TodoInv
    <3>1. CASE run'.todo[q] = "none" BY <2>1, <3>1 DEF TodoAt, Pending
    <3>2. CASE run'.todo[q] # "none"
      <4> DEFINE d == Planned(q)
      <4>1. /\ run'.todo[q] = d /\ d \in Actions \ {"none", "moveLocal", "deleteLocal", "fetch"}
            /\ Means(d, local[q], run.seen[q], journal[q], run.complete)
        BY <2>1, <2>4, <3>2
      <4> HIDE DEF d
      <4>2. d \in Pending("loop") BY <4>1 DEF Actions, Pending
      <4>3. /\ Present(local[q]) => IsFile(local[q]) \/ IsDir(local[q])
            /\ IsFile(local[q]) \/ IsDir(local[q]) => Present(local[q])
            /\ IsFile(local[q]) => local[q] = File(local[q].ver)
        BY <2>2, NodeFacts
      <4>4. d = "download" => q \notin DirPaths /\ (IsFile(local[q]) => local[q].ver \notin mine)
        <5> SUFFICES ASSUME d = "download"
                     PROVE  q \notin DirPaths /\ (IsFile(local[q]) => local[q].ver \notin mine)
          OBVIOUS
        <5>1. /\ run.seen[q].here /\ ~run.seen[q].dir
              /\ Present(local[q]) => /\ journal[q].here /\ local[q].ver = journal[q].stamp
                                      /\ run.seen[q].etag # journal[q].etag
          BY <4>1 DEF Means
        <5>2. q \notin DirPaths BY <2>15, <5>1
        <5>3. ASSUME IsFile(local[q]), local[q].ver \in mine PROVE FALSE
          <6>1. remote[q] = File(local[q].ver) /\ remote[q] = local[q]
            BY <4>3, <5>1, <5>2, <5>3 DEF Parts, JournalInv
          <6>2. journal[q].etag = remote[q].ver
            BY <1>2, <5>2, <5>3, <6>1 DEF Parts, SharedInv
          <6>3. run.seen[q].etag = remote[q].ver
            BY <1>1, <5>2, <5>3, <6>1 DEF Parts, SeenInv
          <6> QED BY <4>3, <5>1, <5>3, <6>2, <6>3
        <5> QED BY <5>2, <5>3
      <4>5. d = "upload" => q \notin DirPaths /\ IsFile(local[q]) /\ ParentsReady(q)'
        BY <2>6, <2>15, <4>1, <4>3 DEF Means
      <4>6. d = "conflict" => /\ q \notin DirPaths /\ IsFile(local[q])
                              /\ journal[q].here => journal[q].stamp # local[q].ver
        <5> SUFFICES ASSUME d = "conflict"
                     PROVE  /\ q \notin DirPaths /\ IsFile(local[q])
                            /\ journal[q].here => journal[q].stamp # local[q].ver
          OBVIOUS
        <5>1. /\ Present(local[q]) /\ run.seen[q].here
              /\ \/ IsDir(local[q]) <=> ~run.seen[q].dir
                 \/ /\ IsFile(local[q])
                    /\ journal[q].here => journal[q].stamp # local[q].ver
          BY <4>1 DEF Means
        <5> QED BY <2>15, <4>3, <5>1
      <4>7. d = "record" => /\ Present(local[q]) /\ Present(remote[q]) /\ run.seen[q].here
                            /\ q \notin DirPaths /\ local[q].ver \in mine => remote[q] = local[q]
        <5> SUFFICES ASSUME d = "record"
                     PROVE  /\ Present(local[q]) /\ Present(remote[q]) /\ run.seen[q].here
                            /\ q \notin DirPaths /\ local[q].ver \in mine => remote[q] = local[q]
          OBVIOUS
        <5>1. /\ Present(local[q]) /\ run.seen[q].here
              /\ IsFile(local[q]) => IF journal[q].here THEN local[q].ver = journal[q].stamp
                                     ELSE local[q].ver = run.seen[q].etag
          BY <4>1 DEF Means
        <5>2. ASSUME q \notin DirPaths, local[q].ver \in mine PROVE remote[q] = local[q]
          <6>1. IsFile(local[q]) BY <2>15, <4>3, <5>1, <5>2
          <6>2. CASE journal[q].here
            BY <4>3, <5>1, <5>2, <6>1, <6>2 DEF Parts, JournalInv
          <6>3. CASE ~journal[q].here
            BY <1>1, <4>3, <5>1, <5>2, <6>1, <6>3 DEF Parts, SeenInv
          <6> QED BY <6>2, <6>3
        <5> QED BY <2>3, <5>1, <5>2
      <4>8. d = "mkdirLocal" => /\ q \in DirPaths /\ Present(remote[q]) /\ run.seen[q].here
                                /\ Above(q) = {}
        <5> SUFFICES ASSUME d = "mkdirLocal"
                     PROVE  /\ q \in DirPaths /\ Present(remote[q]) /\ run.seen[q].here
                            /\ Above(q) = {}
          OBVIOUS
        <5>1. run.seen[q].here /\ run.seen[q].dir /\ ~journal[q].here BY <4>1 DEF Means
        <5>2. q \in DirPaths /\ Present(remote[q]) BY <2>3, <2>15, <5>1
        <5>3. "mkdir" \in scenario.inputs BY <5>1, <5>2 DEF Parts, RowsInv
        <5> QED BY <5>1, <5>2, <5>3, SteadyFacts
      <4>9. d = "mkdirRemote" => /\ q \in DirPaths /\ Present(local[q]) /\ ParentsReady(q)'
        BY <2>6, <2>15, <4>1, <4>3 DEF Means
      <4>10. d = "deleteRemote" =>
                 /\ ~Present(local[q])
                 /\ \A b \in Below(q) : journal[b].here => run'.todo[b] = "deleteRemote"
        <5> SUFFICES ASSUME d = "deleteRemote"
                     PROVE  /\ ~Present(local[q])
                            /\ \A b \in Below(q) : journal[b].here => run'.todo[b] = "deleteRemote"
          OBVIOUS
        <5>1. ~Present(local[q]) BY <4>1 DEF Means
        <5>2. ASSUME NEW b \in Below(q), journal[b].here PROVE run'.todo[b] = "deleteRemote"
          <6>1. b \in Paths /\ q \in Above(b) BY DEF Below
          <6>2. ~Present(local[b]) BY <5>1, <6>1 DEF Parts, TreesInv
          <6>3. PICK e \in Actions \ {"moveLocal", "deleteLocal", "fetch"} :
                    /\ Means(e, local[b], run.seen[b], journal[b], run.complete)
                    /\ Planned(b) = e \/ (e = "download" /\ Planned(b) = "none")
            BY <2>4, <6>1
          <6>4. run.seen[b].here /\ ~IsDir(local[b]) /\ ~IsFile(local[b])
            BY <2>2, <2>3, <5>2, <6>1, <6>2, NodeFacts
          <6>5. e = "deleteRemote" BY <2>3, <5>2, <6>2, <6>3, <6>4 DEF Means, Actions
          <6> QED BY <2>1, <6>1, <6>3, <6>5
        <5> QED BY <5>1, <5>2
      <4> QED
        BY <1>1, <2>1, <4>1, <4>2, <4>4, <4>5, <4>6, <4>7, <4>8, <4>9, <4>10, QuietFacts DEF TodoAt
    <3> QED BY <3>1, <3>2
  <2>17. EditsInv'
    <3> SUFFICES ASSUME NEW q \in Paths, IsFile(local[q]), local[q].ver \in mine
                 PROVE  remote[q] = local[q] \/ run'.todo[q] \in {"upload", "conflict"}
      BY <1>1, QuietFacts DEF EditsInv
    <3>1. PICK d \in Actions \ {"moveLocal", "deleteLocal", "fetch"} :
               /\ Means(d, local[q], run.seen[q], journal[q], run.complete)
               /\ Planned(q) = d \/ (d = "download" /\ Planned(q) = "none")
      BY <2>4
    <3>2. /\ q \notin DirPaths /\ ~run.seen[q].dir /\ Present(local[q]) /\ ~IsDir(local[q])
          /\ local[q] = File(local[q].ver)
      BY <2>2, <2>15, NodeFacts
    <3>3. CASE journal[q].here /\ journal[q].stamp = local[q].ver
      BY <3>2, <3>3 DEF Parts, JournalInv
    <3>4. CASE run.seen[q].here /\ run.seen[q].etag = local[q].ver
      BY <1>1, <3>2, <3>4 DEF Parts, SeenInv
    <3>5. CASE /\ ~(journal[q].here /\ journal[q].stamp = local[q].ver)
               /\ ~(run.seen[q].here /\ run.seen[q].etag = local[q].ver)
      <4>1. run.seen[q].here \/ ~journal[q].here BY <2>3
      <4>2. d \in {"upload", "conflict"} BY <3>1, <3>2, <3>5, <4>1 DEF Means, Actions
      <4> QED BY <2>1, <3>1, <4>2
    <3> QED BY <3>3, <3>4, <3>5
  <2>18. UploadsInv' BY <1>1, <2>1 DEF Parts, UploadsInv
  <2>19. EditsStay' BY <1>1, QuietFacts DEF Parts, EditsStay
  <2> QED
    BY <2>7, <2>8, <2>9, <2>10, <2>11, <2>12, <2>13, <2>14, <2>16, <2>17, <2>18, <2>19 DEF Parts
<1> QED BY <1>3, <1>4

-----------------------------------------------------------------------------
(* The loop over the plan.                                                 *)

\* A run that took the action of p, with what is left to do there.
After(p, next) ==
    /\ run'.phase = run.phase /\ run'.seen = run.seen /\ run'.scan = run.scan
    /\ run'.cancelled = run.cancelled
    /\ \A q \in Paths : run'.todo[q] = IF q = p THEN next ELSE run.todo[q]

\* No process dies: the journal follows every effect.
LEMMA SteadyJournaled ==
    ASSUME TypeInv, Steady, NEW p \in Paths, NEW rows \in [Paths -> Entries], Journaled(p, rows)
    PROVE  journal' = rows /\ After(p, "none")
<1>1. run \in Runs BY DEF TypeInv
<1>2. journal' = rows /\ run'.todo = Less(p) /\ SameView(run, run')
  BY JournaledFacts, SteadyFacts
<1> QED BY <1>1, <1>2, LessFacts DEF After, SameView

\* The loop over the plan.
LEMMA LoopFacts ==
    ASSUME TypeInv, Steady, Parts, NEW p \in Paths, NEW action, Takes(p, action)
    PROVE  /\ Quiet /\ UNCHANGED failures
           /\ run.phase = "loop" /\ run.todo[p] = action /\ IsNext(p) /\ TodoAt(p)
           /\ \A q \in Paths : ~AwaitsRefresh(q)
BY DEF Takes, Quiet, Parts, TodoInv, AwaitsRefresh

\* What holds in the loop by itself.
LEMMA LoopParts ==
    ASSUME Parts, NEW p, NEW next, run.phase = "loop", After(p, next), UNCHANGED failures
    PROVE  (ListedInv /\ UploadsInv)' /\ \A q \in Paths : ~AwaitsRefresh(q)'
BY DEF Parts, ListedInv, UploadsInv, After, AwaitsRefresh

\* A row is written for two sides that are equal.
LEMMA RecordSteady ==
    ASSUME TypeInv, Steady, Parts, NEW p \in Paths, Record(p)
    PROVE  Parts'
<1>1. /\ Quiet /\ UNCHANGED failures /\ run.phase = "loop" /\ run.todo[p] = "record"
      /\ IsNext(p) /\ TodoAt(p) /\ \A q \in Paths : ~AwaitsRefresh(q)
  BY LoopFacts DEF Record
<1>2. UNCHANGED <<local, aside, remote, ids>> /\ Journaled(p, Recorded(p))
  BY DEF Record, disk, server
<1>3. journal \in [Paths -> Entries] /\ run \in Runs BY DEF TypeInv
<1>4. journal' = Recorded(p) /\ After(p, "none") BY <1>2, <1>3, RecordedFacts, SteadyJournaled
<1>5. /\ Present(local[p]) /\ Present(remote[p]) /\ run.seen[p].here /\ run.scan[p] = local[p]
      /\ p \notin DirPaths /\ local[p].ver \in mine => remote[p] = local[p]
  BY <1>1 DEF TodoAt
<1>6. /\ \A q \in Paths \ {p} : journal'[q] = journal[q]
      /\ journal'[p].here /\ journal'[p].stamp = local[p].ver
      /\ journal'[p].etag = run.seen[p].etag /\ journal'[p].dir = IsDir(local[p])
  BY <1>3, <1>4, <1>5, RecordedFacts
<1>7. \A q \in Paths : /\ local[q] \in Nodes /\ remote[q] \in Nodes
                       /\ Present(local[q]) => IsFile(local[q]) \/ IsDir(local[q])
                       /\ IsFile(local[q]) => local[q] = File(local[q].ver)
  BY NodeFacts DEF TypeInv
<1>8. (ListedInv /\ UploadsInv)' /\ \A q \in Paths : ~AwaitsRefresh(q)'
  BY <1>1, <1>4, LoopParts
<1>9. KindsInv' BY <1>2, <1>4, <1>5, <1>6, <1>7 DEF Parts, KindsInv, After
<1>10. TreesInv' BY <1>2 DEF Parts, TreesInv
<1>11. VersionsInv' BY <1>1, <1>2, <1>4, <1>6, QuietFacts DEF Parts, VersionsInv, After
<1>12. RowsInv' BY <1>1, <1>2, <1>4, <1>5, <1>6, QuietFacts DEF Parts, RowsInv, After
<1>13. SharedInv'
  <2> SUFFICES ASSUME NEW q \in Paths \ DirPaths, IsFile(remote[q]), remote[q].ver \in mine
               PROVE  /\ local[q] = remote[q] /\ journal'[q].here
                      /\ journal'[q].stamp = remote[q].ver /\ journal'[q].etag = remote[q].ver
    BY <1>1, <1>2, QuietFacts DEF SharedInv
  <2>1. /\ local[q] = remote[q] /\ journal[q].here
        /\ journal[q].stamp = remote[q].ver /\ journal[q].etag = remote[q].ver
    BY <1>1 DEF Parts, SharedInv
  <2>2. run.seen[q].etag = remote[q].ver BY <1>1 DEF Parts, SeenInv
  <2> QED BY <1>6, <2>1, <2>2
<1>14. JournalInv'
  <2> SUFFICES ASSUME NEW q \in Paths \ DirPaths, journal'[q].here,
                      NEW v \in {journal'[q].stamp, journal'[q].etag}, v \in mine
               PROVE  remote[q] = File(v)
    BY <1>1, <1>2, QuietFacts DEF JournalInv
  <2>1. CASE q # p BY <1>6, <2>1 DEF Parts, JournalInv
  <2>2. CASE q = p /\ v = local[p].ver
    <3>1. IsFile(local[p]) BY <1>5, <1>7, <2>2 DEF Parts, KindsInv
    <3> QED BY <1>5, <1>7, <2>2, <3>1
  <2>3. CASE q = p /\ v = run.seen[p].etag BY <1>1, <1>5, <2>3 DEF Parts, SeenInv
  <2> QED BY <1>6, <2>1, <2>2, <2>3
<1>15. SeenInv' BY <1>1, <1>2, <1>4, QuietFacts DEF Parts, SeenInv, After
<1>16. TodoInv'
  <2> SUFFICES ASSUME NEW q \in Paths PROVE TodoAt(q)' BY DEF TodoInv
  <2>1. CASE q = p BY <1>1, <1>4, <2>1 DEF TodoAt, After, Pending
  <2>2. CASE q # p
    <3>1. TodoAt(q) BY DEF Parts, TodoInv
    <3>2. ParentsReady(q) => ParentsReady(q)'
      BY <1>1, <1>2, <1>4, AboveFacts DEF ParentsReady, After
    <3>3. run.todo[q] = "deleteRemote" =>
              \A b \in Below(q) : journal'[b].here => run'.todo[b] = "deleteRemote"
      <4> SUFFICES ASSUME run.todo[q] = "deleteRemote", NEW b \in Below(q), journal'[b].here
                   PROVE  run'.todo[b] = "deleteRemote"
        OBVIOUS
      <4>1. b \in Paths /\ q \in Above(b) BY DEF Below
      <4>2. ~Present(local[b]) BY <3>1, <4>1 DEF TodoAt, Parts, TreesInv
      <4>3. b # p BY <1>5, <4>2
      <4> QED BY <1>4, <1>6, <3>1, <4>1, <4>3 DEF TodoAt, After
    <3> QED BY <1>1, <1>2, <1>4, <1>6, <2>2, <3>1, <3>2, <3>3, QuietFacts DEF TodoAt, After
  <2> QED BY <2>1, <2>2
<1>17. EditsInv'
  <2> SUFFICES ASSUME NEW q \in Paths, IsFile(local[q]), local[q].ver \in mine
               PROVE  remote[q] = local[q] \/ run'.todo[q] \in {"upload", "conflict"}
    BY <1>1, <1>2, QuietFacts DEF EditsInv
  <2>1. remote[q] = local[q] \/ run.todo[q] \in {"upload", "conflict"}
    BY <1>1 DEF Parts, EditsInv
  <2> QED BY <1>1, <1>4, <2>1 DEF After
<1>18. EditsStay' BY <1>1, <1>2, QuietFacts DEF Parts, EditsStay
<1> QED
  BY <1>8, <1>9, <1>10, <1>11, <1>12, <1>13, <1>14, <1>15, <1>16, <1>17, <1>18 DEF Parts

\* A directory made by the run replaces nothing,
LEMMA MkdirLocalSteady ==
    ASSUME TypeInv, Steady, Parts, NEW p \in Paths, MkdirLocal(p)
    PROVE  Parts'
<1>1. /\ Quiet /\ UNCHANGED failures /\ run.phase = "loop" /\ run.todo[p] = "mkdirLocal"
      /\ IsNext(p) /\ TodoAt(p) /\ \A q \in Paths : ~AwaitsRefresh(q)
  BY LoopFacts DEF MkdirLocal
<1>2. p \in DirPaths /\ Present(remote[p]) /\ run.seen[p].here /\ Above(p) = {}
  BY <1>1 DEF TodoAt
<1>3. journal \in [Paths -> Entries] /\ run \in Runs /\ local \in [Paths -> Nodes] BY DEF TypeInv
<1>4. Reachable(local, p) /\ ~IsFile(local[p]) BY <1>2 DEF Reachable, Parts, KindsInv
<1>5. /\ local' = [WithParents(local, p) EXCEPT ![p] = Directory] /\ Journaled(p, Recorded(p))
      /\ UNCHANGED <<aside, remote, ids>>
  BY <1>4 DEF MkdirLocal, server
<1>6. journal' = Recorded(p) /\ After(p, "none") BY <1>3, <1>5, RecordedFacts, SteadyJournaled
<1>7. \A q \in Paths : local'[q] = IF q = p THEN Directory ELSE local[q]
  BY <1>2, <1>3, <1>5, ParentsMade
<1>8. ~IsFile(Directory) /\ Directory.ver = 0 /\ Present(Directory) /\ IsDir(Directory)
  BY NodesHold
<1>9. \A q \in Paths : /\ run.scan[q] \in Nodes /\ local[q] \in Nodes
                       /\ Present(run.scan[q]) => IsFile(run.scan[q]) \/ IsDir(run.scan[q])
                       /\ IsDir(run.scan[q]) => run.scan[q].ver = 0
  BY NodeFacts, NodesHold DEF TypeInv, Runs
<1>10. /\ \A q \in Paths \ {p} : journal'[q] = journal[q]
       /\ journal'[p].here /\ journal'[p].etag = run.seen[p].etag /\ journal'[p].dir
       /\ journal'[p].stamp \in {run.scan[p].ver, run.seen[p].etag}
  <2>1. run.seen[p].dir /\ ~IsFile(run.scan[p]) BY <1>2 DEF Parts, KindsInv
  <2> QED BY <1>3, <1>6, <1>9, <2>1, RecordedFacts
<1>11. \A q \in Paths \ DirPaths : local'[q] = local[q] /\ journal'[q] = journal[q] /\ q # p
  BY <1>2, <1>7, <1>10
<1>12. (ListedInv /\ UploadsInv)' /\ \A q \in Paths : ~AwaitsRefresh(q)'
  BY <1>1, <1>6, LoopParts
<1>13. KindsInv' BY <1>2, <1>5, <1>6, <1>7, <1>8, <1>10 DEF Parts, KindsInv, After
<1>14. TreesInv'
  <2> SUFFICES ASSUME NEW q \in Paths, NEW a \in Above(q)
               PROVE  Present(local'[q]) => Present(local'[a])
    BY <1>5 DEF Parts, TreesInv
  <2>1. a \in Paths BY AboveFacts
  <2> QED BY <1>2, <1>7, <1>8, <2>1 DEF Parts, TreesInv
<1>15. VersionsInv'
  <2>1. \A q \in Paths : local'[q].ver \in {0, local[q].ver} BY <1>7, <1>8
  <2> QED BY <1>1, <1>5, <1>6, <1>10, <2>1, VersionNumbers, QuietFacts
          DEF Parts, VersionsInv, After
<1>16. RowsInv' BY <1>1, <1>2, <1>5, <1>6, <1>10, QuietFacts DEF Parts, RowsInv, After
<1>17. SharedInv' BY <1>1, <1>5, <1>11, QuietFacts DEF Parts, SharedInv
<1>18. JournalInv' BY <1>1, <1>5, <1>11, QuietFacts DEF Parts, JournalInv
<1>19. SeenInv' BY <1>1, <1>5, <1>6, QuietFacts DEF Parts, SeenInv, After
<1>20. TodoInv'
  <2> SUFFICES ASSUME NEW q \in Paths PROVE TodoAt(q)' BY DEF TodoInv
  <2>1. CASE q = p BY <1>1, <1>6, <2>1 DEF TodoAt, After, Pending
  <2>2. CASE q # p
    <3>1. TodoAt(q) BY DEF Parts, TodoInv
    <3>2. ParentsReady(q) => ParentsReady(q)'
      BY <1>1, <1>5, <1>6, AboveFacts DEF ParentsReady, After
    <3>3. run.todo[q] = "deleteRemote" =>
              \A b \in Below(q) : journal'[b].here => run'.todo[b] = "deleteRemote"
      <4> SUFFICES ASSUME run.todo[q] = "deleteRemote", NEW b \in Below(q), journal'[b].here
                   PROVE  run'.todo[b] = "deleteRemote"
        OBVIOUS
      <4>1. b \in Paths /\ q \in Above(b) BY DEF Below
      <4>2. b # p BY <1>2, <4>1
      <4> QED BY <1>6, <1>10, <3>1, <4>1, <4>2 DEF TodoAt, After
    <3>4. local'[q] = local[q] /\ (\A a \in Above(q) : Present(local[a]) => Present(local'[a]))
      BY <1>7, <1>8, <2>2, AboveFacts
    <3> QED BY <1>1, <1>5, <1>6, <1>10, <2>2, <3>1, <3>2, <3>3, <3>4, QuietFacts DEF TodoAt, After
  <2> QED BY <2>1, <2>2
<1>21. EditsInv'
  <2> SUFFICES ASSUME NEW q \in Paths, IsFile(local'[q]), local'[q].ver \in mine
               PROVE  remote[q] = local'[q] \/ run'.todo[q] \in {"upload", "conflict"}
    BY <1>5, QuietFacts, <1>1 DEF EditsInv
  <2>1. q # p /\ local'[q] = local[q] BY <1>7, <1>8
  <2>2. remote[q] = local[q] \/ run.todo[q] \in {"upload", "conflict"}
    BY <1>1, <2>1 DEF Parts, EditsInv
  <2> QED BY <1>6, <2>1, <2>2 DEF After
<1>22. EditsStay'
  <2> SUFFICES ASSUME NEW v \in mine, v \notin aside PROVE v \in VersionsAt(local', Paths)
    BY <1>1, <1>5, QuietFacts DEF EditsStay
  <2>1. PICK q \in Paths : IsFile(local[q]) /\ local[q].ver = v
    BY DEF Parts, EditsStay, VersionsAt
  <2> QED BY <1>4, <1>7, <2>1 DEF VersionsAt
<1> QED
  BY <1>12, <1>13, <1>14, <1>15, <1>16, <1>17, <1>18, <1>19, <1>20, <1>21, <1>22 DEF Parts

\* The directories above the next directory to make are on the server.
LEMMA ParentsAreThere ==
    ASSUME TypeInv, Steady, Parts, NEW p \in Paths, run.todo[p] = "mkdirRemote", IsNext(p),
           ParentsReady(p)
    PROVE  Writable(remote, p)
<1> SUFFICES ASSUME NEW a \in Above(p) PROVE IsDir(remote[a]) BY DEF Writable
<1>1. a \in Paths /\ a # p /\ Precedes(a, p) /\ a \in DirPaths BY AboveFacts, SteadyFacts
<1>2. Place(a) \in Nat /\ Place(p) \in Nat BY <1>1, PathFacts
<1>3. ~Precedes(p, a) BY <1>1, <1>2 DEF Precedes
<1>4. run.todo[a] # "mkdirRemote"
  <2> SUFFICES ASSUME run.todo[a] = "mkdirRemote" PROVE FALSE OBVIOUS
  <2>1. Rank("mkdirRemote") = 1 BY DEF Rank
  <2> QED BY <1>1, <1>3, <2>1 DEF IsNext
<1>5. Present(remote[a]) BY <1>4 DEF ParentsReady
<1>6. remote[a] \in Nodes /\ ~IsFile(remote[a]) BY <1>1 DEF TypeInv, Parts, KindsInv
<1> QED BY <1>5, <1>6, NodeFacts

\* ... on the server neither.
LEMMA MkdirRemoteSteady ==
    ASSUME TypeInv, Steady, Parts, NEW p \in Paths, MkdirRemote(p)
    PROVE  Parts'
<1>1. /\ Quiet /\ UNCHANGED failures /\ run.phase = "loop" /\ run.todo[p] = "mkdirRemote"
      /\ IsNext(p) /\ TodoAt(p) /\ \A q \in Paths : ~AwaitsRefresh(q)
  BY LoopFacts DEF MkdirRemote
<1>2. p \in DirPaths /\ Present(local[p]) /\ Present(run.scan[p]) /\ ParentsReady(p)
  BY <1>1 DEF TodoAt
<1>3. /\ journal \in [Paths -> Entries] /\ run \in Runs
      /\ local \in [Paths -> Nodes] /\ remote \in [Paths -> Nodes]
  BY DEF TypeInv
<1>4. Writable(remote, p) BY <1>1, <1>2, ParentsAreThere
<1>5. ~IsFile(Directory) /\ Directory.ver = 0 /\ Present(Directory) /\ IsDir(Directory)
  BY NodesHold
<1>6. /\ Journaled(p, Recorded(p)) /\ UNCHANGED <<local, aside, ids>>
      /\ \/ remote' = [remote EXCEPT ![p] = Directory]
         \/ remote' = remote /\ Present(remote[p])
  BY <1>4, SteadyFacts DEF MkdirRemote, disk
<1>7. remote[p] \in Nodes /\ ~IsFile(remote[p]) BY <1>2, <1>3 DEF Parts, KindsInv
<1>8. \A q \in Paths : remote'[q] = IF q = p THEN Directory ELSE remote[q]
  BY <1>3, <1>6, <1>7, NodeFacts
<1>9. journal' = Recorded(p) /\ After(p, "none") BY <1>3, <1>6, RecordedFacts, SteadyJournaled
<1>10. /\ \A q \in Paths \ {p} : journal'[q] = journal[q]
       /\ journal'[p].here /\ journal'[p].etag = run.seen[p].etag /\ journal'[p].dir
       /\ journal'[p].stamp = run.scan[p].ver
  <2>1. run.scan[p] \in Nodes /\ ~IsFile(run.scan[p]) BY <1>2, <1>3 DEF Parts, KindsInv, Runs
  <2>2. IsDir(run.scan[p]) BY <1>2, <2>1, NodeFacts
  <2> QED BY <1>2, <1>3, <1>9, <2>2, RecordedFacts
<1>11. \A q \in Paths \ DirPaths : remote'[q] = remote[q] /\ journal'[q] = journal[q] /\ q # p
  BY <1>2, <1>8, <1>10
<1>12. (ListedInv /\ UploadsInv)' /\ \A q \in Paths : ~AwaitsRefresh(q)'
  BY <1>1, <1>9, LoopParts
<1>13. KindsInv' BY <1>2, <1>5, <1>6, <1>8, <1>9, <1>10 DEF Parts, KindsInv, After
<1>14. TreesInv'
  <2> SUFFICES ASSUME NEW q \in Paths, NEW a \in Above(q)
               PROVE  Present(remote'[q]) => Present(remote'[a])
    BY <1>6 DEF Parts, TreesInv
  <2>1. a \in Paths BY AboveFacts
  <2>2. q = p => Present(remote[a]) BY <1>3, <1>4, <2>1, NodeFacts DEF Writable
  <2> QED BY <1>5, <1>8, <2>1, <2>2 DEF Parts, TreesInv
<1>15. VersionsInv'
  <2>1. \A q \in Paths : remote'[q].ver \in {0, remote[q].ver} BY <1>5, <1>8
  <2> QED BY <1>1, <1>6, <1>9, <1>10, <2>1, VersionNumbers, QuietFacts
          DEF Parts, VersionsInv, After
<1>16. RowsInv' BY <1>1, <1>5, <1>8, <1>9, <1>10, QuietFacts DEF Parts, RowsInv, After
<1>17. SharedInv' BY <1>1, <1>6, <1>11, QuietFacts DEF Parts, SharedInv
<1>18. JournalInv' BY <1>1, <1>11, QuietFacts DEF Parts, JournalInv
<1>19. SeenInv' BY <1>1, <1>9, <1>11, QuietFacts DEF Parts, SeenInv, After
<1>20. TodoInv'
  <2> SUFFICES ASSUME NEW q \in Paths PROVE TodoAt(q)' BY DEF TodoInv
  <2>1. CASE q = p BY <1>1, <1>9, <2>1 DEF TodoAt, After, Pending
  <2>2. CASE q # p
    <3>1. TodoAt(q) BY DEF Parts, TodoInv
    <3>2. ParentsReady(q) => ParentsReady(q)'
      BY <1>1, <1>5, <1>8, <1>9, AboveFacts DEF ParentsReady, After
    <3>3. run.todo[q] = "deleteRemote" =>
              \A b \in Below(q) : journal'[b].here => run'.todo[b] = "deleteRemote"
      <4> SUFFICES ASSUME run.todo[q] = "deleteRemote", NEW b \in Below(q), journal'[b].here
                   PROVE  run'.todo[b] = "deleteRemote"
        OBVIOUS
      <4>1. b \in Paths /\ q \in Above(b) BY DEF Below
      <4>2. ~Present(local[b]) BY <3>1, <4>1 DEF TodoAt, Parts, TreesInv
      <4>3. b # p BY <1>2, <4>2
      <4> QED BY <1>9, <1>10, <3>1, <4>1, <4>3 DEF TodoAt, After
    <3>4. remote'[q] = remote[q] BY <1>8, <2>2
    <3> QED BY <1>1, <1>6, <1>9, <1>10, <2>2, <3>1, <3>2, <3>3, <3>4, QuietFacts DEF TodoAt, After
  <2> QED BY <2>1, <2>2
<1>21. EditsInv'
  <2> SUFFICES ASSUME NEW q \in Paths, IsFile(local[q]), local[q].ver \in mine
               PROVE  remote'[q] = local[q] \/ run'.todo[q] \in {"upload", "conflict"}
    BY <1>1, <1>6, QuietFacts DEF EditsInv
  <2>1. q \notin DirPaths BY DEF Parts, KindsInv
  <2>2. remote[q] = local[q] \/ run.todo[q] \in {"upload", "conflict"}
    BY <1>1 DEF Parts, EditsInv
  <2> QED BY <1>9, <1>11, <2>1, <2>2 DEF After
<1>22. EditsStay' BY <1>1, <1>6, QuietFacts DEF Parts, EditsStay
<1> QED
  BY <1>12, <1>13, <1>14, <1>15, <1>16, <1>17, <1>18, <1>19, <1>20, <1>21, <1>22 DEF Parts

\* The first half of a conflict moves an edit to its copy,
LEMMA SetAsideSteady ==
    ASSUME TypeInv, Steady, Parts, NEW p \in Paths, SetAside(p)
    PROVE  Parts'
<1>1. /\ Quiet /\ UNCHANGED failures /\ run.phase = "loop" /\ run.todo[p] = "conflict"
      /\ IsNext(p) /\ TodoAt(p) /\ \A q \in Paths : ~AwaitsRefresh(q)
  BY LoopFacts DEF SetAside
<1>2. /\ p \notin DirPaths /\ IsFile(local[p])
      /\ journal[p].here => journal[p].stamp # local[p].ver
  BY <1>1 DEF TodoAt
<1>3. /\ journal \in [Paths -> Entries] /\ run \in Runs
      /\ local \in [Paths -> Nodes] /\ remote \in [Paths -> Nodes]
  BY DEF TypeInv
<1>4. /\ run' = [run EXCEPT !.todo[p] = "fetch"] /\ local' = [local EXCEPT ![p] = Absent]
      /\ aside' = aside \cup VersionsAt(local, {p}) /\ UNCHANGED <<remote, ids, journal>>
  BY <1>2, <1>3, NodeFacts DEF SetAside, server
<1>5. After(p, "fetch")
  <2>1. run'.todo = [run.todo EXCEPT ![p] = "fetch"] /\ SameView(run, run')
    BY <1>3, <1>4, AsideFacts
  <2>2. run.todo \in [Paths -> Actions] BY <1>3 DEF Runs
  <2> QED BY <2>1, <2>2 DEF After, SameView
<1>6. \A q \in Paths : local'[q] = IF q = p THEN Absent ELSE local[q] BY <1>3, <1>4
<1>7. ~IsFile(Absent) /\ ~IsDir(Absent) /\ Absent.ver = 0 /\ ~Present(Absent) BY NodesHold
<1>8. \A q \in Paths : p \notin Above(q) BY <1>2, SteadyFacts
<1>9. Present(local[p]) BY <1>2, <1>3, NodeFacts
<1>10. (ListedInv /\ UploadsInv)' /\ \A q \in Paths : ~AwaitsRefresh(q)'
  BY <1>1, <1>5, LoopParts
<1>11. KindsInv' BY <1>4, <1>5, <1>6, <1>7 DEF Parts, KindsInv, After
<1>12. TreesInv'
  <2> SUFFICES ASSUME NEW q \in Paths, NEW a \in Above(q)
               PROVE  Present(local'[q]) => Present(local'[a])
    BY <1>4 DEF Parts, TreesInv
  <2>1. a \in Paths /\ a # p BY <1>8, AboveFacts
  <2> QED BY <1>6, <1>7, <2>1 DEF Parts, TreesInv
<1>13. VersionsInv'
  <2>1. \A q \in Paths : local'[q].ver \in {0, local[q].ver} BY <1>6, <1>7
  <2> QED BY <1>1, <1>4, <1>5, <2>1, VersionNumbers, QuietFacts DEF Parts, VersionsInv, After
<1>14. RowsInv' BY <1>1, <1>4, <1>5, QuietFacts DEF Parts, RowsInv, After
<1>15. SharedInv'
  <2> SUFFICES ASSUME NEW q \in Paths \ DirPaths, IsFile(remote[q]), remote[q].ver \in mine
               PROVE  /\ local'[q] = remote[q] /\ journal[q].here
                      /\ journal[q].stamp = remote[q].ver /\ journal[q].etag = remote[q].ver
    BY <1>1, <1>4, QuietFacts DEF SharedInv
  <2>1. /\ local[q] = remote[q] /\ journal[q].here
        /\ journal[q].stamp = remote[q].ver /\ journal[q].etag = remote[q].ver
    BY <1>1 DEF Parts, SharedInv
  <2>2. q # p BY <1>2, <2>1
  <2> QED BY <1>6, <2>1, <2>2
<1>16. JournalInv' BY <1>1, <1>4, QuietFacts DEF Parts, JournalInv
<1>17. SeenInv' BY <1>1, <1>4, <1>5, QuietFacts DEF Parts, SeenInv, After
<1>18. TodoInv'
  <2> SUFFICES ASSUME NEW q \in Paths PROVE TodoAt(q)' BY DEF TodoInv
  <2>1. \A a \in Above(q) : a \in Paths /\ local'[a] = local[a] BY <1>6, <1>8, AboveFacts
  <2>2. CASE q = p
    <3>1. \A a \in Above(p) : Present(local'[a]) BY <1>9, <2>1, <2>2 DEF Parts, TreesInv
    <3> QED BY <1>1, <1>2, <1>5, <1>6, <1>7, <2>2, <3>1 DEF TodoAt, After, Pending
  <2>3. CASE q # p
    <3>1. TodoAt(q) BY DEF Parts, TodoInv
    <3>2. ParentsReady(q) => ParentsReady(q)'
      BY <1>1, <1>4, <1>5, AboveFacts DEF ParentsReady, After
    <3>3. run.todo[q] = "deleteRemote" =>
              \A b \in Below(q) : journal'[b].here => run'.todo[b] = "deleteRemote"
      BY <1>1, <1>4, <1>5, <3>1 DEF TodoAt, After, Below
    <3>4. local'[q] = local[q] BY <1>6, <2>3
    <3> QED BY <1>1, <1>4, <1>5, <2>1, <2>3, <3>1, <3>2, <3>3, <3>4, QuietFacts DEF TodoAt, After
  <2> QED BY <2>2, <2>3
<1>19. EditsInv'
  <2> SUFFICES ASSUME NEW q \in Paths, IsFile(local'[q]), local'[q].ver \in mine
               PROVE  remote[q] = local'[q] \/ run'.todo[q] \in {"upload", "conflict"}
    BY <1>1, <1>4, QuietFacts DEF EditsInv
  <2>1. q # p /\ local'[q] = local[q] BY <1>6, <1>7
  <2>2. remote[q] = local[q] \/ run.todo[q] \in {"upload", "conflict"}
    BY <1>1, <2>1 DEF Parts, EditsInv
  <2> QED BY <1>5, <2>1, <2>2 DEF After
<1>20. EditsStay'
  <2> SUFFICES ASSUME NEW v \in mine, v \notin aside'
               PROVE  v \in VersionsAt(local', Paths)
    BY <1>1, QuietFacts DEF EditsStay
  <2>1. v \notin aside /\ v \notin VersionsAt(local, {p}) BY <1>4
  <2>2. PICK q \in Paths : IsFile(local[q]) /\ local[q].ver = v
    BY <2>1 DEF Parts, EditsStay, VersionsAt
  <2>3. q # p BY <2>1, <2>2 DEF VersionsAt
  <2> QED BY <1>6, <2>2, <2>3 DEF VersionsAt
<1> QED
  BY <1>10, <1>11, <1>12, <1>13, <1>14, <1>15, <1>16, <1>17, <1>18, <1>19, <1>20 DEF Parts

\* ... and the second half fills the place that it left.
LEMMA FetchSteady ==
    ASSUME TypeInv, Steady, Parts, NEW p \in Paths, Fetch(p)
    PROVE  Parts'
<1>1. /\ Quiet /\ UNCHANGED failures /\ run.phase = "loop" /\ run.todo[p] = "fetch"
      /\ IsNext(p) /\ TodoAt(p) /\ \A q \in Paths : ~AwaitsRefresh(q)
  BY LoopFacts DEF Fetch
<1>2. p \notin DirPaths /\ ~Present(local[p]) /\ \A a \in Above(p) : Present(local[a])
  BY <1>1 DEF TodoAt
<1>3. /\ journal \in [Paths -> Entries] /\ run \in Runs
      /\ local \in [Paths -> Nodes] /\ remote \in [Paths -> Nodes]
  BY DEF TypeInv
<1>4. \A q \in Paths : WithParents(local, p)[q] = local[q]
  <2> SUFFICES ASSUME NEW q \in Paths PROVE WithParents(local, p)[q] = local[q] OBVIOUS
  <2>1. q \in Above(p) => local[q] = Directory
    <3> SUFFICES ASSUME q \in Above(p) PROVE local[q] = Directory OBVIOUS
    <3>1. q \in DirPaths BY SteadyFacts
    <3> QED BY <1>2, <1>3, <3>1, NodeFacts DEF Parts, KindsInv
  <2> QED BY <1>3, <2>1, ParentsMade
<1>5. /\ UNCHANGED <<aside, remote, ids, journal>>
      /\ \/ CanDownload(p) /\ local' = Downloaded(p) /\ After(p, "none")
         \/ local' = WithParents(local, p) /\ After(p, "none")
  <2>1. ~run.seen[p].dir BY <1>2 DEF Parts, KindsInv
  <2>2. /\ UNCHANGED <<aside, remote, ids, journal>>
        /\ \/ /\ CanDownload(p) /\ local' = Downloaded(p)
              /\ run' = [Done(p) EXCEPT !.conflicts = TRUE,
                                        !.touched = @ \cup {ParentDir(p)}]
           \/ local' = WithParents(local, p) /\ run' = Erred(p)
    BY <2>1 DEF Fetch, server
  <2>3. /\ Less(p) = Erred(p).todo /\ SameView(run, Erred(p))
        /\ \A q \in Paths : Less(p)[q] = IF q = p THEN "none" ELSE run.todo[q]
    BY <1>3, DoneFacts, LessFacts
  <2>4. CASE run' = Erred(p) BY <2>2, <2>3, <2>4 DEF After, SameView
  <2>5. CASE run' = [Done(p) EXCEPT !.conflicts = TRUE, !.touched = @ \cup {ParentDir(p)}]
    <3>1. run'.todo = Less(p) /\ SameView(run, run') BY <1>3, <2>5, FetchedFacts
    <3>2. After(p, "none") BY <2>3, <3>1 DEF After, SameView
    <3> QED BY <2>2, <3>2
  <2> QED BY <2>2, <2>4, <2>5
<1>6. /\ \A q \in Paths \ {p} : local'[q] = local[q]
      /\ local'[p] = local[p] \/ (IsFile(remote[p]) /\ local'[p] = remote[p])
  <2>1. CASE CanDownload(p) /\ local' = Downloaded(p)
    <3>1. remote[p] \in Nodes BY <1>3
    <3>2. local'[p] = remote[p] /\ \A q \in Paths \ {p} : local'[q] = WithParents(local, p)[q]
      BY <2>1, <3>1, PlacedFacts DEF Downloaded
    <3> QED BY <1>4, <2>1, <3>2 DEF CanDownload
  <2>2. CASE local' = WithParents(local, p) BY <1>4, <2>2
  <2> QED BY <1>5, <2>1, <2>2
<1>7. After(p, "none") BY <1>5
<1>8. ~IsFile(local[p]) BY <1>2, <1>3, NodeFacts
<1>9. \A q \in Paths : p \notin Above(q) BY <1>2, SteadyFacts
<1>10. (ListedInv /\ UploadsInv)' /\ \A q \in Paths : ~AwaitsRefresh(q)'
  <2>1. (ListedInv /\ UploadsInv)' /\ \A q \in Paths : ~AwaitsRefresh(q)'
    BY <1>1, <1>7, LoopParts
  <2> QED BY <2>1
<1>11. KindsInv' BY <1>2, <1>5, <1>6, <1>7 DEF Parts, KindsInv, After
<1>12. TreesInv'
  <2> SUFFICES ASSUME NEW q \in Paths, NEW a \in Above(q)
               PROVE  Present(local'[q]) => Present(local'[a])
    BY <1>5 DEF Parts, TreesInv
  <2>1. a \in Paths /\ a # p BY <1>9, AboveFacts
  <2> QED BY <1>2, <1>6, <2>1 DEF Parts, TreesInv
<1>13. VersionsInv'
  <2>1. \A q \in Paths : local'[q].ver \in {local[q].ver, remote[q].ver} BY <1>6
  <2> QED BY <1>1, <1>5, <1>7, <2>1, QuietFacts DEF Parts, VersionsInv, After
<1>14. RowsInv' BY <1>1, <1>5, <1>7, QuietFacts DEF Parts, RowsInv, After
<1>15. SharedInv'
  <2> SUFFICES ASSUME NEW q \in Paths \ DirPaths, IsFile(remote[q]), remote[q].ver \in mine
               PROVE  /\ local'[q] = remote[q] /\ journal[q].here
                      /\ journal[q].stamp = remote[q].ver /\ journal[q].etag = remote[q].ver
    BY <1>1, <1>5, QuietFacts DEF SharedInv
  <2>1. /\ local[q] = remote[q] /\ journal[q].here
        /\ journal[q].stamp = remote[q].ver /\ journal[q].etag = remote[q].ver
    BY <1>1 DEF Parts, SharedInv
  <2>2. q # p BY <1>8, <2>1
  <2> QED BY <1>6, <2>1, <2>2
<1>16. JournalInv' BY <1>1, <1>5, QuietFacts DEF Parts, JournalInv
<1>17. SeenInv' BY <1>1, <1>5, <1>7, QuietFacts DEF Parts, SeenInv, After
<1>18. TodoInv'
  <2> SUFFICES ASSUME NEW q \in Paths PROVE TodoAt(q)' BY DEF TodoInv
  <2>1. \A a \in Above(q) : a \in Paths /\ local'[a] = local[a] BY <1>6, <1>9, AboveFacts
  <2>2. CASE q = p BY <1>1, <1>7, <2>2 DEF TodoAt, After, Pending
  <2>3. CASE q # p
    <3>1. TodoAt(q) BY DEF Parts, TodoInv
    <3>2. ParentsReady(q) => ParentsReady(q)'
      BY <1>1, <1>5, <1>7, AboveFacts DEF ParentsReady, After
    <3>3. run.todo[q] = "deleteRemote" =>
              \A b \in Below(q) : journal'[b].here => run'.todo[b] = "deleteRemote"
      BY <1>1, <1>5, <1>7, <3>1 DEF TodoAt, After, Below
    <3>4. local'[q] = local[q] BY <1>6, <2>3
    <3> QED BY <1>1, <1>5, <1>7, <2>1, <2>3, <3>1, <3>2, <3>3, <3>4, QuietFacts DEF TodoAt, After
  <2> QED BY <2>2, <2>3
<1>19. EditsInv'
  <2> SUFFICES ASSUME NEW q \in Paths, IsFile(local'[q]), local'[q].ver \in mine
               PROVE  remote[q] = local'[q] \/ run'.todo[q] \in {"upload", "conflict"}
    BY <1>1, <1>5, QuietFacts DEF EditsInv
  <2>1. CASE q = p BY <1>6, <1>8, <2>1
  <2>2. CASE q # p
    <3>1. remote[q] = local[q] \/ run.todo[q] \in {"upload", "conflict"}
      BY <1>1, <1>6, <2>2 DEF Parts, EditsInv
    <3> QED BY <1>6, <1>7, <2>2, <3>1 DEF After
  <2> QED BY <2>1, <2>2
<1>20. EditsStay'
  <2> SUFFICES ASSUME NEW v \in mine, v \notin aside PROVE v \in VersionsAt(local', Paths)
    BY <1>1, <1>5, QuietFacts DEF EditsStay
  <2>1. PICK q \in Paths : IsFile(local[q]) /\ local[q].ver = v
    BY DEF Parts, EditsStay, VersionsAt
  <2>2. q # p BY <1>8, <2>1
  <2> QED BY <1>6, <2>1, <2>2 DEF VersionsAt
<1> QED
  BY <1>10, <1>11, <1>12, <1>13, <1>14, <1>15, <1>16, <1>17, <1>18, <1>19, <1>20 DEF Parts

\* No edit lies in what is deleted from the server: it would be on disk.
LEMMA DeleteRemoteSteady ==
    ASSUME TypeInv, Steady, Parts, NEW p \in Paths, DeleteRemote(p)
    PROVE  Parts'
<1>1. /\ Quiet /\ UNCHANGED failures /\ run.phase = "loop" /\ run.todo[p] = "deleteRemote"
      /\ IsNext(p) /\ TodoAt(p) /\ \A q \in Paths : ~AwaitsRefresh(q)
  BY LoopFacts DEF DeleteRemote
<1>2. /\ ~Present(local[p])
      /\ \A q \in Below(p) : journal[q].here => run.todo[q] = "deleteRemote"
  BY <1>1 DEF TodoAt
<1>3. /\ journal \in [Paths -> Entries] /\ run \in Runs
      /\ local \in [Paths -> Nodes] /\ remote \in [Paths -> Nodes]
  BY DEF TypeInv
<1>4. UNCHANGED <<local, aside>> /\ ServerRemove(p) /\ Journaled(p, Forgotten(p))
  BY SteadyFacts DEF DeleteRemote, disk
<1>5. \A q \in Paths : remote'[q] = IF q \in Subtree(p) THEN Absent ELSE remote[q]
  BY <1>4, RemoveFacts
<1>6. /\ After(p, "none") /\ ~journal'[p].here /\ journal'[p] = NotKnown
      /\ \A q \in Paths \ {p} : journal'[q] = journal[q]
  <2>1. Forgotten(p) \in [Paths -> Entries] /\ ~Forgotten(p)[p].here
        /\ Forgotten(p)[p] = NotKnown /\ \A q \in Paths \ {p} : Forgotten(p)[q] = journal[q]
    BY ForgottenFacts
  <2>2. journal' = Forgotten(p) /\ After(p, "none") BY <1>4, <2>1, SteadyJournaled
  <2> QED BY <2>1, <2>2
<1>7. ~IsFile(Absent) /\ ~IsDir(Absent) /\ Absent.ver = 0 /\ ~Present(Absent) BY NodesHold
<1>8. ~NotKnown.here /\ ~NotKnown.dir /\ NotKnown.stamp = 0 /\ NotKnown.etag = 0 BY EntryFacts
<1>9. \A q \in Paths : q \in Subtree(p) => ~Present(local[q]) /\ ~IsFile(local[q])
  <2> SUFFICES ASSUME NEW q \in Paths, q \in Subtree(p)
               PROVE  ~Present(local[q]) /\ ~IsFile(local[q])
    OBVIOUS
  <2>1. q = p \/ p \in Above(q) BY SubtreeFacts
  <2>2. ~Present(local[q]) BY <1>2, <2>1 DEF Parts, TreesInv
  <2> QED BY <1>3, <2>2, NodeFacts
\* Nothing that is on disk is below p.
<1>10. \A q \in Paths : Present(local[q]) => /\ remote'[q] = remote[q]
                                             /\ \A a \in Above(q) : remote'[a] = remote[a]
  <2> SUFFICES ASSUME NEW q \in Paths, Present(local[q]), NEW a \in Above(q)
               PROVE  a \in Paths /\ a \notin Subtree(p)
    BY <1>5, <1>9
  <2>1. a \in Paths BY AboveFacts
  <2> QED BY <1>9, <2>1, SubtreeFacts
<1>11. (ListedInv /\ UploadsInv)' /\ \A q \in Paths : ~AwaitsRefresh(q)'
  <2>1. (ListedInv /\ UploadsInv)' /\ \A q \in Paths : ~AwaitsRefresh(q)'
    BY <1>1, <1>6, LoopParts
  <2> QED BY <2>1
<1>12. KindsInv' BY <1>4, <1>5, <1>6, <1>7, <1>8 DEF Parts, KindsInv, After
<1>13. TreesInv'
  <2> SUFFICES ASSUME NEW q \in Paths, NEW a \in Above(q)
               PROVE  Present(remote'[q]) => Present(remote'[a])
    BY <1>4 DEF Parts, TreesInv
  <2>1. a \in Paths /\ (a \in Subtree(p) => q \in Subtree(p)) BY AboveFacts, SubtreeFacts
  <2> QED BY <1>5, <1>7, <2>1 DEF Parts, TreesInv
<1>14. VersionsInv'
  <2>1. \A q \in Paths : remote'[q].ver \in {0, remote[q].ver} BY <1>5, <1>7
  <2>2. \A q \in Paths : /\ journal'[q].stamp \in {0, journal[q].stamp}
                         /\ journal'[q].etag \in {0, journal[q].etag}
    BY <1>6, <1>8
  <2> QED BY <1>1, <1>4, <1>6, <2>1, <2>2, VersionNumbers, QuietFacts
          DEF Parts, VersionsInv, After
<1>15. RowsInv'
  <2>1. ASSUME NEW q \in Paths, journal'[q].here
        PROVE  Present(remote'[q]) \/ run'.todo[q] = "deleteRemote"
    <3>1. q # p /\ journal[q].here BY <1>6, <2>1
    <3>2. CASE q \in Subtree(p)
      <4>1. q \in Below(p) BY <3>1, <3>2 DEF Subtree
      <4> QED BY <1>2, <1>6, <3>1, <4>1 DEF After
    <3>3. CASE q \notin Subtree(p) BY <1>5, <1>6, <3>1, <3>3 DEF Parts, RowsInv, After
    <3> QED BY <3>2, <3>3
  <2>2. ASSUME "mkdir" \notin scenario.inputs, NEW q \in DirPaths \cap Paths, Present(remote'[q])
        PROVE  journal'[q].here
    <3>1. q \notin Subtree(p) /\ Present(remote[q]) BY <1>5, <1>7, <2>2
    <3>2. q # p BY <3>1 DEF Subtree
    <3> QED BY <1>6, <2>2, <3>1, <3>2 DEF Parts, RowsInv
  <2> QED BY <1>1, <2>1, <2>2, QuietFacts DEF RowsInv
<1>16. SharedInv'
  <2> SUFFICES ASSUME NEW q \in Paths \ DirPaths, IsFile(remote'[q]), remote'[q].ver \in mine
               PROVE  /\ local[q] = remote'[q] /\ journal'[q].here
                      /\ journal'[q].stamp = remote'[q].ver /\ journal'[q].etag = remote'[q].ver
    BY <1>1, <1>4, QuietFacts DEF SharedInv
  <2>1. q \notin Subtree(p) /\ remote'[q] = remote[q] BY <1>5, <1>7
  <2>2. q # p BY <2>1 DEF Subtree
  <2> QED BY <1>1, <1>6, <2>1, <2>2 DEF Parts, SharedInv
<1>17. JournalInv'
  <2> SUFFICES ASSUME NEW q \in Paths \ DirPaths, journal'[q].here,
                      NEW v \in {journal'[q].stamp, journal'[q].etag}, v \in mine
               PROVE  remote'[q] = File(v)
    BY <1>1, QuietFacts DEF JournalInv
  <2>1. q # p /\ journal'[q] = journal[q] BY <1>6
  <2>2. remote[q] = File(v) BY <2>1 DEF Parts, JournalInv
  <2>3. IsFile(remote[q]) /\ remote[q].ver = v BY <2>2 DEF File, IsFile
  <2>4. local[q] = remote[q] BY <2>3 DEF Parts, SharedInv
  <2>5. Present(local[q]) BY <1>3, <2>3, <2>4, NodeFacts
  <2> QED BY <1>10, <2>2, <2>5
<1>18. SeenInv'
  <2> SUFFICES ASSUME NEW q \in Paths \ DirPaths
               PROVE  /\ run.seen[q].here /\ run.seen[q].etag \in mine
                             => remote'[q] = File(run.seen[q].etag)
                      /\ IsFile(remote'[q]) /\ remote'[q].ver \in mine =>
                             run.seen[q].here /\ run.seen[q].etag = remote'[q].ver
    BY <1>1, <1>6, QuietFacts DEF SeenInv, After
  <2>1. ASSUME run.seen[q].here, run.seen[q].etag \in mine
        PROVE  remote'[q] = File(run.seen[q].etag)
    <3>1. remote[q] = File(run.seen[q].etag) BY <1>1, <2>1 DEF Parts, SeenInv
    <3>2. IsFile(remote[q]) /\ remote[q].ver = run.seen[q].etag BY <3>1 DEF File, IsFile
    <3>3. local[q] = remote[q] BY <2>1, <3>2 DEF Parts, SharedInv
    <3>4. Present(local[q]) BY <1>3, <3>2, <3>3, NodeFacts
    <3> QED BY <1>10, <3>1, <3>4
  <2>2. ASSUME IsFile(remote'[q]), remote'[q].ver \in mine
        PROVE  run.seen[q].here /\ run.seen[q].etag = remote'[q].ver
    <3>1. remote'[q] = remote[q] BY <1>5, <1>7, <2>2
    <3> QED BY <1>1, <2>2, <3>1 DEF Parts, SeenInv
  <2> QED BY <2>1, <2>2
<1>19. TodoInv'
  <2> SUFFICES ASSUME NEW q \in Paths PROVE TodoAt(q)' BY DEF TodoInv
  <2>1. CASE q = p BY <1>1, <1>6, <2>1 DEF TodoAt, After, Pending
  <2>2. CASE q # p
    <3>1. TodoAt(q) BY DEF Parts, TodoInv
    <3>2. Present(local[q]) => /\ remote'[q] = remote[q]
                               /\ ParentsReady(q) => ParentsReady(q)'
      <4> SUFFICES ASSUME Present(local[q]), ParentsReady(q), NEW a \in Above(q)
                   PROVE  Present(remote'[a]) \/ run'.todo[a] = "mkdirRemote"
        BY <1>10 DEF ParentsReady
      <4>1. a \in Paths /\ remote'[a] = remote[a] BY <1>10, AboveFacts
      <4>2. Present(remote[a]) \/ run.todo[a] = "mkdirRemote" BY DEF ParentsReady
      <4> QED BY <1>1, <1>6, <4>1, <4>2 DEF After
    <3>3. run.todo[q] # "mkdirLocal"
      <4> SUFFICES ASSUME run.todo[q] = "mkdirLocal" PROVE FALSE OBVIOUS
      <4>1. Rank("mkdirLocal") = 1 /\ Rank("deleteRemote") = 5 BY DEF Rank
      <4> QED BY <1>1, <2>2, <4>1 DEF IsNext
    <3>4. run.todo[q] = "deleteRemote" =>
              \A b \in Below(q) : journal'[b].here => run'.todo[b] = "deleteRemote"
      <4> SUFFICES ASSUME run.todo[q] = "deleteRemote", NEW b \in Below(q), journal'[b].here
                   PROVE  run'.todo[b] = "deleteRemote"
        OBVIOUS
      <4>1. b \in Paths /\ b # p /\ journal[b].here BY <1>6 DEF Below
      <4> QED BY <1>6, <3>1, <4>1 DEF TodoAt, After
    <3>5. IsFile(local[q]) => Present(local[q]) BY <1>3, NodeFacts
    <3> QED BY <1>1, <1>4, <1>6, <2>2, <3>1, <3>2, <3>3, <3>4, <3>5, QuietFacts
            DEF TodoAt, After
  <2> QED BY <2>1, <2>2
<1>20. EditsInv'
  <2> SUFFICES ASSUME NEW q \in Paths, IsFile(local[q]), local[q].ver \in mine
               PROVE  remote'[q] = local[q] \/ run'.todo[q] \in {"upload", "conflict"}
    BY <1>1, <1>4, QuietFacts DEF EditsInv
  <2>1. remote[q] = local[q] \/ run.todo[q] \in {"upload", "conflict"}
    BY <1>1 DEF Parts, EditsInv
  <2>2. Present(local[q]) BY <1>3, NodeFacts
  <2> QED BY <1>1, <1>6, <1>10, <2>1, <2>2 DEF After
<1>21. EditsStay' BY <1>1, <1>4, QuietFacts DEF Parts, EditsStay
<1> QED
  BY <1>11, <1>12, <1>13, <1>14, <1>15, <1>16, <1>17, <1>18, <1>19, <1>20, <1>21 DEF Parts

-----------------------------------------------------------------------------
(* The pools.                                                              *)

\* The pools open on what is left of the plan.
LEMMA StartDownloadsSteady ==
    ASSUME TypeInv, Steady, Parts, StartDownloads
    PROVE  Parts'
<1>1. /\ Quiet /\ UNCHANGED <<local, aside, remote, journal, failures>>
      /\ run.phase = "loop" /\ run' = OpenPool("downloads")
      /\ \A q \in Paths : run.todo[q] \in {"none", "download", "upload"}
  BY DEF StartDownloads, disk, server, db, users, Quiet
<1>2. /\ run'.phase = "downloads" /\ run'.todo = run.todo /\ run'.cancelled = run.cancelled
      /\ run'.seen = run.seen /\ run'.scan = run.scan
  <2>1. run \in Runs /\ "downloads" \in Phases BY DEF TypeInv, Phases
  <2> QED BY <1>1, <2>1, OpenPoolFacts
<1>3. KindsInv' BY <1>1, <1>2 DEF Parts, KindsInv
<1>4. TreesInv' BY <1>1 DEF Parts, TreesInv
<1>5. VersionsInv' BY <1>1, <1>2, QuietFacts DEF Parts, VersionsInv
<1>6. RowsInv' BY <1>1, <1>2, QuietFacts DEF Parts, RowsInv
<1>7. (ListedInv /\ SeenInv)' BY <1>2 DEF ListedInv, SeenInv
<1>8. SharedInv' BY <1>1, <1>2, QuietFacts DEF Parts, SharedInv, AwaitsRefresh
<1>9. JournalInv' BY <1>1, QuietFacts DEF Parts, JournalInv
<1>10. TodoInv' BY <1>1, <1>2, QuietFacts DEF Parts, TodoInv, TodoAt, ParentsReady, Pending
<1>11. EditsInv' BY <1>1, <1>2, QuietFacts DEF Parts, EditsInv
<1>12. UploadsInv' BY <1>1, <1>2 DEF Parts, UploadsInv
<1>13. EditsStay' BY <1>1, QuietFacts DEF Parts, EditsStay
<1> QED
  BY <1>3, <1>4, <1>5, <1>6, <1>7, <1>8, <1>9, <1>10, <1>11, <1>12, <1>13 DEF Parts

\* A transfer that ended, well or not.
LEMMA TransferSteps ==
    ASSUME TypeInv, NEW p \in Paths, NEW good \in BOOLEAN, run' = Transferred(p, good)
    PROVE  /\ After(p, "none")
           /\ run'.ok = IF good THEN run.ok \cup {p} ELSE run.ok
           /\ run'.failed = IF good THEN run.failed ELSE run.failed \cup {p}
           /\ run'.touched = run.touched
<1>1. run \in Runs BY DEF TypeInv
<1>2. /\ run'.todo = Less(p) /\ SameView(run, run') /\ run'.touched = run.touched
      /\ run'.ok = IF good THEN run.ok \cup {p} ELSE run.ok
      /\ run'.failed = IF good THEN run.failed ELSE run.failed \cup {p}
  BY <1>1, TransferredFacts
<1>3. \A q \in Paths : Less(p)[q] = IF q = p THEN "none" ELSE run.todo[q] BY <1>1, LessFacts
<1> QED BY <1>2, <1>3 DEF After, SameView

\* A download replaces no edit.
LEMMA DownloadSteady ==
    ASSUME TypeInv, Steady, Parts, NEW p \in Paths, Download(p)
    PROVE  Parts'
<1>1. /\ Quiet /\ UNCHANGED <<aside, remote, ids, journal, failures>>
      /\ run.phase = "downloads" /\ run.todo[p] = "download" /\ TodoAt(p)
  BY DEF Download, server, db, users, Quiet, Parts, TodoInv
<1>2. p \notin DirPaths /\ (IsFile(local[p]) => local[p].ver \notin mine)
  BY <1>1 DEF TodoAt
<1>3. /\ journal \in [Paths -> Entries] /\ run \in Runs
      /\ local \in [Paths -> Nodes] /\ remote \in [Paths -> Nodes]
  BY DEF TypeInv
<1>4. After(p, "none")
  <2>1. PICK good \in BOOLEAN : run' = Transferred(p, good) BY DEF Download
  <2> QED BY <2>1, TransferSteps
<1>5. Reachable(local, p)
  BY SteadyFacts, AboveFacts DEF Reachable, Parts, KindsInv
<1>6. \A q \in Paths : WithParents(local, p)[q] = IF q \in Above(p) THEN Directory ELSE local[q]
  BY <1>3, <1>5, ParentsMade
<1>7. /\ \A q \in Paths \ {p} : local'[q] = IF q \in Above(p) THEN Directory ELSE local[q]
      /\ local'[p] = local[p] \/ (IsFile(remote[p]) /\ local'[p] = remote[p])
  <2>1. CASE CanDownload(p) /\ local' = Downloaded(p)
    <3>1. remote[p] \in Nodes BY <1>3
    <3>2. local'[p] = remote[p] /\ \A q \in Paths \ {p} : local'[q] = WithParents(local, p)[q]
      BY <2>1, <3>1, PlacedFacts DEF Downloaded
    <3> QED BY <1>6, <2>1, <3>2 DEF CanDownload
  <2>2. CASE local' = WithParents(local, p)
    <3>1. p \notin Above(p) BY AboveFacts
    <3> QED BY <1>6, <2>2, <3>1
  <2> QED BY <2>1, <2>2 DEF Download
<1>8. /\ \A q \in Paths : p \notin Above(q)
      /\ \A q \in Paths \ DirPaths : q # p => local'[q] = local[q]
      /\ \A q \in DirPaths \cap Paths : q # p /\ local'[q] \in {local[q], Directory}
  BY <1>2, <1>7, SteadyFacts
<1>9. ~IsFile(Directory) /\ Directory.ver = 0 /\ Present(Directory) /\ IsDir(Directory)
  BY NodesHold
<1>10. KindsInv' BY <1>1, <1>2, <1>4, <1>7, <1>8, <1>9 DEF Parts, KindsInv, After
<1>11. TreesInv'
  <2> SUFFICES ASSUME NEW q \in Paths, NEW a \in Above(q), Present(local'[q])
               PROVE  Present(local'[a])
    BY <1>1 DEF Parts, TreesInv
  <2>1. a \in Paths /\ a # p /\ Above(a) \subseteq Above(q) BY <1>8, AboveFacts
  <2>2. CASE a \in Above(p) BY <1>7, <1>9, <2>1, <2>2
  <2>3. CASE a \notin Above(p)
    <3>1. q # p BY <2>3
    <3>2. q \notin Above(p) BY <2>3, AboveFacts
    <3>3. Present(local[q]) BY <1>7, <3>1, <3>2
    <3>4. Present(local[a]) BY <3>3 DEF Parts, TreesInv
    <3> QED BY <1>7, <2>1, <2>3, <3>4
  <2> QED BY <2>2, <2>3
<1>12. VersionsInv'
  <2>1. \A q \in Paths : local'[q].ver \in {0, local[q].ver, remote[q].ver} BY <1>7, <1>9
  <2> QED BY <1>1, <1>4, <2>1, VersionNumbers, QuietFacts DEF Parts, VersionsInv, After
<1>13. RowsInv' BY <1>1, <1>4, QuietFacts DEF Parts, RowsInv, After
<1>14. (ListedInv /\ SeenInv)' BY <1>1, <1>4 DEF ListedInv, SeenInv, After
<1>15. SharedInv'
  <2> SUFFICES ASSUME NEW q \in Paths \ DirPaths, IsFile(remote[q]), remote[q].ver \in mine
               PROVE  /\ local'[q] = remote[q] /\ journal[q].here
                      /\ journal[q].stamp = remote[q].ver /\ journal[q].etag = remote[q].ver
    BY <1>1, QuietFacts DEF SharedInv
  <2>1. ~AwaitsRefresh(q) BY <1>1 DEF AwaitsRefresh
  <2>2. /\ local[q] = remote[q] /\ journal[q].here
        /\ journal[q].stamp = remote[q].ver /\ journal[q].etag = remote[q].ver
    BY <2>1 DEF Parts, SharedInv
  <2> QED BY <1>7, <1>8, <2>2
<1>16. JournalInv' BY <1>1, QuietFacts DEF Parts, JournalInv
<1>17. TodoInv'
  <2> SUFFICES ASSUME NEW q \in Paths PROVE TodoAt(q)' BY DEF TodoInv
  <2>1. CASE q = p BY <1>1, <1>4, <2>1 DEF TodoAt, After, Pending
  <2>2. CASE q # p
    <3>1. TodoAt(q) BY DEF Parts, TodoInv
    <3>2. run.todo[q] \in {"none", "download", "upload"} BY <1>1, <3>1 DEF TodoAt, Pending
    <3>3. ParentsReady(q) => ParentsReady(q)'
      BY <1>1, <1>4, <1>8, AboveFacts DEF ParentsReady, After
    <3>4. q \notin DirPaths => local'[q] = local[q] BY <1>8, <2>2
    <3> QED BY <1>1, <1>4, <2>2, <3>1, <3>2, <3>3, <3>4, QuietFacts DEF TodoAt, After, Pending
  <2> QED BY <2>1, <2>2
<1>18. EditsInv'
  <2> SUFFICES ASSUME NEW q \in Paths, IsFile(local'[q]), local'[q].ver \in mine
               PROVE  remote[q] = local'[q] \/ run'.todo[q] \in {"upload", "conflict"}
    BY <1>1, QuietFacts DEF EditsInv
  <2>1. CASE q = p BY <1>2, <1>7, <2>1
  <2>2. CASE q # p
    <3>1. local'[q] = local[q] BY <1>7, <1>9, <2>2
    <3>2. remote[q] = local[q] \/ run.todo[q] \in {"upload", "conflict"}
      BY <1>1, <3>1 DEF Parts, EditsInv
    <3> QED BY <1>4, <2>2, <3>1, <3>2 DEF After
  <2> QED BY <2>1, <2>2
<1>19. UploadsInv' BY <1>1, <1>4 DEF Parts, UploadsInv, After
<1>20. EditsStay'
  <2> SUFFICES ASSUME NEW v \in mine, v \notin aside PROVE v \in VersionsAt(local', Paths)
    BY <1>1, QuietFacts DEF EditsStay
  <2>1. PICK q \in Paths : IsFile(local[q]) /\ local[q].ver = v
    BY DEF Parts, EditsStay, VersionsAt
  <2>2. q # p /\ q \notin DirPaths BY <1>2, <2>1 DEF Parts, KindsInv
  <2> QED BY <1>8, <2>1, <2>2 DEF VersionsAt
<1> QED
  BY <1>10, <1>11, <1>12, <1>13, <1>14, <1>15, <1>16, <1>17, <1>18, <1>19, <1>20 DEF Parts

\* An upload finds its directory and succeeds; its row waits for the refresh.
LEMMA UploadSteady ==
    ASSUME TypeInv, Steady, Parts, NEW p \in Paths, Upload(p)
    PROVE  Parts'
<1>1. /\ Quiet /\ UNCHANGED <<local, aside, journal, failures>>
      /\ run.phase = "uploads" /\ run.todo[p] = "upload" /\ TodoAt(p)
  BY DEF Upload, disk, users, Quiet, Parts, TodoInv
<1>2. p \notin DirPaths /\ IsFile(local[p]) /\ ParentsReady(p) BY <1>1 DEF TodoAt
<1>3. /\ journal \in [Paths -> Entries] /\ run \in Runs
      /\ local \in [Paths -> Nodes] /\ remote \in [Paths -> Nodes]
  BY DEF TypeInv
<1>4. \A a \in Above(p) : a \in Paths /\ a # p /\ IsDir(remote[a]) /\ Present(remote[a])
  <2> SUFFICES ASSUME NEW a \in Above(p)
               PROVE  a \in Paths /\ a # p /\ IsDir(remote[a]) /\ Present(remote[a])
    OBVIOUS
  <2>1. a \in Paths /\ a # p /\ a \in DirPaths BY AboveFacts, SteadyFacts
  <2>2. run.todo[a] # "mkdirRemote" BY <1>1, <2>1 DEF Parts, TodoInv, TodoAt, Pending
  <2>3. Present(remote[a]) BY <1>2, <2>2 DEF ParentsReady
  <2> QED BY <1>3, <2>1, <2>3, NodeFacts DEF Parts, KindsInv
<1>5. CanUpload(p) BY <1>2, <1>4 DEF CanUpload, Writable, Parts, KindsInv
<1>6. ServerPut(p, local[p].ver) /\ run' = Transferred(p, TRUE)
  BY <1>5, SteadyFacts DEF Upload
<1>7. /\ local[p] = File(local[p].ver) /\ local[p].ver \in Versions \ {0} /\ Present(local[p])
      /\ ~IsDir(local[p])
  BY <1>2, <1>3, NodeFacts
<1>8. \A q \in Paths : remote'[q] = IF q = p THEN local[p] ELSE remote[q]
  BY <1>6, <1>7, PutFacts
<1>9. After(p, "none") /\ run'.ok = run.ok \cup {p} /\ run'.failed = run.failed
  BY <1>6, TransferSteps
<1>10. KindsInv' BY <1>1, <1>2, <1>7, <1>8, <1>9 DEF Parts, KindsInv, After
<1>11. TreesInv'
  <2> SUFFICES ASSUME NEW q \in Paths, NEW a \in Above(q), Present(remote'[q])
               PROVE  Present(remote'[a])
    BY <1>1 DEF Parts, TreesInv
  <2>1. a \in Paths BY AboveFacts
  <2>2. CASE q = p BY <1>4, <1>8, <2>2
  <2>3. CASE q # p BY <1>7, <1>8, <2>1, <2>3 DEF Parts, TreesInv
  <2> QED BY <2>2, <2>3
<1>12. VersionsInv' BY <1>1, <1>8, <1>9, QuietFacts DEF Parts, VersionsInv, After
<1>13. RowsInv' BY <1>1, <1>2, <1>7, <1>8, <1>9, QuietFacts DEF Parts, RowsInv, After
<1>14. (ListedInv /\ SeenInv)' BY <1>1, <1>9 DEF ListedInv, SeenInv, After
<1>15. SharedInv'
  <2> SUFFICES ASSUME NEW q \in Paths \ DirPaths, IsFile(remote'[q]), remote'[q].ver \in mine
               PROVE  /\ local[q] = remote'[q]
                      /\ \/ AwaitsRefresh(q)'
                         \/ /\ journal[q].here
                            /\ journal[q].stamp = remote'[q].ver
                            /\ journal[q].etag = remote'[q].ver
    BY <1>1, QuietFacts DEF SharedInv
  <2>1. CASE q = p BY <1>1, <1>8, <1>9, <2>1 DEF AwaitsRefresh, After
  <2>2. CASE q # p
    <3>1. AwaitsRefresh(q) => AwaitsRefresh(q)' BY <1>1, <1>9 DEF AwaitsRefresh, After
    <3> QED BY <1>8, <2>2, <3>1 DEF Parts, SharedInv
  <2> QED BY <2>1, <2>2
<1>16. JournalInv'
  <2> SUFFICES ASSUME NEW q \in Paths \ DirPaths, journal[q].here,
                      NEW v \in {journal[q].stamp, journal[q].etag}, v \in mine
               PROVE  remote'[q] = File(v)
    BY <1>1, QuietFacts DEF JournalInv
  <2>1. remote[q] = File(v) BY DEF Parts, JournalInv
  <2>2. IsFile(remote[q]) /\ remote[q].ver = v BY <2>1 DEF File, IsFile
  <2>3. local[q] = remote[q] BY <2>2 DEF Parts, SharedInv
  <2> QED BY <1>8, <2>1, <2>3
<1>17. TodoInv'
  <2> SUFFICES ASSUME NEW q \in Paths PROVE TodoAt(q)' BY DEF TodoInv
  <2>1. CASE q = p BY <1>1, <1>9, <2>1 DEF TodoAt, After, Pending
  <2>2. CASE q # p
    <3>1. TodoAt(q) BY DEF Parts, TodoInv
    <3>2. run.todo[q] \in {"none", "upload"} BY <1>1, <3>1 DEF TodoAt, Pending
    <3>3. ParentsReady(q) => ParentsReady(q)'
      BY <1>1, <1>7, <1>8, <1>9, AboveFacts DEF ParentsReady, After
    <3> QED BY <1>1, <1>9, <2>2, <3>1, <3>2, <3>3, QuietFacts DEF TodoAt, After, Pending
  <2> QED BY <2>1, <2>2
<1>18. EditsInv' BY <1>1, <1>8, <1>9, QuietFacts DEF Parts, EditsInv, After
<1>19. UploadsInv' BY <1>1, <1>9 DEF Parts, UploadsInv, After
<1>20. EditsStay' BY <1>1, QuietFacts DEF Parts, EditsStay
<1> QED
  BY <1>10, <1>11, <1>12, <1>13, <1>14, <1>15, <1>16, <1>17, <1>18, <1>19, <1>20 DEF Parts

\* A pool that nothing is left for: it only notes what went well and what did not.
LEMMA PoolClosed ==
    ASSUME TypeInv, Parts, NEW phase, NEW action, NEW next \in Phases,
           ClosePool(phase, action, next)
    PROVE  /\ Quiet /\ UNCHANGED <<local, aside, remote, journal>>
           /\ run.phase = phase /\ run'.phase = next
           /\ run'.cancelled = run.cancelled /\ run'.seen = run.seen /\ run'.scan = run.scan
           /\ \A q \in Paths : run.todo[q] # action /\ run'.todo[q] = run.todo[q]
           /\ run'.ok = {} /\ run'.failed = {}
           /\ run'.touched = run.touched \cup {ParentDir(q) : q \in run.ok}
           /\ failures' = FailuresAfter(action)
<1>1. run \in Runs BY DEF TypeInv
<1>2. ~run.cancelled BY DEF Parts, UploadsInv
<1>3. \A q \in Paths : run.todo[q] # action BY <1>2 DEF ClosePool, Doing
<1>4. /\ Quiet /\ UNCHANGED <<local, aside, remote, journal>> /\ run.phase = phase
      /\ failures' = FailuresAfter(action)
  BY DEF ClosePool, disk, server, users, Quiet
<1>5. /\ run'.phase = next /\ run'.cancelled = run.cancelled
      /\ run'.seen = run.seen /\ run'.scan = run.scan /\ run'.ok = {} /\ run'.failed = {}
      /\ run'.touched = run.touched \cup {ParentDir(p) : p \in run.ok}
      /\ run'.todo = [p \in Paths |-> IF run.todo[p] = action THEN "none" ELSE run.todo[p]]
  BY <1>1, ClosePoolFacts
<1>6. \A q \in Paths : run'.todo[q] = run.todo[q] BY <1>3, <1>5
<1> QED BY <1>3, <1>4, <1>5, <1>6

\* A pool closes on nothing undone, and the directories of what it uploaded are
\* refreshed.
LEMMA CloseSteady ==
    ASSUME TypeInv, Steady, Parts, CloseDownloads \/ CloseUploads
    PROVE  Parts'
<1> DEFINE action == IF CloseDownloads THEN "download" ELSE "upload"
           phase == IF CloseDownloads THEN "downloads" ELSE "uploads"
           next == IF CloseDownloads THEN "uploads" ELSE "refresh"
<1>1. /\ ClosePool(phase, action, next) /\ next \in Phases
      /\ \/ phase = "downloads" /\ action = "download" /\ next = "uploads"
         \/ phase = "uploads" /\ action = "upload" /\ next = "refresh"
  BY DEF CloseDownloads, CloseUploads, Phases
<1> HIDE DEF action, phase, next
<1>2. /\ Quiet /\ UNCHANGED <<local, aside, remote, journal>>
      /\ run.phase = phase /\ run'.phase = next
      /\ run'.cancelled = run.cancelled /\ run'.seen = run.seen /\ run'.scan = run.scan
      /\ \A q \in Paths : run.todo[q] # action /\ run'.todo[q] = run.todo[q]
      /\ run'.ok = {} /\ run'.failed = {}
      /\ run'.touched = run.touched \cup {ParentDir(q) : q \in run.ok}
      /\ failures' = FailuresAfter(action)
  BY <1>1, PoolClosed
<1>3. KindsInv' BY <1>2 DEF Parts, KindsInv
<1>4. TreesInv' BY <1>2 DEF Parts, TreesInv
<1>5. VersionsInv' BY <1>2, QuietFacts DEF Parts, VersionsInv
<1>6. RowsInv' BY <1>2, QuietFacts DEF Parts, RowsInv
<1>7. (ListedInv /\ SeenInv)' BY <1>1, <1>2 DEF ListedInv, SeenInv
<1>8. \A q \in Paths : AwaitsRefresh(q) => AwaitsRefresh(q)' BY <1>1, <1>2 DEF AwaitsRefresh
<1>9. SharedInv' BY <1>2, <1>8, QuietFacts DEF Parts, SharedInv
<1>10. JournalInv' BY <1>2, QuietFacts DEF Parts, JournalInv
<1>11. TodoInv'
  <2> SUFFICES ASSUME NEW q \in Paths PROVE TodoAt(q)' BY DEF TodoInv
  <2>1. TodoAt(q) /\ run'.todo[q] = run.todo[q] /\ run.todo[q] # action
    BY <1>2 DEF Parts, TodoInv
  <2>2. run.todo[q] \in {"none", "upload"} /\ run'.todo[q] \in Pending(run'.phase)
    BY <1>1, <1>2, <2>1 DEF TodoAt, Pending
  <2>3. ParentsReady(q) => ParentsReady(q)' BY <1>2, AboveFacts DEF ParentsReady
  <2> QED BY <1>2, <2>1, <2>2, <2>3 DEF TodoAt
<1>12. EditsInv' BY <1>1, <1>2, QuietFacts DEF Parts, EditsInv
<1>13. UploadsInv'
  <2> SUFFICES ASSUME NEW q \in Paths PROVE failures'[q].of # "upload"
    BY <1>2 DEF Parts, UploadsInv
  <2>1. \/ failures'[q] = NoFailure
        \/ failures'[q] = failures[q]
        \/ q \in run.failed /\ failures'[q].of = action
    BY <1>2 DEF FailuresAfter, Signature
  <2>2. action = "upload" => run.failed = {} BY <1>1, <1>2 DEF Parts, UploadsInv
  <2> QED BY <1>1, <2>1, <2>2 DEF Parts, UploadsInv, NoFailure
<1>14. EditsStay' BY <1>2, QuietFacts DEF Parts, EditsStay
<1> QED
  BY <1>3, <1>4, <1>5, <1>6, <1>7, <1>9, <1>10, <1>11, <1>12, <1>13, <1>14 DEF Parts

-----------------------------------------------------------------------------
(* The end of a run.                                                       *)

\* The row that refresh_dir writes for p.
Refreshed(p) ==
    Known(IsDir(remote[p]),
          IF IsDir(remote[p]) \/ IsDir(local[p]) THEN 0
          ELSE IF IsFile(local[p]) THEN local[p].ver ELSE remote[p].ver,
          remote[p].ver, ids[p])

\* The fields of that row.
LEMMA RefreshedFacts ==
    ASSUME TypeInv, NEW p \in Paths
    PROVE  /\ Refreshed(p).here /\ Refreshed(p).dir = IsDir(remote[p])
           /\ Refreshed(p).etag = remote[p].ver
           /\ Refreshed(p).stamp = IF IsDir(remote[p]) \/ IsDir(local[p]) THEN 0
                                   ELSE IF IsFile(local[p]) THEN local[p].ver ELSE remote[p].ver
BY DEF Refreshed, Known

\* refresh_dir records for an edit the version the server has, because nothing is
\* left to upload.
LEMMA RefreshSteady ==
    ASSUME TypeInv, Steady, Parts, NEW d \in Paths \cup {Root}, RefreshDir(d)
    PROVE  Parts'
<1>1. /\ Quiet /\ UNCHANGED <<local, aside, remote, ids, failures>>
      /\ run.phase = "refresh" /\ d \in run.touched
      /\ run' = [run EXCEPT !.touched = @ \ {d}]
  BY DEF RefreshDir, disk, server, users, Quiet
<1>2. /\ run'.phase = run.phase /\ run'.todo = run.todo /\ run'.seen = run.seen
      /\ run'.scan = run.scan /\ run'.cancelled = run.cancelled /\ run'.failed = run.failed
      /\ run'.ok = run.ok /\ run'.touched = run.touched \ {d}
  BY <1>1 DEF TypeInv, Runs
<1>3. \A q \in Paths : journal'[q] = IF ParentDir(q) = d /\ Present(remote[q])
                                     THEN Refreshed(q) ELSE journal[q]
  BY SteadyFacts DEF RefreshDir, Refreshed
<1>4. ASSUME NEW q \in Paths
      PROVE  /\ remote[q] \in Nodes /\ local[q] \in Nodes
             /\ remote[q].ver \in Nat /\ local[q].ver \in Nat
  BY VersionNumbers DEF TypeInv
<1>5. \A q \in Paths : run.todo[q] = "none" BY <1>1 DEF Parts, TodoInv, TodoAt, Pending
<1>6. KindsInv'
  <2> SUFFICES ASSUME NEW q \in Paths
               PROVE  IF q \in DirPaths THEN journal'[q].here => journal'[q].dir
                      ELSE ~journal'[q].dir
    BY <1>1, <1>2 DEF Parts, KindsInv
  <2>1. CASE journal'[q] = journal[q] BY <2>1 DEF Parts, KindsInv
  <2>2. CASE Present(remote[q]) /\ journal'[q] = Refreshed(q)
    <3>1. IF q \in DirPaths THEN IsDir(remote[q]) ELSE ~IsDir(remote[q])
      BY <1>4, <2>2, NodeFacts DEF Parts, KindsInv
    <3> QED BY <2>2, <3>1, RefreshedFacts
  <2> QED BY <1>3, <2>1, <2>2
<1>7. TreesInv' BY <1>1 DEF Parts, TreesInv
<1>8. VersionsInv'
  <2>1. \A q \in Paths : /\ journal'[q].stamp \in {journal[q].stamp, 0, local[q].ver, remote[q].ver}
                         /\ journal'[q].etag \in {journal[q].etag, remote[q].ver}
    BY <1>3, RefreshedFacts
  <2> QED BY <1>1, <1>2, <2>1, VersionNumbers, QuietFacts DEF Parts, VersionsInv
<1>9. RowsInv' BY <1>1, <1>2, <1>3, RefreshedFacts, QuietFacts DEF Parts, RowsInv
<1>10. (ListedInv /\ SeenInv)' BY <1>1, <1>2 DEF ListedInv, SeenInv
<1>11. SharedInv'
  <2> SUFFICES ASSUME NEW q \in Paths \ DirPaths, IsFile(remote[q]), remote[q].ver \in mine
               PROVE  /\ local[q] = remote[q]
                      /\ \/ AwaitsRefresh(q)'
                         \/ /\ journal'[q].here
                            /\ journal'[q].stamp = remote[q].ver
                            /\ journal'[q].etag = remote[q].ver
    BY <1>1, QuietFacts DEF SharedInv
  <2>1. /\ local[q] = remote[q]
        /\ \/ AwaitsRefresh(q)
           \/ /\ journal[q].here
              /\ journal[q].stamp = remote[q].ver /\ journal[q].etag = remote[q].ver
    BY DEF Parts, SharedInv
  <2>2. CASE ParentDir(q) = d
    <3>1. Present(remote[q]) /\ ~IsDir(remote[q]) BY <1>4, NodeFacts
    <3>2. journal'[q] = Refreshed(q) BY <1>3, <2>2, <3>1
    <3> QED BY <2>1, <3>1, <3>2, RefreshedFacts
  <2>3. CASE ParentDir(q) # d
    <3>1. AwaitsRefresh(q) => AwaitsRefresh(q)' BY <1>1, <1>2, <2>3 DEF AwaitsRefresh
    <3> QED BY <1>3, <2>1, <2>3, <3>1
  <2> QED BY <2>2, <2>3
<1>12. JournalInv'
  <2> SUFFICES ASSUME NEW q \in Paths \ DirPaths, journal'[q].here,
                      NEW v \in {journal'[q].stamp, journal'[q].etag}, v \in mine
               PROVE  remote[q] = File(v)
    BY <1>1, QuietFacts DEF JournalInv
  <2>1. CASE journal'[q] = journal[q] BY <2>1 DEF Parts, JournalInv
  <2>2. CASE Present(remote[q]) /\ journal'[q] = Refreshed(q)
    <3>1. IsFile(remote[q]) /\ ~IsDir(remote[q]) /\ ~IsDir(local[q])
      BY <1>4, <2>2, NodeFacts DEF Parts, KindsInv
    <3>2. v = remote[q].ver \/ (IsFile(local[q]) /\ v = local[q].ver)
      BY <2>2, <3>1, RefreshedFacts
    <3>3. IsFile(local[q]) /\ v = local[q].ver => remote[q] = local[q]
      BY <1>1, <1>5 DEF Parts, EditsInv
    <3> QED BY <1>4, <3>1, <3>2, <3>3, NodeFacts
  <2> QED BY <1>3, <2>1, <2>2
<1>13. TodoInv' BY <1>2, <1>5 DEF TodoInv, TodoAt, Pending
<1>14. EditsInv' BY <1>1, <1>2, QuietFacts DEF Parts, EditsInv
<1>15. UploadsInv' BY <1>1, <1>2 DEF Parts, UploadsInv
<1>16. EditsStay' BY <1>1, QuietFacts DEF Parts, EditsStay
<1> QED
  BY <1>6, <1>7, <1>8, <1>9, <1>10, <1>11, <1>12, <1>13, <1>14, <1>15, <1>16 DEF Parts

\* A run ends with every row written.
LEMMA FinishSteady ==
    ASSUME TypeInv, Steady, Parts, Finish
    PROVE  Parts'
<1>1. /\ Quiet /\ UNCHANGED <<local, aside, remote, journal, failures>>
      /\ run.phase = "refresh" /\ run.touched = {} /\ run' = NoRun
  BY DEF Finish, disk, server, Quiet
<1>2. \A q \in Paths : run.todo[q] = "none" /\ ~AwaitsRefresh(q)
  BY <1>1 DEF Parts, TodoInv, TodoAt, Pending, AwaitsRefresh
<1> QED BY <1>1, <1>2, EndSteady

-----------------------------------------------------------------------------
(* From the start and through every step.                                  *)

\* At the start nobody has edited anything, and the journal agrees with both sides.
LEMMA SteadyInit == Init => SteadyInv
<1> SUFFICES ASSUME Init, Steady PROVE Parts BY DEF SteadyInv
<1>1. TypeInv BY TypeInit
<1>2. /\ run.phase = "idle" /\ ~run.cancelled
      /\ \A q \in Paths : /\ run.todo[q] = "none" /\ ~run.seen[q].here /\ ~run.seen[q].dir
                          /\ run.seen[q].etag = 0 /\ run.scan[q] = Absent
  BY NoRunFacts, EntryFacts DEF Init
<1>3. mine = {} /\ clock = 0 /\ \A q \in Paths : failures[q] = NoFailure BY DEF Init, Nothing
<1>4. /\ ~IsFile(Absent) /\ ~IsDir(Absent) /\ Absent.ver = 0 /\ ~Present(Absent)
      /\ ~IsFile(Directory) /\ Directory.ver = 0 /\ Present(Directory)
      /\ ~NotKnown.here /\ ~NotKnown.dir /\ NotKnown.stamp = 0 /\ NotKnown.etag = 0
  BY NodesHold, EntryFacts
<1> DEFINE Row(tree, q) == Known(IsDir(tree[q]), tree[q].ver, tree[q].ver,
                                 IF IsFile(tree[q]) THEN Place(q) ELSE 0)
<1>5. PICK tree \in {Nothing(Absent), [p \in Paths |-> InitialNode(p)]} :
        /\ local = tree /\ remote = tree
        /\ journal = [p \in Paths |-> IF Present(tree[p]) THEN Row(tree, p) ELSE NotKnown]
  BY DEF Init
<1>6. \A q \in Paths : /\ local[q] = tree[q] /\ remote[q] = tree[q] /\ tree[q] \in Nodes
                       /\ journal[q].here <=> Present(tree[q])
                       /\ journal[q].here => journal[q].dir = IsDir(tree[q])
                       /\ ~journal[q].here => ~journal[q].dir
                       /\ journal[q].stamp = tree[q].ver /\ journal[q].etag = tree[q].ver
  <2> SUFFICES ASSUME NEW q \in Paths
               PROVE  /\ journal[q].here <=> Present(tree[q])
                      /\ journal[q].here => journal[q].dir = IsDir(tree[q])
                      /\ ~journal[q].here => ~journal[q].dir
                      /\ journal[q].stamp = tree[q].ver /\ journal[q].etag = tree[q].ver
    BY <1>1, <1>5 DEF TypeInv
  <2>1. tree[q] \in Nodes BY <1>1, <1>5 DEF TypeInv
  <2>2. ~Present(tree[q]) => tree[q].ver = 0 BY <1>4, <2>1, NodeFacts
  <2>3. journal[q] = IF Present(tree[q]) THEN Row(tree, q) ELSE NotKnown
    BY <1>5
  <2> QED BY <1>4, <2>2, <2>3 DEF Known
<1>7. \A q \in Paths :
        \/ \A b \in Paths : tree[b] = Absent
        \/ /\ \A b \in Paths : Present(tree[b])
           /\ IF q \in DirPaths THEN tree[q] = Directory
              ELSE IsFile(tree[q]) /\ tree[q].ver = Place(q)
  <2>1. CASE tree = Nothing(Absent) BY <2>1 DEF Nothing
  <2>2. CASE tree = [p \in Paths |-> InitialNode(p)]
    <3>1. \A b \in Paths : tree[b] = IF b \in DirPaths THEN Directory ELSE File(Place(b))
      BY <2>2 DEF InitialNode
    <3>2. \A b \in Paths : /\ Present(File(Place(b))) /\ IsFile(File(Place(b)))
                           /\ File(Place(b)).ver = Place(b)
      BY DEF File, IsFile, Present
    <3> QED BY <1>4, <3>1, <3>2
  <2> QED BY <1>5, <2>1, <2>2
<1>8. Newest \in Nat /\ \A q \in Paths : tree[q].ver <= Newest
  <2>1. Newest \in Nat /\ Newest = Len(Tree) /\ Len(Tree) \in Nat
    BY <1>1, <1>3, VersionNumbers, TreeAssumption DEF Newest
  <2> SUFFICES ASSUME NEW q \in Paths PROVE tree[q].ver <= Newest BY <2>1
  <2>2. Place(q) \in 1..Len(Tree) BY PathFacts
  <2> QED BY <1>4, <1>7, <2>1, <2>2
<1>9. KindsInv
  <2> SUFFICES ASSUME NEW q \in Paths
               PROVE  IF q \in DirPaths
                      THEN ~IsFile(tree[q]) /\ (journal[q].here => journal[q].dir)
                      ELSE ~IsDir(tree[q]) /\ ~journal[q].dir
    BY <1>2, <1>4, <1>6 DEF KindsInv
  <2>1. IF q \in DirPaths THEN ~IsFile(tree[q]) ELSE ~IsDir(tree[q])
    BY <1>4, <1>6, <1>7, NodeFacts
  <2> QED BY <1>6, <2>1, NodeFacts
<1>10. TreesInv
  <2> SUFFICES ASSUME NEW q \in Paths, NEW a \in Above(q), Present(tree[q])
               PROVE  Present(tree[a])
    BY <1>5, AboveFacts DEF TreesInv
  <2>1. a \in Paths BY AboveFacts
  <2> QED BY <1>4, <1>7, <2>1
<1>11. VersionsInv BY <1>2, <1>3, <1>4, <1>6, <1>8 DEF VersionsInv
<1>12. RowsInv BY <1>6 DEF RowsInv
<1>13. (ListedInv /\ SharedInv /\ JournalInv /\ SeenInv /\ EditsInv)
  BY <1>2, <1>3 DEF ListedInv, SharedInv, JournalInv, SeenInv, EditsInv
<1>14. TodoInv BY <1>2 DEF TodoInv, TodoAt, Pending
<1>15. UploadsInv BY <1>2, <1>3 DEF UploadsInv, NoFailure
<1>16. EditsStay BY <1>3 DEF EditsStay
<1> QED BY <1>9, <1>10, <1>11, <1>12, <1>13, <1>14, <1>15, <1>16 DEF Parts

\* A step of the plan keeps the invariant; there is no local deletion in it, and no
\* rename.
LEMMA SteadyPaths ==
    ASSUME TypeInv, Steady, Parts, NEW p \in Paths, PathStep(p)
    PROVE  Parts'
<1>1. ~MoveLocal(p) /\ ~DeleteLocal(p)
  <2>1. run.todo[p] \in Pending(run.phase) BY DEF Parts, TodoInv, TodoAt
  <2> QED BY <2>1 DEF MoveLocal, DeleteLocal, Takes, Pending
<1> QED
  BY <1>1, RecordSteady, MkdirLocalSteady, MkdirRemoteSteady, SetAsideSteady, FetchSteady,
     DeleteRemoteSteady, DownloadSteady, UploadSteady
  DEF PathStep

\* So does an input.
LEMMA SteadyUsers ==
    ASSUME TypeInv, Steady, Parts, UserStep
    PROVE  Parts'
<1>1. PICK p \in Paths : \/ LocalWrite(p) \/ LocalMkdir(p) \/ LocalDelete(p)
                         \/ RemoteWrite(p) \/ RemoteMkdir(p) \/ RemoteDelete(p)
                         \/ \E q \in Paths \ {p} : RemoteMove(p, q)
  BY DEF UserStep
<1>2. ~RemoteDelete(p) /\ \A q \in Paths : ~RemoteMove(p, q)
  BY SteadyFacts DEF RemoteDelete, RemoteMove, May
<1> QED
  BY <1>1, <1>2, LocalWriteSteady, LocalMkdirSteady, LocalDeleteSteady, RemoteWriteSteady,
     RemoteMkdirSteady

\* So does every step.
LEMMA SteadyStep ==
    ASSUME TypeInv, Steady, Parts, [Next]_vars
    PROVE  Parts'
<1>1. CASE UserStep BY <1>1, SteadyUsers
<1>2. CASE EngineStep
  <2>1. ~StopCancelled BY DEF StopCancelled, Parts, UploadsInv
  <2> QED
    BY <1>2, <2>1, DiscoverSteady, PlanSteady, SteadyPaths, StartDownloadsSteady, CloseSteady,
       RefreshSteady, FinishSteady
    DEF EngineStep
<1>3. CASE Cancel \/ Crash BY <1>3, SteadyFacts DEF Cancel, Crash
<1>4. CASE UNCHANGED vars
  <2>1. /\ Quiet /\ UNCHANGED <<local, aside, remote, ids, journal, failures, run>>
    BY <1>4 DEF vars, disk, server, db, users, Quiet
  <2>2. (KindsInv /\ TreesInv /\ RowsInv /\ ListedInv /\ UploadsInv /\ EditsStay)'
    BY <2>1, QuietFacts
    DEF Parts, KindsInv, TreesInv, RowsInv, ListedInv, UploadsInv, EditsStay
  <2>3. (VersionsInv /\ JournalInv /\ SeenInv /\ EditsInv)' BY <2>1, QuietFacts
    DEF Parts, VersionsInv, JournalInv, SeenInv, EditsInv
  <2>4. (SharedInv /\ TodoInv)' BY <2>1, QuietFacts
    DEF Parts, SharedInv, AwaitsRefresh, TodoInv, TodoAt, ParentsReady
  <2> QED BY <2>2, <2>3, <2>4 DEF Parts
<1> QED BY <1>1, <1>2, <1>3, <1>4 DEF Next

\* A scenario is played to the end.
LEMMA ScenarioStays == ASSUME [Next]_vars PROVE scenario' = scenario
BY DEF Next, UserStep, LocalWrite, LocalMkdir, LocalDelete, RemoteWrite, RemoteMkdir,
       RemoteDelete, RemoteMove, May, EngineStep, Discover, MakePlan, PathStep, Record,
       MkdirLocal, MkdirRemote, MoveLocal, SetAside, Fetch, DeleteLocal, DeleteRemote,
       Download, Upload, Takes, StartDownloads, CloseDownloads, CloseUploads, ClosePool,
       RefreshDir, Finish, StopCancelled, Cancel, Crash, users, vars

\* What the local user wrote is on disk or in a conflict copy until somebody
\* replaces or deletes it knowing it, as long as every request of a run is answered
\* and nobody edits locally during one: reconcile, the order of the plan, the two
\* halves of a conflict, the pools and the refresh of what they uploaded lose no
\* edit between them.  In every scenario without local edits during a run, a
\* download replaces only what the journal calls synchronized.
THEOREM EditsAreKept == Spec => []LocalEditsKept
<1>1. Init => SteadyInv BY SteadyInit
<1>2. TypeInv /\ SteadyInv /\ [Next]_vars => SteadyInv'
  <2> SUFFICES ASSUME TypeInv, SteadyInv, [Next]_vars, Steady' PROVE Parts' BY DEF SteadyInv
  <2>1. Steady BY ScenarioStays DEF Steady
  <2> QED BY <2>1, SteadyStep DEF SteadyInv
<1>3. SteadyInv => (Steady => EditsStay) BY DEF SteadyInv, Parts
<1>4. Spec => []TypeInv BY TypesHold
<1>5. Spec => []("local" \notin scenario.concurrent => DownloadsSpareEdits)
  BY DownloadsReplaceTheJournaled
<1>6. (Steady => EditsStay) /\ ("local" \notin scenario.concurrent => DownloadsSpareEdits)
          => LocalEditsKept
  BY DEF LocalEditsKept
<1> QED BY <1>1, <1>2, <1>3, <1>4, <1>5, <1>6, PTL DEF Spec

-----------------------------------------------------------------------------
(* The fast path of the discovery.                                         *)

\* The scenarios in which the journal follows the server: nothing changes during a
\* run, only the process dies or a local deletion is refused, no other client
\* renames a file, and a name is a file or a directory for good.
Followed ==
    /\ Undisturbed /\ "move" \notin scenario.inputs
    /\ FilePaths \cap DirPaths = {} /\ \A p \in Paths : Above(p) \subseteq DirPaths

\* The journal has the version of the server.
InRow(p) == journal[p].here /\ journal[p].etag = remote[p].ver

\* What is there on disk is in a directory that is there.
DiskTreeInv == \A p \in Paths : \A a \in Above(p) : Present(local[p]) => Present(local[a])

\* What goes by a file id: the file of the server, a row, an entry of the listing.
IdsAt(p) == {ids[p], journal[p].id, run.seen[p].id}

\* Two paths never share a file id: only a rename makes them.
IdsInv == \A p, q \in Paths : p # q => IdsAt(p) \cap IdsAt(q) \subseteq {0}

\* No version is newer than the last input, nor is one that failed.
NewestInv ==
    \A p \in Paths :
        /\ local[p].ver <= Newest /\ remote[p].ver <= Newest
        /\ journal[p].etag <= Newest /\ run.seen[p].etag <= Newest
        /\ failures[p].of = "download" => failures[p].ver <= Newest

\* A version whose download failed is gone from both sides.
FailuresInv ==
    \A p \in Paths : failures[p].of = "download" =>
        /\ p \notin DirPaths
        /\ \A node \in {local[p], remote[p]} : Present(node) => node.ver # failures[p].ver

\* While the root ETag is the stored one, every row has the version of the server.
RootInv == rootKnown => \A p \in Paths : Present(remote[p]) => InRow(p)

\* A listing has all that is on the server; what else it has comes from the journal.
HeardInv ==
    run.phase = "listed" =>
        /\ run.complete
        /\ \A p \in Paths :
               /\ Present(remote[p]) => run.seen[p].here /\ run.seen[p].etag = remote[p].ver
               /\ ~run.seen[p].here => run.seen[p].etag = 0
               /\ run.seen[p].here /\ ~Present(remote[p]) =>
                      journal[p].here /\ run.seen[p].etag = journal[p].etag

\* What may be planned, done and failed in each phase of a run.
StageInv ==
    /\ ~run.cancelled
    /\ run.phase \notin {"downloads", "uploads"} => run.ok = {}
    /\ \A p \in Paths :
           /\ run.todo[p] # "moveLocal"
           /\ run.phase = "downloads" => run.todo[p] \in {"none", "download", "upload"}
           /\ run.phase = "uploads" => run.todo[p] \in {"none", "upload"}
           /\ run.phase \in {"idle", "listed", "refresh"} => run.todo[p] = "none"
           /\ run.phase = "downloads" /\ p \in run.failed =>
                  p \notin DirPaths /\ ~Present(remote[p]) /\ ~Present(local[p])

\* What the rest of the plan says of the server, and what is through says of the
\* journal: its row is the server's, or about to be written.
PlanAt(p) ==
    /\ run.todo[p] \in {"record", "mkdirLocal"} =>
           run.seen[p].here /\ (Present(remote[p]) => run.seen[p].etag = remote[p].ver)
    /\ run.todo[p] = "mkdirLocal" => p \in DirPaths
    /\ run.todo[p] = "mkdirRemote" =>
           /\ p \in DirPaths /\ Present(run.scan[p])
           /\ ~Present(remote[p]) /\ run.seen[p].etag = 0
    /\ run.todo[p] \in {"download", "conflict", "fetch", "upload"} => p \notin DirPaths
    /\ run.todo[p] = "download" /\ ~Present(remote[p]) => ~Present(local[p])
    /\ run.todo[p] \in {"conflict", "fetch"} =>
           \A a \in Above(p) : run.todo[a] # "deleteRemote"
    /\ run.todo[p] = "deleteRemote" => \A q \in Below(p) : ~IsFile(local[q])
    /\ run.todo[p] = "upload" /\ Present(remote[p]) => InRow(p)
    /\ run.todo[p] = "deleteLocal" => ~Present(remote[p])
    /\ run.todo[p] = "none" /\ run.phase \notin {"idle", "listed"} /\ Present(remote[p]) =>
           InRow(p) \/ p \in run.ok \/ ParentDir(p) \in run.touched

\* ... at every path.
PlanInv == \A p \in Paths : PlanAt(p)

\* The parts of the invariant of these scenarios.
Track == /\ KindsInv /\ DiskTreeInv /\ IdsInv /\ NewestInv /\ FailuresInv /\ RootInv /\ HeardInv
         /\ StageInv /\ PlanInv

\* What these scenarios exclude.
LEMMA FollowedFacts ==
    ASSUME Followed
    PROVE  /\ \A x \in {"listing", "cancel", "transfer", "mkdir", "delete"} : ~CanFail(x)
           /\ scenario.concurrent = {} /\ "move" \notin scenario.inputs
           /\ \A p \in FilePaths : p \notin DirPaths
           /\ \A p \in Paths : Above(p) \subseteq DirPaths
BY DEF Followed, Undisturbed, CanFail

\* Where a file or a directory may be.
LEMMA KindFacts ==
    ASSUME TypeInv, KindsInv, NEW p \in Paths
    PROVE  /\ p \in DirPaths => /\ ~IsFile(local[p]) /\ ~IsFile(remote[p])
                                /\ Present(local[p]) => local[p] = Directory
                                /\ Present(remote[p]) => remote[p] = Directory
           /\ p \notin DirPaths => /\ Present(local[p]) => IsFile(local[p])
                                   /\ Present(remote[p]) => IsFile(remote[p])
                                   /\ ~IsDir(local[p]) /\ ~IsDir(remote[p])
BY NodeFacts DEF TypeInv, KindsInv

\* The failed versions are numbers too.
LEMMA FailedNumbers == ASSUME TypeInv, NEW p \in Paths PROVE failures[p].ver \in Nat
BY DEF TypeInv, Failures, Versions

\* A step that brings one new file id at most to one path keeps the ids apart.
LEMMA IdsStep ==
    ASSUME TypeInv, IdsInv, NEW p \in Paths,
           \A q \in Paths : \A id \in IdsAt(q)' : id \in IdsAt(q) \cup {0} \/ (q = p /\ id = FreshId)
    PROVE  IdsInv'
<1> SUFFICES ASSUME NEW q \in Paths, NEW s \in Paths, q # s, NEW id \in IdsAt(q)', id \in IdsAt(s)'
             PROVE  id = 0
  BY DEF IdsInv
<1>1. \A b \in Paths : FreshId \notin IdsAt(b) BY FreshIdExists DEF IdsAt
<1>2. IdsAt(q) \cap IdsAt(s) \subseteq {0} BY DEF IdsInv
<1>3. FreshId # 0 BY FreshIdExists
<1> QED BY <1>1, <1>2, <1>3

-----------------------------------------------------------------------------
(* The inputs.                                                             *)

\* What an input makes of one of the trees.
Edited(old, new) ==
    \A q \in Paths : \/ new[q] \in {old[q], Absent}
                     \/ q \in DirPaths /\ new[q] = Directory
                     \/ q \notin DirPaths /\ new[q] = File(Fresh)

\* An input that leaves the rest of the state in order keeps the invariant.
LEMMA EditedTrack ==
    ASSUME TypeInv, Followed, Track, NEW input, NEW side, May(input, side), NEW p \in Paths,
           Edited(local, local'), Edited(remote, remote'), DiskTreeInv',
           rootKnown' => rootKnown /\ \A q \in Paths : remote'[q] \in {remote[q], Absent},
           \A q \in Paths : ids'[q] \in {ids[q], 0} \/ (q = p /\ ids'[q] = FreshId)
    PROVE  Track'
<1>1. /\ UNCHANGED <<scenario, journal, failures, run>> /\ run.phase = "idle"
      /\ Newest \in Nat /\ Fresh = Newest + 1 /\ Newest' = Newest + 1 /\ Fresh \in Versions \ {0}
  <2>1. clock' = clock + 1 /\ Fresh = Len(Tree) + clock + 1 /\ Fresh \in Versions \ {0}
        /\ UNCHANGED <<scenario, journal, failures, run>>
        /\ (run.phase = "idle" \/ side \in scenario.concurrent)
    BY MayFacts
  <2>2. Len(Tree) \in Nat /\ clock \in Nat
    BY TreeAssumption, ScenariosAssumption, BoundsAssumption DEF TypeInv
  <2> QED BY <2>1, <2>2, FollowedFacts DEF Newest
<1>2. \A q \in Paths : run.todo[q] = "none" BY <1>1 DEF Track, StageInv
<1>3. /\ ~IsFile(Absent) /\ ~IsDir(Absent) /\ Absent.ver = 0 /\ ~Present(Absent)
      /\ ~IsFile(Directory) /\ Directory.ver = 0
      /\ IsFile(File(Fresh)) /\ ~IsDir(File(Fresh)) /\ File(Fresh).ver = Fresh
  BY <1>1, NodesHold, NodeFacts
<1>4. KindsInv' BY <1>1, <1>3 DEF Track, KindsInv, Edited
<1>5. IdsInv'
  <2>1. \A q \in Paths : \A id \in IdsAt(q)' : id \in IdsAt(q) \cup {0} \/ (q = p /\ id = FreshId)
    BY <1>1 DEF IdsAt
  <2> QED BY <2>1, IdsStep DEF Track
<1>6. NewestInv'
  <2> SUFFICES ASSUME NEW q \in Paths
               PROVE  /\ local'[q].ver <= Newest' /\ remote'[q].ver <= Newest'
                      /\ journal[q].etag <= Newest' /\ run.seen[q].etag <= Newest'
                      /\ failures[q].of = "download" => failures[q].ver <= Newest'
    BY <1>1 DEF NewestInv
  <2>1. /\ local'[q].ver \in {local[q].ver, 0, Fresh} /\ remote'[q].ver \in {remote[q].ver, 0, Fresh}
    BY <1>3 DEF Edited
  <2> QED BY <1>1, <2>1, VersionNumbers, FailedNumbers DEF Track, NewestInv
<1>7. FailuresInv'
  <2> SUFFICES ASSUME NEW q \in Paths, failures[q].of = "download"
               PROVE  /\ q \notin DirPaths
                      /\ \A node \in {local'[q], remote'[q]} :
                             Present(node) => node.ver # failures[q].ver
    BY <1>1 DEF FailuresInv
  <2>1. q \notin DirPaths /\ \A node \in {local[q], remote[q]} :
                                 Present(node) => node.ver # failures[q].ver
    BY DEF Track, FailuresInv
  <2>2. failures[q].ver <= Newest /\ failures[q].ver \in Nat
    BY FailedNumbers DEF Track, NewestInv
  <2>3. File(Fresh).ver # failures[q].ver BY <1>1, <1>3, <2>2
  <2> QED BY <1>3, <2>1, <2>3 DEF Edited
<1>8. RootInv' BY <1>1, <1>3 DEF Track, RootInv, InRow
<1>9. HeardInv' BY <1>1 DEF HeardInv
<1>10. StageInv' BY <1>1 DEF Track, StageInv
<1>11. PlanInv' BY <1>1, <1>2 DEF PlanInv, PlanAt
<1> QED BY <1>4, <1>5, <1>6, <1>7, <1>8, <1>9, <1>10, <1>11 DEF Track

\* No input puts anything below a file.
LEMMA UserTrack ==
    ASSUME TypeInv, Followed, Track, UserStep
    PROVE  Track'
<1>1. local \in [Paths -> Nodes] /\ remote \in [Paths -> Nodes] /\ ids \in [Paths -> Ids]
  BY DEF TypeInv
<1>2. /\ ~IsFile(Absent) /\ ~IsDir(Absent) /\ ~Present(Absent) /\ Present(Directory)
  BY NodesHold
<1>3. PICK p \in Paths : \/ LocalWrite(p) \/ LocalMkdir(p) \/ LocalDelete(p)
                         \/ RemoteWrite(p) \/ RemoteMkdir(p) \/ RemoteDelete(p)
                         \/ \E q \in Paths \ {p} : RemoteMove(p, q)
  BY DEF UserStep
<1>4. \A q \in Paths : ~RemoteMove(p, q) BY FollowedFacts DEF RemoteMove, May
<1>5. ASSUME NEW node, Present(node), local' = [local EXCEPT ![p] = node], Writable(local, p)
      PROVE  DiskTreeInv'
  <2> SUFFICES ASSUME NEW q \in Paths, NEW a \in Above(q), Present(local'[q])
               PROVE  Present(local'[a])
    BY DEF DiskTreeInv
  <2>1. a \in Paths BY AboveFacts
  <2>2. Present(local[q]) => Present(local[a]) BY DEF Track, DiskTreeInv
  <2>3. q = p => Present(local[a]) BY <1>1, <1>5, <2>1, NodeFacts DEF Writable
  <2>4. q # p => local'[q] = local[q] BY <1>1, <1>5
  <2>5. Present(local[a]) BY <2>2, <2>3, <2>4
  <2>6. local'[a] \in {local[a], node} BY <1>1, <1>5, <2>1
  <2> QED BY <1>5, <2>5, <2>6
<1>6. UNCHANGED local => DiskTreeInv' BY DEF Track, DiskTreeInv
<1>7. ASSUME NEW tree \in [Paths -> Nodes], NEW node, NEW new, new = [tree EXCEPT ![p] = node],
             \/ p \in DirPaths /\ node = Directory
             \/ p \notin DirPaths /\ node = File(Fresh)
      PROVE  Edited(tree, new)
  BY <1>7 DEF Edited
<1>8. ASSUME NEW tree PROVE Edited(tree, tree)
  BY DEF Edited
<1>9. ASSUME NEW tree \in [Paths -> Nodes], NEW new, new = Without(tree, p)
      PROVE  Edited(tree, new)
  BY <1>9, SubtreeRemoved DEF Edited
<1>10. Present(File(Fresh)) BY DEF Present, File
<1>11. CASE LocalWrite(p)
  <2>1. /\ May("localWrite", "local") /\ p \notin DirPaths /\ Writable(local, p)
        /\ local' = [local EXCEPT ![p] = File(Fresh)] /\ UNCHANGED <<remote, ids, rootKnown>>
    BY <1>11, FollowedFacts DEF LocalWrite, server
  <2>2. Edited(local, local') /\ Edited(remote, remote') BY <1>1, <1>7, <1>8, <2>1
  <2>3. DiskTreeInv' BY <1>5, <1>10, <2>1
  <2> QED BY <2>1, <2>2, <2>3, EditedTrack
<1>12. CASE LocalMkdir(p)
  <2>1. /\ May("mkdir", "local") /\ p \in DirPaths /\ Writable(local, p)
        /\ local' = [local EXCEPT ![p] = Directory] /\ UNCHANGED <<remote, ids, rootKnown>>
    BY <1>12 DEF LocalMkdir, server
  <2>2. Edited(local, local') /\ Edited(remote, remote') BY <1>1, <1>7, <1>8, <2>1
  <2>3. DiskTreeInv' BY <1>2, <1>5, <2>1
  <2> QED BY <2>1, <2>2, <2>3, EditedTrack
<1>13. CASE LocalDelete(p)
  <2>1. /\ May("localDelete", "local") /\ local' = Without(local, p)
        /\ UNCHANGED <<remote, ids, rootKnown>>
    BY <1>13 DEF LocalDelete, server
  <2>2. Edited(local, local') /\ Edited(remote, remote') BY <1>1, <1>8, <1>9, <2>1
  <2>3. DiskTreeInv'
    <3> SUFFICES ASSUME NEW q \in Paths, NEW a \in Above(q), Present(local'[q])
                 PROVE  Present(local'[a])
      BY DEF DiskTreeInv
    <3>1. a \in Paths /\ (a \in Subtree(p) => q \in Subtree(p)) BY AboveFacts, SubtreeFacts
    <3>2. Present(local[q]) => Present(local[a]) BY DEF Track, DiskTreeInv
    <3>3. \A b \in Paths : local'[b] = IF b \in Subtree(p) THEN Absent ELSE local[b]
      BY <1>1, <2>1, SubtreeRemoved
    <3> QED BY <1>2, <3>1, <3>2, <3>3
  <2> QED BY <2>1, <2>2, <2>3, EditedTrack
<1>14. CASE RemoteWrite(p)
  <2>1. /\ May("remoteWrite", "remote") /\ p \notin DirPaths /\ UNCHANGED local
        /\ remote' = [remote EXCEPT ![p] = File(Fresh)] /\ ~rootKnown'
        /\ ids' = [ids EXCEPT ![p] = IF IsFile(remote[p]) THEN @ ELSE FreshId]
    BY <1>14, FollowedFacts DEF RemoteWrite, ServerPut
  <2>2. Edited(local, local') /\ Edited(remote, remote') BY <1>1, <1>7, <1>8, <2>1
  <2>3. \A q \in Paths : ids'[q] \in {ids[q], 0} \/ (q = p /\ ids'[q] = FreshId) BY <1>1, <2>1
  <2> QED BY <1>6, <2>1, <2>2, <2>3, EditedTrack
<1>15. CASE RemoteMkdir(p)
  <2>1. /\ May("mkdir", "remote") /\ p \in DirPaths /\ UNCHANGED <<local, ids>>
        /\ remote' = [remote EXCEPT ![p] = Directory] /\ ~rootKnown'
    BY <1>15 DEF RemoteMkdir
  <2>2. Edited(local, local') /\ Edited(remote, remote') BY <1>1, <1>7, <1>8, <2>1
  <2> QED BY <1>6, <2>1, <2>2, EditedTrack
<1>16. CASE RemoteDelete(p)
  <2>1. /\ May("remoteDelete", "remote") /\ UNCHANGED local
        /\ remote' = Without(remote, p) /\ (rootKnown' => rootKnown)
        /\ ids' = [q \in Paths |-> IF q \in Subtree(p) THEN 0 ELSE ids[q]]
    BY <1>16 DEF RemoteDelete, ServerRemove
  <2>2. Edited(local, local') /\ Edited(remote, remote') BY <1>1, <1>8, <1>9, <2>1
  <2>3. \A q \in Paths : remote'[q] \in {remote[q], Absent} BY <1>1, <2>1, SubtreeRemoved
  <2> QED BY <1>6, <2>1, <2>2, <2>3, EditedTrack
<1> QED BY <1>3, <1>4, <1>11, <1>12, <1>13, <1>14, <1>15, <1>16

-----------------------------------------------------------------------------
(* The beginning of a run and its end.                                     *)

\* Without a run there is nothing to hear, to do or to have done.
LEMMA NoRunTrack ==
    ASSUME run' = NoRun
    PROVE  /\ (HeardInv /\ StageInv /\ PlanInv)'
           /\ \A q \in Paths : /\ run'.scan[q] = Absent /\ run'.seen[q] = NotListed
                               /\ run'.seen[q].id = 0 /\ run'.seen[q].etag = 0
                               /\ ~run'.seen[q].here /\ ~run'.seen[q].dir
<1>1. /\ run'.phase = "idle" /\ ~run'.cancelled /\ run'.ok = {}
      /\ \A q \in Paths : run'.todo[q] = "none" /\ run'.scan[q] = Absent /\ run'.seen[q] = NotListed
  BY NoRunFacts
<1>2. NotListed.id = 0 /\ NotListed.etag = 0 /\ ~NotListed.here /\ ~NotListed.dir
  BY DEF NotListed
<1>3. HeardInv' BY <1>1 DEF HeardInv
<1>4. StageInv' BY <1>1 DEF StageInv
<1>5. PlanInv' BY <1>1 DEF PlanInv, PlanAt
<1> QED BY <1>1, <1>2, <1>3, <1>4, <1>5

\* A run that is over leaves the trees and the rows as they were.
LEMMA EndTrack ==
    ASSUME TypeInv, Track, run' = NoRun, RootInv',
           UNCHANGED <<clock, local, remote, ids, journal, failures>>
    PROVE  Track'
<1>1. ~IsFile(Absent) /\ ~IsDir(Absent) BY NodesHold
<1>2. KindsInv' BY <1>1, NoRunTrack DEF Track, KindsInv
<1>3. DiskTreeInv' BY DEF Track, DiskTreeInv
<1>4. IdsInv'
  <2> SUFFICES ASSUME NEW q \in Paths, NEW s \in Paths, q # s
               PROVE  (IdsAt(q) \cap IdsAt(s))' \subseteq {0}
    BY DEF IdsInv
  <2>1. IdsAt(q) \cap IdsAt(s) \subseteq {0} BY DEF Track, IdsInv
  <2> QED BY <2>1, NoRunTrack DEF IdsAt
<1>5. NewestInv'
  <2>1. Newest' = Newest /\ Newest \in Nat BY VersionNumbers DEF Newest
  <2> QED BY <2>1, NoRunTrack DEF Track, NewestInv
<1>6. FailuresInv' BY DEF Track, FailuresInv
<1> QED BY <1>2, <1>3, <1>4, <1>5, <1>6, NoRunTrack DEF Track

\* The journal, when the walk is skipped, lists what the server would.
LEMMA DiscoverTrack ==
    ASSUME TypeInv, Followed, Track, Discover
    PROVE  Track'
<1>1. /\ UNCHANGED <<local, remote, ids, journal, failures, rootKnown, clock>>
      /\ run.phase = "idle" /\ run' \in Runs /\ run'.phase = "listed" /\ run'.ok = {}
      /\ \A q \in Paths : run'.todo[q] = "none" /\ run'.scan[q] = Absent
  BY DiscoverFacts DEF disk, server, db
<1>2. ~CanFail("listing") /\ ~CanFail("cancel") BY FollowedFacts
<1>3. /\ run'.complete /\ ~run'.cancelled
      /\ (rootKnown /\ run'.seen = FromJournal) \/ run'.seen = ServerListing({})
  <2>1. ASSUME NEW seen, run' = [NoRun EXCEPT !.phase = "listed", !.seen = seen, !.complete = TRUE]
        PROVE  run'.seen = seen /\ run'.complete /\ ~run'.cancelled
    BY <2>1 DEF NoRun
  <2>2. \/ rootKnown /\ run' = [NoRun EXCEPT !.phase = "listed", !.seen = FromJournal, !.complete = TRUE]
        \/ \E unread \in {{}} :
               run' = [NoRun EXCEPT !.phase = "listed", !.seen = ServerListing(unread),
                                    !.complete = (unread = {})]
    BY <1>2 DEF Discover
  <2> QED BY <2>1, <2>2
<1>4. ASSUME NEW q \in Paths
      PROVE  /\ run'.seen[q].here => \/ /\ run'.seen[q].dir = journal[q].dir /\ journal[q].here
                                        /\ run'.seen[q].etag = journal[q].etag
                                        /\ run'.seen[q].id = journal[q].id
                                     \/ /\ run'.seen[q].dir = IsDir(remote[q]) /\ Present(remote[q])
                                        /\ run'.seen[q].etag = remote[q].ver
                                        /\ run'.seen[q].id = ids[q]
             /\ ~run'.seen[q].here => /\ run'.seen[q].etag = 0 /\ run'.seen[q].id = 0
                                      /\ ~run'.seen[q].dir
             /\ Present(remote[q]) => run'.seen[q].here /\ run'.seen[q].etag = remote[q].ver
  <2>1. CASE rootKnown /\ run'.seen = FromJournal
    <3>1. run'.seen[q] = IF journal[q].here
                         THEN Listed(journal[q].dir, journal[q].etag, journal[q].id) ELSE NotListed
      BY <2>1 DEF FromJournal
    <3>2. Present(remote[q]) => journal[q].here /\ journal[q].etag = remote[q].ver
      BY <2>1 DEF Track, RootInv, InRow
    <3>3. CASE journal[q].here
      <4>1. /\ run'.seen[q].here /\ run'.seen[q].dir = journal[q].dir
            /\ run'.seen[q].etag = journal[q].etag /\ run'.seen[q].id = journal[q].id
        BY <3>1, <3>3 DEF Listed
      <4> QED BY <3>2, <3>3, <4>1
    <3>4. CASE ~journal[q].here
      <4>1. run'.seen[q] = NotListed BY <3>1, <3>4
      <4> QED BY <3>2, <3>4, <4>1 DEF NotListed
    <3> QED BY <3>3, <3>4
  <2>2. CASE run'.seen = ServerListing({})
    <3>1. run'.seen[q] = IF Present(remote[q])
                         THEN Listed(IsDir(remote[q]), remote[q].ver, ids[q]) ELSE NotListed
      BY <2>2 DEF ServerListing
    <3> QED BY <3>1 DEF Listed, NotListed
  <2> QED BY <1>3, <2>1, <2>2
<1>5. ~IsFile(Absent) /\ ~IsDir(Absent) BY NodesHold
<1>6. KindsInv'
  <2> SUFFICES ASSUME NEW q \in Paths
               PROVE  IF q \in DirPaths THEN run'.seen[q].here => run'.seen[q].dir
                      ELSE ~run'.seen[q].dir
    BY <1>1, <1>5 DEF Track, KindsInv
  <2>1. IF q \in DirPaths THEN journal[q].here => journal[q].dir ELSE ~journal[q].dir
    BY DEF Track, KindsInv
  <2>2. /\ q \in DirPaths => (Present(remote[q]) => IsDir(remote[q]))
        /\ q \notin DirPaths => ~IsDir(remote[q])
    BY KindFacts, NodesHold DEF Track
  <2> QED BY <1>4, <2>1, <2>2
<1>7. DiskTreeInv' BY <1>1 DEF Track, DiskTreeInv
<1>8. IdsInv'
  <2> SUFFICES ASSUME NEW q \in Paths, NEW s \in Paths, q # s
               PROVE  (IdsAt(q) \cap IdsAt(s))' \subseteq {0}
    BY DEF IdsInv
  <2>1. IdsAt(q) \cap IdsAt(s) \subseteq {0} BY DEF Track, IdsInv
  <2>2. run'.seen[q].id \in {journal[q].id, ids[q], 0} /\ run'.seen[s].id \in {journal[s].id, ids[s], 0}
    BY <1>4
  <2> QED BY <1>1, <2>1, <2>2 DEF IdsAt
<1>9. NewestInv'
  <2>1. Newest' = Newest /\ Newest \in Nat BY <1>1, VersionNumbers DEF Newest
  <2>2. \A q \in Paths : run'.seen[q].etag \in {journal[q].etag, remote[q].ver, 0} BY <1>4
  <2>3. \A q \in Paths : run'.seen[q].etag <= Newest BY <2>1, <2>2 DEF Track, NewestInv
  <2> QED BY <1>1, <2>1, <2>3 DEF Track, NewestInv
<1>10. FailuresInv' BY <1>1 DEF Track, FailuresInv
<1>11. RootInv' BY <1>1 DEF Track, RootInv, InRow
<1>12. HeardInv'
  <2> SUFFICES ASSUME NEW q \in Paths
               PROVE  /\ Present(remote[q]) => run'.seen[q].here /\ run'.seen[q].etag = remote[q].ver
                      /\ ~run'.seen[q].here => run'.seen[q].etag = 0
                      /\ run'.seen[q].here /\ ~Present(remote[q]) =>
                             journal[q].here /\ run'.seen[q].etag = journal[q].etag
    BY <1>1, <1>3 DEF HeardInv
  <2> QED BY <1>4
<1>13. StageInv' BY <1>1, <1>3 DEF StageInv
<1>14. PlanInv' BY <1>1 DEF PlanInv, PlanAt
<1> QED BY <1>6, <1>7, <1>8, <1>9, <1>10, <1>11, <1>12, <1>13, <1>14 DEF Track

\* No path has the file id of another: nothing is taken for a rename.
LEMMA NoSources ==
    ASSUME IdsInv, NEW q \in Paths
    PROVE  MoveSources(q, local, run.seen, journal, run.complete) = {}
<1> SUFFICES ASSUME NEW from \in MoveSources(q, local, run.seen, journal, run.complete) PROVE FALSE
  OBVIOUS
<1>1. from \in Paths /\ from # q /\ run.seen[q].id # 0 /\ journal[from].id = run.seen[q].id
  BY DEF MoveSources, KnownAs
<1>2. IdsAt(q) \cap IdsAt(from) \subseteq {0} BY <1>1 DEF IdsInv
<1> QED BY <1>1, <1>2 DEF IdsAt

\* A download is left out of a plan because that very version failed.
LEMMA LeftOut ==
    ASSUME NEW q \in Paths, Planned(q) = "none",
           Plan(local, run.seen, journal, run.complete)[q] = "download"
    PROVE  failures[q].of = "download" /\ failures[q].ver = run.seen[q].etag
<1> DEFINE whole == Plan(local, run.seen, journal, run.complete)
<1>1. Blacklisted(whole, q) BY DEF Planned
<1>2. whole[q] = "download" OBVIOUS
<1> HIDE DEF whole
<1> QED BY <1>1, <1>2 DEF Blacklisted, FailedBefore, Signature

\* What the plan says of a path that another client has something at.
LEMMA PlanHeard ==
    ASSUME TypeInv, Followed, Track, run.phase = "listed", NEW q \in Paths
    PROVE  /\ Planned(q) # "moveLocal" /\ Planned(q) # "fetch"
           /\ Planned(q) # "none" =>
                  Means(Planned(q), local[q], run.seen[q], journal[q], run.complete)
           /\ Planned(q) = "none" /\ Present(remote[q]) => InRow(q)
<1> DEFINE moved == \E s \in Paths :
                        q \in MoveSources(s, local, run.seen, journal, run.complete)
           whole == Plan(local, run.seen, journal, run.complete)
           l == local[q]
           r == run.seen[q]
           j == journal[q]
           c == run.complete
           d == Decision(l, r, j, c, moved)
<1>1. ASSUME NEW s \in Paths PROVE MoveSources(s, local, run.seen, journal, run.complete) = {}
  BY NoSources DEF Track
<1>2. ~Shadowed(q, local)
  BY FollowedFacts, AboveFacts DEF Track, KindsInv, Shadowed
<1>3. l \in Nodes /\ r.dir \in BOOLEAN BY DEF TypeInv, Runs, Listings
<1>4. whole[q] = d BY <1>1, <1>2 DEF Plan
<1>5. Planned(q) # "none" => Planned(q) = d BY <1>1, PlannedFacts
<1>6. Means(d, l, r, j, c)
  <2> HIDE DEF moved, l, r, j, c
  <2> QED BY <1>3, DecisionMeans
<1>7. d \notin {"moveLocal", "fetch"}
  <2> HIDE DEF moved, l, r, j, c
  <2> QED BY DecisionType
<1>8. Planned(q) = "none" => d \in {"none", "download", "upload"}
  BY <1>1, <1>2, PlannedFacts
<1>9. ASSUME Planned(q) = "none", Present(remote[q]) PROVE InRow(q)
  <2>1. c /\ r.here /\ r.etag = remote[q].ver BY <1>9 DEF Track, HeardInv
  <2>2. CASE d = "none"
    <3> HIDE DEF l, r, j, c, d
    <3> QED BY <1>6, <2>1, <2>2 DEF Means
  <2>3. CASE d = "upload"
    <3>1. j.here /\ r.etag = j.etag
      <4> HIDE DEF l, r, j, c, d
      <4> QED BY <1>6, <2>1, <2>3 DEF Means
    <3> QED BY <2>1, <3>1 DEF InRow
  <2>4. CASE d = "download"
    <3>1. failures[q].of = "download" /\ failures[q].ver = r.etag
      <4>1. whole[q] = "download" BY <1>4, <2>4
      <4> HIDE DEF d
      <4> QED BY <1>9, <4>1, LeftOut
    <3> QED BY <1>9, <2>1, <3>1 DEF Track, FailuresInv
  <2> QED BY <1>8, <1>9, <2>2, <2>3, <2>4
<1>10. Planned(q) # "moveLocal" /\ Planned(q) # "fetch" BY <1>5, <1>7
<1> HIDE DEF d, moved, whole
<1> QED BY <1>5, <1>6, <1>9, <1>10

\* The plan agrees with what the run has heard of the server.
LEMMA PlanTrack ==
    ASSUME TypeInv, Followed, Track, MakePlan
    PROVE  Track'
<1>1. /\ UNCHANGED <<local, remote, ids, journal, failures, rootKnown, clock, scenario>>
      /\ run.phase = "listed"
  BY PlanFacts DEF disk, server, db, users
<1>2. RootInv' BY <1>1 DEF Track, RootInv, InRow
<1>3. CASE run' = NoRun BY <1>1, <1>2, <1>3, EndTrack
<1>4. CASE run' # NoRun
  <2>1. /\ run' \in Runs /\ run'.phase = "loop" /\ run'.seen = run.seen
        /\ run'.cancelled = run.cancelled /\ run'.ok = run.ok
        /\ run'.scan = local /\ \A q \in Paths : run'.todo[q] = Planned(q)
    BY <1>4, PlanFacts
  <2>2. ~run.cancelled /\ run.ok = {} BY <1>1 DEF Track, StageInv
  <2>3. KindsInv' BY <1>1, <2>1 DEF Track, KindsInv
  <2>4. DiskTreeInv' BY <1>1 DEF Track, DiskTreeInv
  <2>5. IdsInv'
    <3> SUFFICES ASSUME NEW q \in Paths, NEW s \in Paths, q # s
                 PROVE  (IdsAt(q) \cap IdsAt(s))' \subseteq {0}
      BY DEF IdsInv
    <3>1. IdsAt(q) \cap IdsAt(s) \subseteq {0} BY DEF Track, IdsInv
    <3> QED BY <1>1, <2>1, <3>1 DEF IdsAt
  <2>6. NewestInv' BY <1>1, <2>1 DEF Track, NewestInv, Newest
  <2>7. FailuresInv' BY <1>1 DEF Track, FailuresInv
  <2>8. HeardInv' BY <2>1 DEF HeardInv
  <2>9. StageInv' BY <2>1, <2>2, PlanHeard, <1>1 DEF StageInv
  <2>10. PlanInv'
    <3> SUFFICES ASSUME NEW q \in Paths PROVE PlanAt(q)' BY DEF PlanInv
    <3> DEFINE l == local[q]
               r == run.seen[q]
               j == journal[q]
               d == Planned(q)
    <3>1. /\ Present(remote[q]) => r.here /\ r.etag = remote[q].ver
          /\ ~r.here => r.etag = 0
          /\ r.here /\ ~Present(remote[q]) => j.here /\ r.etag = j.etag
      BY <1>1 DEF Track, HeardInv
    <3>2. d # "fetch" /\ (d # "none" => Means(d, l, r, j, run.complete))
      BY <1>1, PlanHeard
    <3>3. /\ IsDir(l) => Present(l) /\ ~IsFile(l)
          /\ IsFile(l) => Present(l) /\ ~IsDir(l)
      BY NodeFacts DEF TypeInv
    <3>4. /\ q \in DirPaths => ~IsFile(l) /\ (Present(l) => IsDir(l)) /\ (r.here => r.dir)
          /\ q \notin DirPaths => ~IsDir(l) /\ ~r.dir
      <4>1. q \in DirPaths /\ Present(l) => IsDir(l) BY KindFacts, NodesHold DEF Track
      <4> QED BY <4>1 DEF Track, KindsInv
    <3>5. /\ d \in {"record", "mkdirLocal"} => r.here /\ (Present(remote[q]) => r.etag = remote[q].ver)
          /\ d = "mkdirLocal" => q \in DirPaths
          /\ d = "mkdirRemote" =>
                 q \in DirPaths /\ Present(l) /\ ~Present(remote[q]) /\ r.etag = 0
          /\ d \in {"download", "conflict", "upload"} => q \notin DirPaths
          /\ d = "download" /\ ~Present(remote[q]) => ~Present(l)
          /\ d = "upload" /\ Present(remote[q]) => j.here /\ j.etag = remote[q].ver
          /\ d = "deleteLocal" => ~Present(remote[q])
          /\ d = "conflict" => Present(l)
          /\ d = "deleteRemote" => ~Present(l)
      <4> HIDE DEF l, r, j, d
      <4>1. d \in {"record", "mkdirLocal"} => r.here BY <3>2 DEF Means
      <4>2. d = "mkdirLocal" => q \in DirPaths BY <3>2, <3>4 DEF Means
      <4>3. d = "mkdirRemote" => q \in DirPaths /\ Present(l) /\ ~Present(remote[q]) /\ r.etag = 0
        BY <3>1, <3>2, <3>3, <3>4 DEF Means
      <4>4. d = "download" => q \notin DirPaths BY <3>2, <3>4 DEF Means
      <4>5. d = "upload" => q \notin DirPaths BY <3>2, <3>4 DEF Means
      <4>6. d = "conflict" => q \notin DirPaths BY <3>2, <3>3, <3>4 DEF Means
      <4>7. d = "download" /\ ~Present(remote[q]) => ~Present(l) BY <3>1, <3>2 DEF Means
      <4>8. d = "upload" /\ Present(remote[q]) => j.here /\ j.etag = remote[q].ver
        BY <3>1, <3>2 DEF Means
      <4>9. d = "deleteLocal" => ~Present(remote[q]) BY <3>1, <3>2 DEF Means
      <4>10. (d = "conflict" => Present(l)) /\ (d = "deleteRemote" => ~Present(l))
        BY <3>2 DEF Means
      <4> QED
        BY <3>1, <4>1, <4>2, <4>3, <4>4, <4>5, <4>6, <4>7, <4>8, <4>9, <4>10
    <3>6. d = "conflict" => \A a \in Above(q) : Planned(a) # "deleteRemote"
      <4> SUFFICES ASSUME d = "conflict", NEW a \in Above(q), Planned(a) = "deleteRemote"
                   PROVE  FALSE
        OBVIOUS
      <4>1. a \in Paths /\ Present(local[a]) BY <3>5, AboveFacts DEF Track, DiskTreeInv
      <4>2. Means("deleteRemote", local[a], run.seen[a], journal[a], run.complete)
        BY <1>1, <4>1, PlanHeard
      <4> QED BY <4>1, <4>2 DEF Means
    <3>7. d = "deleteRemote" => \A s \in Below(q) : ~IsFile(local[s])
      <4> SUFFICES ASSUME d = "deleteRemote", NEW s \in Below(q), IsFile(local[s]) PROVE FALSE
        OBVIOUS
      <4>1. s \in Paths /\ q \in Above(s) BY DEF Below
      <4>2. Present(local[s]) BY <4>1, NodeFacts DEF TypeInv
      <4> QED BY <3>5, <4>1, <4>2 DEF Track, DiskTreeInv
    <3>8. d = "none" /\ Present(remote[q]) => InRow(q) BY <1>1, PlanHeard
    <3>9. \A a \in Above(q) : run'.todo[a] = Planned(a) BY <2>1, AboveFacts
    <3> HIDE DEF d
    <3>10. run'.todo[q] = d BY <2>1 DEF d
    <3> QED BY <1>1, <2>1, <3>2, <3>5, <3>6, <3>7, <3>8, <3>9, <3>10 DEF PlanAt, InRow
  <2> QED BY <1>2, <2>3, <2>4, <2>5, <2>6, <2>7, <2>8, <2>9, <2>10 DEF Track
<1> QED BY <1>3, <1>4

\* A step that only changes what is left to do keeps what is said of the trees.
LEMMA RunTrack ==
    ASSUME TypeInv, Track, run'.seen = run.seen, run'.scan = run.scan,
           UNCHANGED <<clock, local, remote, ids, journal, rootKnown>>
    PROVE  /\ (KindsInv /\ DiskTreeInv /\ IdsInv /\ RootInv)' /\ Newest' = Newest
           /\ UNCHANGED failures => (NewestInv /\ FailuresInv)'
<1>1. KindsInv' BY DEF Track, KindsInv
<1>2. DiskTreeInv' BY DEF Track, DiskTreeInv
<1>3. IdsInv'
  <2> SUFFICES ASSUME NEW q \in Paths, NEW s \in Paths, q # s
               PROVE  (IdsAt(q) \cap IdsAt(s))' \subseteq {0}
    BY DEF IdsInv
  <2>1. IdsAt(q) \cap IdsAt(s) \subseteq {0} BY DEF Track, IdsInv
  <2> QED BY <2>1 DEF IdsAt
<1>4. RootInv' BY DEF Track, RootInv, InRow
<1>5. Newest' = Newest BY DEF Newest
<1>6. UNCHANGED failures => (NewestInv /\ FailuresInv)'
  BY <1>5 DEF Track, NewestInv, FailuresInv
<1> QED BY <1>1, <1>2, <1>3, <1>4, <1>5, <1>6

\* Nothing is in the pool when it opens.
LEMMA StartTrack ==
    ASSUME TypeInv, Track, StartDownloads
    PROVE  Track'
<1>1. /\ UNCHANGED <<local, remote, ids, journal, failures, rootKnown, clock>>
      /\ run.phase = "loop" /\ run' = OpenPool("downloads")
      /\ \A q \in Paths : run.todo[q] \in {"none", "download", "upload"}
  BY DEF StartDownloads, disk, server, db, users
<1>2. run \in Runs /\ "downloads" \in Phases BY DEF TypeInv, Phases
<1>3. /\ run'.phase = "downloads" /\ run'.todo = run.todo /\ run'.touched = run.touched
      /\ run'.cancelled = run.cancelled /\ run'.seen = run.seen /\ run'.scan = run.scan
      /\ run'.ok = {} /\ run'.failed = {}
  <2> DEFINE s == OpenPool("downloads")
  <2>1. /\ s.phase = "downloads" /\ s.todo = run.todo /\ s.touched = run.touched
        /\ s.cancelled = run.cancelled /\ s.seen = run.seen /\ s.scan = run.scan
        /\ s.ok = {} /\ s.failed = {}
    BY <1>2, OpenPoolFacts
  <2> QED BY <1>1, <2>1
<1>4. ~run.cancelled /\ run.ok = {} BY <1>1 DEF Track, StageInv
<1>5. HeardInv' BY <1>3 DEF HeardInv
<1>6. StageInv' BY <1>1, <1>3, <1>4 DEF StageInv
<1>7. PlanInv'
  <2> SUFFICES ASSUME NEW q \in Paths PROVE PlanAt(q)' BY DEF PlanInv
  <2>1. PlanAt(q) BY DEF Track, PlanInv
  <2> QED BY <1>1, <1>3, <1>4, <2>1 DEF PlanAt, InRow
<1> QED BY <1>1, <1>3, <1>5, <1>6, <1>7, RunTrack DEF Track

\* A pool ends with its jobs done: what it transferred is to be written, what it
\* failed to download is nowhere.
LEMMA CloseTrack ==
    ASSUME TypeInv, Track, CloseDownloads \/ CloseUploads
    PROVE  Track'
<1>1. PICK phase \in {"downloads", "uploads"}, action \in {"download", "upload"}, next \in Phases :
        /\ ClosePool(phase, action, next)
        /\ phase = "downloads" => action = "download" /\ next = "uploads"
        /\ phase = "uploads" => action = "upload" /\ next = "refresh"
  <2>1. {"uploads", "refresh"} \subseteq Phases BY DEF Phases
  <2>2. CASE CloseDownloads BY <2>1, <2>2 DEF CloseDownloads
  <2>3. CASE CloseUploads BY <2>1, <2>3 DEF CloseUploads
  <2> QED BY <2>2, <2>3
<1>2. /\ run.phase = phase /\ (run.cancelled \/ Doing(run.todo, {action}) = {})
      /\ UNCHANGED <<local, remote, ids, journal, rootKnown, clock>>
      /\ failures' = FailuresAfter(action)
  BY <1>1 DEF ClosePool, disk, server, users
<1>3. /\ run'.phase = next /\ run'.cancelled = run.cancelled
      /\ run'.seen = run.seen /\ run'.scan = run.scan /\ run'.ok = {} /\ run'.failed = {}
      /\ run'.touched = run.touched \cup {ParentDir(p) : p \in run.ok}
      /\ run'.todo = [p \in Paths |-> IF run.todo[p] = action THEN "none" ELSE run.todo[p]]
  <2>1. run \in Runs BY DEF TypeInv
  <2> QED BY <1>1, <2>1, ClosePoolFacts
<1>4. ~run.cancelled /\ \A q \in Paths : run.todo[q] # action
  <2>1. ~run.cancelled BY DEF Track, StageInv
  <2> QED BY <1>2, <2>1 DEF Doing
<1>5. \A q \in Paths : run'.todo[q] = run.todo[q] BY <1>3, <1>4
<1>6. ASSUME NEW q \in Paths, failures'[q].of = "download"
      PROVE  \/ failures'[q] = failures[q]
             \/ phase = "downloads" /\ q \in run.failed /\ failures'[q].ver = run.seen[q].etag
  <2>1. \/ failures'[q] = NoFailure
        \/ failures'[q] = failures[q]
        \/ /\ q \in run.failed /\ failures'[q].of = action
           /\ action = "download" => failures'[q].ver = run.seen[q].etag
    BY <1>2 DEF FailuresAfter, Signature
  <2>2. NoFailure.of # "download" BY DEF NoFailure
  <2> QED BY <1>1, <1>6, <2>1, <2>2
<1>7. KindsInv' /\ DiskTreeInv' /\ IdsInv' /\ RootInv' /\ Newest' = Newest
  BY <1>2, <1>3, RunTrack
<1>8. NewestInv'
  <2> SUFFICES ASSUME NEW q \in Paths, failures'[q].of = "download"
               PROVE  failures'[q].ver <= Newest
    BY <1>2, <1>3, <1>7 DEF Track, NewestInv
  <2> QED BY <1>6 DEF Track, NewestInv
<1>9. FailuresInv'
  <2> SUFFICES ASSUME NEW q \in Paths, failures'[q].of = "download"
               PROVE  /\ q \notin DirPaths
                      /\ \A node \in {local[q], remote[q]} :
                             Present(node) => node.ver # failures'[q].ver
    BY <1>2 DEF FailuresInv
  <2>1. CASE failures'[q] = failures[q] BY <2>1 DEF Track, FailuresInv
  <2>2. CASE phase = "downloads" /\ q \in run.failed
    BY <1>2, <2>2 DEF Track, StageInv
  <2> QED BY <1>6, <2>1, <2>2
<1>10. HeardInv' BY <1>1, <1>3 DEF HeardInv
<1>11. StageInv'
  <2> SUFFICES ASSUME NEW q \in Paths
               PROVE  /\ run.todo[q] # "moveLocal"
                      /\ next = "uploads" => run.todo[q] \in {"none", "upload"}
                      /\ next = "refresh" => run.todo[q] = "none"
    BY <1>1, <1>3, <1>4, <1>5 DEF StageInv
  <2> QED BY <1>1, <1>2, <1>4 DEF Track, StageInv
<1>12. PlanInv'
  <2> SUFFICES ASSUME NEW q \in Paths PROVE PlanAt(q)' BY DEF PlanInv
  <2>1. PlanAt(q) BY DEF Track, PlanInv
  <2>2. q \in run.ok => ParentDir(q) \in run'.touched BY <1>3
  <2>3. run.touched \subseteq run'.touched BY <1>3
  <2>4. run.phase \notin {"idle", "listed"} BY <1>1, <1>2
  <2>5. \A a \in Above(q) : run'.todo[a] = run.todo[a] BY <1>5, AboveFacts
  <2> QED BY <1>2, <1>3, <1>5, <2>1, <2>2, <2>3, <2>4, <2>5 DEF PlanAt, InRow
<1> QED BY <1>7, <1>8, <1>9, <1>10, <1>11, <1>12 DEF Track

\* refresh_dir writes the rows of the server.
LEMMA RefreshTrack ==
    ASSUME TypeInv, Followed, Track, NEW d \in Paths \cup {Root}, RefreshDir(d)
    PROVE  Track'
<1>1. /\ UNCHANGED <<local, remote, ids, failures, rootKnown, clock>>
      /\ run.phase = "refresh" /\ d \in run.touched
      /\ run' = [run EXCEPT !.touched = @ \ {d}]
  BY DEF RefreshDir, disk, server, users
<1>2. /\ run'.phase = run.phase /\ run'.todo = run.todo /\ run'.seen = run.seen
      /\ run'.scan = run.scan /\ run'.cancelled = run.cancelled /\ run'.failed = run.failed
      /\ run'.ok = run.ok /\ run'.touched = run.touched \ {d}
  BY <1>1 DEF TypeInv, Runs
<1>3. \A q \in Paths : journal'[q] = IF ParentDir(q) = d /\ Present(remote[q])
                                     THEN Refreshed(q) ELSE journal[q]
  BY FollowedFacts DEF RefreshDir, Refreshed
<1>4. \A q \in Paths : /\ Refreshed(q).here /\ Refreshed(q).dir = IsDir(remote[q])
                       /\ Refreshed(q).etag = remote[q].ver /\ Refreshed(q).id = ids[q]
  BY DEF Refreshed, Known
<1>5. KindsInv'
  <2> SUFFICES ASSUME NEW q \in Paths
               PROVE  IF q \in DirPaths THEN journal'[q].here => journal'[q].dir
                      ELSE ~journal'[q].dir
    BY <1>1, <1>2 DEF Track, KindsInv
  <2>1. CASE journal'[q] = journal[q] BY <2>1 DEF Track, KindsInv
  <2>2. CASE Present(remote[q]) /\ journal'[q] = Refreshed(q)
    BY <1>4, <2>2, KindFacts, NodesHold DEF Track
  <2> QED BY <1>3, <2>1, <2>2
<1>6. DiskTreeInv' BY <1>1 DEF Track, DiskTreeInv
<1>7. IdsInv'
  <2> SUFFICES ASSUME NEW q \in Paths, NEW s \in Paths, q # s
               PROVE  (IdsAt(q) \cap IdsAt(s))' \subseteq {0}
    BY DEF IdsInv
  <2>1. IdsAt(q) \cap IdsAt(s) \subseteq {0} BY DEF Track, IdsInv
  <2>2. journal'[q].id \in {journal[q].id, ids[q]} /\ journal'[s].id \in {journal[s].id, ids[s]}
    BY <1>3, <1>4
  <2> QED BY <1>1, <1>2, <2>1, <2>2 DEF IdsAt
<1>8. NewestInv'
  <2>1. Newest' = Newest BY <1>1 DEF Newest
  <2>2. \A q \in Paths : journal'[q].etag \in {journal[q].etag, remote[q].ver} BY <1>3, <1>4
  <2> QED BY <1>1, <1>2, <2>1, <2>2 DEF Track, NewestInv
<1>9. FailuresInv' BY <1>1 DEF Track, FailuresInv
<1>10. \A q \in Paths : Present(remote[q]) /\ (InRow(q) \/ ParentDir(q) = d) => InRow(q)'
  BY <1>1, <1>3, <1>4 DEF InRow
<1>11. RootInv' BY <1>1, <1>10 DEF Track, RootInv
<1>12. HeardInv' BY <1>1, <1>2 DEF HeardInv
<1>13. StageInv' BY <1>1, <1>2 DEF Track, StageInv
<1>14. PlanInv'
  <2> SUFFICES ASSUME NEW q \in Paths PROVE PlanAt(q)' BY DEF PlanInv
  <2>1. PlanAt(q) BY DEF Track, PlanInv
  <2>2. run.todo[q] = "none" /\ run.ok = {} BY <1>1 DEF Track, StageInv
  <2>3. Present(remote[q]) => InRow(q)' \/ ParentDir(q) \in run'.touched
    BY <1>1, <1>2, <1>10, <2>1, <2>2 DEF PlanAt
  <2> QED BY <1>1, <1>2, <2>2, <2>3 DEF PlanAt
<1> QED
  BY <1>5, <1>6, <1>7, <1>8, <1>9, <1>11, <1>12, <1>13, <1>14 DEF Track

\* The root ETag is stored when every row is written.
LEMMA FinishTrack ==
    ASSUME TypeInv, Track, Finish
    PROVE  Track'
<1>1. /\ UNCHANGED <<local, remote, ids, journal, failures, clock>>
      /\ run.phase = "refresh" /\ run.touched = {} /\ run' = NoRun
  BY DEF Finish, disk, server
<1>2. \A q \in Paths : run.todo[q] = "none" /\ run.ok = {} BY <1>1 DEF Track, StageInv
<1>3. \A q \in Paths : Present(remote[q]) => InRow(q)
  BY <1>1, <1>2 DEF Track, PlanInv, PlanAt
<1>4. RootInv' BY <1>1, <1>3 DEF RootInv, InRow
<1> QED BY <1>1, <1>4, EndTrack

\* A run that dies leaves what it did.
LEMMA CrashTrack ==
    ASSUME TypeInv, Track, Crash
    PROVE  Track'
<1>1. /\ UNCHANGED <<local, remote, ids, journal, failures, rootKnown, clock>> /\ run' = NoRun
  BY DEF Crash, disk, server, db
<1>2. RootInv' BY <1>1 DEF Track, RootInv, InRow
<1> QED BY <1>1, <1>2, EndTrack

-----------------------------------------------------------------------------
(* One step of the plan, seen from the fast path.                          *)

\* What a step for p does to the disk,
DiskMoves(p) ==
    /\ DiskTreeInv'
    /\ \A q \in Paths :
           \/ local'[q] \in {local[q], Absent}
           \/ q \in DirPaths /\ local'[q] = Directory
           \/ /\ q = p /\ p \notin DirPaths /\ run.todo[p] \in {"fetch", "download"}
              /\ IsFile(remote[p]) /\ local'[p] = remote[p]

\* ... to the server,
ServerMoves(p) ==
    /\ rootKnown' => rootKnown
    /\ run.todo[p] = "deleteRemote" => ~Present(remote'[p])
    /\ \A q \in Paths :
           /\ \/ remote'[q] = remote[q]
              \/ remote'[q] = Absent /\ run.todo[p] = "deleteRemote" /\ q \in Subtree(p)
              \/ /\ q = p /\ p \in DirPaths /\ ~rootKnown'
                 /\ run.todo[p] = "mkdirRemote" /\ remote'[p] = Directory
              \/ /\ q = p /\ p \notin DirPaths /\ ~rootKnown'
                 /\ run.todo[p] = "upload" /\ IsFile(local[p]) /\ remote'[p] = local[p]
           /\ ids'[q] \in {ids[q], 0} \/ (q = p /\ ids'[q] = FreshId)

\* ... to the journal,
RowMoves(p) ==
    \A q \in Paths :
        \/ journal'[q] = journal[q]
        \/ /\ q = p /\ journal'[p] = NotKnown
           /\ run.todo[p] \in {"deleteLocal", "deleteRemote"}
        \/ /\ q = p /\ journal'[p] = Recorded(p)[p]
           /\ run.todo[p] \in {"record", "mkdirLocal", "mkdirRemote"}

\* ... and to the run: p is through when its row is the server's, or will be.
RunMoves(p) ==
    \/ run' = NoRun
    \/ /\ SameView(run, run')
       /\ run.ok \subseteq run'.ok /\ run.touched \subseteq run'.touched
       /\ run.phase = "loop" => run'.ok = run.ok
       /\ run.phase = "downloads" =>
              \A q \in run'.failed :
                  q \in run.failed \/ (q = p /\ run.todo[p] = "download" /\ ~Present(remote[p]))
       /\ \/ /\ run'.todo = Less(p)
             /\ Present(remote'[p]) =>
                    InRow(p)' \/ p \in run'.ok \/ ParentDir(p) \in run'.touched
          \/ run.todo[p] = "conflict" /\ run'.todo = [run.todo EXCEPT ![p] = "fetch"]

\* All of it.
Moves(p) ==
    /\ DiskMoves(p) /\ ServerMoves(p) /\ RowMoves(p) /\ RunMoves(p)
    /\ UNCHANGED <<clock, failures>>

\* The directories above p are made, and there is no file among them.
LEMMA ParentsTrack ==
    ASSUME TypeInv, Followed, Track, NEW p \in Paths
    PROVE  /\ Reachable(local, p)
           /\ \A q \in Paths : WithParents(local, p)[q] = IF q \in Above(p) THEN Directory
                                                          ELSE local[q]
           /\ \A q \in Above(p) : q \in Paths /\ q # p /\ q \in DirPaths
           /\ \A node \in Nodes :
                  /\ [WithParents(local, p) EXCEPT ![p] = node][p] = node
                  /\ \A q \in Paths \ {p} : [WithParents(local, p) EXCEPT ![p] = node][q]
                                              = WithParents(local, p)[q]
<1>1. \A q \in Above(p) : q \in Paths /\ q # p /\ q \in DirPaths BY FollowedFacts, AboveFacts
<1>2. Reachable(local, p) BY <1>1, KindFacts DEF Track, Reachable
<1>3. local \in [Paths -> Nodes] BY DEF TypeInv
<1> QED BY <1>1, <1>2, <1>3, ParentsMade

\* ... so that the disk stays a tree.
LEMMA PlacedTrack ==
    ASSUME TypeInv, Followed, Track, NEW p \in Paths,
           \/ local' = WithParents(local, p)
           \/ \E node \in Nodes :
                  Present(node) /\ local' = [WithParents(local, p) EXCEPT ![p] = node]
    PROVE  /\ DiskTreeInv'
           /\ \A q \in Paths \ {p} :
                  local'[q] = local[q] \/ (q \in DirPaths /\ local'[q] = Directory)
<1>1. /\ \A q \in Above(p) : q \in Paths /\ q # p /\ q \in DirPaths
      /\ \A q \in Paths \ {p} : local'[q] = IF q \in Above(p) THEN Directory ELSE local[q]
      /\ local'[p] = local[p] \/ Present(local'[p])
  <2>1. /\ \A q \in Above(p) : q \in Paths /\ q # p /\ q \in DirPaths
        /\ \A q \in Paths : WithParents(local, p)[q] = IF q \in Above(p) THEN Directory ELSE local[q]
    BY ParentsTrack
  <2>2. CASE local' = WithParents(local, p) BY <2>1, <2>2
  <2>3. CASE \E node \in Nodes :
                 Present(node) /\ local' = [WithParents(local, p) EXCEPT ![p] = node]
    <3>1. PICK node \in Nodes :
            Present(node) /\ local' = [WithParents(local, p) EXCEPT ![p] = node]
      BY <2>3
    <3>2. local'[p] = node /\ \A q \in Paths \ {p} : local'[q] = WithParents(local, p)[q]
      BY <3>1, ParentsTrack
    <3> QED BY <2>1, <3>1, <3>2
  <2> QED BY <2>2, <2>3
<1>2. Present(Directory) BY NodesHold
<1>3. ASSUME NEW q \in Paths, NEW a \in Above(q), Present(local'[q]) PROVE Present(local'[a])
  <2>1. a \in Paths /\ Above(a) \subseteq Above(q) BY AboveFacts
  <2>2. Present(local[q]) => Present(local[a]) BY DEF Track, DiskTreeInv
  <2>3. CASE q = p
    <3>1. a \in Above(p) BY <2>3
    <3> QED BY <1>1, <1>2, <3>1
  <2>4. CASE q \in Above(p)
    <3>1. a \in Above(p) BY <2>4, AboveFacts
    <3> QED BY <1>1, <1>2, <3>1
  <2>5. CASE q # p /\ q \notin Above(p)
    <3>1. Present(local[a]) BY <1>1, <1>3, <2>2, <2>5
    <3> QED BY <1>1, <1>2, <2>1, <3>1
  <2> QED BY <2>3, <2>4, <2>5
<1> QED BY <1>1, <1>3 DEF DiskTreeInv

\* A row that is written, or a run that dies before.
LEMMA JournaledMoves ==
    ASSUME TypeInv, Track, NEW p \in Paths, NEW rows \in [Paths -> Entries], Journaled(p, rows),
           Present(remote'[p]) => rows[p].here /\ rows[p].etag = remote'[p].ver
    PROVE  /\ RunMoves(p)
           /\ journal' = rows \/ journal' = journal
<1>1. \/ /\ journal' = rows /\ run'.todo = Less(p)
         /\ SameView(run, run') /\ SamePool(run, run') /\ run'.touched = run.touched
      \/ journal' = journal /\ run' = NoRun
  BY JournaledFacts
<1> QED BY <1>1 DEF RunMoves, SamePool, InRow

\* What is not moved.
LEMMA StillMoves ==
    ASSUME Track, NEW p \in Paths
    PROVE  /\ UNCHANGED local => DiskMoves(p)
           /\ UNCHANGED <<remote, ids, rootKnown>> /\ run.todo[p] # "deleteRemote" => ServerMoves(p)
           /\ UNCHANGED journal => RowMoves(p)
BY DEF Track, DiskMoves, DiskTreeInv, ServerMoves, RowMoves

\* The steps that only write a row.
LEMMA RecordMoves ==
    ASSUME TypeInv, Followed, Track, NEW p \in Paths, Record(p)
    PROVE  Moves(p)
<1>1. /\ run.todo[p] = "record" /\ Journaled(p, Recorded(p))
      /\ UNCHANGED <<local, remote, ids, rootKnown, clock, failures>>
  BY DEF Record, Takes, disk, server
<1>2. /\ Recorded(p) \in [Paths -> Entries] /\ Recorded(p)[p].here
      /\ Recorded(p)[p].etag = run.seen[p].etag
      /\ \A q \in Paths \ {p} : Recorded(p)[q] = journal[q]
  BY RecordedFacts DEF TypeInv
<1>3. Present(remote[p]) => run.seen[p].etag = remote[p].ver BY <1>1 DEF Track, PlanInv, PlanAt
<1>4. RunMoves(p) /\ (journal' = Recorded(p) \/ journal' = journal)
  BY <1>1, <1>2, <1>3, JournaledMoves
<1>5. RowMoves(p) BY <1>1, <1>2, <1>4 DEF RowMoves
<1> QED BY <1>1, <1>4, <1>5, StillMoves DEF Moves

\* A directory is made where there is no file.
LEMMA MkdirLocalMoves ==
    ASSUME TypeInv, Followed, Track, NEW p \in Paths, MkdirLocal(p)
    PROVE  Moves(p)
<1>1. run.todo[p] = "mkdirLocal" /\ UNCHANGED <<remote, ids, rootKnown, clock, failures>>
  BY DEF MkdirLocal, Takes, server
<1>2. p \in DirPaths BY <1>1 DEF Track, PlanInv, PlanAt
<1>3. Reachable(local, p) /\ ~IsFile(local[p]) BY <1>2, ParentsTrack, KindFacts DEF Track
<1>4. /\ local' = [WithParents(local, p) EXCEPT ![p] = Directory]
      /\ Journaled(p, Recorded(p))
  BY <1>3 DEF MkdirLocal
<1>5. /\ Recorded(p) \in [Paths -> Entries] /\ Recorded(p)[p].here
      /\ Recorded(p)[p].etag = run.seen[p].etag
      /\ \A q \in Paths \ {p} : Recorded(p)[q] = journal[q]
  BY RecordedFacts DEF TypeInv
<1>6. Present(remote[p]) => run.seen[p].etag = remote[p].ver BY <1>1 DEF Track, PlanInv, PlanAt
<1>7. RunMoves(p) /\ (journal' = Recorded(p) \/ journal' = journal)
  BY <1>1, <1>4, <1>5, <1>6, JournaledMoves
<1>8. RowMoves(p) BY <1>1, <1>5, <1>7 DEF RowMoves
<1>9. Directory \in Nodes /\ Present(Directory) BY NodesHold
<1>10. DiskTreeInv' /\ \A q \in Paths \ {p} :
                           local'[q] = local[q] \/ (q \in DirPaths /\ local'[q] = Directory)
  BY <1>4, <1>9, PlacedTrack
<1>11. local'[p] = Directory BY <1>4, <1>9, ParentsTrack
<1>12. DiskMoves(p) BY <1>2, <1>10, <1>11 DEF DiskMoves
<1> QED BY <1>1, <1>7, <1>8, <1>12, StillMoves DEF Moves

\* The row of a directory has no ETag, whether it was made there or not.
LEMMA MkdirRemoteMoves ==
    ASSUME TypeInv, Followed, Track, NEW p \in Paths, MkdirRemote(p)
    PROVE  Moves(p)
<1>1. /\ run.todo[p] = "mkdirRemote" /\ Journaled(p, Recorded(p))
      /\ UNCHANGED <<local, ids, clock, failures>>
  BY DEF MkdirRemote, Takes, disk
<1>2. p \in DirPaths /\ ~Present(remote[p]) /\ run.seen[p].etag = 0
  BY <1>1 DEF Track, PlanInv, PlanAt
<1>3. remote \in [Paths -> Nodes] /\ Directory.ver = 0 BY NodesHold DEF TypeInv
<1>4. \/ remote' = [remote EXCEPT ![p] = Directory] /\ rootKnown' = FALSE
      \/ UNCHANGED <<remote, rootKnown>>
  BY DEF MkdirRemote
<1>5. /\ Recorded(p) \in [Paths -> Entries] /\ Recorded(p)[p].here
      /\ Recorded(p)[p].etag = run.seen[p].etag
      /\ \A q \in Paths \ {p} : Recorded(p)[q] = journal[q]
  BY RecordedFacts DEF TypeInv
<1>6. Present(remote'[p]) => remote'[p] = Directory BY <1>2, <1>3, <1>4
<1>7. RunMoves(p) /\ (journal' = Recorded(p) \/ journal' = journal)
  BY <1>1, <1>2, <1>3, <1>5, <1>6, JournaledMoves
<1>8. RowMoves(p) BY <1>1, <1>5, <1>7 DEF RowMoves
<1>9. ServerMoves(p) BY <1>1, <1>2, <1>3, <1>4 DEF ServerMoves
<1> QED BY <1>1, <1>7, <1>8, <1>9, StillMoves DEF Moves

\* A conflict waits for the second half.
LEMMA SetAsideMoves ==
    ASSUME TypeInv, Followed, Track, NEW p \in Paths, SetAside(p)
    PROVE  Moves(p)
<1>1. /\ run.todo[p] = "conflict" /\ UNCHANGED <<remote, ids, rootKnown, journal, clock, failures>>
      /\ run.phase = "loop"
  BY DEF SetAside, Takes, server
<1>2. p \notin DirPaths BY <1>1 DEF Track, PlanInv, PlanAt
<1>3. ~IsDir(local[p]) BY <1>2, KindFacts DEF Track
<1>4. run' = [run EXCEPT !.todo[p] = "fetch"] /\ local' = [local EXCEPT ![p] = Absent]
  BY <1>3 DEF SetAside
<1>5. run \in Runs /\ local \in [Paths -> Nodes] BY DEF TypeInv
<1>6. RunMoves(p)
  <2> DEFINE s == [run EXCEPT !.todo[p] = "fetch"]
  <2>1. /\ s.todo = [run.todo EXCEPT ![p] = "fetch"] /\ s.touched = run.touched
        /\ SameView(run, s) /\ SamePool(run, s)
    BY <1>5, AsideFacts
  <2> QED BY <1>1, <1>4, <2>1 DEF RunMoves, SamePool
<1>7. DiskTreeInv'
  <2> SUFFICES ASSUME NEW q \in Paths, NEW a \in Above(q), Present(local'[q])
               PROVE  Present(local'[a])
    BY DEF DiskTreeInv
  <2>1. a \in Paths /\ a # p BY <1>2, AboveFacts, FollowedFacts
  <2>2. Present(local[q]) => Present(local[a]) BY DEF Track, DiskTreeInv
  <2>3. local'[q] \in {local[q], Absent} /\ ~Present(Absent) BY <1>4, <1>5, NodesHold
  <2> QED BY <1>4, <1>5, <2>1, <2>2, <2>3
<1>8. DiskMoves(p) BY <1>4, <1>5, <1>7 DEF DiskMoves
<1> QED BY <1>1, <1>6, <1>8, StillMoves DEF Moves

\* The version of the server that is fetched goes into the journal at the end.
LEMMA FetchMoves ==
    ASSUME TypeInv, Followed, Track, NEW p \in Paths, Fetch(p)
    PROVE  Moves(p)
<1>1. /\ run.todo[p] = "fetch" /\ run.phase = "loop"
      /\ UNCHANGED <<remote, ids, rootKnown, journal, clock, failures>>
  BY DEF Fetch, Takes, server
<1>2. p \notin DirPaths BY <1>1 DEF Track, PlanInv, PlanAt
<1>3. /\ ~run.seen[p].dir /\ ~IsDir(local[p]) /\ Reachable(local, p)
      /\ Present(remote[p]) => IsFile(remote[p])
  BY <1>2, ParentsTrack, KindFacts DEF Track, KindsInv
<1>4. run \in Runs /\ remote[p] \in Nodes BY DEF TypeInv
<1>5. IsFile(remote[p]) => Present(remote[p]) BY <1>4, NodeFacts
<1>6. \/ /\ IsFile(remote[p]) /\ local' = [WithParents(local, p) EXCEPT ![p] = remote[p]]
         /\ run' = [Done(p) EXCEPT !.conflicts = TRUE, !.touched = @ \cup {ParentDir(p)}]
      \/ /\ ~IsFile(remote[p]) /\ local' = WithParents(local, p) /\ run' = Erred(p)
  BY <1>3, FollowedFacts DEF Fetch, CanDownload, Downloaded
<1>7. RunMoves(p)
  <2> DEFINE s == [Done(p) EXCEPT !.conflicts = TRUE, !.touched = @ \cup {ParentDir(p)}]
  <2>1. /\ s.todo = Less(p) /\ SameView(run, s) /\ SamePool(run, s)
        /\ s.touched = run.touched \cup {ParentDir(p)}
    BY <1>4, FetchedFacts
  <2>2. CASE run' = s BY <1>1, <2>1, <2>2 DEF RunMoves, SamePool
  <2>3. CASE ~IsFile(remote[p]) /\ run' = Erred(p)
    <3>1. /\ Erred(p).todo = Less(p) /\ SameView(run, Erred(p)) /\ SamePool(run, Erred(p))
          /\ Erred(p).touched = run.touched
      BY <1>4, DoneFacts
    <3> QED BY <1>1, <1>3, <2>3, <3>1 DEF RunMoves, SamePool
  <2> QED BY <1>6, <2>2, <2>3
<1>8. /\ DiskTreeInv'
      /\ \A q \in Paths \ {p} : local'[q] = local[q] \/ (q \in DirPaths /\ local'[q] = Directory)
  BY <1>4, <1>5, <1>6, PlacedTrack
<1>9. local'[p] = local[p] \/ (IsFile(remote[p]) /\ local'[p] = remote[p])
  <2>1. p \notin Above(p) BY ParentsTrack
  <2> QED BY <1>4, <1>6, <2>1, ParentsTrack
<1>10. DiskMoves(p) BY <1>1, <1>2, <1>8, <1>9 DEF DiskMoves
<1> QED BY <1>1, <1>7, <1>10, StillMoves DEF Moves

\* Only what the server does not have is deleted here,
LEMMA DeleteLocalMoves ==
    ASSUME TypeInv, Followed, Track, NEW p \in Paths, DeleteLocal(p)
    PROVE  Moves(p)
<1>1. /\ run.todo[p] = "deleteLocal" /\ Journaled(p, Forgotten(p))
      /\ UNCHANGED <<remote, ids, rootKnown, clock, failures>>
      /\ local' = Without(local, p) \/ UNCHANGED local
  BY DEF DeleteLocal, Takes, server
<1>2. ~Present(remote[p]) BY <1>1 DEF Track, PlanInv, PlanAt
<1>3. /\ Forgotten(p) \in [Paths -> Entries] /\ Forgotten(p)[p] = NotKnown
      /\ \A q \in Paths \ {p} : Forgotten(p)[q] = journal[q]
  BY ForgottenFacts
<1>4. RunMoves(p) /\ (journal' = Forgotten(p) \/ journal' = journal)
  BY <1>1, <1>2, <1>3, JournaledMoves
<1>5. RowMoves(p) BY <1>1, <1>3, <1>4 DEF RowMoves
<1>6. DiskMoves(p)
  <2>1. CASE UNCHANGED local BY <2>1, StillMoves
  <2>2. CASE local' = Without(local, p)
    <3>1. \A q \in Paths : local'[q] = IF q \in Subtree(p) THEN Absent ELSE local[q]
      BY <2>2, SubtreeRemoved DEF TypeInv
    <3>2. ASSUME NEW q \in Paths, NEW a \in Above(q), Present(local'[q]) PROVE Present(local'[a])
      <4>1. a \in Paths /\ (a \in Subtree(p) => q \in Subtree(p)) BY AboveFacts, SubtreeFacts
      <4>2. Present(local[q]) => Present(local[a]) BY DEF Track, DiskTreeInv
      <4> QED BY <3>1, <3>2, <4>1, <4>2, NodesHold
    <3> QED BY <3>1, <3>2 DEF DiskMoves, DiskTreeInv
  <2> QED BY <1>1, <2>1, <2>2
<1> QED BY <1>1, <1>4, <1>5, <1>6, StillMoves DEF Moves

\* ... and what is deleted there is gone with all that is below it.
LEMMA DeleteRemoteMoves ==
    ASSUME TypeInv, Followed, Track, NEW p \in Paths, DeleteRemote(p)
    PROVE  Moves(p)
<1>1. /\ run.todo[p] = "deleteRemote" /\ Journaled(p, Forgotten(p)) /\ ServerRemove(p)
      /\ UNCHANGED <<local, clock, failures>>
  BY FollowedFacts DEF DeleteRemote, Takes, disk
<1>2. /\ \A q \in Paths : remote'[q] = IF q \in Subtree(p) THEN Absent ELSE remote[q]
      /\ \A q \in Paths : ids'[q] \in {ids[q], 0}
      /\ rootKnown' => rootKnown
  BY <1>1, RemoveFacts DEF ServerRemove
<1>3. ~Present(remote'[p]) BY <1>2, NodesHold DEF Subtree
<1>4. /\ Forgotten(p) \in [Paths -> Entries] /\ Forgotten(p)[p] = NotKnown
      /\ \A q \in Paths \ {p} : Forgotten(p)[q] = journal[q]
  BY ForgottenFacts
<1>5. RunMoves(p) /\ (journal' = Forgotten(p) \/ journal' = journal)
  BY <1>1, <1>3, <1>4, JournaledMoves
<1>6. RowMoves(p) BY <1>1, <1>4, <1>5 DEF RowMoves
<1>7. ServerMoves(p) BY <1>1, <1>2, <1>3 DEF ServerMoves
<1> QED BY <1>1, <1>5, <1>6, <1>7, StillMoves DEF Moves

\* A download fails when the server has nothing there, for nothing stands in its way.
LEMMA DownloadMoves ==
    ASSUME TypeInv, Followed, Track, NEW p \in Paths, Download(p)
    PROVE  Moves(p)
<1>1. /\ run.todo[p] = "download" /\ run.phase = "downloads"
      /\ UNCHANGED <<remote, ids, rootKnown, journal, clock, failures>>
  BY DEF Download, server, db, users
<1>2. p \notin DirPaths BY <1>1 DEF Track, PlanInv, PlanAt
<1>3. /\ ~IsDir(local[p]) /\ Reachable(local, p) /\ (Present(remote[p]) => IsFile(remote[p]))
  BY <1>2, ParentsTrack, KindFacts DEF Track
<1>4. run \in Runs /\ remote[p] \in Nodes BY DEF TypeInv
<1>5. IsFile(remote[p]) => Present(remote[p]) BY <1>4, NodeFacts
<1>6. \/ /\ IsFile(remote[p]) /\ local' = [WithParents(local, p) EXCEPT ![p] = remote[p]]
         /\ run' = Transferred(p, TRUE)
      \/ /\ ~IsFile(remote[p]) /\ local' = WithParents(local, p) /\ run' = Transferred(p, FALSE)
  BY <1>3, FollowedFacts DEF Download, CanDownload, Downloaded
<1>7. RunMoves(p)
  <2>1. PICK good \in BOOLEAN : /\ run' = Transferred(p, good) /\ (good <=> IsFile(remote[p]))
    BY <1>6
  <2> DEFINE s == Transferred(p, good)
  <2>2. /\ s.todo = Less(p) /\ SameView(run, s) /\ s.touched = run.touched
        /\ s.ok = IF good THEN run.ok \cup {p} ELSE run.ok
        /\ s.failed = IF good THEN run.failed ELSE run.failed \cup {p}
    BY <1>4, TransferredFacts
  <2>3. run' = s BY <2>1
  <2> HIDE DEF s
  <2> QED BY <1>1, <1>3, <2>1, <2>2, <2>3 DEF RunMoves
<1>8. /\ DiskTreeInv'
      /\ \A q \in Paths \ {p} : local'[q] = local[q] \/ (q \in DirPaths /\ local'[q] = Directory)
  BY <1>4, <1>5, <1>6, PlacedTrack
<1>9. local'[p] = local[p] \/ (IsFile(remote[p]) /\ local'[p] = remote[p])
  <2>1. p \notin Above(p) BY ParentsTrack
  <2> QED BY <1>4, <1>6, <2>1, ParentsTrack
<1>10. DiskMoves(p) BY <1>1, <1>2, <1>8, <1>9 DEF DiskMoves
<1> QED BY <1>1, <1>7, <1>10, StillMoves DEF Moves

\* An upload that fails leaves the version that the journal has.
LEMMA UploadMoves ==
    ASSUME TypeInv, Followed, Track, NEW p \in Paths, Upload(p)
    PROVE  Moves(p)
<1>1. /\ run.todo[p] = "upload" /\ run.phase = "uploads"
      /\ UNCHANGED <<local, journal, clock, failures>>
  BY DEF Upload, disk, users
<1>2. p \notin DirPaths /\ (Present(remote[p]) => InRow(p)) BY <1>1 DEF Track, PlanInv, PlanAt
<1>3. run \in Runs /\ local[p] \in Nodes /\ remote \in [Paths -> Nodes] /\ ids \in [Paths -> Ids]
  BY DEF TypeInv
<1>4. PICK good \in BOOLEAN :
        /\ run' = Transferred(p, good)
        /\ IF good THEN IsFile(local[p]) /\ ServerPut(p, local[p].ver)
           ELSE UNCHANGED <<remote, ids, rootKnown>>
  BY DEF Upload, CanUpload, server
<1>5. RunMoves(p)
  <2> DEFINE s == Transferred(p, good)
  <2>2. /\ s.todo = Less(p) /\ SameView(run, s) /\ s.touched = run.touched
        /\ s.ok = IF good THEN run.ok \cup {p} ELSE run.ok
    BY <1>3, TransferredFacts
  <2>3. run' = s BY <1>4
  <2>4. ~good /\ Present(remote'[p]) => InRow(p)' BY <1>1, <1>2, <1>4 DEF InRow
  <2> HIDE DEF s
  <2> QED BY <1>1, <2>2, <2>3, <2>4 DEF RunMoves
<1>6. ServerMoves(p)
  <2>1. CASE UNCHANGED <<remote, ids, rootKnown>> BY <1>1, <2>1, StillMoves
  <2>2. CASE IsFile(local[p]) /\ ServerPut(p, local[p].ver)
    <3>1. local[p] = File(local[p].ver) BY <1>3, <2>2, NodeFacts
    <3>2. /\ ~rootKnown' /\ remote' = [remote EXCEPT ![p] = local[p]]
          /\ ids' = [ids EXCEPT ![p] = IF IsFile(remote[p]) THEN @ ELSE FreshId]
      BY <2>2, <3>1 DEF ServerPut
    <3> QED BY <1>1, <1>2, <1>3, <2>2, <3>2 DEF ServerMoves
  <2> QED BY <1>4, <2>1, <2>2
<1> QED BY <1>1, <1>5, <1>6, StillMoves DEF Moves

\* Every step of the plan is one of these.
LEMMA PathMoves ==
    ASSUME TypeInv, Followed, Track, NEW p \in Paths, PathStep(p)
    PROVE  Moves(p)
<1>1. ~MoveLocal(p) BY DEF MoveLocal, Takes, Track, StageInv
<1> QED
  BY <1>1, RecordMoves, MkdirLocalMoves, MkdirRemoteMoves, SetAsideMoves, FetchMoves,
     DeleteLocalMoves, DeleteRemoteMoves, DownloadMoves, UploadMoves
  DEF PathStep

\* What the moves leave of the trees and the rows is in order.
LEMMA MovesTrees ==
    ASSUME TypeInv, Followed, Track, NEW p \in Paths, Moves(p)
    PROVE  /\ (KindsInv /\ DiskTreeInv /\ IdsInv)'
           /\ (NewestInv /\ FailuresInv /\ RootInv)'
<1>1. \/ run'.seen = run.seen /\ run'.scan = run.scan
      \/ \A q \in Paths : run'.scan[q] = Absent /\ run'.seen[q] = NotListed
  BY NoRunTrack DEF Moves, RunMoves, SameView
<1>2. /\ NotListed.id = 0 /\ NotListed.etag = 0 /\ ~NotListed.here /\ ~NotListed.dir
      /\ NotKnown.id = 0 /\ NotKnown.etag = 0 /\ ~NotKnown.here /\ ~NotKnown.dir
  BY DEF NotListed, NotKnown
<1>3. /\ ~IsFile(Absent) /\ ~IsDir(Absent) /\ ~Present(Absent) /\ Absent.ver = 0
      /\ ~IsFile(Directory) /\ Directory.ver = 0
  BY NodesHold
<1>4. /\ Recorded(p)[p].here /\ Recorded(p)[p].etag = run.seen[p].etag
      /\ Recorded(p)[p].id = run.seen[p].id
      /\ Recorded(p)[p].dir = IF Present(run.scan[p]) THEN IsDir(run.scan[p]) ELSE run.seen[p].dir
  <2>1. Recorded(p)[p].id = run.seen[p].id
    <3>1. journal \in [Paths -> Entries] BY DEF TypeInv
    <3> QED BY <3>1 DEF Recorded, Known
  <2> QED BY <2>1, RecordedFacts DEF TypeInv
<1>5. KindsInv'
  <2> SUFFICES ASSUME NEW q \in Paths
               PROVE  IF q \in DirPaths
                      THEN /\ ~IsFile(local'[q]) /\ ~IsFile(remote'[q]) /\ ~IsFile(run'.scan[q])
                           /\ journal'[q].here => journal'[q].dir
                           /\ run'.seen[q].here => run'.seen[q].dir
                      ELSE /\ ~IsDir(local'[q]) /\ ~IsDir(remote'[q]) /\ ~IsDir(run'.scan[q])
                           /\ ~journal'[q].dir /\ ~run'.seen[q].dir
    BY DEF KindsInv
  <2>1. IF q \in DirPaths
        THEN /\ ~IsFile(local[q]) /\ ~IsFile(remote[q]) /\ ~IsFile(run.scan[q])
             /\ journal[q].here => journal[q].dir
             /\ run.seen[q].here => run.seen[q].dir
        ELSE /\ ~IsDir(local[q]) /\ ~IsDir(remote[q]) /\ ~IsDir(run.scan[q])
             /\ ~journal[q].dir /\ ~run.seen[q].dir
    BY DEF Track, KindsInv
  <2>2. IF q \in DirPaths THEN ~IsFile(local'[q]) ELSE ~IsDir(local'[q])
    BY <1>3, <2>1 DEF Moves, DiskMoves
  <2>3. IF q \in DirPaths THEN ~IsFile(remote'[q]) ELSE ~IsDir(remote'[q])
    <3>1. \/ remote'[q] \in {remote[q], Absent}
          \/ q \in DirPaths /\ remote'[q] = Directory
          \/ q \notin DirPaths /\ remote'[q] = local[q]
      BY DEF Moves, ServerMoves
    <3> QED BY <1>3, <2>1, <3>1
  <2>4. IF q \in DirPaths THEN ~IsFile(run'.scan[q]) /\ (run'.seen[q].here => run'.seen[q].dir)
        ELSE ~IsDir(run'.scan[q]) /\ ~run'.seen[q].dir
    BY <1>1, <1>2, <1>3, <2>1
  <2>5. IF q \in DirPaths THEN journal'[q].here => journal'[q].dir ELSE ~journal'[q].dir
    <3>1. CASE journal'[q] = journal[q] BY <2>1, <3>1
    <3>2. CASE journal'[q] = NotKnown BY <1>2, <3>2
    <3>3. CASE /\ q = p /\ journal'[p] = Recorded(p)[p]
               /\ run.todo[p] \in {"record", "mkdirLocal", "mkdirRemote"}
      <4>1. run.scan[p] \in Nodes BY DEF TypeInv, Runs
      <4>2. Present(run.scan[p]) => IsFile(run.scan[p]) \/ IsDir(run.scan[p]) BY <4>1, NodeFacts
      <4>3. Present(run.scan[p]) \/ run.seen[p].here
        BY <3>3 DEF Track, PlanInv, PlanAt
      <4>4. CASE Present(run.scan[p])
        BY <1>4, <2>1, <3>3, <4>2, <4>4
      <4>5. CASE ~Present(run.scan[p])
        BY <1>4, <2>1, <3>3, <4>3, <4>5
      <4> QED BY <4>4, <4>5
    <3> QED BY <3>1, <3>2, <3>3 DEF Moves, RowMoves
  <2> QED BY <2>2, <2>3, <2>4, <2>5
<1>6. DiskTreeInv' BY DEF Moves, DiskMoves
<1>7. IdsInv'
  <2>1. ASSUME NEW q \in Paths, NEW id \in IdsAt(q)'
        PROVE  id \in IdsAt(q) \cup {0} \/ (q = p /\ id = FreshId)
    <3>1. ids'[q] \in {ids[q], 0} \/ (q = p /\ ids'[q] = FreshId) BY DEF Moves, ServerMoves
    <3>2. journal'[q].id \in {journal[q].id, 0, run.seen[q].id}
      BY <1>2, <1>4 DEF Moves, RowMoves
    <3>3. run'.seen[q].id \in {run.seen[q].id, 0} BY <1>1, <1>2
    <3> QED BY <2>1, <3>1, <3>2, <3>3 DEF IdsAt
  <2> QED BY <2>1, IdsStep DEF Track
<1>8. NewestInv'
  <2>1. Newest' = Newest /\ Newest \in Nat BY VersionNumbers DEF Moves, Newest
  <2> SUFFICES ASSUME NEW q \in Paths
               PROVE  /\ local'[q].ver <= Newest /\ remote'[q].ver <= Newest
                      /\ journal'[q].etag <= Newest /\ run'.seen[q].etag <= Newest
                      /\ failures[q].of = "download" => failures[q].ver <= Newest
    BY <2>1 DEF NewestInv, Moves
  <2>2. /\ local[q].ver <= Newest /\ remote[q].ver <= Newest
        /\ journal[q].etag <= Newest /\ run.seen[q].etag <= Newest
        /\ failures[q].of = "download" => failures[q].ver <= Newest
    BY DEF Track, NewestInv
  <2>3. local'[q].ver \in {local[q].ver, remote[q].ver, 0} BY <1>3 DEF Moves, DiskMoves
  <2>4. remote'[q].ver \in {local[q].ver, remote[q].ver, 0} BY <1>3 DEF Moves, ServerMoves
  <2>5. journal'[q].etag \in {journal[q].etag, 0, run.seen[q].etag}
    BY <1>2, <1>4 DEF Moves, RowMoves
  <2>6. run'.seen[q].etag \in {run.seen[q].etag, 0} BY <1>1, <1>2
  <2> QED BY <2>1, <2>2, <2>3, <2>4, <2>5, <2>6
<1>9. FailuresInv'
  <2> SUFFICES ASSUME NEW q \in Paths, failures[q].of = "download"
               PROVE  /\ q \notin DirPaths
                      /\ \A node \in {local'[q], remote'[q]} :
                             Present(node) => node.ver # failures[q].ver
    BY DEF Moves, FailuresInv
  <2>1. q \notin DirPaths /\ \A node \in {local[q], remote[q]} :
                                 Present(node) => node.ver # failures[q].ver
    BY DEF Track, FailuresInv
  <2>2. local'[q] \in {local[q], remote[q], Absent} BY <2>1 DEF Moves, DiskMoves
  <2>3. remote'[q] \in {local[q], remote[q], Absent} BY <2>1 DEF Moves, ServerMoves
  <2> QED BY <1>3, <2>1, <2>2, <2>3
<1>10. RootInv'
  <2> SUFFICES ASSUME rootKnown', NEW q \in Paths, Present(remote'[q]) PROVE InRow(q)'
    BY DEF RootInv
  <2>1. /\ rootKnown
        /\ remote'[q] = remote[q] \/ (remote'[q] = Absent /\ run.todo[p] = "deleteRemote")
    BY DEF Moves, ServerMoves
  <2>2. remote'[q] = remote[q] BY <1>3, <2>1
  <2>3. journal[q].here /\ journal[q].etag = remote[q].ver BY <2>1, <2>2 DEF Track, RootInv, InRow
  <2>4. CASE journal'[q] = journal[q] BY <2>2, <2>3, <2>4 DEF InRow
  <2>5. CASE /\ q = p /\ journal'[p] = Recorded(p)[p]
             /\ run.todo[p] \in {"record", "mkdirLocal", "mkdirRemote"}
    <3>1. run.seen[p].etag = remote[p].ver BY <2>2, <2>5 DEF Track, PlanInv, PlanAt
    <3> QED BY <1>4, <2>2, <2>5, <3>1 DEF InRow
  <2>6. ~(q = p /\ run.todo[p] = "deleteLocal") BY <2>2 DEF Track, PlanInv, PlanAt
  <2>7. ~(q = p /\ run.todo[p] = "deleteRemote")
    BY DEF Moves, ServerMoves
  <2> QED BY <2>4, <2>5, <2>6, <2>7 DEF Moves, RowMoves
<1> QED BY <1>5, <1>6, <1>7, <1>8, <1>9, <1>10

\* What the moves leave of the plan, and of what is through, is in order too.
LEMMA MovesPlan ==
    ASSUME TypeInv, MovesInv, Followed, Track, NEW p \in Paths, PathStep(p), Moves(p), run' # NoRun
    PROVE  (StageInv /\ PlanInv)'
<1>1. /\ run.phase \in {"loop", "downloads", "uploads"} /\ run'.phase = run.phase
      /\ run'.seen = run.seen /\ run'.scan = run.scan /\ run'.cancelled = run.cancelled
      /\ run.ok \subseteq run'.ok /\ run.touched \subseteq run'.touched
      /\ run.phase = "loop" => run'.ok = run.ok
  BY StepDone DEF Moves, RunMoves, SameView
<1>2. run \in Runs BY DEF TypeInv
<1>3. \/ /\ \A q \in Paths : run'.todo[q] = IF q = p THEN "none" ELSE run.todo[q]
         /\ Present(remote'[p]) => InRow(p)' \/ p \in run'.ok \/ ParentDir(p) \in run'.touched
      \/ /\ run.todo[p] = "conflict"
         /\ \A q \in Paths : run'.todo[q] = IF q = p THEN "fetch" ELSE run.todo[q]
  <2>1. CASE /\ run'.todo = Less(p)
             /\ Present(remote'[p]) => InRow(p)' \/ p \in run'.ok \/ ParentDir(p) \in run'.touched
    BY <1>2, <2>1, LessFacts
  <2>2. CASE run.todo[p] = "conflict" /\ run'.todo = [run.todo EXCEPT ![p] = "fetch"]
    BY <1>2, <2>2 DEF Runs
  <2> QED BY <2>1, <2>2 DEF Moves, RunMoves
<1>4. /\ ~IsFile(Absent) /\ ~IsDir(Absent) /\ ~Present(Absent) /\ ~IsFile(Directory)
  BY NodesHold
<1>5. StageInv'
  <2> SUFFICES ASSUME NEW q \in Paths
               PROVE  /\ run'.todo[q] # "moveLocal"
                      /\ run.phase = "downloads" => run'.todo[q] \in {"none", "download", "upload"}
                      /\ run.phase = "uploads" => run'.todo[q] \in {"none", "upload"}
                      /\ run.phase = "downloads" /\ q \in run'.failed =>
                             q \notin DirPaths /\ ~Present(remote'[q]) /\ ~Present(local'[q])
    BY <1>1 DEF Track, StageInv
  <2>1. /\ run.todo[q] # "moveLocal"
        /\ run.phase = "downloads" => run.todo[q] \in {"none", "download", "upload"}
        /\ run.phase = "uploads" => run.todo[q] \in {"none", "upload"}
        /\ run.phase = "downloads" => run.todo[p] # "conflict"
        /\ run.phase = "uploads" => run.todo[p] # "conflict"
    BY DEF Track, StageInv
  <2>2. ASSUME run.phase = "downloads", q \in run'.failed
        PROVE  q \notin DirPaths /\ ~Present(remote'[q]) /\ ~Present(local'[q])
    <3>1. q \in run.failed \/ (q = p /\ run.todo[p] = "download" /\ ~Present(remote[p]))
      BY <2>2 DEF Moves, RunMoves
    <3>2. q \notin DirPaths /\ ~Present(remote[q]) /\ ~Present(local[q])
      BY <2>2, <3>1 DEF Track, StageInv, PlanInv, PlanAt
    <3>3. local'[q] \in {local[q], Absent}
      <4>1. IsFile(remote[q]) => Present(remote[q]) BY NodeFacts DEF TypeInv
      <4> QED BY <3>2, <4>1 DEF Moves, DiskMoves
    <3>4. remote'[q] \in {remote[q], Absent}
      <4>1. run.todo[p] \in {"none", "download", "upload"} BY <2>2 DEF Track, StageInv
      <4>2. IsFile(local[q]) => Present(local[q]) BY NodeFacts DEF TypeInv
      <4> QED BY <3>2, <4>1, <4>2 DEF Moves, ServerMoves
    <3> QED BY <1>4, <3>2, <3>3, <3>4
  <2> QED BY <1>3, <2>1, <2>2
<1>6. ASSUME NEW q \in Paths \ {p} PROVE PlanAt(q)'
  <2>1. PlanAt(q) /\ PlanAt(p) BY DEF Track, PlanInv
  <2>2. run'.todo[q] = run.todo[q] BY <1>3
  <2>3. run.todo[p] # "moveLocal" BY DEF Track, StageInv
  <2>4. journal'[q] = journal[q] /\ (IsFile(local'[q]) => local'[q] = local[q])
    BY <2>3, NeighboursKept
  <2>5. /\ remote'[q] = remote[q] \/ (remote'[q] = Absent /\ run.todo[p] = "deleteRemote" /\ q \in Subtree(p))
        /\ Present(remote'[q]) => remote'[q] = remote[q]
    BY <1>4 DEF Moves, ServerMoves
  <2>6. InRow(q) /\ Present(remote'[q]) => InRow(q)' BY <2>4, <2>5 DEF InRow
  <2>7. ASSUME run.todo[q] = "download", ~Present(remote'[q]) PROVE ~Present(local'[q])
    <3>1. q \notin DirPaths BY <2>1, <2>7 DEF PlanAt
    <3>2. local'[q] \in {local[q], Absent} BY <3>1 DEF Moves, DiskMoves
    <3>3. CASE remote'[q] = remote[q] BY <1>4, <2>1, <2>7, <3>2, <3>3 DEF PlanAt
    <3>4. CASE run.todo[p] = "deleteRemote" /\ q \in Subtree(p)
      <4>1. q \in Below(p) BY <3>4 DEF Subtree
      <4>2. ~IsFile(local[q]) BY <2>1, <3>4, <4>1 DEF PlanAt
      <4> QED BY <1>4, <3>1, <3>2, <4>2, KindFacts DEF Track
    <3> QED BY <2>5, <3>3, <3>4
  <2>8. ASSUME run.todo[q] \in {"conflict", "fetch"}, NEW a \in Above(q)
        PROVE  run'.todo[a] # "deleteRemote"
    <3>1. run.todo[a] # "deleteRemote" BY <2>1, <2>8 DEF PlanAt
    <3>2. a \in Paths BY AboveFacts
    <3> QED BY <1>3, <3>1, <3>2
  <2>9. ASSUME run.todo[q] = "deleteRemote", NEW s \in Below(q) PROVE ~IsFile(local'[s])
    <3>1. s \in Paths /\ q \in Above(s) /\ ~IsFile(local[s]) BY <2>1, <2>9 DEF PlanAt, Below
    <3>2. CASE s # p BY <2>3, <3>1, <3>2, NeighboursKept
    <3>3. CASE s = p
      <4>1. run.todo[p] \notin {"fetch", "download"}
        <5>1. run.phase # "downloads" /\ run.phase # "uploads"
          BY <2>9 DEF Track, StageInv
        <5>2. run.todo[p] # "fetch" BY <2>1, <2>9, <3>1, <3>3 DEF PlanAt
        <5>3. run.todo[p] # "download"
          <6>1. run.phase = "loop" BY <1>1, <5>1
          <6>2. PathStep(p) => run.todo[p] # "download"
            BY <6>1 DEF PathStep, Record, MkdirLocal, MkdirRemote, MoveLocal, SetAside, Fetch,
                        DeleteLocal, DeleteRemote, Download, Upload, Takes
          <6> QED BY <6>2
        <5> QED BY <5>2, <5>3
      <4>2. local'[p] \in {local[p], Absent, Directory} BY <4>1 DEF Moves, DiskMoves
      <4> QED BY <1>4, <3>1, <3>3, <4>2
    <3> QED BY <3>2, <3>3
  <2> QED BY <1>1, <1>4, <2>1, <2>2, <2>5, <2>6, <2>7, <2>8, <2>9 DEF PlanAt
<1>7. PlanAt(p)'
  <2>1. PlanAt(p) BY DEF Track, PlanInv
  <2>2. CASE run'.todo[p] = "none"
    BY <1>1, <1>3, <2>2 DEF PlanAt
  <2>3. CASE run.todo[p] = "conflict" /\ run'.todo[p] = "fetch"
    <3>1. p \notin DirPaths /\ \A a \in Above(p) : run.todo[a] # "deleteRemote"
      BY <2>1, <2>3 DEF PlanAt
    <3>2. \A a \in Above(p) : a \in Paths BY AboveFacts
    <3>3. \A a \in Above(p) : run'.todo[a] # "deleteRemote" BY <1>3, <3>1, <3>2
    <3> QED BY <2>3, <3>1, <3>3 DEF PlanAt
  <2> QED BY <1>3, <2>2, <2>3
<1> QED BY <1>5, <1>6, <1>7 DEF PlanInv

\* Every step keeps the invariant.
LEMMA TrackStep ==
    ASSUME TypeInv, MovesInv, Followed, Track, [Next]_vars
    PROVE  Track'
<1>1. CASE UserStep BY <1>1, UserTrack
<1>2. ASSUME NEW p \in Paths, PathStep(p) PROVE Track'
  <2>1. Moves(p) BY <1>2, PathMoves
  <2>2. (KindsInv /\ DiskTreeInv /\ IdsInv /\ NewestInv /\ FailuresInv /\ RootInv)'
    BY <2>1, MovesTrees
  <2>3. (HeardInv /\ StageInv /\ PlanInv)'
    <3>1. CASE run' = NoRun BY <3>1, NoRunTrack
    <3>2. CASE run' # NoRun
      <4>1. run'.phase # "listed" BY <1>2, <3>2, StepDone DEF SameView
      <4>2. HeardInv' BY <4>1 DEF HeardInv
      <4> QED BY <1>2, <2>1, <3>2, <4>2, MovesPlan
    <3> QED BY <3>1, <3>2
  <2> QED BY <2>2, <2>3 DEF Track
<1>3. ~StopCancelled BY DEF StopCancelled, Track, StageInv
<1>4. CASE EngineStep
  BY <1>2, <1>3, <1>4, DiscoverTrack, PlanTrack, StartTrack, CloseTrack, RefreshTrack, FinishTrack
  DEF EngineStep
<1>5. CASE Cancel \/ Crash
  <2>1. ~Cancel BY FollowedFacts DEF Cancel
  <2> QED BY <1>5, <2>1, CrashTrack
<1>6. CASE UNCHANGED vars
  <2>1. UNCHANGED <<local, remote, ids, journal, failures, rootKnown, run, clock>>
    BY <1>6 DEF vars, disk, server, db, users
  <2>2. (KindsInv /\ DiskTreeInv /\ IdsInv /\ RootInv /\ NewestInv /\ FailuresInv)'
    BY <2>1, RunTrack
  <2>3. (HeardInv /\ StageInv)' BY <2>1 DEF Track, HeardInv, StageInv
  <2>4. PlanInv' BY <2>1 DEF Track, PlanInv, PlanAt, InRow
  <2> QED BY <2>2, <2>3, <2>4 DEF Track
<1> QED BY <1>1, <1>4, <1>5, <1>6 DEF Next

\* At the start the journal has the versions of both sides, and each file its own id.
LEMMA TrackInit == Init => Track
<1> SUFFICES ASSUME Init PROVE Track OBVIOUS
<1>1. TypeInv BY TypeInit
<1>2. /\ run.phase = "idle" /\ ~run.cancelled /\ run.ok = {}
      /\ \A q \in Paths : /\ run.todo[q] = "none" /\ ~run.seen[q].here /\ ~run.seen[q].dir
                          /\ run.seen[q].etag = 0 /\ run.seen[q].id = 0 /\ run.scan[q] = Absent
  <2>1. NotListed.id = 0 BY DEF NotListed
  <2> QED BY <2>1, NoRunFacts, EntryFacts DEF Init
<1>3. clock = 0 /\ \A q \in Paths : failures[q].of = "none" BY DEF Init, Nothing, NoFailure
<1>4. /\ ~IsFile(Absent) /\ ~IsDir(Absent) /\ Absent.ver = 0 /\ ~Present(Absent)
      /\ ~IsFile(Directory) /\ Directory.ver = 0 /\ Present(Directory) /\ IsDir(Directory)
      /\ ~NotKnown.here /\ ~NotKnown.dir /\ NotKnown.etag = 0 /\ NotKnown.id = 0
  <2>1. NotKnown.id = 0 BY DEF NotKnown
  <2> QED BY <2>1, NodesHold, EntryFacts
<1> DEFINE Id(tree, q) == IF IsFile(tree[q]) THEN Place(q) ELSE 0
           Row(tree, q) == Known(IsDir(tree[q]), tree[q].ver, tree[q].ver, Id(tree, q))
<1>5. PICK tree \in {Nothing(Absent), [p \in Paths |-> InitialNode(p)]} :
        /\ local = tree /\ remote = tree /\ ids = [p \in Paths |-> Id(tree, p)]
        /\ journal = [p \in Paths |-> IF Present(tree[p]) THEN Row(tree, p) ELSE NotKnown]
  BY DEF Init
<1>6. \A q \in Paths : /\ local[q] = tree[q] /\ remote[q] = tree[q] /\ tree[q] \in Nodes
                       /\ journal[q].here <=> Present(tree[q])
                       /\ journal[q].here => journal[q].dir = IsDir(tree[q])
                       /\ ~journal[q].here => ~journal[q].dir
                       /\ journal[q].etag = tree[q].ver
                       /\ ids[q] \in {0, Place(q)} /\ journal[q].id \in {0, Place(q)}
  <2> SUFFICES ASSUME NEW q \in Paths
               PROVE  /\ journal[q].here <=> Present(tree[q])
                      /\ journal[q].here => journal[q].dir = IsDir(tree[q])
                      /\ ~journal[q].here => ~journal[q].dir
                      /\ journal[q].etag = tree[q].ver
                      /\ ids[q] \in {0, Place(q)} /\ journal[q].id \in {0, Place(q)}
    BY <1>1, <1>5 DEF TypeInv
  <2>1. tree[q] \in Nodes BY <1>1, <1>5 DEF TypeInv
  <2>2. ~Present(tree[q]) => tree[q].ver = 0 BY <1>4, <2>1, NodeFacts
  <2>3. journal[q] = IF Present(tree[q]) THEN Row(tree, q) ELSE NotKnown BY <1>5
  <2>4. ids[q] \in {0, Place(q)} /\ Id(tree, q) \in {0, Place(q)} BY <1>5
  <2> QED BY <1>4, <2>2, <2>3, <2>4 DEF Known
<1>7. \A q \in Paths :
        \/ \A b \in Paths : tree[b] = Absent
        \/ /\ \A b \in Paths : Present(tree[b])
           /\ IF q \in DirPaths THEN tree[q] = Directory
              ELSE IsFile(tree[q]) /\ tree[q].ver = Place(q)
  <2>1. CASE tree = Nothing(Absent) BY <2>1 DEF Nothing
  <2>2. CASE tree = [p \in Paths |-> InitialNode(p)]
    <3>1. \A b \in Paths : tree[b] = IF b \in DirPaths THEN Directory ELSE File(Place(b))
      BY <2>2 DEF InitialNode
    <3>2. \A b \in Paths : /\ Present(File(Place(b))) /\ IsFile(File(Place(b)))
                           /\ File(Place(b)).ver = Place(b)
      BY DEF File, IsFile, Present
    <3> QED BY <1>4, <3>1, <3>2
  <2> QED BY <1>5, <2>1, <2>2
<1>8. Newest \in Nat /\ \A q \in Paths : tree[q].ver <= Newest
  <2>1. Newest \in Nat /\ Newest = Len(Tree) /\ Len(Tree) \in Nat
    BY <1>1, <1>3, VersionNumbers, TreeAssumption DEF Newest
  <2> SUFFICES ASSUME NEW q \in Paths PROVE tree[q].ver <= Newest BY <2>1
  <2>2. Place(q) \in 1..Len(Tree) BY PathFacts
  <2> QED BY <1>4, <1>7, <2>1, <2>2
<1>9. KindsInv
  <2> SUFFICES ASSUME NEW q \in Paths
               PROVE  IF q \in DirPaths
                      THEN ~IsFile(tree[q]) /\ (journal[q].here => journal[q].dir)
                      ELSE ~IsDir(tree[q]) /\ ~journal[q].dir
    BY <1>2, <1>4, <1>6 DEF KindsInv
  <2>1. IF q \in DirPaths THEN ~IsFile(tree[q]) ELSE ~IsDir(tree[q])
    BY <1>4, <1>6, <1>7, NodeFacts
  <2> QED BY <1>6, <2>1, NodeFacts
<1>10. DiskTreeInv
  <2> SUFFICES ASSUME NEW q \in Paths, NEW a \in Above(q), Present(tree[q])
               PROVE  Present(tree[a])
    BY <1>5 DEF DiskTreeInv
  <2>1. a \in Paths BY AboveFacts
  <2> QED BY <1>4, <1>7, <2>1
<1>11. IdsInv
  <2> SUFFICES ASSUME NEW q \in Paths, NEW s \in Paths, q # s, NEW id \in IdsAt(q), id \in IdsAt(s)
               PROVE  id = 0
    BY DEF IdsInv
  <2>1. Place(q) # Place(s) BY PathFacts
  <2>2. id \in {0, Place(q)} /\ id \in {0, Place(s)} BY <1>2, <1>6 DEF IdsAt
  <2> QED BY <2>1, <2>2
<1>12. NewestInv BY <1>2, <1>3, <1>6, <1>8 DEF NewestInv
<1>13. RootInv BY <1>6 DEF RootInv, InRow
<1>14. FailuresInv /\ HeardInv BY <1>2, <1>3 DEF FailuresInv, HeardInv
<1>15. StageInv BY <1>2 DEF StageInv
<1>16. PlanInv BY <1>2 DEF PlanInv, PlanAt
<1> QED BY <1>9, <1>10, <1>11, <1>12, <1>13, <1>14, <1>15, <1>16 DEF Track

\* The walk of the server is skipped only when "the server tree is the same one the
\* journal already describes" (engine.rs, the stored root ETag): every file of the
\* server is in the journal with the version it has there.  The journal is written
\* by ten different steps, some of them after the fact and from what the run saw
\* before; after a transfer that failed, a version left out as blacklisted and a run
\* that died, the row or the root ETag still tells.
THEOREM FastPathIsSafe == Spec => [](Followed => FastPathMissesNothing)
<1> DEFINE Tracked == Followed => Track
<1>1. Init => TypeInv /\ MovesInv /\ Tracked BY TypeInit, TrackInit
<1>2. TypeInv /\ MovesInv /\ Tracked /\ [Next]_vars => (TypeInv /\ MovesInv /\ Tracked)'
  <2> SUFFICES ASSUME TypeInv, MovesInv, Tracked, [Next]_vars
               PROVE  (TypeInv /\ MovesInv /\ Tracked)'
    OBVIOUS
  <2>1. Followed' => Followed BY ScenarioStays DEF Followed, Undisturbed
  <2>2. (TypeInv /\ MovesInv)' BY TypeStep
  <2> QED BY <2>1, <2>2, TrackStep
<1>3. Tracked => (Followed => FastPathMissesNothing)
  BY DEF Track, RootInv, InRow, FastPathMissesNothing
<1> QED BY <1>1, <1>2, <1>3, PTL DEF Spec

-----------------------------------------------------------------------------
(* What a run that reports success has done.                               *)

\* The steady scenarios in which nothing happens during a run.
Calm == Steady /\ Undisturbed

\* A row of a file is written for two sides that are equal.
StampInv == \A p \in Paths \ DirPaths : journal[p].here => journal[p].stamp = journal[p].etag

\* What is through, or only to be recorded, is equal on both sides; what a download
\* that failed made of the directories above it is counted as an error.
EvenAt(p) ==
    run.todo[p] \in {"none", "record"} /\ (p \notin DirPaths \/ ~run.errors)
        => local[p] = remote[p]

\* ... at every path, once there is a plan.
EvenInv == run.phase \notin {"idle", "listed"} => \A p \in Paths : EvenAt(p)

\* The parts of the invariant of the calm scenarios.
Even == StampInv /\ EvenInv

\* What the calm scenarios exclude.
LEMMA CalmFacts ==
    ASSUME Calm
    PROVE  /\ Steady /\ Followed /\ scenario.concurrent = {}
           /\ \A x \in {"crash", "listing", "cancel", "transfer", "mkdir", "delete"} :
                  ~CanFail(x)
BY SteadyFacts DEF Calm, Steady, Followed, Undisturbed

\* Nothing takes an error back.
LEMMA ErrorFacts ==
    ASSUME run \in Runs, NEW p \in Paths
    PROVE  /\ Done(p).errors = run.errors /\ Erred(p).errors
           /\ [Done(p) EXCEPT !.conflicts = TRUE, !.touched = @ \cup {ParentDir(p)}].errors
                  = run.errors
           /\ [run EXCEPT !.todo[p] = "fetch"].errors = run.errors
           /\ Transferred(p, TRUE).errors = run.errors /\ Transferred(p, FALSE).errors
           /\ \A phase \in Phases : OpenPool(phase).errors = run.errors
<1>1. DOMAIN run = {"phase", "complete", "seen", "scan", "todo", "from", "ok", "failed",
                    "touched", "errors", "conflicts", "cancelled"}
  BY DEF Runs
<1> QED BY <1>1 DEF Done, Erred, Transferred, OpenPool

\* A step of a run that leaves the other paths equal, or counts an error.
LEMMA EvenKept ==
    ASSUME Even, run.phase \notin {"idle", "listed"}, NEW p \in Paths, NEW next, After(p, next),
           run.errors => run'.errors, StampInv',
           \A q \in Paths \ {p} : \/ local[q] = remote[q] => local'[q] = remote'[q]
                                  \/ q \in DirPaths /\ run'.errors,
           next \in {"none", "record"} => local'[p] = remote'[p] \/ (p \in DirPaths /\ run'.errors)
    PROVE  Even'
<1> SUFFICES ASSUME NEW q \in Paths PROVE EvenAt(q)' BY DEF Even, EvenInv
<1>1. EvenAt(q) BY DEF Even, EvenInv
<1>2. CASE q = p BY <1>2 DEF EvenAt, After
<1>3. CASE q # p BY <1>1, <1>3 DEF EvenAt, After
<1> QED BY <1>2, <1>3

\* A row is written as the two sides are.
LEMMA RecordEven ==
    ASSUME TypeInv, Calm, Parts, Track, Even, NEW p \in Paths, Record(p)
    PROVE  Even'
<1>1. /\ run.phase = "loop" /\ run.todo[p] = "record" /\ TodoAt(p) /\ PlanAt(p)
      /\ UNCHANGED <<local, remote>> /\ Journaled(p, Recorded(p))
  BY CalmFacts, LoopFacts DEF Record, disk, server, Track, PlanInv
<1>2. journal \in [Paths -> Entries] /\ run \in Runs BY DEF TypeInv
<1>3. /\ journal' = Recorded(p) /\ After(p, "none") /\ run' = Done(p)
  BY <1>1, <1>2, CalmFacts, RecordedFacts, SteadyJournaled DEF Journaled
<1>4. run'.errors = run.errors BY <1>2, <1>3, ErrorFacts
<1>5. EvenAt(p) BY <1>1 DEF Even, EvenInv
<1>6. /\ Present(local[p]) /\ Present(remote[p]) /\ run.scan[p] = local[p]
      /\ run.seen[p].etag = remote[p].ver
  BY <1>1 DEF TodoAt, PlanAt
<1>7. p \notin DirPaths \/ ~run.errors => local[p] = remote[p] BY <1>1, <1>5 DEF EvenAt
<1>8. StampInv'
  BY <1>2, <1>3, <1>6, <1>7, RecordedFacts DEF Even, StampInv
<1> QED BY <1>1, <1>3, <1>4, <1>7, <1>8, EvenKept

\* A row of a directory says nothing of files.
LEMMA MkdirLocalEven ==
    ASSUME TypeInv, Calm, Parts, Track, Even, NEW p \in Paths, MkdirLocal(p)
    PROVE  Even'
<1>1. run.phase = "loop" /\ run.todo[p] = "mkdirLocal" /\ TodoAt(p)
  BY CalmFacts, LoopFacts DEF MkdirLocal
<1>2. p \in DirPaths /\ Present(remote[p]) /\ Above(p) = {} BY <1>1 DEF TodoAt
<1>3. journal \in [Paths -> Entries] /\ run \in Runs /\ local \in [Paths -> Nodes] BY DEF TypeInv
<1>4. Reachable(local, p) /\ ~IsFile(local[p]) BY <1>2 DEF Reachable, Parts, KindsInv
<1>5. /\ local' = [WithParents(local, p) EXCEPT ![p] = Directory] /\ Journaled(p, Recorded(p))
      /\ remote' = remote
  BY <1>4 DEF MkdirLocal, server
<1>6. journal' = Recorded(p) /\ After(p, "none") /\ run' = Done(p)
  BY <1>3, <1>5, CalmFacts, RecordedFacts, SteadyJournaled DEF Journaled
<1>7. \A q \in Paths : local'[q] = IF q = p THEN Directory ELSE local[q]
  BY <1>2, <1>3, <1>5, ParentsMade
<1>8. run'.errors = run.errors BY <1>3, <1>6, ErrorFacts
<1>9. remote[p] = Directory BY <1>2, KindFacts DEF Parts
<1>10. StampInv' BY <1>2, <1>3, <1>6, RecordedFacts DEF Even, StampInv
<1> QED BY <1>1, <1>5, <1>6, <1>7, <1>8, <1>9, <1>10, EvenKept

\* The directory that is made on the server is there already or can be made.
LEMMA MkdirRemoteEven ==
    ASSUME TypeInv, Calm, Parts, Track, Even, NEW p \in Paths, MkdirRemote(p)
    PROVE  Even'
<1>1. run.phase = "loop" /\ run.todo[p] = "mkdirRemote" /\ IsNext(p) /\ TodoAt(p)
  BY CalmFacts, LoopFacts DEF MkdirRemote
<1>2. p \in DirPaths /\ Present(local[p]) /\ ParentsReady(p) BY <1>1 DEF TodoAt
<1>3. /\ journal \in [Paths -> Entries] /\ run \in Runs /\ remote \in [Paths -> Nodes]
  BY DEF TypeInv
<1>4. Writable(remote, p) BY <1>1, <1>2, CalmFacts, ParentsAreThere
<1>5. /\ Journaled(p, Recorded(p)) /\ local' = local
      /\ \/ remote' = [remote EXCEPT ![p] = Directory]
         \/ remote' = remote /\ Present(remote[p])
  BY <1>4, CalmFacts DEF MkdirRemote, disk
<1>6. local[p] = Directory /\ (Present(remote[p]) => remote[p] = Directory)
  BY <1>2, KindFacts DEF Parts
<1>7. \A q \in Paths : remote'[q] = IF q = p THEN Directory ELSE remote[q]
  BY <1>3, <1>5, <1>6
<1>8. journal' = Recorded(p) /\ After(p, "none") /\ run' = Done(p)
  BY <1>3, <1>5, CalmFacts, RecordedFacts, SteadyJournaled DEF Journaled
<1>9. run'.errors = run.errors BY <1>3, <1>8, ErrorFacts
<1>10. StampInv' BY <1>2, <1>3, <1>8, RecordedFacts DEF Even, StampInv
<1> QED BY <1>1, <1>5, <1>6, <1>7, <1>8, <1>9, <1>10, EvenKept

\* A conflict is through with its second half,
LEMMA SetAsideEven ==
    ASSUME TypeInv, Calm, Parts, Track, Even, NEW p \in Paths, SetAside(p)
    PROVE  Even'
<1>1. run.phase = "loop" /\ run.todo[p] = "conflict" /\ TodoAt(p)
  BY CalmFacts, LoopFacts DEF SetAside
<1>2. p \notin DirPaths /\ IsFile(local[p]) BY <1>1 DEF TodoAt
<1>3. run \in Runs /\ local \in [Paths -> Nodes] BY DEF TypeInv
<1>4. /\ run' = [run EXCEPT !.todo[p] = "fetch"] /\ local' = [local EXCEPT ![p] = Absent]
      /\ UNCHANGED <<remote, journal>>
  BY <1>2, <1>3, NodeFacts DEF SetAside, server
<1>5. After(p, "fetch")
  <2>1. run'.todo = [run.todo EXCEPT ![p] = "fetch"] /\ SameView(run, run')
    BY <1>3, <1>4, AsideFacts
  <2>2. run.todo \in [Paths -> Actions] BY <1>3 DEF Runs
  <2> QED BY <2>1, <2>2 DEF After, SameView
<1>6. run'.errors = run.errors BY <1>3, <1>4, ErrorFacts
<1>7. \A q \in Paths \ {p} : local'[q] = local[q] BY <1>3, <1>4
<1>8. StampInv' BY <1>4 DEF Even, StampInv
<1> QED BY <1>1, <1>4, <1>5, <1>6, <1>7, <1>8, EvenKept

\* ... which brings the version of the server, if there is one by then.
LEMMA FetchEven ==
    ASSUME TypeInv, Calm, Parts, Track, Even, NEW p \in Paths, Fetch(p)
    PROVE  Even'
<1>1. run.phase = "loop" /\ run.todo[p] = "fetch" /\ TodoAt(p)
  BY CalmFacts, LoopFacts DEF Fetch
<1>2. p \notin DirPaths /\ ~Present(local[p]) /\ \A a \in Above(p) : Present(local[a])
  BY <1>1 DEF TodoAt
<1>3. run \in Runs /\ local \in [Paths -> Nodes] /\ remote \in [Paths -> Nodes] BY DEF TypeInv
<1>4. \A a \in Above(p) : a \in Paths /\ local[a] = Directory
  <2> SUFFICES ASSUME NEW a \in Above(p) PROVE a \in Paths /\ local[a] = Directory OBVIOUS
  <2>1. a \in Paths /\ a \in DirPaths BY AboveFacts, CalmFacts, SteadyFacts
  <2> QED BY <1>2, <2>1, KindFacts DEF Parts
<1>5. \A q \in Paths : WithParents(local, p)[q] = local[q]
  BY <1>3, <1>4, ParentsMade
<1>6. Reachable(local, p) /\ ~IsDir(local[p])
  BY <1>2, <1>4, NodesHold DEF Reachable, Parts, KindsInv
<1>7. /\ ~run.seen[p].dir /\ UNCHANGED <<remote, journal>>
      /\ \/ /\ CanDownload(p) /\ local' = Downloaded(p)
            /\ run' = [Done(p) EXCEPT !.conflicts = TRUE, !.touched = @ \cup {ParentDir(p)}]
         \/ ~CanDownload(p) /\ local' = WithParents(local, p) /\ run' = Erred(p)
  <2>1. ~run.seen[p].dir BY <1>2 DEF Parts, KindsInv
  <2> QED BY <2>1, CalmFacts DEF Fetch, server
<1>8. StampInv' BY <1>7 DEF Even, StampInv
<1>9. /\ Less(p) = Erred(p).todo /\ SameView(run, Erred(p))
      /\ \A q \in Paths : Less(p)[q] = IF q = p THEN "none" ELSE run.todo[q]
  BY <1>3, DoneFacts, LessFacts
<1>10. CASE /\ CanDownload(p) /\ local' = Downloaded(p)
            /\ run' = [Done(p) EXCEPT !.conflicts = TRUE, !.touched = @ \cup {ParentDir(p)}]
  <2>1. run'.todo = Less(p) /\ SameView(run, run') BY <1>3, <1>10, FetchedFacts
  <2>2. After(p, "none") BY <1>9, <2>1 DEF After, SameView
  <2>3. run'.errors = run.errors BY <1>3, <1>10, ErrorFacts
  <2>4. remote[p] \in Nodes BY <1>3
  <2>5. local'[p] = remote[p] /\ \A q \in Paths \ {p} : local'[q] = local[q]
    BY <1>5, <1>10, <2>4, PlacedFacts DEF Downloaded
  <2> QED BY <1>1, <1>7, <1>8, <2>2, <2>3, <2>5, EvenKept
<1>11. CASE ~CanDownload(p) /\ local' = WithParents(local, p) /\ run' = Erred(p)
  <2>1. After(p, "none") BY <1>9, <1>11 DEF After, SameView
  <2>2. run'.errors BY <1>3, <1>11, ErrorFacts
  <2>3. ~IsFile(remote[p]) BY <1>6, <1>11 DEF CanDownload
  <2>4. local[p] = Absent /\ remote[p] = Absent
    BY <1>2, <1>3, <2>3, KindFacts, NodeFacts DEF Parts
  <2>5. \A q \in Paths : local'[q] = local[q] BY <1>5, <1>11
  <2> QED BY <1>1, <1>7, <1>8, <2>1, <2>2, <2>4, <2>5, EvenKept
<1> QED BY <1>7, <1>10, <1>11

\* Nothing is on disk of what is deleted from the server.
LEMMA DeleteRemoteEven ==
    ASSUME TypeInv, Calm, Parts, Track, Even, NEW p \in Paths, DeleteRemote(p)
    PROVE  Even'
<1>1. run.phase = "loop" /\ run.todo[p] = "deleteRemote" /\ TodoAt(p)
  BY CalmFacts, LoopFacts DEF DeleteRemote
<1>2. ~Present(local[p]) BY <1>1 DEF TodoAt
<1>3. run \in Runs /\ local \in [Paths -> Nodes] BY DEF TypeInv
<1>4. local' = local /\ ServerRemove(p) /\ Journaled(p, Forgotten(p))
  BY CalmFacts DEF DeleteRemote, disk
<1>5. \A q \in Paths : remote'[q] = IF q \in Subtree(p) THEN Absent ELSE remote[q]
  BY <1>4, RemoveFacts
<1>6. /\ Forgotten(p) \in [Paths -> Entries] /\ ~Forgotten(p)[p].here
      /\ \A q \in Paths \ {p} : Forgotten(p)[q] = journal[q]
  BY ForgottenFacts
<1>7. journal' = Forgotten(p) /\ After(p, "none") /\ run' = Done(p)
  BY <1>4, <1>6, CalmFacts, SteadyJournaled DEF Journaled
<1>8. run'.errors = run.errors BY <1>3, <1>7, ErrorFacts
<1>9. \A q \in Paths : q \in Subtree(p) => local[q] = Absent
  <2> SUFFICES ASSUME NEW q \in Paths, q \in Subtree(p) PROVE local[q] = Absent OBVIOUS
  <2>1. q = p \/ p \in Above(q) BY SubtreeFacts
  <2>2. ~Present(local[q]) BY <1>2, <2>1 DEF Parts, TreesInv
  <2> QED BY <1>3, <2>2, NodeFacts
<1>10. StampInv' BY <1>6, <1>7 DEF Even, StampInv
<1>11. p \in Subtree(p) BY SubtreeFacts
<1> QED BY <1>1, <1>4, <1>5, <1>7, <1>8, <1>9, <1>10, <1>11, EvenKept

\* A download that fails found nothing on the server, and there is nothing here; one
\* that succeeds makes directories only where the server has them.
LEMMA DownloadEven ==
    ASSUME TypeInv, Calm, Parts, Track, Even, NEW p \in Paths, Download(p)
    PROVE  Even'
<1>1. /\ UNCHANGED <<remote, journal>> /\ run.phase = "downloads" /\ run.todo[p] = "download"
      /\ TodoAt(p) /\ PlanAt(p)
  BY DEF Download, server, db, Parts, TodoInv, Track, PlanInv
<1>2. p \notin DirPaths BY <1>1 DEF TodoAt
<1>3. run \in Runs /\ local \in [Paths -> Nodes] /\ remote \in [Paths -> Nodes] BY DEF TypeInv
<1>4. Reachable(local, p) /\ ~IsDir(local[p])
  BY <1>2, CalmFacts, SteadyFacts, AboveFacts DEF Reachable, Parts, KindsInv
<1>5. \A q \in Paths : WithParents(local, p)[q] = IF q \in Above(p) THEN Directory ELSE local[q]
  BY <1>3, <1>4, ParentsMade
<1>6. \/ CanDownload(p) /\ local' = Downloaded(p) /\ run' = Transferred(p, TRUE)
      \/ ~CanDownload(p) /\ local' = WithParents(local, p) /\ run' = Transferred(p, FALSE)
  BY CalmFacts DEF Download
<1>7. After(p, "none") BY <1>6, TransferSteps
<1>8. StampInv' BY <1>1 DEF Even, StampInv
<1>9. p \notin Above(p) BY AboveFacts
<1>10. CASE CanDownload(p) /\ local' = Downloaded(p) /\ run' = Transferred(p, TRUE)
  <2>1. run'.errors = run.errors BY <1>3, <1>10, ErrorFacts
  <2>2. remote[p] \in Nodes /\ IsFile(remote[p]) BY <1>3, <1>10 DEF CanDownload
  <2>3. local'[p] = remote[p] /\ \A q \in Paths \ {p} : local'[q] = WithParents(local, p)[q]
    BY <1>10, <2>2, PlacedFacts DEF Downloaded
  <2>4. ASSUME NEW q \in Above(p) PROVE remote[q] = Directory
    <3>1. q \in Paths /\ q \in DirPaths BY AboveFacts, CalmFacts, SteadyFacts
    <3>2. Present(remote[p]) BY <2>2, NodeFacts
    <3>3. Present(remote[q]) BY <3>2 DEF Parts, TreesInv
    <3> QED BY <3>1, <3>3, KindFacts DEF Parts
  <2>5. \A q \in Paths \ {p} : local[q] = remote[q] => local'[q] = remote'[q]
    BY <1>1, <1>5, <2>3, <2>4
  <2> QED BY <1>1, <1>7, <1>8, <2>1, <2>3, <2>5, EvenKept
<1>11. CASE ~CanDownload(p) /\ local' = WithParents(local, p) /\ run' = Transferred(p, FALSE)
  <2>1. run'.errors BY <1>3, <1>11, ErrorFacts
  <2>2. ~IsFile(remote[p]) BY <1>4, <1>11 DEF CanDownload
  <2>3. ~Present(remote[p]) BY <1>2, <2>2, KindFacts DEF Parts
  <2>4. ~Present(local[p]) BY <1>1, <2>3 DEF PlanAt
  <2>5. local[p] = Absent /\ remote[p] = Absent BY <1>3, <2>3, <2>4, NodeFacts
  <2>6. local'[p] = remote'[p] BY <1>1, <1>5, <1>9, <1>11, <2>5
  <2>7. \A q \in Paths \ {p} : \/ local[q] = remote[q] => local'[q] = remote'[q]
                               \/ q \in DirPaths
    <3> SUFFICES ASSUME NEW q \in Paths \ {p}, q \notin DirPaths PROVE local'[q] = local[q]
      BY <1>1
    <3>1. q \notin Above(p) BY CalmFacts, SteadyFacts
    <3> QED BY <1>5, <1>11, <3>1
  <2> QED BY <1>1, <1>7, <1>8, <2>1, <2>6, <2>7, EvenKept
<1> QED BY <1>6, <1>10, <1>11

\* An upload finds its directory on the server.
LEMMA UploadEven ==
    ASSUME TypeInv, Calm, Parts, Track, Even, NEW p \in Paths, Upload(p)
    PROVE  Even'
<1>1. /\ UNCHANGED <<local, journal>> /\ run.phase = "uploads" /\ run.todo[p] = "upload"
      /\ TodoAt(p)
  BY DEF Upload, disk, Parts, TodoInv
<1>2. p \notin DirPaths /\ IsFile(local[p]) /\ ParentsReady(p) BY <1>1 DEF TodoAt
<1>3. run \in Runs /\ local \in [Paths -> Nodes] BY DEF TypeInv
<1>4. ASSUME NEW a \in Above(p) PROVE IsDir(remote[a])
  <2>1. a \in Paths /\ a \in DirPaths BY AboveFacts, CalmFacts, SteadyFacts
  <2>2. run.todo[a] # "mkdirRemote" BY <1>1, <2>1 DEF Parts, TodoInv, TodoAt, Pending
  <2>3. Present(remote[a]) BY <1>2, <2>2 DEF ParentsReady
  <2> QED BY <2>1, <2>3, KindFacts, NodesHold DEF Parts
<1>5. CanUpload(p) BY <1>2, <1>4 DEF CanUpload, Writable, Parts, KindsInv
<1>6. ServerPut(p, local[p].ver) /\ run' = Transferred(p, TRUE)
  BY <1>5, CalmFacts DEF Upload
<1>7. local[p] = File(local[p].ver) /\ local[p].ver \in Versions \ {0}
  BY <1>2, <1>3, NodeFacts
<1>8. \A q \in Paths : remote'[q] = IF q = p THEN local[p] ELSE remote[q]
  BY <1>6, <1>7, PutFacts
<1>9. After(p, "none") BY <1>6, TransferSteps
<1>10. run'.errors = run.errors BY <1>3, <1>6, ErrorFacts
<1>11. StampInv' BY <1>1 DEF Even, StampInv
<1> QED BY <1>1, <1>8, <1>9, <1>10, <1>11, EvenKept

\* A plan that leaves a path alone, or only records it, finds it equal on both sides.
LEMMA PlannedEven ==
    ASSUME TypeInv, Calm, Parts, Track, Even, run.phase = "listed", NEW q \in Paths,
           Planned(q) \in {"none", "record"}
    PROVE  local[q] = remote[q]
<1> DEFINE moved == \E s \in Paths :
                        q \in MoveSources(s, local, run.seen, journal, run.complete)
           l == local[q]
           r == run.seen[q]
           j == journal[q]
           c == run.complete
           d == Decision(l, r, j, c, moved)
<1>1. ASSUME NEW s \in Paths PROVE MoveSources(s, local, run.seen, journal, run.complete) = {}
  BY NoSources DEF Track
<1>2. ~Shadowed(q, local)
  BY CalmFacts, FollowedFacts, AboveFacts DEF Track, KindsInv, Shadowed
<1>3. l \in Nodes /\ remote[q] \in Nodes /\ r.dir \in BOOLEAN BY DEF TypeInv, Runs, Listings
<1>4. Plan(local, run.seen, journal, run.complete)[q] = d BY <1>1, <1>2 DEF Plan
<1>5. Planned(q) # "none" => Planned(q) = d BY <1>1, PlannedFacts
<1>6. Means(d, l, r, j, c)
  <2> HIDE DEF moved, l, r, j, c
  <2> QED BY <1>3, DecisionMeans
<1>7. failures[q].of # "upload" BY DEF Parts, UploadsInv
<1>8. Planned(q) = "none" => d = "none" \/ (d = "download" /\ failures[q].of = "download")
  BY <1>1, <1>2, <1>7, PlannedFacts
<1>9. /\ c /\ (j.here => r.here) /\ (r.here => Present(remote[q]))
      /\ (Present(remote[q]) => r.here /\ r.etag = remote[q].ver)
  BY DEF Parts, ListedInv, Track, HeardInv
<1>10. ~(Planned(q) = "none" /\ d = "download")
  <2> SUFFICES ASSUME Planned(q) = "none", d = "download" PROVE FALSE OBVIOUS
  <2>1. failures[q].of = "download" /\ failures[q].ver = r.etag
    <3>1. Plan(local, run.seen, journal, run.complete)[q] = "download" BY <1>4
    <3> HIDE DEF d
    <3> QED BY <3>1, LeftOut
  <2>2. r.here
    <3> HIDE DEF l, r, j, c, d
    <3> QED BY <1>6 DEF Means
  <2> QED BY <1>9, <2>1, <2>2 DEF Track, FailuresInv
<1>11. d \in {"none", "record"} BY <1>5, <1>8, <1>10
<1>12. /\ IsFile(l) => l = File(l.ver) /\ Present(l)
       /\ IsDir(l) => l = Directory /\ Present(l) /\ ~IsFile(l)
       /\ ~Present(l) => l = Absent /\ ~IsFile(l) /\ ~IsDir(l)
       /\ Present(l) => IsFile(l) \/ IsDir(l)
  BY <1>3, NodeFacts
<1>13. CASE d = "none"
  <2>1. ~Present(l) /\ ~r.here
    <3> HIDE DEF l, r, j, c, d
    <3> QED BY <1>6, <1>9, <1>13 DEF Means
  <2>2. l = Absent /\ remote[q] = Absent BY <1>3, <1>9, <2>1, NodeFacts
  <2> QED BY <2>2
<1>14. CASE d = "record"
  <2>1. /\ Present(l) /\ r.here
        /\ IsFile(l) => IF j.here THEN r.etag = j.etag /\ l.ver = j.stamp ELSE l.ver = r.etag
    <3> HIDE DEF l, r, j, c, d
    <3> QED BY <1>6, <1>14 DEF Means
  <2>2. Present(remote[q]) /\ r.etag = remote[q].ver BY <1>9, <2>1
  <2>3. CASE q \in DirPaths BY <2>1, <2>2, <2>3, KindFacts DEF Parts
  <2>4. CASE q \notin DirPaths
    <3>1. IsFile(l) /\ IsFile(remote[q]) BY <2>1, <2>2, <2>4, KindFacts DEF Parts
    <3>2. j.here => j.stamp = j.etag BY <2>4 DEF Even, StampInv
    <3>3. l.ver = remote[q].ver BY <2>1, <2>2, <3>1, <3>2
    <3>4. remote[q] = File(remote[q].ver) BY <1>3, <3>1, NodeFacts
    <3>5. l = File(l.ver) BY <1>3, <3>1, NodeFacts
    <3> QED BY <3>3, <3>4, <3>5
  <2> QED BY <2>3, <2>4
<1> HIDE DEF d
<1> QED BY <1>11, <1>13, <1>14

\* A plan acts on whatever differs.
LEMMA PlanEven ==
    ASSUME TypeInv, Calm, Parts, Track, Even, MakePlan
    PROVE  Even'
<1>1. UNCHANGED <<local, remote, journal>> /\ run.phase = "listed"
  BY PlanFacts DEF disk, server, db
<1>2. StampInv' BY <1>1 DEF Even, StampInv
<1>3. CASE run' = NoRun BY <1>2, <1>3, NoRunFacts DEF Even, EvenInv
<1>4. CASE run' # NoRun
  <2>1. \A q \in Paths : run'.todo[q] = Planned(q) BY <1>4, PlanFacts
  <2>2. \A q \in Paths : EvenAt(q)' BY <1>1, <2>1, PlannedEven DEF EvenAt
  <2> QED BY <1>2, <2>2 DEF Even, EvenInv
<1> QED BY <1>3, <1>4

\* refresh_dir writes the rows of files that are equal on both sides.
LEMMA RefreshEven ==
    ASSUME TypeInv, Calm, Parts, Track, Even, NEW d \in Paths \cup {Root}, RefreshDir(d)
    PROVE  Even'
<1>1. /\ UNCHANGED <<local, remote>> /\ run.phase = "refresh"
      /\ run' = [run EXCEPT !.touched = @ \ {d}]
  BY DEF RefreshDir, disk, server
<1>2. run'.phase = run.phase /\ run'.todo = run.todo /\ run'.errors = run.errors
  BY <1>1 DEF TypeInv, Runs
<1>3. \A q \in Paths : journal'[q] = IF ParentDir(q) = d /\ Present(remote[q])
                                     THEN Refreshed(q) ELSE journal[q]
  BY CalmFacts DEF RefreshDir, Refreshed
<1>4. \A q \in Paths : run.todo[q] = "none" BY <1>1 DEF Parts, TodoInv, TodoAt, Pending
<1>5. StampInv'
  <2> SUFFICES ASSUME NEW q \in Paths \ DirPaths, journal'[q].here
               PROVE  journal'[q].stamp = journal'[q].etag
    BY DEF StampInv
  <2>1. CASE journal'[q] = journal[q] BY <2>1 DEF Even, StampInv
  <2>2. CASE journal'[q] = Refreshed(q)
    <3>1. local[q] = remote[q] BY <1>1, <1>4 DEF Even, EvenInv, EvenAt
    <3>2. ~IsDir(local[q]) /\ ~IsDir(remote[q]) BY DEF Parts, KindsInv
    <3> QED BY <2>2, <3>1, <3>2, RefreshedFacts
  <2> QED BY <1>3, <2>1, <2>2
<1>6. EvenInv' BY <1>1, <1>2 DEF Even, EvenInv, EvenAt
<1> QED BY <1>5, <1>6 DEF Even

\* The pools open and close on a plan that stays as it is.
LEMMA PoolEven ==
    ASSUME TypeInv, Calm, Parts, Even, StartDownloads \/ CloseDownloads \/ CloseUploads
    PROVE  Even'
<1>1. run \in Runs BY DEF TypeInv
<1>2. /\ UNCHANGED <<local, remote, journal>> /\ run.phase \notin {"idle", "listed"}
      /\ \A q \in Paths : run'.todo[q] = run.todo[q]
      /\ run'.errors = run.errors
  <2>1. CASE StartDownloads
    <3>1. "downloads" \in Phases BY DEF Phases
    <3> QED BY <1>1, <2>1, <3>1, OpenPoolFacts, ErrorFacts DEF StartDownloads, disk, server, db, OpenPool, Runs
  <2>2. ASSUME NEW phase \in {"downloads", "uploads"}, NEW action, NEW next \in Phases,
               ClosePool(phase, action, next)
        PROVE  /\ UNCHANGED <<local, remote, journal>> /\ run.phase \notin {"idle", "listed"}
               /\ \A q \in Paths : run'.todo[q] = run.todo[q]
               /\ run'.errors = run.errors
    <3>1. run'.errors = run.errors BY <1>1, <2>2 DEF ClosePool, OpenPool, Runs
    <3> QED BY <2>2, <3>1, PoolClosed
  <2> QED BY <2>1, <2>2 DEF CloseDownloads, CloseUploads, Phases
<1>3. StampInv' BY <1>2 DEF Even, StampInv
<1>4. EvenInv' BY <1>2 DEF Even, EvenInv, EvenAt
<1> QED BY <1>3, <1>4 DEF Even

\* Every step of a run, and every input, which comes between two of them.
LEMMA EvenStep ==
    ASSUME TypeInv, Calm, Parts, Track, Even, [Next]_vars
    PROVE  Even'
<1>1. ASSUME NEW p \in Paths, PathStep(p) PROVE Even'
  <2>1. ~MoveLocal(p) /\ ~DeleteLocal(p)
    <3>1. run.todo[p] \in Pending(run.phase) BY DEF Parts, TodoInv, TodoAt
    <3> QED BY <3>1 DEF MoveLocal, DeleteLocal, Takes, Pending
  <2> QED
    BY <1>1, <2>1, RecordEven, MkdirLocalEven, MkdirRemoteEven, SetAsideEven, FetchEven,
       DeleteRemoteEven, DownloadEven, UploadEven
    DEF PathStep
<1>2. CASE UserStep
  <2>1. run.phase = "idle" /\ UNCHANGED <<journal, run>>
    BY <1>2, CalmFacts DEF UserStep, LocalWrite, LocalMkdir, LocalDelete, RemoteWrite,
       RemoteMkdir, RemoteDelete, RemoteMove, May
  <2> QED BY <2>1 DEF Even, StampInv, EvenInv
<1>3. CASE Discover \/ Finish
  <2>1. journal' = journal /\ run'.phase \in {"idle", "listed"}
    BY <1>3, NoRunFacts DEF Discover, Finish, db, NoRun
  <2> QED BY <2>1 DEF Even, StampInv, EvenInv
<1>4. ~StopCancelled BY DEF StopCancelled, Track, StageInv
<1>5. CASE EngineStep
  BY <1>1, <1>3, <1>4, <1>5, PlanEven, RefreshEven, PoolEven DEF EngineStep
<1>6. ~Cancel /\ ~Crash BY CalmFacts DEF Cancel, Crash
<1>7. CASE UNCHANGED vars
  <2>1. UNCHANGED <<local, remote, journal, run>> BY <1>7 DEF vars, disk, server, db
  <2> QED BY <2>1 DEF Even, StampInv, EvenInv, EvenAt
<1> QED BY <1>2, <1>5, <1>6, <1>7 DEF Next

\* At the start every row has one version.
LEMMA EvenInit == Init => Even
<1> SUFFICES ASSUME Init PROVE Even OBVIOUS
<1>1. run.phase = "idle" BY NoRunFacts DEF Init
<1>2. StampInv
  <2> SUFFICES ASSUME NEW q \in Paths, journal[q].here PROVE journal[q].stamp = journal[q].etag
    BY DEF StampInv
  <2>1. PICK tree, id : journal[q] = IF Present(tree[q])
                                     THEN Known(IsDir(tree[q]), tree[q].ver, tree[q].ver, id)
                                     ELSE NotKnown
    BY DEF Init
  <2> QED BY <2>1, EntryFacts DEF Known
<1> QED BY <1>1, <1>2 DEF Even, EvenInv

\* A run that reports success leaves the two sides equal, in every steady scenario
\* in which nothing happens during a run: the planner leaves nothing out that
\* differs, each action does what it is planned for although others ran before it,
\* and what cannot be done any more is reported as an error (engine.rs, run_sync).
THEOREM SuccessIsInSync == Spec /\ Steady => SuccessMeansInSync
<1> DEFINE Evened == Calm => Even
           Tracked == Followed => Track
           Inv == TypeInv /\ MovesInv /\ SteadyInv /\ Tracked /\ Evened
<1>1. Init => Inv BY TypeInit, SteadyInit, TrackInit, EvenInit
<1>2. Inv /\ [Next]_vars => Inv'
  <2> SUFFICES ASSUME TypeInv, MovesInv, SteadyInv, Tracked, Evened, [Next]_vars PROVE Inv'
    OBVIOUS
  <2>1. (Followed' => Followed) /\ (Steady' => Steady) /\ (Calm' => Calm)
    BY ScenarioStays DEF Followed, Undisturbed, Steady, Calm, CanFail
  <2>2. (TypeInv /\ MovesInv)' BY TypeStep
  <2>3. SteadyInv' BY <2>1, SteadyStep DEF SteadyInv
  <2>4. Tracked' BY <2>1, TrackStep
  <2>5. Evened'
    <3> SUFFICES ASSUME Calm PROVE Even' BY <2>1
    <3>1. Parts /\ Track BY CalmFacts DEF SteadyInv
    <3> QED BY <3>1, EvenStep
  <2> QED BY <2>2, <2>3, <2>4, <2>5
<1>3. Steady /\ [Next]_vars => Steady' BY ScenarioStays DEF Steady
<1>4. ASSUME Inv, Steady, Finish, exit' = "Success", Undisturbed, ~CanFail("unlink")
      PROVE  InSync
  <2>1. Calm /\ Parts /\ Even BY <1>4 DEF Calm, SteadyInv
  <2>2. run.phase = "refresh" /\ ~run.errors BY <1>4 DEF Finish
  <2>3. \A q \in Paths : run.todo[q] = "none" BY <2>1, <2>2 DEF Parts, TodoInv, TodoAt, Pending
  <2>4. \A q \in Paths : local[q] = remote[q] BY <2>1, <2>2, <2>3 DEF Even, EvenInv, EvenAt
  <2>5. local \in [Paths -> Nodes] /\ remote \in [Paths -> Nodes] BY <1>4 DEF TypeInv
  <2> QED BY <2>4, <2>5 DEF InSync
<1>5. Inv /\ Steady /\ [Next]_vars
        => [Finish /\ exit' = "Success" /\ Undisturbed /\ ~CanFail("unlink") => InSync]_vars
  BY <1>4
<1> HIDE DEF Inv
<1> QED BY <1>1, <1>2, <1>3, <1>5, PTL DEF Spec, SuccessMeansInSync

-----------------------------------------------------------------------------
(* What is deleted, and for whom.                                          *)

\* What the journal knows and the disk lacks was removed by the local user, or set
\* aside a moment ago.
GoneInv ==
    \A p \in Paths :
        journal[p].here /\ ~Present(local[p]) => p \in gone.local \/ run.todo[p] = "fetch"

\* A deletion on the server is planned for the local user.
DeletedInv == \A p \in Paths : run.todo[p] = "deleteRemote" => p \in gone.local

\* A directory of the server that a plan is through with is on disk.
DirsInv ==
    run.phase \notin {"idle", "listed"} =>
        \A p \in Paths :
            /\ p \in DirPaths /\ run.todo[p] \in {"none", "record"} /\ Present(remote[p])
            => Present(local[p])

\* The versions at p, on both sides.
VersionsOf(p) == {local[p].ver, remote[p].ver}

\* Two files never have the same version: everybody writes a new one.
ApartInv == \A p, q \in Paths : p # q => VersionsOf(p) \cap VersionsOf(q) \subseteq {0}

\* A version in a conflict copy is nowhere else.
AsideInv ==
    \A v \in aside : v # 0 /\ v <= Newest /\ \A p \in Paths : v \notin VersionsOf(p)

\* Between two runs the journal knows every file that is equal on both sides.
MetInv ==
    run.phase \in {"idle", "listed"} =>
        \A p \in Paths : IsFile(local[p]) /\ local[p] = remote[p] => InRow(p)

\* A conflict is about two versions, and its second half finds a file on the server.
ConflictInv ==
    \A p \in Paths :
        /\ run.todo[p] \in {"conflict", "fetch"} => IsFile(remote[p])
        /\ run.todo[p] = "conflict" => local[p].ver # remote[p].ver

\* The parts of the invariant.
Mirrored ==
    /\ GoneInv /\ DeletedInv /\ DirsInv /\ ApartInv /\ AsideInv /\ MetInv /\ ConflictInv

\* Where a version may come from for the trees to stay apart.
LEMMA ApartKept ==
    ASSUME ApartInv, NEW p \in Paths, NEW v,
           \A q \in Paths : v \notin VersionsOf(q) \/ q = p,
           \A q \in Paths : VersionsOf(q)' \subseteq VersionsOf(q) \cup {0}
                            \/ (q = p /\ VersionsOf(q)' \subseteq VersionsOf(q) \cup {0, v})
    PROVE  ApartInv'
<1> SUFFICES ASSUME NEW q \in Paths, NEW s \in Paths, q # s,
                    NEW x \in VersionsOf(q)', x \in VersionsOf(s)'
             PROVE  x = 0
  BY DEF ApartInv
<1>1. VersionsOf(q) \cap VersionsOf(s) \subseteq {0} BY DEF ApartInv
<1>2. q # p => x \in VersionsOf(q) \cup {0} OBVIOUS
<1>3. s # p => x \in VersionsOf(s) \cup {0} OBVIOUS
<1>4. x \in VersionsOf(q) \cup {0, v} /\ x \in VersionsOf(s) \cup {0, v} OBVIOUS
<1> QED BY <1>1, <1>2, <1>3, <1>4

\* What is on both sides and moves no further stays clear of the copies.
LEMMA AsideKept ==
    ASSUME AsideInv, aside' = aside, Newest' = Newest,
           \A q \in Paths : VersionsOf(q)' \subseteq VersionsOf(q) \cup {0}
    PROVE  AsideInv'
<1> SUFFICES ASSUME NEW v \in aside
             PROVE  v # 0 /\ v <= Newest /\ \A q \in Paths : v \notin VersionsOf(q)'
  BY DEF AsideInv
<1>1. v # 0 /\ v <= Newest /\ \A q \in Paths : v \notin VersionsOf(q) BY DEF AsideInv
<1> QED BY <1>1

-----------------------------------------------------------------------------
(* The inputs.                                                             *)

\* An input between two runs, that brings one new version at most.
LEMMA InputMirrored ==
    ASSUME TypeInv, Calm, Parts, Track, Mirrored, NEW input, NEW side, May(input, side),
           NEW p \in Paths, GoneInv',
           \A q \in Paths :
               /\ local'[q] \in {local[q], Absent, Directory}
                      \/ (q = p /\ local'[q] = File(Fresh) /\ remote'[q] = remote[q])
               /\ remote'[q] \in {remote[q], Absent, Directory}
                      \/ (q = p /\ remote'[q] = File(Fresh) /\ local'[q] = local[q])
    PROVE  Mirrored'
<1>1. /\ UNCHANGED <<scenario, aside, journal, failures, run>> /\ clock' = clock + 1
      /\ run.phase = "idle" /\ Fresh \in Versions \ {0} /\ Fresh = Newest + 1
      /\ Newest \in Nat /\ Newest' = Newest + 1
  <2>1. /\ UNCHANGED <<scenario, aside, journal, failures, run>> /\ clock' = clock + 1
        /\ run.phase = "idle" /\ Fresh \in Versions \ {0} /\ Fresh = Len(Tree) + clock + 1
    BY MayFacts, CalmFacts
  <2>2. clock \in Nat /\ Len(Tree) \in Nat
    BY TreeAssumption, ScenariosAssumption, BoundsAssumption DEF TypeInv
  <2> QED BY <2>1, <2>2 DEF Newest
<1>2. local \in [Paths -> Nodes] /\ remote \in [Paths -> Nodes] BY DEF TypeInv
<1>3. \A q \in Paths : run.todo[q] = "none" /\ run'.todo[q] = "none"
  BY <1>1 DEF Parts, TodoInv, TodoAt, Pending
<1>4. /\ File(Fresh).ver = Fresh /\ IsFile(File(Fresh))
      /\ Absent.ver = 0 /\ Directory.ver = 0 /\ ~IsFile(Absent) /\ ~IsFile(Directory)
  BY <1>1, NodesHold
<1>5. ASSUME NEW q \in Paths PROVE \A v \in VersionsOf(q) : v \in Nat /\ v <= Newest
  BY VersionNumbers DEF Parts, VersionsInv, VersionsOf
<1>6. ASSUME NEW q \in Paths PROVE Fresh \notin VersionsOf(q) BY <1>1, <1>5
<1>7. ASSUME NEW q \in Paths
      PROVE  /\ VersionsOf(q)' \subseteq VersionsOf(q) \cup {0, Fresh}
             /\ q # p => VersionsOf(q)' \subseteq VersionsOf(q) \cup {0}
  <2>1. local'[q].ver \in {local[q].ver, 0} \/ (q = p /\ local'[q].ver = Fresh) BY <1>4
  <2>2. remote'[q].ver \in {remote[q].ver, 0} \/ (q = p /\ remote'[q].ver = Fresh) BY <1>4
  <2> QED BY <2>1, <2>2 DEF VersionsOf
<1>8. ApartInv' BY <1>6, <1>7, ApartKept DEF Mirrored
<1>9. AsideInv'
  <2> SUFFICES ASSUME NEW v \in aside
               PROVE  v # 0 /\ v <= Newest' /\ \A q \in Paths : v \notin VersionsOf(q)'
    BY <1>1 DEF AsideInv
  <2>1. v # 0 /\ v <= Newest /\ \A q \in Paths : v \notin VersionsOf(q) BY DEF Mirrored, AsideInv
  <2>2. v \in Nat BY DEF TypeInv, Versions
  <2>3. v # Fresh /\ v <= Newest' BY <1>1, <2>1, <2>2
  <2> QED BY <1>7, <2>1, <2>3
<1>10. MetInv'
  <2> SUFFICES ASSUME NEW q \in Paths, IsFile(local'[q]), local'[q] = remote'[q]
               PROVE  InRow(q)'
    BY <1>1 DEF MetInv
  <2>1. local'[q] = local[q] /\ remote'[q] = remote[q]
    <3>1. local[q].ver # Fresh /\ remote[q].ver # Fresh BY <1>6 DEF VersionsOf
    <3> QED BY <1>4, <3>1
  <2>2. InRow(q) BY <1>1, <2>1 DEF Mirrored, MetInv
  <2> QED BY <1>1, <2>1, <2>2 DEF InRow
<1>11. (DeletedInv /\ DirsInv /\ ConflictInv)'
  BY <1>1, <1>3 DEF DeletedInv, DirsInv, ConflictInv
<1> QED BY <1>8, <1>9, <1>10, <1>11 DEF Mirrored

\* What the users remove is noted, and what they make the journal does not know or
\* it is not gone.
LEMMA UserMirrored ==
    ASSUME TypeInv, Calm, Parts, Track, Mirrored, UserStep
    PROVE  Mirrored'
<1>1. /\ local \in [Paths -> Nodes] /\ remote \in [Paths -> Nodes]
      /\ gone \in [local : SUBSET Paths, remote : SUBSET Paths]
  BY DEF TypeInv
<1>2. PICK p \in Paths : \/ LocalWrite(p) \/ LocalMkdir(p) \/ LocalDelete(p)
                         \/ RemoteWrite(p) \/ RemoteMkdir(p) \/ RemoteDelete(p)
                         \/ \E q \in Paths \ {p} : RemoteMove(p, q)
  BY DEF UserStep
<1>3. ~RemoteDelete(p) /\ \A q \in Paths : ~RemoteMove(p, q)
  BY CalmFacts, SteadyFacts DEF RemoteDelete, RemoteMove, May
<1>4. PICK input, side : May(input, side)
  BY <1>2, <1>3 DEF LocalWrite, LocalMkdir, LocalDelete, RemoteWrite, RemoteMkdir
<1>5. /\ UNCHANGED <<journal, run>> /\ run.phase = "idle" /\ Fresh \in Versions \ {0}
  BY <1>4, MayFacts, CalmFacts
<1>6. \A q \in Paths : run.todo[q] = "none"
  BY <1>5 DEF Parts, TodoInv, TodoAt, Pending
<1>7. Present(File(Fresh)) /\ Present(Directory) BY DEF Present, File, Directory
<1>8. \A q \in Paths : /\ journal[q].here /\ ~Present(local[q]) => q \in gone.local
                       /\ journal[q].here => Present(remote[q])
  BY <1>6 DEF Mirrored, GoneInv, Parts, RowsInv
<1>9. CASE LocalWrite(p) \/ LocalMkdir(p)
  <2>1. /\ local' = [local EXCEPT ![p] = File(Fresh)] \/ local' = [local EXCEPT ![p] = Directory]
        /\ gone' = Created(p, local) /\ UNCHANGED remote
    BY <1>9 DEF LocalWrite, LocalMkdir, server
  <2>2. \A q \in Paths : q \in gone.local => q \in gone'.local \/ q = p BY <2>1 DEF Created
  <2>3. Present(local'[p]) /\ \A q \in Paths \ {p} : local'[q] = local[q] BY <1>1, <1>7, <2>1
  <2>4. GoneInv' BY <1>5, <1>8, <2>2, <2>3 DEF GoneInv
  <2>5. \A q \in Paths : /\ remote'[q] = remote[q]
                         /\ \/ local'[q] \in {local[q], Absent, Directory}
                            \/ q = p /\ local'[q] = File(Fresh)
    BY <1>1, <2>1
  <2> QED BY <1>4, <2>4, <2>5, InputMirrored
<1>10. CASE LocalDelete(p)
  <2>1. local' = Without(local, p) /\ gone' = Removed(p, "local") /\ UNCHANGED remote
    BY <1>10 DEF LocalDelete, server
  <2>2. \A q \in Paths : local'[q] = IF q \in Subtree(p) THEN Absent ELSE local[q]
    BY <1>1, <2>1, SubtreeRemoved
  <2>3. gone'.local = gone.local \cup Subtree(p) BY <1>1, <2>1 DEF Removed
  <2>4. GoneInv' BY <1>5, <1>8, <2>2, <2>3 DEF GoneInv
  <2>5. \A q \in Paths : remote'[q] = remote[q] /\ local'[q] \in {local[q], Absent, Directory}
    BY <2>1, <2>2
  <2> QED BY <1>4, <2>4, <2>5, InputMirrored
<1>11. CASE RemoteWrite(p) \/ RemoteMkdir(p)
  <2>1. gone' = Created(p, remote) /\ UNCHANGED local BY <1>11 DEF RemoteWrite, RemoteMkdir
  <2>2. \A q \in Paths : \/ remote'[q] = remote[q]
                         \/ q = p /\ remote'[q] \in {File(Fresh), Directory}
    <3>1. CASE RemoteWrite(p) BY <1>5, <3>1, PutFacts DEF RemoteWrite
    <3>2. CASE RemoteMkdir(p) BY <1>1, <3>2 DEF RemoteMkdir
    <3> QED BY <1>11, <3>1, <3>2
  <2>3. \A q \in Paths : q \in gone.local => q \in gone'.local \/ (q = p /\ ~Present(remote[p]))
    BY <2>1 DEF Created
  <2>4. GoneInv' BY <1>5, <1>8, <2>1, <2>3 DEF GoneInv
  <2>5. \A q \in Paths : /\ local'[q] = local[q]
                         /\ \/ remote'[q] \in {remote[q], Absent, Directory}
                            \/ q = p /\ remote'[q] = File(Fresh)
    BY <2>1, <2>2
  <2> QED BY <1>4, <2>4, <2>5, InputMirrored
<1> QED BY <1>2, <1>3, <1>9, <1>10, <1>11

-----------------------------------------------------------------------------
(* The steps of a run.                                                     *)

\* What the plan does to the disk: nothing goes but what is set aside.
DiskStays(p) ==
    \A q \in Paths :
        Present(local[q]) /\ ~Present(local'[q]) =>
            q = p /\ p \notin DirPaths /\ SetAside(p) /\ run'.todo[p] = "fetch"

\* Only the first half of a conflict takes something off the disk.
LEMMA NothingGoes ==
    ASSUME TypeInv, Calm, Parts, NEW p \in Paths, PathStep(p)
    PROVE  DiskStays(p)
<1>1. local \in [Paths -> Nodes] /\ remote \in [Paths -> Nodes] /\ run \in Runs BY DEF TypeInv
<1>2. ~MoveLocal(p) /\ ~DeleteLocal(p)
  <2>1. run.todo[p] \in Pending(run.phase) BY DEF Parts, TodoInv, TodoAt
  <2> QED BY <2>1 DEF MoveLocal, DeleteLocal, Takes, Pending
<1>3. Present(Directory) /\ Directory \in Nodes BY NodesHold
<1>4. \A q \in Paths : WithParents(local, p)[q] \in {local[q], Directory} BY <1>1, ParentsMade
<1>5. ASSUME NEW node \in Nodes, Present(node), local' = [WithParents(local, p) EXCEPT ![p] = node]
      PROVE  \A q \in Paths : Present(local[q]) => Present(local'[q])
  <2>1. local'[p] = node /\ \A q \in Paths \ {p} : local'[q] = WithParents(local, p)[q]
    BY <1>5, PlacedFacts
  <2> QED BY <1>3, <1>4, <1>5, <2>1
<1>6. ASSUME local' = WithParents(local, p)
      PROVE  \A q \in Paths : Present(local[q]) => Present(local'[q])
  BY <1>3, <1>4, <1>6
<1>7. CASE Record(p) \/ MkdirRemote(p) \/ DeleteRemote(p) \/ Upload(p)
  <2>1. local' = local BY <1>7 DEF Record, MkdirRemote, DeleteRemote, Upload, disk
  <2> QED BY <2>1 DEF DiskStays
<1>8. CASE MkdirLocal(p)
  <2>1. \/ local' = [WithParents(local, p) EXCEPT ![p] = Directory]
        \/ local' = WithParents(local, p)
    BY <1>8 DEF MkdirLocal
  <2> QED BY <1>3, <1>5, <1>6, <2>1 DEF DiskStays
<1>9. CASE Fetch(p) \/ Download(p)
  <2>1. \/ local' = [WithParents(local, p) EXCEPT ![p] = Directory]
        \/ CanDownload(p) /\ local' = [WithParents(local, p) EXCEPT ![p] = remote[p]]
        \/ local' = WithParents(local, p)
    BY <1>9 DEF Fetch, Download, Downloaded
  <2>2. CanDownload(p) => remote[p] \in Nodes /\ Present(remote[p])
    BY <1>1, NodeFacts DEF CanDownload
  <2> QED BY <1>3, <1>5, <1>6, <2>1, <2>2 DEF DiskStays
<1>10. CASE SetAside(p)
  <2>1. run.phase = "loop" /\ run.todo[p] = "conflict" /\ TodoAt(p)
    BY <1>10, CalmFacts, LoopFacts DEF SetAside
  <2>2. p \notin DirPaths /\ IsFile(local[p]) BY <2>1 DEF TodoAt
  <2>3. ~IsDir(local[p]) BY <1>1, <2>2, NodeFacts
  <2>4. /\ run' = [run EXCEPT !.todo[p] = "fetch"] /\ local' = [local EXCEPT ![p] = Absent]
    BY <1>10, <2>3 DEF SetAside
  <2>5. run'.todo[p] = "fetch" BY <1>1, <2>4 DEF Runs
  <2> QED BY <1>1, <1>10, <2>2, <2>4, <2>5 DEF DiskStays
<1> QED BY <1>2, <1>7, <1>8, <1>9, <1>10 DEF PathStep

\* What one step of the plan does, in the calm scenarios.
LEMMA CalmMoves ==
    ASSUME TypeInv, Calm, Parts, Track, NEW p \in Paths, PathStep(p)
    PROVE  /\ Moves(p) /\ DiskStays(p) /\ gone' = gone /\ scenario' = scenario
           /\ Newest' = Newest /\ run.phase \notin {"idle", "listed"} /\ run'.phase = run.phase
           /\ \/ run'.todo = Less(p)
              \/ run.todo[p] = "conflict" /\ run'.todo = [run.todo EXCEPT ![p] = "fetch"]
           /\ \A q \in Paths \ {p} : run'.todo[q] = run.todo[q]
<1>1. Moves(p) /\ DiskStays(p) BY CalmFacts, PathMoves, NothingGoes
<1>2. /\ gone' = gone /\ scenario' = scenario /\ clock' = clock
      /\ run.phase \in {"loop", "downloads", "uploads"}
  BY DEF PathStep, Record, MkdirLocal, MkdirRemote, MoveLocal, SetAside, Fetch, DeleteLocal,
         DeleteRemote, Download, Upload, Takes, users
<1>3. run' # NoRun
  <2>1. run \in Runs BY DEF TypeInv
  <2>2. ASSUME NEW rows, Journaled(p, rows) PROVE run' = Done(p)
    BY <2>2, CalmFacts DEF Journaled
  <2>3. \A s \in {Done(p), Erred(p), [Done(p) EXCEPT !.conflicts = TRUE]} : s.phase = run.phase
    BY <2>1, DoneFacts DEF SameView
  <2>4. [Done(p) EXCEPT !.conflicts = TRUE, !.touched = @ \cup {ParentDir(p)}].phase = run.phase
    BY <2>1 DEF Done, Runs
  <2>5. Transferred(p, TRUE).phase = run.phase /\ Transferred(p, FALSE).phase = run.phase
    BY <2>1 DEF Transferred, Done, Runs
  <2>6. [run EXCEPT !.todo[p] = "fetch"].phase = run.phase BY <2>1, AsideFacts DEF SameView
  <2>7. run'.phase = run.phase
    <3>1. CASE Record(p) \/ MkdirLocal(p) \/ MkdirRemote(p) \/ DeleteRemote(p)
      <4>1. run' = Done(p) \/ run' = Erred(p)
        BY <3>1, <2>2 DEF Record, MkdirLocal, MkdirRemote, DeleteRemote
      <4> QED BY <2>3, <4>1
    <3>2. CASE MoveLocal(p) \/ DeleteLocal(p)
      <4>1. run' = Done(p) \/ run' = Erred(p) BY <3>2, <2>2 DEF MoveLocal, DeleteLocal
      <4> QED BY <2>3, <4>1
    <3>3. CASE SetAside(p) \/ Fetch(p) \/ Download(p) \/ Upload(p)
      BY <3>3, <2>3, <2>4, <2>5, <2>6 DEF SetAside, Fetch, Download, Upload
    <3> QED BY <3>1, <3>2, <3>3 DEF PathStep
  <2> QED BY <1>2, <2>7, NoRunFacts
<1>4. /\ run'.phase = run.phase
      /\ \/ run'.todo = Less(p)
         \/ run.todo[p] = "conflict" /\ run'.todo = [run.todo EXCEPT ![p] = "fetch"]
  BY <1>1, <1>3 DEF Moves, RunMoves, SameView
<1>5. run.todo \in [Paths -> Actions] BY DEF TypeInv, Runs
<1>6. \A q \in Paths \ {p} : run'.todo[q] = run.todo[q] BY <1>4, <1>5 DEF Less
<1> QED BY <1>1, <1>2, <1>4, <1>6 DEF Newest

\* A step of the plan mirrors what the users removed.
LEMMA PathMirrored ==
    ASSUME TypeInv, Calm, Parts, Track, Mirrored, Even', TypeInv', NEW p \in Paths, PathStep(p)
    PROVE  Mirrored'
<1>1. /\ Moves(p) /\ DiskStays(p) /\ gone' = gone /\ scenario' = scenario
      /\ Newest' = Newest /\ run.phase \notin {"idle", "listed"} /\ run'.phase = run.phase
      /\ \/ run'.todo = Less(p)
         \/ run.todo[p] = "conflict" /\ run'.todo = [run.todo EXCEPT ![p] = "fetch"]
      /\ \A q \in Paths \ {p} : run'.todo[q] = run.todo[q]
  BY CalmMoves
<1>2. /\ local \in [Paths -> Nodes] /\ remote \in [Paths -> Nodes]
      /\ run.todo \in [Paths -> Actions]
      /\ local' \in [Paths -> Nodes] /\ remote' \in [Paths -> Nodes]
  BY DEF TypeInv, Runs
<1>3. \/ run'.todo[p] = "none"
      \/ /\ run.todo[p] = "conflict" /\ run'.todo[p] = "fetch"
         /\ \A q \in Paths : remote'[q] = remote[q]
  <2>1. CASE run'.todo = Less(p) BY <1>2, <2>1 DEF Less
  <2>2. CASE run.todo[p] = "conflict" /\ run'.todo = [run.todo EXCEPT ![p] = "fetch"]
    <3>1. \A q \in Paths : remote'[q] = remote[q] BY <1>1, <2>2 DEF Moves, ServerMoves
    <3> QED BY <1>2, <2>2, <3>1
  <2> QED BY <1>1, <2>1, <2>2
<1>4. TodoAt(p) /\ PlanAt(p) BY DEF Parts, TodoInv, Track, PlanInv
<1>5. ASSUME NEW q \in Paths PROVE VersionsOf(q)' \subseteq VersionsOf(q) \cup {0}
  <2>1. local'[q].ver \in {local[q].ver, remote[q].ver, 0}
    BY <1>1, NodesHold DEF Moves, DiskMoves
  <2>2. remote'[q].ver \in {remote[q].ver, local[q].ver, 0}
    BY <1>1, NodesHold DEF Moves, ServerMoves
  <2> QED BY <2>1, <2>2 DEF VersionsOf
<1>6. ApartInv'
  <2> SUFFICES ASSUME NEW q \in Paths, NEW s \in Paths, q # s
               PROVE  (VersionsOf(q) \cap VersionsOf(s))' \subseteq {0}
    BY DEF ApartInv
  <2>2. VersionsOf(q) \cap VersionsOf(s) \subseteq {0} BY DEF Mirrored, ApartInv
  <2> QED BY <1>5, <2>2
<1>7. AsideInv'
  <2>1. CASE SetAside(p)
    <3>1. run.todo[p] = "conflict" BY <2>1 DEF SetAside, Takes
    <3>2. p \notin DirPaths /\ IsFile(local[p]) BY <1>4, <3>1 DEF TodoAt
    <3>3. ~IsDir(local[p]) BY <1>2, <3>2, NodeFacts
    <3>4. local' = [local EXCEPT ![p] = Absent] /\ aside' = aside \cup {local[p].ver}
      BY <2>1, <3>2, <3>3 DEF SetAside, VersionsAt
    <3>5. local[p].ver # 0 /\ local[p].ver <= Newest
      BY <1>2, <3>2, NodeFacts DEF Parts, VersionsInv
    <3>6. local[p].ver # remote[p].ver BY <3>1 DEF Mirrored, ConflictInv
    <3>7. remote' = remote BY <2>1 DEF SetAside, server
    <3>8. ASSUME NEW q \in Paths PROVE local[p].ver \notin VersionsOf(q)'
      <4>1. CASE q = p
        <5>1. VersionsOf(q)' = {0, remote[p].ver}
          BY <1>2, <3>4, <3>7, <4>1, NodesHold DEF VersionsOf
        <5> QED BY <3>5, <3>6, <5>1
      <4>2. CASE q # p
        <5>1. VersionsOf(p) \cap VersionsOf(q) \subseteq {0} BY <4>2 DEF Mirrored, ApartInv
        <5>2. local[p].ver \in VersionsOf(p) BY DEF VersionsOf
        <5> QED BY <1>5, <3>5, <5>1, <5>2
      <4> QED BY <4>1, <4>2
    <3>9. \A v \in aside : v # 0 /\ v <= Newest /\ \A q \in Paths : v \notin VersionsOf(q)
      BY DEF Mirrored, AsideInv
    <3> QED BY <1>1, <1>5, <3>4, <3>5, <3>8, <3>9 DEF AsideInv
  <2>2. CASE ~SetAside(p)
    <3>1. aside' = aside
      BY <2>2 DEF PathStep, Record, MkdirLocal, MkdirRemote, MoveLocal, Fetch, DeleteLocal,
         DeleteRemote, Download, Upload, disk
    <3>2. AsideInv BY DEF Mirrored
    <3> QED BY <1>1, <1>5, <3>1, <3>2, AsideKept
  <2> QED BY <2>1, <2>2
<1>8. ConflictInv'
  <2> SUFFICES ASSUME NEW q \in Paths, run'.todo[q] \in {"conflict", "fetch"}
               PROVE  /\ IsFile(remote'[q])
                      /\ run'.todo[q] = "conflict" => local'[q].ver # remote'[q].ver
    BY DEF ConflictInv
  <2>1. CASE q = p
    <3>1. run'.todo[p] = "fetch" /\ run.todo[p] = "conflict" /\ remote'[p] = remote[p]
      BY <1>3, <2>1
    <3> QED BY <2>1, <3>1 DEF Mirrored, ConflictInv
  <2>2. CASE q # p
    <3>1. run.todo[q] = run'.todo[q] BY <1>1, <2>2
    <3>2. /\ IsFile(remote[q])
          /\ run'.todo[q] = "conflict" => local[q].ver # remote[q].ver
      BY <3>1 DEF Mirrored, ConflictInv
    <3>3. q \notin DirPaths /\ (\A a \in Above(q) : run.todo[a] # "deleteRemote")
      BY <3>1 DEF Track, PlanInv, PlanAt
    <3>4. run'.todo[q] = "conflict" => IsFile(local[q])
      BY <3>1 DEF Parts, TodoInv, TodoAt
    <3>5. remote'[q] = remote[q]
      <4>1. \/ remote'[q] = remote[q]
            \/ run.todo[p] = "deleteRemote" /\ q \in Subtree(p)
        BY <1>1, <2>2 DEF Moves, ServerMoves
      <4>2. q \in Subtree(p) => p \in Above(q) BY <2>2, SubtreeFacts
      <4> QED BY <3>3, <4>1, <4>2
    <3>6. ASSUME run'.todo[q] = "conflict" PROVE local'[q] = local[q]
      <4>1. local'[q] \in {local[q], Absent}
        BY <1>1, <2>2, <3>3 DEF Moves, DiskMoves
      <4>2. Present(local[q]) BY <1>2, <3>4, <3>6, NodeFacts
      <4>3. Present(local'[q]) BY <1>1, <2>2, <4>2 DEF DiskStays
      <4> QED BY <4>1, <4>3, NodesHold
    <3> QED BY <3>2, <3>5, <3>6
  <2> QED BY <2>1, <2>2
<1>9. DeletedInv' BY <1>1, <1>3 DEF Mirrored, DeletedInv
<1>10. MetInv' BY <1>1 DEF MetInv
<1>11. DirsInv'
  <2> SUFFICES ASSUME NEW q \in Paths, q \in DirPaths, run'.todo[q] \in {"none", "record"},
                      Present(remote'[q])
               PROVE  Present(local'[q])
    BY DEF DirsInv
  <2>1. ~Present(Absent) BY NodesHold
  <2>2. Present(local[q]) => Present(local'[q]) BY <1>1 DEF DiskStays
  <2>3. CASE q # p
    <3>1. run.todo[q] \in {"none", "record"} BY <1>1, <2>3
    <3>2. Present(remote[q]) BY <1>1, <2>1, <2>3 DEF Moves, ServerMoves
    <3> QED BY <1>1, <2>2, <3>1, <3>2 DEF Mirrored, DirsInv
  <2>4. CASE q = p
    <3>1. run.todo[p] # "none" BY <1>1 DEF PathStep, Record, MkdirLocal, MkdirRemote, MoveLocal,
                                      SetAside, Fetch, DeleteLocal, DeleteRemote, Download,
                                      Upload, Takes
    <3>2. run.todo[p] \in {"mkdirLocal", "mkdirRemote", "record", "deleteRemote"}
      <4>1. run.todo[p] \in Pending(run.phase) BY <1>4 DEF TodoAt
      <4>2. run.todo[p] \notin {"download", "conflict", "fetch", "upload"}
        BY <1>4, <2>4 DEF PlanAt
      <4> QED BY <3>1, <4>1, <4>2 DEF Pending
    <3>3. run.todo[p] = "deleteRemote" => ~Present(remote'[p])
      BY <1>1 DEF Moves, ServerMoves
    <3>4. CASE run.todo[p] = "mkdirLocal"
      <4>1. MkdirLocal(p)
        BY <3>4 DEF PathStep, Record, MkdirRemote, MoveLocal, SetAside, Fetch, DeleteLocal,
           DeleteRemote, Download, Upload, Takes
      <4>2. Reachable(local, p) /\ ~IsFile(local[p])
        BY <1>4, <3>4 DEF TodoAt, Reachable, Parts, KindsInv
      <4>3. local' = [WithParents(local, p) EXCEPT ![p] = Directory]
        BY <4>1, <4>2 DEF MkdirLocal
      <4> QED BY <2>4, <4>3, PlacedFacts, NodesHold
    <3>5. CASE run.todo[p] \in {"record", "mkdirRemote"}
      <4>1. Present(local[p]) BY <1>4, <3>5 DEF TodoAt
      <4> QED BY <2>2, <2>4, <4>1
    <3> QED BY <2>4, <3>2, <3>3, <3>4, <3>5
  <2> QED BY <2>3, <2>4
<1>12. GoneInv'
  <2> SUFFICES ASSUME NEW q \in Paths, journal'[q].here, ~Present(local'[q]),
                      run'.todo[q] # "fetch"
               PROVE  q \in gone.local
    BY <1>1 DEF GoneInv
  <2>1. ~Present(local[q]) BY <1>1 DEF DiskStays
  <2>2. ASSUME q = p PROVE run.todo[p] # "fetch"
    <3> SUFFICES ASSUME run.todo[p] = "fetch" PROVE FALSE OBVIOUS
    <3>1. p \notin DirPaths /\ IsFile(remote[p])
      BY <1>4 DEF TodoAt, Mirrored, ConflictInv
    <3>2. run'.todo[p] = "none" BY <1>3
    <3>3. local'[p] = remote'[p] BY <1>1, <3>1, <3>2 DEF Even, EvenInv, EvenAt
    <3>4. remote'[p] = remote[p] BY <1>1 DEF Moves, ServerMoves
    <3> QED BY <1>2, <2>2, <3>1, <3>3, <3>4, NodeFacts
  <2>3. run.todo[q] # "fetch" BY <1>1, <2>2
  <2>4. CASE journal'[q] = journal[q] BY <2>1, <2>3, <2>4 DEF Mirrored, GoneInv
  <2>5. CASE journal'[q] # journal[q]
    <3>1. q = p /\ run.todo[p] \in {"record", "mkdirLocal", "mkdirRemote"}
      <4>1. ~NotKnown.here BY DEF NotKnown
      <4> QED BY <1>1, <2>5, <4>1 DEF Moves, RowMoves
    <3>2. run.todo[p] = "mkdirLocal" BY <1>4, <2>1, <3>1 DEF TodoAt
    <3>3. p \in DirPaths /\ Present(remote[p]) BY <1>4, <3>2 DEF TodoAt
    <3>4. Present(remote'[p]) BY <1>1, <3>2, <3>3 DEF Moves, ServerMoves
    <3>5. run'.todo[p] = "none" BY <1>3, <3>2
    <3>6. Present(local'[p]) BY <1>1, <1>11, <3>3, <3>4, <3>5 DEF DirsInv
    <3> QED BY <2>1, <3>1, <3>6
  <2> QED BY <2>4, <2>5
<1> QED BY <1>6, <1>7, <1>8, <1>9, <1>10, <1>11, <1>12 DEF Mirrored

\* A plan deletes on the server what the user removed here, and meets no conflict
\* between two versions that are the same.
LEMMA PlanMirrored ==
    ASSUME TypeInv, Calm, Parts, Track, Even, Mirrored, MakePlan
    PROVE  Mirrored'
<1>1. /\ UNCHANGED <<local, remote, aside, journal, clock, gone>> /\ run.phase = "listed"
  BY PlanFacts DEF disk, server, db, users
<1>2. Newest' = Newest BY <1>1 DEF Newest
<1>3. \A q \in Paths : run.todo[q] = "none" BY <1>1 DEF Parts, TodoInv, TodoAt, Pending
<1>4. \A q \in Paths : journal[q].here /\ ~Present(local[q]) => q \in gone.local
  BY <1>3 DEF Mirrored, GoneInv
<1>5. GoneInv' BY <1>1, <1>4 DEF GoneInv
<1>6. (ApartInv /\ AsideInv)'
  <2>1. \A q \in Paths : VersionsOf(q)' = VersionsOf(q) BY <1>1 DEF VersionsOf
  <2> QED BY <1>1, <1>2, <2>1 DEF Mirrored, ApartInv, AsideInv
<1>7. CASE run' = NoRun
  <2>1. run'.phase = "idle" /\ \A q \in Paths : run'.todo[q] = "none" BY <1>7, NoRunFacts
  <2>2. MetInv' BY <1>1, <2>1 DEF Mirrored, MetInv, InRow
  <2>3. (DeletedInv /\ DirsInv /\ ConflictInv)' BY <2>1 DEF DeletedInv, DirsInv, ConflictInv
  <2> QED BY <1>5, <1>6, <2>2, <2>3 DEF Mirrored
<1>8. CASE run' # NoRun
  <2>1. run'.phase = "loop" /\ \A q \in Paths : run'.todo[q] = Planned(q) BY <1>8, PlanFacts
  <2>2. MetInv' BY <2>1 DEF MetInv
  <2>3. ASSUME NEW q \in Paths
        PROVE  /\ Planned(q) # "fetch"
               /\ Planned(q) # "none" =>
                      Means(Planned(q), local[q], run.seen[q], journal[q], run.complete)
    BY <1>1, CalmFacts, PlanHeard
  <2>4. DeletedInv' BY <1>1, <1>4, <2>1, <2>3 DEF DeletedInv, Means
  <2>5. ASSUME NEW q \in Paths, Planned(q) = "conflict"
        PROVE  IsFile(remote[q]) /\ local[q].ver # remote[q].ver
    <3>1. PlanAt(q)' => q \notin DirPaths BY <2>1, <2>5 DEF PlanAt
    <3>2. /\ local[q] \in Nodes /\ remote[q] \in Nodes /\ run.seen[q].dir \in BOOLEAN
      BY DEF TypeInv, Runs, Listings
    <3>3. Means("conflict", local[q], run.seen[q], journal[q], run.complete) BY <2>3, <2>5
    <3>4. Present(local[q]) /\ run.seen[q].here BY <3>3 DEF Means
    <3>5. Present(remote[q]) /\ run.seen[q].etag = remote[q].ver
      BY <1>1, <3>4 DEF Parts, ListedInv, Track, HeardInv
    <3>6. q \notin DirPaths
      <4> SUFFICES ASSUME q \in DirPaths PROVE FALSE OBVIOUS
      <4>1. run.seen[q].dir /\ IsDir(local[q]) /\ ~IsFile(local[q])
        BY <3>2, <3>4, NodeFacts DEF Parts, KindsInv
      <4> QED BY <3>3, <4>1 DEF Means
    <3>7. IsFile(local[q]) /\ IsFile(remote[q]) BY <3>4, <3>5, <3>6, KindFacts DEF Parts
    <3>8. ~run.seen[q].dir /\ ~IsDir(local[q]) BY <3>6 DEF Parts, KindsInv
    <3>9. IF journal[q].here THEN run.seen[q].etag # journal[q].etag
          ELSE local[q].ver # run.seen[q].etag
      BY <3>3, <3>8 DEF Means
    <3>10. CASE ~journal[q].here BY <3>5, <3>7, <3>9, <3>10
    <3>11. CASE journal[q].here
      <4> SUFFICES ASSUME local[q].ver = remote[q].ver PROVE FALSE BY <3>7
      <4>1. local[q] = remote[q] BY <3>2, <3>7, NodeFacts
      <4>2. InRow(q) BY <1>1, <3>7, <4>1 DEF Mirrored, MetInv
      <4> QED BY <3>5, <3>9, <3>11, <4>2 DEF InRow
    <3> QED BY <3>10, <3>11
  <2>6. ConflictInv' BY <1>1, <2>1, <2>3, <2>5 DEF ConflictInv
  <2>7. DirsInv'
    <3> SUFFICES ASSUME NEW q \in Paths, Planned(q) \in {"none", "record"}, Present(remote[q])
                 PROVE  Present(local[q])
      BY <1>1, <2>1 DEF DirsInv
    <3>1. local[q] = remote[q] BY <1>1, PlannedEven
    <3> QED BY <3>1
  <2> QED BY <1>5, <1>6, <2>2, <2>4, <2>6, <2>7 DEF Mirrored
<1> QED BY <1>7, <1>8

\* The steps that touch neither the trees nor the rows.
LEMMA StillMirrored ==
    ASSUME Mirrored, UNCHANGED <<local, remote, aside, journal, clock, gone>>,
           \A q \in Paths : run'.todo[q] = run.todo[q],
           run.phase \in {"idle", "listed"} <=> run'.phase \in {"idle", "listed"}
    PROVE  Mirrored'
<1>1. Newest' = Newest BY DEF Newest
<1>2. (ApartInv /\ AsideInv)'
  <2>1. \A q \in Paths : VersionsOf(q)' = VersionsOf(q) BY DEF VersionsOf
  <2> QED BY <1>1, <2>1 DEF Mirrored, ApartInv, AsideInv
<1>3. (GoneInv /\ DeletedInv /\ ConflictInv)'
  BY DEF Mirrored, GoneInv, DeletedInv, ConflictInv
<1>4. (DirsInv /\ MetInv)' BY DEF Mirrored, DirsInv, MetInv, InRow
<1> QED BY <1>2, <1>3, <1>4 DEF Mirrored

\* refresh_dir writes rows of what is on disk.
LEMMA RefreshMirrored ==
    ASSUME TypeInv, Calm, Parts, Track, Even, Mirrored, NEW d \in Paths \cup {Root}, RefreshDir(d)
    PROVE  Mirrored'
<1>1. /\ UNCHANGED <<local, remote, aside, clock, gone>> /\ run.phase = "refresh"
      /\ run' = [run EXCEPT !.touched = @ \ {d}]
  BY DEF RefreshDir, disk, server, users
<1>2. run'.phase = run.phase /\ run'.todo = run.todo BY <1>1 DEF TypeInv, Runs
<1>3. \A q \in Paths : journal'[q] = IF ParentDir(q) = d /\ Present(remote[q])
                                     THEN Refreshed(q) ELSE journal[q]
  BY CalmFacts DEF RefreshDir, Refreshed
<1>4. \A q \in Paths : run.todo[q] = "none" BY <1>1 DEF Parts, TodoInv, TodoAt, Pending
<1>5. Newest' = Newest BY <1>1 DEF Newest
<1>6. (ApartInv /\ AsideInv)'
  <2>1. \A q \in Paths : VersionsOf(q)' = VersionsOf(q) BY <1>1 DEF VersionsOf
  <2> QED BY <1>1, <1>5, <2>1 DEF Mirrored, ApartInv, AsideInv
<1>7. (DeletedInv /\ ConflictInv /\ DirsInv /\ MetInv)'
  BY <1>1, <1>2 DEF Mirrored, DeletedInv, ConflictInv, DirsInv, MetInv
<1>8. GoneInv'
  <2> SUFFICES ASSUME NEW q \in Paths, journal'[q].here, ~Present(local[q]) PROVE q \in gone.local
    BY <1>1 DEF GoneInv
  <2>1. journal[q].here => q \in gone.local BY <1>4 DEF Mirrored, GoneInv
  <2>2. ~Present(remote[q])
    <3>1. CASE q \in DirPaths BY <1>1, <1>4, <3>1 DEF Mirrored, DirsInv
    <3>2. CASE q \notin DirPaths
      <4>1. local[q] = remote[q] BY <1>1, <1>4, <3>2 DEF Even, EvenInv, EvenAt
      <4> QED BY <4>1
    <3> QED BY <3>1, <3>2
  <2> QED BY <1>3, <2>1, <2>2
<1> QED BY <1>6, <1>7, <1>8 DEF Mirrored

\* At its end a run has written the row of whatever is on the server.
LEMMA FinishMirrored ==
    ASSUME TypeInv, Calm, Parts, Track, Mirrored, Finish
    PROVE  Mirrored'
<1>1. /\ UNCHANGED <<local, remote, aside, journal, clock>> /\ run.phase = "refresh"
      /\ run.touched = {} /\ run' = NoRun
      /\ gone'.local = {q \in gone.local : Present(remote[q])}
  BY DEF Finish, disk, server
<1>2. /\ run'.phase = "idle" /\ \A q \in Paths : run'.todo[q] = "none" BY <1>1, NoRunFacts
<1>3. /\ \A q \in Paths : run.todo[q] = "none"
      /\ run.ok = {}
  BY <1>1 DEF Parts, TodoInv, TodoAt, Pending, Track, StageInv
<1>4. Newest' = Newest BY <1>1 DEF Newest
<1>5. (ApartInv /\ AsideInv)'
  <2>1. \A q \in Paths : VersionsOf(q)' = VersionsOf(q) BY <1>1 DEF VersionsOf
  <2> QED BY <1>1, <1>4, <2>1 DEF Mirrored, ApartInv, AsideInv
<1>6. (DeletedInv /\ ConflictInv /\ DirsInv)' BY <1>2 DEF DeletedInv, ConflictInv, DirsInv
<1>7. MetInv'
  <2> SUFFICES ASSUME NEW q \in Paths, IsFile(local[q]), local[q] = remote[q] PROVE InRow(q)
    BY <1>1 DEF MetInv, InRow
  <2>1. Present(remote[q]) BY NodeFacts DEF TypeInv
  <2> QED BY <1>1, <1>3, <2>1 DEF Track, PlanInv, PlanAt
<1>8. GoneInv'
  <2> SUFFICES ASSUME NEW q \in Paths, journal[q].here, ~Present(local[q])
               PROVE  q \in gone.local /\ Present(remote[q])
    BY <1>1 DEF GoneInv
  <2>1. q \in gone.local BY <1>3 DEF Mirrored, GoneInv
  <2>2. Present(remote[q]) BY <1>3 DEF Parts, RowsInv
  <2> QED BY <2>1, <2>2
<1> QED BY <1>5, <1>6, <1>7, <1>8 DEF Mirrored

\* Every step of a run and every input.
LEMMA MirroredStep ==
    ASSUME TypeInv, TypeInv', Calm, Parts, Track, Even, Even', Mirrored, [Next]_vars
    PROVE  Mirrored'
<1>1. ASSUME NEW p \in Paths, PathStep(p) PROVE Mirrored' BY <1>1, PathMirrored
<1>2. CASE UserStep BY <1>2, UserMirrored
<1>3. CASE Discover
  <2>1. /\ UNCHANGED <<local, remote, aside, journal, clock, gone>>
        /\ run.phase = "idle" /\ run'.phase = "listed" /\ run'.todo = NoRun.todo
    BY <1>3, NoRunFacts DEF Discover, disk, server, db, NoRun
  <2>2. \A q \in Paths : run.todo[q] = "none" /\ run'.todo[q] = "none"
    BY <2>1, NoRunFacts DEF Parts, TodoInv, TodoAt, Pending
  <2> QED BY <2>1, <2>2, StillMirrored
<1>4. CASE StartDownloads
  <2>1. "downloads" \in Phases /\ run \in Runs BY DEF Phases, TypeInv
  <2>2. /\ UNCHANGED <<local, remote, aside, journal, clock, gone>>
        /\ run.phase = "loop" /\ run'.phase = "downloads" /\ run'.todo = run.todo
    BY <1>4, <2>1, OpenPoolFacts DEF StartDownloads, disk, server, db, users
  <2> QED BY <2>2, StillMirrored
<1>5. CASE CloseDownloads \/ CloseUploads
  <2>1. ASSUME NEW phase \in {"downloads", "uploads"}, NEW action,
               NEW next \in {"uploads", "refresh"}, ClosePool(phase, action, next)
        PROVE  Mirrored'
    <3>1. next \in Phases BY DEF Phases
    <3>2. /\ UNCHANGED <<local, remote, aside, journal>> /\ run.phase = phase /\ run'.phase = next
          /\ \A q \in Paths : run'.todo[q] = run.todo[q]
      BY <2>1, <3>1, PoolClosed
    <3>3. UNCHANGED <<clock, gone>> BY <2>1 DEF ClosePool, users
    <3> QED BY <3>2, <3>3, StillMirrored
  <2> QED BY <1>5, <2>1 DEF CloseDownloads, CloseUploads
<1>6. ~StopCancelled BY DEF StopCancelled, Track, StageInv
<1>7. CASE EngineStep
  BY <1>1, <1>3, <1>4, <1>5, <1>6, <1>7, PlanMirrored, RefreshMirrored, FinishMirrored
  DEF EngineStep
<1>8. ~Cancel /\ ~Crash BY CalmFacts DEF Cancel, Crash
<1>9. CASE UNCHANGED vars
  <2>1. UNCHANGED <<local, remote, aside, journal, run, clock, gone>>
    BY <1>9 DEF vars, disk, server, db, users
  <2> QED BY <2>1, StillMirrored
<1> QED BY <1>2, <1>7, <1>8, <1>9 DEF Next

\* At the start nothing is gone.
LEMMA MirroredInit == Init => Mirrored
<1> SUFFICES ASSUME Init PROVE Mirrored OBVIOUS
<1>1. run.phase = "idle" /\ \A q \in Paths : run.todo[q] = "none" BY NoRunFacts DEF Init
<1>2. TypeInv /\ aside = {} BY TypeInit DEF Init
<1>3. (DeletedInv /\ ConflictInv /\ DirsInv) BY <1>1 DEF DeletedInv, ConflictInv, DirsInv
<1>4. AsideInv BY <1>2 DEF AsideInv
<1> DEFINE Row(tree, q) == Known(IsDir(tree[q]), tree[q].ver, tree[q].ver,
                                 IF IsFile(tree[q]) THEN Place(q) ELSE 0)
<1>5. PICK tree \in {Nothing(Absent), [p \in Paths |-> InitialNode(p)]} :
        /\ local = tree /\ remote = tree
        /\ journal = [p \in Paths |-> IF Present(tree[p]) THEN Row(tree, p) ELSE NotKnown]
  BY DEF Init
<1>6. \A q \in Paths : /\ local[q] = remote[q] /\ local[q] \in Nodes
                       /\ journal[q].here <=> Present(local[q])
                       /\ Present(local[q]) => journal[q].etag = remote[q].ver
  <2> SUFFICES ASSUME NEW q \in Paths
               PROVE  /\ journal[q].here <=> Present(tree[q])
                      /\ Present(tree[q]) => journal[q].etag = tree[q].ver
    BY <1>2, <1>5 DEF TypeInv
  <2>1. journal[q] = IF Present(tree[q]) THEN Row(tree, q) ELSE NotKnown BY <1>5
  <2> QED BY <2>1 DEF Known, NotKnown
<1>7. GoneInv BY <1>6 DEF GoneInv
<1>8. MetInv BY <1>6, NodeFacts DEF MetInv, InRow
<1>9. ASSUME NEW q \in Paths PROVE local[q].ver \in {0, Place(q)}
  <2>1. CASE tree = Nothing(Absent) BY <1>5, <2>1, NodesHold DEF Nothing
  <2>2. CASE tree = [p \in Paths |-> InitialNode(p)]
    <3>1. local[q] = IF q \in DirPaths THEN Directory ELSE File(Place(q))
      BY <1>5, <2>2 DEF InitialNode
    <3> QED BY <3>1, NodesHold DEF File
  <2> QED BY <1>5, <2>1, <2>2
<1>10. ApartInv
  <2> SUFFICES ASSUME NEW q \in Paths, NEW s \in Paths, q # s,
                      NEW v \in VersionsOf(q), v \in VersionsOf(s)
               PROVE  v = 0
    BY DEF ApartInv
  <2>1. v \in {0, Place(q)} /\ v \in {0, Place(s)} BY <1>6, <1>9 DEF VersionsOf
  <2>2. Place(q) # Place(s) BY PathFacts
  <2> QED BY <2>1, <2>2
<1> QED BY <1>3, <1>4, <1>7, <1>8, <1>10 DEF Mirrored

\* The engine removes from the server only what the local user removed from the disk,
\* and takes nothing off the disk but what it sets aside in a copy, in every steady
\* scenario in which nothing happens during a run: the row of what is missing here is
\* there because the user had it, and a download that failed never passes for a
\* deletion (reconcile.rs, decide; engine.rs, run_sync).
THEOREM QuietDeletionsAreMirrored == Spec /\ Steady => QuietDeletionsMirrorUsers
<1> DEFINE Evened == Calm => Even /\ Mirrored
           Tracked == Followed => Track
           Inv == TypeInv /\ MovesInv /\ SteadyInv /\ Tracked /\ Evened
<1>1. Init => Inv BY TypeInit, SteadyInit, TrackInit, EvenInit, MirroredInit
<1>2. Inv /\ [Next]_vars => Inv'
  <2> SUFFICES ASSUME TypeInv, MovesInv, SteadyInv, Tracked, Evened, [Next]_vars PROVE Inv'
    OBVIOUS
  <2>1. (Followed' => Followed) /\ (Steady' => Steady) /\ (Calm' => Calm)
    BY ScenarioStays DEF Followed, Undisturbed, Steady, Calm, CanFail
  <2>2. (TypeInv /\ MovesInv)' BY TypeStep
  <2>3. SteadyInv' BY <2>1, SteadyStep DEF SteadyInv
  <2>4. Tracked' BY <2>1, TrackStep
  <2>5. Evened'
    <3> SUFFICES ASSUME Calm PROVE (Even /\ Mirrored)' BY <2>1
    <3>1. Parts /\ Track BY CalmFacts DEF SteadyInv
    <3>2. Even' BY <3>1, EvenStep
    <3> QED BY <2>2, <3>1, <3>2, MirroredStep
  <2> QED BY <2>2, <2>3, <2>4, <2>5
<1>3. Steady /\ [Next]_vars => Steady' BY ScenarioStays DEF Steady
<1>4. ASSUME Inv, Steady, EngineStep, Undisturbed PROVE DeletesOnlyWhatUsersDeleted
  <2>1. Calm /\ Parts /\ Track /\ Mirrored BY <1>4, CalmFacts DEF Calm, SteadyInv
  <2>2. CASE UNCHANGED <<local, remote>>
    BY <2>2 DEF DeletesOnlyWhatUsersDeleted
  <2>3. CASE \E p \in Paths : PathStep(p)
    <3>1. PICK p \in Paths : PathStep(p) BY <2>3
    <3>2. Moves(p) /\ DiskStays(p) BY <1>4, <2>1, <3>1, CalmMoves
    <3> SUFFICES ASSUME NEW q \in Paths
                 PROVE  /\ Present(remote[q]) /\ ~Present(remote'[q]) => RemovedBy("local", q)
                        /\ Present(local[q]) /\ ~Present(local'[q]) => aside' # aside
      BY DEF DeletesOnlyWhatUsersDeleted
    <3>3. ASSUME Present(remote[q]), ~Present(remote'[q]) PROVE RemovedBy("local", q)
      <4>1. run.todo[p] = "deleteRemote" /\ q \in Subtree(p)
        <5>1. ASSUME IsFile(local[p]) PROVE Present(local[p])
          BY <1>4, <5>1, NodeFacts DEF TypeInv
        <5> QED BY <3>2, <3>3, <5>1, NodesHold DEF Moves, ServerMoves
      <4>2. p \in gone.local BY <2>1, <4>1 DEF Mirrored, DeletedInv
      <4>3. p \in Above(q) \cup {q} BY <4>1, SubtreeFacts
      <4> QED BY <4>2, <4>3 DEF RemovedBy
    <3>4. ASSUME Present(local[q]), ~Present(local'[q]) PROVE aside' # aside
      <4>1. q = p /\ p \notin DirPaths /\ SetAside(p) BY <3>2, <3>4 DEF DiskStays
      <4>2. IsFile(local[p]) /\ ~IsDir(local[p]) /\ local[p].ver # 0
        BY <1>4, <2>1, <3>4, <4>1, KindFacts, NodeFacts DEF Parts, TypeInv
      <4>3. aside' = aside \cup {local[p].ver} BY <4>1, <4>2 DEF SetAside, VersionsAt
      <4>4. local[p].ver \notin aside BY <2>1 DEF Mirrored, AsideInv, VersionsOf
      <4> QED BY <4>3, <4>4
    <3> QED BY <3>3, <3>4
  <2>4. CASE Discover \/ MakePlan \/ StartDownloads \/ CloseDownloads \/ CloseUploads
               \/ Finish \/ StopCancelled \/ \E d \in Paths \cup {Root} : RefreshDir(d)
    <3>1. UNCHANGED <<local, remote>>
      BY <2>4 DEF Discover, MakePlan, StartDownloads, CloseDownloads, CloseUploads, ClosePool,
         Finish, StopCancelled, RefreshDir, disk, server
    <3> QED BY <2>2, <3>1
  <2> QED BY <1>4, <2>3, <2>4 DEF EngineStep
<1>5. Inv /\ Steady /\ [Next]_vars
        => [EngineStep /\ Undisturbed /\ ~CanFail("crash") => DeletesOnlyWhatUsersDeleted]_vars
  BY <1>4
<1> HIDE DEF Inv
<1> QED BY <1>1, <1>2, <1>3, <1>5, PTL DEF Spec, QuietDeletionsMirrorUsers
=============================================================================
