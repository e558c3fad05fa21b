------------------------------ MODULE Reconcile ------------------------------
(***************************************************************************)
(* The planner of crates/native-engine/src/reconcile.rs: a pure function   *)
(* from the local scan, the remote listing and the journal to one action   *)
(* for each path, and the guard that engine.rs puts behind it.             *)
(*                                                                         *)
(* A path is the sequence of its segments.  The content of a file is a     *)
(* version: equal versions stand for equal size and modification time,     *)
(* which is all the engine compares, and the ETag of a remote file is its  *)
(* version.  Directories have neither: nothing the planner decides depends *)
(* on theirs.                                                              *)
(***************************************************************************)
EXTENDS Naturals, Sequences, FiniteSets

CONSTANTS
    Tree,              \* every path of the folder, in the order of their names
    GuardEnabled,      \* DeleteGuardConfig.enabled
    MinGroup,          \* DeleteGuardConfig.min_group
    MaxDeletePercent,  \* DeleteGuardConfig.max_delete_ratio
    MassRemoteDelete   \* MASS_REMOTE_DELETE

Paths == {Tree[i] : i \in DOMAIN Tree}

Above(p) == {SubSeq(p, 1, n) : n \in 1..(Len(p) - 1)}
ParentDir(p) == SubSeq(p, 1, Len(p) - 1)
Below(p) == {q \in Paths : p \in Above(q)}
Subtree(p) == Below(p) \cup {p}

Root == <<>>

ASSUME TreeAssumption ==
    /\ Tree \in Seq(Seq(STRING) \ {Root})
    /\ \A i, j \in DOMAIN Tree : Tree[i] = Tree[j] => i = j
    /\ \A p \in Paths : Above(p) \subseteq Paths
    /\ \A i, j \in DOMAIN Tree : Tree[i] \in Above(Tree[j]) => i < j
ASSUME GuardAssumption ==
    /\ GuardEnabled \in BOOLEAN
    /\ {MinGroup, MaxDeletePercent, MassRemoteDelete} \subseteq Nat

Place(p) == CHOOSE i \in DOMAIN Tree : Tree[i] = p
Precedes(p, q) == Place(p) < Place(q)

-----------------------------------------------------------------------------
(* What the two sides and the journal hold at a path.                      *)

Absent    == [kind |-> "absent", ver |-> 0]
Directory == [kind |-> "dir", ver |-> 0]
File(v)   == [kind |-> "file", ver |-> v]

Present(node) == node.kind # "absent"
IsDir(node)   == node.kind = "dir"
IsFile(node)  == node.kind = "file"

\* RemoteEntry, DbEntry.  An empty ETag and a missing file id are 0.
NotListed == [here |-> FALSE, dir |-> FALSE, etag |-> 0, id |-> 0]
NotKnown  == [here |-> FALSE, dir |-> FALSE, stamp |-> 0, etag |-> 0, id |-> 0]

Listed(dir, etag, id) == [here |-> TRUE, dir |-> dir, etag |-> etag, id |-> id]
Known(dir, stamp, etag, id) ==
    [here |-> TRUE, dir |-> dir, stamp |-> stamp, etag |-> etag, id |-> id]

-----------------------------------------------------------------------------
(* A file the server moved.                                                *)

\* The journal's last path with a file id: the entry that a map filled in the
\* order of their names ends with.
KnownAs(p, id, journal) ==
    LET Has(q) == journal[q].here /\ journal[q].id = id
    IN  Has(p) /\ \A q \in Paths : Has(q) => ~Precedes(p, q)

\* The paths that MoveLocal would rename to p: one at most.
MoveSources(p, local, remote, journal, complete) ==
    {from \in Paths \ {p} :
        /\ complete
        /\ remote[p].here /\ ~remote[p].dir /\ remote[p].id # 0
        /\ KnownAs(from, remote[p].id, journal)
        /\ ~remote[from].here
        /\ Present(local[from])}

-----------------------------------------------------------------------------
(* The decision for one path.                                              *)

Shadowed(p, local) == \E a \in Above(p) : IsFile(local[a])

RemoteChanged(r, j) == r.etag # j.etag
LocalChanged(l, j)  == l.ver # j.stamp

\* Mutant: the server wins although the file was edited here too.
RemoteWins(l, r, j) ==
    CASE IsDir(l) /\ r.dir  -> "record"
      [] IsDir(l) # r.dir   -> "conflict"
      [] OTHER -> IF RemoteChanged(r, j) THEN "download"
                  ELSE IF LocalChanged(l, j) THEN "upload" ELSE "record"

\* Mutant: a local edit is recorded instead of uploaded.
EditsRecorded(l, r, j) ==
    IF IsFile(l) /\ ~r.dir /\ RemoteChanged(r, j)
    THEN IF LocalChanged(l, j) THEN "conflict" ELSE "download"
    ELSE IF IsDir(l) = r.dir THEN "record" ELSE "conflict"

\* Both sides hold it and the journal knows it.
Compared(l, r, j) ==
    CASE IsDir(l) /\ r.dir -> "record"
      [] IsDir(l) # r.dir  -> "conflict"
      [] OTHER ->
             CASE RemoteChanged(r, j) /\ LocalChanged(l, j) -> "conflict"
               [] RemoteChanged(r, j) /\ ~LocalChanged(l, j) -> "download"
               [] ~RemoteChanged(r, j) /\ LocalChanged(l, j) -> "upload"
               [] OTHER -> "record"

\* Mutant: two files met for the first time are taken for the same one.
FirstSeenAlike(l, r) == IF IsDir(l) = r.dir THEN "record" ELSE "conflict"

\* Both sides hold it and the journal does not.
FirstSeen(l, r) ==
    IF \/ IsDir(l) /\ r.dir
       \/ IsFile(l) /\ ~r.dir /\ l.ver = r.etag
    THEN "record"
    ELSE "conflict"

Added(l) == IF IsDir(l) THEN "mkdirRemote" ELSE "upload"

\* Mutant: whatever the server lacks was deleted there.
AbsentIsDeleted(l, j, complete, moved) ==
    IF complete /\ ~moved THEN "deleteLocal" ELSE Added(l)

\* Only the disk holds it: the server deleted it if the journal knows it, but a
\* listing that is not complete proves nothing.
OnlyLocal(l, j, complete, moved) ==
    IF ~j.here THEN Added(l)
    ELSE IF complete /\ ~moved THEN "deleteLocal"
    ELSE "none"

OnlyRemote(r, j, complete) ==
    IF ~j.here THEN IF r.dir THEN "mkdirLocal" ELSE "download"
    ELSE IF complete THEN "deleteRemote"
    ELSE "none"

Decision(l, r, j, complete, moved) ==
    CASE Present(l) /\ r.here  -> IF j.here THEN Compared(l, r, j) ELSE FirstSeen(l, r)
      [] Present(l) /\ ~r.here -> OnlyLocal(l, j, complete, moved)
      [] ~Present(l) /\ r.here -> OnlyRemote(r, j, complete)
      [] OTHER -> "none"

Plan(local, remote, journal, complete) ==
    LET Sources(p) == MoveSources(p, local, remote, journal, complete)
        Moved(p)   == \E q \in Paths : p \in Sources(q)
    IN  [p \in Paths |->
            IF Sources(p) # {} THEN "moveLocal"
            ELSE IF Shadowed(p, local) THEN "none"
            ELSE Decision(local[p], remote[p], journal[p], complete, Moved(p))]

Actions ==
    {"none", "fetch", "mkdirLocal", "mkdirRemote", "moveLocal", "conflict",
     "record", "deleteLocal", "deleteRemote", "download", "upload"}

\* sort_plan; `fetch' is the second half of a conflict under way, and the
\* transfers wait for the pools.
Rank(action) ==
    CASE action = "fetch" -> 0
      [] action \in {"mkdirLocal", "mkdirRemote"} -> 1
      [] action = "moveLocal" -> 2
      [] action = "conflict"  -> 3
      [] action = "record"    -> 4
      [] action \in {"deleteLocal", "deleteRemote"} -> 5
      [] action = "download"  -> 6
      [] action = "upload"    -> 7

-----------------------------------------------------------------------------
(* check_delete_guard.                                                     *)

Doing(plan, actions) == {p \in Paths : plan[p] \in actions}

Refuses(plan, tracked, known) ==
    LET deletes == Cardinality(Doing(plan, {"deleteLocal", "deleteRemote"}))
        remote  == Cardinality(Doing(plan, {"deleteRemote"}))
        planned == Cardinality(Doing(plan, Actions \ {"none"}))
        total   == CHOOSE n \in {planned, tracked, known, 1} :
                       n >= planned /\ n >= tracked /\ n >= known /\ n >= 1
    IN  /\ GuardEnabled
        /\ deletes > 0
        /\ \/ known > 0 /\ tracked = 0
           \/ deletes >= total
           \/ /\ deletes >= (IF MinGroup > 0 THEN MinGroup ELSE 1)
              /\ deletes * 100 > MaxDeletePercent * total
           \/ remote >= MassRemoteDelete

=============================================================================
