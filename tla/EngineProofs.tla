---------------------------- MODULE EngineProofs ----------------------------
(***************************************************************************)
(* What holds of the runs of the native engine for every tree of paths,    *)
(* every scenario of inputs and faults and every bound: the types, what the*)
(* planner decides and when it deletes, what each step changes, and that a *)
(* download replaces only what the journal calls synchronized.  The edits  *)
(* themselves are the subject of EditsProofs.                              *)
(***************************************************************************)
EXTENDS SyncEngineProps, FiniteSetTheorems, TLAPS

-----------------------------------------------------------------------------
(* What the planner may delete, for every tree, listing and journal.       *)

\* The two deletions of a plan.
Deletions == {"deleteLocal", "deleteRemote"}

\* A path that is compared, met for the first time or created is not deleted.
LEMMA OnlyAbsenceDeletes ==
    ASSUME NEW l, NEW r, NEW j, NEW complete \in BOOLEAN, NEW moved \in BOOLEAN,
           Decision(l, r, j, complete, moved) \in Deletions
    PROVE  /\ complete
           /\ j.here
           /\ Decision(l, r, j, complete, moved) = "deleteLocal" =>
                  Present(l) /\ ~r.here /\ ~moved
           /\ Decision(l, r, j, complete, moved) = "deleteRemote" =>
                  ~Present(l) /\ r.here
<1>1. CASE Present(l) /\ r.here
  <2>1. Compared(l, r, j) \notin Deletions
    BY DEF Compared, Deletions
  <2>2. FirstSeen(l, r) \notin Deletions
    BY DEF FirstSeen, Deletions
  <2> QED
    BY <1>1, <2>1, <2>2 DEF Decision
<1>2. CASE Present(l) /\ ~r.here
  BY <1>2 DEF Decision, OnlyLocal, Added, Deletions
<1>3. CASE ~Present(l) /\ r.here
  BY <1>3 DEF Decision, OnlyRemote, Deletions
<1>4. CASE ~Present(l) /\ ~r.here
  BY <1>4 DEF Decision, Deletions
<1> QED
  BY <1>1, <1>2, <1>3, <1>4

\* A planned deletion is the decision for its path.
LEMMA PlannedDeletion ==
    ASSUME NEW scan, NEW listing, NEW rows, NEW complete \in BOOLEAN, NEW p \in Paths,
           Plan(scan, listing, rows, complete)[p] \in Deletions
    PROVE  /\ ~Shadowed(p, scan)
           /\ \E moved \in BOOLEAN :
                  Plan(scan, listing, rows, complete)[p]
                      = Decision(scan[p], listing[p], rows[p], complete, moved)
<1> DEFINE Sources(q) == MoveSources(q, scan, listing, rows, complete)
           Moved == \E q \in Paths : p \in Sources(q)
<1>1. Plan(scan, listing, rows, complete)[p] =
          IF Sources(p) # {} THEN "moveLocal"
          ELSE IF Shadowed(p, scan) THEN "none"
          ELSE Decision(scan[p], listing[p], rows[p], complete, Moved)
  BY DEF Plan
<1>2. Moved \in BOOLEAN
  OBVIOUS
<1> HIDE DEF Moved, Sources
<1> QED
  BY <1>1, <1>2 DEF Deletions

\* The run deletes nothing that the listing it has may merely have missed: when
\* one directory could not be listed, the plan holds no deletion at all
\* (remote_scan_complete of reconcile).
THEOREM IncompleteListingDeletesNothing ==
    ASSUME NEW scan, NEW listing, NEW rows, NEW p \in Paths
    PROVE  Plan(scan, listing, rows, FALSE)[p] \notin Deletions
<1> SUFFICES ASSUME Plan(scan, listing, rows, FALSE)[p] \in Deletions
             PROVE  FALSE
  OBVIOUS
<1>1. PICK moved \in BOOLEAN :
          Plan(scan, listing, rows, FALSE)[p]
              = Decision(scan[p], listing[p], rows[p], FALSE, moved)
  BY PlannedDeletion
<1>2. Decision(scan[p], listing[p], rows[p], FALSE, moved) \in Deletions
  BY <1>1
<1> QED
  BY <1>2, OnlyAbsenceDeletes

\* A path is deleted from one side only when the journal knows it and the other
\* side lacks it: what was never synchronized is never deleted, and neither is
\* what lies below a local file (issue #271).
THEOREM DeletionsNeedTheJournal ==
    ASSUME NEW scan, NEW listing, NEW rows, NEW complete \in BOOLEAN, NEW p \in Paths
    PROVE  LET planned == Plan(scan, listing, rows, complete)[p]
           IN  /\ planned \in Deletions => rows[p].here /\ ~Shadowed(p, scan)
               /\ planned = "deleteLocal" => Present(scan[p]) /\ ~listing[p].here
               /\ planned = "deleteRemote" => ~Present(scan[p]) /\ listing[p].here
<1> DEFINE planned == Plan(scan, listing, rows, complete)[p]
<1> SUFFICES ASSUME planned \in Deletions
             PROVE  /\ rows[p].here /\ ~Shadowed(p, scan)
                    /\ planned = "deleteLocal" => Present(scan[p]) /\ ~listing[p].here
                    /\ planned = "deleteRemote" => ~Present(scan[p]) /\ listing[p].here
  BY DEF Deletions
<1>1. PICK moved \in BOOLEAN :
          planned = Decision(scan[p], listing[p], rows[p], complete, moved)
  BY PlannedDeletion
<1>2. ~Shadowed(p, scan)
  BY PlannedDeletion
<1> HIDE DEF planned
<1> QED
  BY <1>1, <1>2, OnlyAbsenceDeletes

-----------------------------------------------------------------------------
(* Paths and trees.                                                        *)

\* Every path has a place in the tree, and a name at least.
LEMMA PathFacts ==
    ASSUME NEW p \in Paths
    PROVE  /\ p \in Seq(STRING) /\ Len(p) \in Nat \ {0}
           /\ Place(p) \in 1..Len(Tree) /\ Tree[Place(p)] = p
<1>1. PICK i \in DOMAIN Tree : p = Tree[i] BY DEF Paths
<1>2. DOMAIN Tree = 1..Len(Tree) BY TreeAssumption
<1>3. p \in Seq(STRING) /\ p # <<>> BY <1>1, <1>2, TreeAssumption DEF Root
<1>4. Len(p) \in Nat /\ Len(p) # 0 BY <1>3
<1>5. Place(p) \in DOMAIN Tree /\ Tree[Place(p)] = p BY <1>1 DEF Place
<1> QED BY <1>2, <1>3, <1>4, <1>5

\* The directories above a path are paths and come before it.
LEMMA AboveFacts ==
    ASSUME NEW p \in Paths, NEW a \in Above(p)
    PROVE  /\ a \in Paths /\ a # p /\ Precedes(a, p) /\ Len(a) < Len(p)
           /\ Above(a) \subseteq Above(p)
<1>1. a \in Paths BY TreeAssumption
<1>2. PICK n \in 1..(Len(p) - 1) : a = SubSeq(p, 1, n) BY DEF Above
<1>3. p \in Seq(STRING) /\ Len(p) \in Nat BY PathFacts
<1>4. Len(a) = n /\ \A i \in 1..n : a[i] = p[i] BY <1>2, <1>3
<1>5. Len(a) < Len(p) BY <1>2, <1>3, <1>4
<1>6. Precedes(a, p)
  <2>1. Place(a) \in DOMAIN Tree /\ Place(p) \in DOMAIN Tree BY <1>1, PathFacts, TreeAssumption
  <2>2. Tree[Place(a)] = a /\ Tree[Place(p)] = p BY <1>1, PathFacts
  <2> QED BY <2>1, <2>2, TreeAssumption DEF Precedes
<1>7. ASSUME NEW b \in Above(a) PROVE b \in Above(p)
  <2>1. PICK m \in 1..(Len(a) - 1) : b = SubSeq(a, 1, m) BY <1>7 DEF Above
  <2>2. m \in 1..(Len(p) - 1) BY <1>3, <1>4, <1>5, <2>1
  <2>3. SubSeq(SubSeq(p, 1, n), 1, m) = SubSeq(p, 1, m) BY <1>2, <1>3, <1>4, <2>1
  <2> QED BY <1>2, <2>1, <2>2, <2>3 DEF Above
<1> QED BY <1>1, <1>5, <1>6, <1>7

\* The directory of a path is the folder or a path above it.
LEMMA ParentFacts == ASSUME NEW p \in Paths PROVE ParentDir(p) \in Paths \cup {Root}
<1>1. p \in Seq(STRING) /\ Len(p) \in Nat \ {0} BY PathFacts
<1>2. CASE Len(p) = 1
  <2>1. SubSeq(p, 1, 0) = <<>> BY <1>1
  <2> QED BY <1>2, <2>1 DEF ParentDir, Root
<1>3. CASE Len(p) # 1
  <2>0. ASSUME NEW n \in Nat \ {0}, n # 1 PROVE n - 1 \in 1..(n - 1) BY <2>0
  <2>1. Len(p) - 1 \in 1..(Len(p) - 1) BY <1>1, <1>3, <2>0
  <2>2. ParentDir(p) \in Above(p) BY <2>1 DEF ParentDir, Above
  <2> QED BY <2>2, AboveFacts
<1> QED BY <1>2, <1>3

\* What lies in a subtree lies at its top or below it.
LEMMA SubtreeFacts ==
    ASSUME NEW p \in Paths, NEW q \in Paths
    PROVE  /\ q \in Subtree(p) <=> q = p \/ p \in Above(q)
           /\ \A a \in Above(q) : a \in Subtree(p) => q \in Subtree(p)
<1>1. q \in Subtree(p) <=> q = p \/ p \in Above(q) BY DEF Subtree, Below
<1>2. ASSUME NEW a \in Above(q), a \in Subtree(p) PROVE q \in Subtree(p)
  <2>1. a \in Paths /\ Above(a) \subseteq Above(q) BY AboveFacts
  <2>2. a = p \/ p \in Above(a) BY <1>2, <2>1 DEF Subtree, Below
  <2> QED BY <1>1, <1>2, <2>1, <2>2
<1> QED BY <1>1, <1>2

\* A node is nothing, the directory or a file of a version.
LEMMA NodeFacts ==
    ASSUME NEW n \in Nodes
    PROVE  /\ n.kind \in {"absent", "dir", "file"} /\ n.ver \in Versions
           /\ IsFile(n) => n = File(n.ver) /\ n.ver # 0
           /\ IsDir(n) => n = Directory
           /\ ~Present(n) => n = Absent
           /\ Present(n) => IsFile(n) \/ IsDir(n)
           /\ ~(IsFile(n) /\ IsDir(n))
           /\ IsFile(n) \/ IsDir(n) => Present(n)
<1>1. 0 \in Versions BY BoundsAssumption, TreeAssumption DEF Versions
<1> QED BY <1>1 DEF Nodes, IsFile, IsDir, Present, Absent, Directory, File

\* The node of a version.
LEMMA NodesHold ==
    /\ Absent \in Nodes /\ Directory \in Nodes
    /\ \A v \in Versions \ {0} : File(v) \in Nodes /\ IsFile(File(v)) /\ File(v).ver = v
    /\ ~Present(Absent) /\ IsDir(Directory) /\ Present(Directory) /\ ~IsFile(Directory)
    /\ ~IsFile(Absent) /\ ~IsDir(Absent) /\ Absent.ver = 0 /\ Directory.ver = 0
BY DEF Nodes, IsFile, IsDir, Present, Absent, Directory, File

\* Making the directories above a path leaves every file where it is.
LEMMA ParentsMade ==
    ASSUME NEW tree \in [Paths -> Nodes], NEW p \in Paths
    PROVE  /\ WithParents(tree, p) \in [Paths -> Nodes]
           /\ \A q \in Paths : IsFile(tree[q]) \/ IsFile(WithParents(tree, p)[q])
                                   => WithParents(tree, p)[q] = tree[q]
           /\ \A q \in Paths : q \notin Above(p) => WithParents(tree, p)[q] = tree[q]
           /\ \A q \in Paths : WithParents(tree, p)[q] \in {tree[q], Directory}
           /\ Reachable(tree, p) =>
                  \A q \in Paths : q \in Above(p) => WithParents(tree, p)[q] = Directory
<1>1. \A q \in Paths : WithParents(tree, p)[q] =
          IF q \in Above(p) /\ Reachable(tree, p) THEN Directory ELSE tree[q]
  BY DEF WithParents
<1>2. WithParents(tree, p) \in [Paths -> Nodes] BY NodesHold DEF WithParents
<1>3. \A q \in Above(p) : Reachable(tree, p) => ~IsFile(tree[q]) BY DEF Reachable
<1> QED BY <1>1, <1>2, <1>3, NodesHold

\* What is left of a tree without a subtree.
LEMMA SubtreeRemoved ==
    ASSUME NEW tree \in [Paths -> Nodes], NEW p \in Paths
    PROVE  /\ Without(tree, p) \in [Paths -> Nodes]
           /\ \A q \in Paths : Without(tree, p)[q] = IF q \in Subtree(p) THEN Absent ELSE tree[q]
BY NodesHold DEF Without

-----------------------------------------------------------------------------
(* Types.                                                                  *)

\* What the state is made of.
TypeInv ==
    /\ scenario \in Scenarios
    /\ local \in [Paths -> Nodes] /\ aside \subseteq Versions
    /\ remote \in [Paths -> Nodes] /\ ids \in [Paths -> Ids]
    /\ journal \in [Paths -> Entries] /\ failures \in [Paths -> Failures]
    /\ rootKnown \in BOOLEAN
    /\ run \in Runs
    /\ exit \in {"None", "Safety", "Failed", "Conflict", "Success"}
    /\ clock \in 0..scenario.edits /\ interrupts \in 0..MaxInterrupts
    /\ mine \subseteq Versions
    /\ gone \in [local : SUBSET Paths, remote : SUBSET Paths]

\* The file id of a new file is one that is not in use: there are enough of them.
LEMMA FreshIdExists ==
    ASSUME TypeInv
    PROVE  /\ FreshId \in Ids \ {0}
           /\ \A p \in Paths : FreshId \notin {ids[p], journal[p].id, run.seen[p].id}
<1> DEFINE n == Len(Tree)
           used == {ids[p] : p \in Paths} \cup {journal[p].id : p \in Paths}
                   \cup {run.seen[p].id : p \in Paths}
           f == [i \in 1..(3 * n) |->
                    IF i <= n THEN ids[Tree[i]]
                    ELSE IF i <= 2 * n THEN journal[Tree[i - n]].id
                    ELSE run.seen[Tree[i - 2 * n]].id]
           all == 1..(3 * n + 1)
<1>1. n \in Nat /\ DOMAIN Tree = 1..n BY TreeAssumption
<1>2. \A p \in Paths : Place(p) \in 1..n /\ Tree[Place(p)] = p BY PathFacts
<1>3. \A i \in 1..n : Tree[i] \in Paths BY <1>1 DEF Paths
<1> HIDE DEF n
<1>4. f \in Surjection(1..(3 * n), used)
  <2>1. ASSUME NEW i \in 1..(3 * n) PROVE f[i] \in used
    <3>1. CASE i <= n BY <1>1, <1>3, <3>1
    <3>2. CASE i > n /\ i <= 2 * n
      <4>1. i - n \in 1..n BY <1>1, <3>2
      <4> QED BY <1>1, <1>3, <3>2, <4>1
    <3>3. CASE i > 2 * n
      <4>1. i - 2 * n \in 1..n /\ ~(i <= n) /\ ~(i <= 2 * n) BY <1>1, <3>3
      <4> QED BY <1>3, <4>1
    <3> QED BY <1>1, <3>1, <3>2, <3>3
  <2>2. ASSUME NEW u \in used PROVE \E i \in 1..(3 * n) : f[i] = u
    <3>1. CASE \E p \in Paths : u = ids[p]
      <4>1. PICK p \in Paths : u = ids[p] BY <3>1
      <4>2. Place(p) \in 1..(3 * n) /\ Place(p) <= n BY <1>1, <1>2
      <4> QED BY <1>2, <4>1, <4>2
    <3>2. CASE \E p \in Paths : u = journal[p].id
      <4>1. PICK p \in Paths : u = journal[p].id BY <3>2
      <4> DEFINE i == Place(p) + n
      <4>2. i \in 1..(3 * n) /\ ~(i <= n) /\ i <= 2 * n /\ i - n = Place(p) BY <1>1, <1>2
      <4> HIDE DEF i
      <4>3. f[i] = journal[Tree[i - n]].id BY <4>2
      <4> QED BY <1>2, <4>1, <4>2, <4>3
    <3>3. CASE \E p \in Paths : u = run.seen[p].id
      <4>1. PICK p \in Paths : u = run.seen[p].id BY <3>3
      <4> DEFINE i == Place(p) + 2 * n
      <4>2. i \in 1..(3 * n) /\ ~(i <= n) /\ ~(i <= 2 * n) /\ i - 2 * n = Place(p)
        BY <1>1, <1>2
      <4> HIDE DEF i
      <4>3. f[i] = run.seen[Tree[i - 2 * n]].id BY <4>2
      <4> QED BY <1>2, <4>1, <4>2, <4>3
    <3> QED BY <3>1, <3>2, <3>3
  <2>3. f \in [1..(3 * n) -> used] BY <2>1
  <2> HIDE DEF f, used
  <2> QED BY <2>2, <2>3 DEF Surjection
<1> HIDE DEF f, used
<1>5. IsFiniteSet(1..(3 * n)) /\ Cardinality(1..(3 * n)) <= 3 * n
  <2> DEFINE m == 3 * n
  <2>1. m \in Nat BY <1>1
  <2> HIDE DEF m
  <2>2. IsFiniteSet(1..m) /\ Cardinality(1..m) = IF 1 > m THEN 0 ELSE m - 1 + 1
    BY <2>1, FS_Interval
  <2>3. Cardinality(1..m) <= m BY <2>1, <2>2
  <2> QED BY <2>2, <2>3 DEF m
<1>6. IsFiniteSet(used) /\ Cardinality(used) <= 3 * n
  <2>1. IsFiniteSet(used) /\ Cardinality(used) <= Cardinality(1..(3 * n))
    BY <1>4, <1>5, FS_Surjection
  <2>2. Cardinality(used) \in Nat /\ Cardinality(1..(3 * n)) \in Nat
    BY <1>5, <2>1, FS_CardinalityType
  <2> QED BY <1>1, <1>5, <2>1, <2>2
<1>7. \E i \in all : i \notin used
  <2> SUFFICES ASSUME all \subseteq used PROVE FALSE OBVIOUS
  <2>1. Cardinality(all) = 3 * n + 1
    <3>1. 3 * n + 1 \in Int /\ 1 \in Int /\ ~(1 > 3 * n + 1) BY <1>1
    <3> QED BY <1>1, <3>1, FS_Interval
  <2>2. Cardinality(all) <= Cardinality(used) BY <1>6, FS_Subset
  <2>3. Cardinality(used) \in Nat BY <1>6, FS_CardinalityType
  <2> QED BY <1>1, <1>6, <2>1, <2>2, <2>3
<1>8. all \subseteq Ids \ {0} BY <1>1 DEF Ids, n
<1>9. \E i \in Ids \ {0} : i \notin used BY <1>7, <1>8
<1>10. FreshId = CHOOSE i \in Ids \ {0} : i \notin used BY DEF FreshId, used
<1>11. FreshId \in Ids \ {0} /\ FreshId \notin used BY <1>9, <1>10
<1> QED BY <1>11 DEF used

\* The number of the next input is a version nobody wrote.
LEMMA FreshFacts ==
    ASSUME TypeInv, clock < scenario.edits
    PROVE  /\ Fresh \in Versions \ {0} /\ clock + 1 \in 0..scenario.edits
           /\ Fresh = Len(Tree) + clock + 1
<1>1. scenario.edits \in 0..MaxEdits BY ScenariosAssumption DEF TypeInv
<1>2. Len(Tree) \in Nat /\ MaxEdits \in Nat BY TreeAssumption, BoundsAssumption
<1> QED BY <1>1, <1>2 DEF TypeInv, Fresh, Versions

-----------------------------------------------------------------------------
(* The steps of a run, seen from the run.                                  *)

\* Two moments of a run that differ in what is still to do, not in what the run
\* has seen, nor in its phase.
SameView(r, s) ==
    /\ s.phase = r.phase /\ s.complete = r.complete /\ s.cancelled = r.cancelled
    /\ s.seen = r.seen /\ s.scan = r.scan /\ s.from = r.from

\* ... nor in what its pool did.
SamePool(r, s) == s.ok = r.ok /\ s.failed = r.failed

\* What is left of the plan when the action of p is taken.
Less(p) == [run.todo EXCEPT ![p] = "none"]

\* One step of the plan is one entry less in it.
LEMMA DoneFacts ==
    ASSUME run \in Runs, NEW p \in Paths
    PROVE  \A s \in {Done(p), Erred(p), [Done(p) EXCEPT !.conflicts = TRUE]} :
               /\ s \in Runs /\ s.todo = Less(p)
               /\ SameView(run, s) /\ SamePool(run, s) /\ s.touched = run.touched
<1>1. Less(p) \in [Paths -> Actions] BY DEF Runs, Less, Actions
<1>2. Done(p) = [run EXCEPT !.todo = Less(p)] BY DEF Done, Less, Runs
<1>3. Erred(p) = [run EXCEPT !.todo = Less(p), !.errors = TRUE] BY DEF Erred, Less, Runs
<1>4. [Done(p) EXCEPT !.conflicts = TRUE] = [run EXCEPT !.todo = Less(p), !.conflicts = TRUE]
  BY <1>2
<1> DEFINE less == Less(p)
<1> HIDE DEF less
<1>5. Done(p) = [run EXCEPT !.todo = less] BY <1>2 DEF less
<1>6. Erred(p) = [run EXCEPT !.todo = less, !.errors = TRUE] BY <1>3 DEF less
<1>7. [Done(p) EXCEPT !.conflicts = TRUE] = [run EXCEPT !.todo = less, !.conflicts = TRUE]
  BY <1>4 DEF less
<1>8. less \in [Paths -> Actions] BY <1>1 DEF less
<1>9. /\ [run EXCEPT !.todo = less] \in Runs
      /\ [run EXCEPT !.todo = less, !.errors = TRUE] \in Runs
      /\ [run EXCEPT !.todo = less, !.conflicts = TRUE] \in Runs
  BY <1>8 DEF Runs
<1>10. \A s \in {[run EXCEPT !.todo = less], [run EXCEPT !.todo = less, !.errors = TRUE],
                [run EXCEPT !.todo = less, !.conflicts = TRUE]} :
           /\ s \in Runs /\ s.todo = less
           /\ SameView(run, s) /\ SamePool(run, s) /\ s.touched = run.touched
  BY <1>9 DEF Runs, SameView, SamePool
<1> QED BY <1>5, <1>6, <1>7, <1>10 DEF less

\* The first half of a conflict leaves the second to do.
LEMMA AsideFacts ==
    ASSUME run \in Runs, NEW p \in Paths
    PROVE  LET s == [run EXCEPT !.todo[p] = "fetch"] IN
               /\ s \in Runs /\ s.todo = [run.todo EXCEPT ![p] = "fetch"]
               /\ SameView(run, s) /\ SamePool(run, s) /\ s.touched = run.touched
<1> DEFINE todo == [run.todo EXCEPT ![p] = "fetch"]
<1>1. todo \in [Paths -> Actions] BY DEF Runs, Actions
<1>2. [run EXCEPT !.todo[p] = "fetch"] = [run EXCEPT !.todo = todo] OBVIOUS
<1> HIDE DEF todo
<1>3. [run EXCEPT !.todo = todo] \in Runs BY <1>1 DEF Runs
<1> QED BY <1>2, <1>3 DEF Runs, SameView, SamePool, todo

\* ... and the second half asks for the refresh of the directory.
LEMMA FetchedFacts ==
    ASSUME run \in Runs, NEW p \in Paths
    PROVE  LET s == [Done(p) EXCEPT !.conflicts = TRUE, !.touched = @ \cup {ParentDir(p)}] IN
               /\ s \in Runs /\ s.todo = Less(p)
               /\ SameView(run, s) /\ SamePool(run, s)
               /\ s.touched = run.touched \cup {ParentDir(p)}
<1> DEFINE less == Less(p)
           touched == run.touched \cup {ParentDir(p)}
<1>1. less \in [Paths -> Actions] BY DEF Runs, Less, Actions
<1>2. touched \in SUBSET (Paths \cup {Root}) BY ParentFacts DEF Runs
<1>3. [Done(p) EXCEPT !.conflicts = TRUE, !.touched = @ \cup {ParentDir(p)}]
          = [run EXCEPT !.todo = less, !.conflicts = TRUE, !.touched = touched]
  BY DEF Done, Less, Runs
<1> HIDE DEF less, touched
<1>4. [run EXCEPT !.todo = less, !.conflicts = TRUE, !.touched = touched] \in Runs
  BY <1>1, <1>2 DEF Runs
<1> QED BY <1>3, <1>4 DEF Runs, SameView, SamePool, less, touched

\* A pool keeps account of what it transferred.
LEMMA TransferredFacts ==
    ASSUME run \in Runs, NEW p \in Paths, NEW good \in BOOLEAN
    PROVE  LET s == Transferred(p, good) IN
               /\ s \in Runs /\ s.todo = Less(p)
               /\ SameView(run, s) /\ s.touched = run.touched
               /\ s.ok = IF good THEN run.ok \cup {p} ELSE run.ok
               /\ s.failed = IF good THEN run.failed ELSE run.failed \cup {p}
<1> DEFINE less == Less(p)
           ok == run.ok \cup {p}
           failed == run.failed \cup {p}
<1>1. less \in [Paths -> Actions] BY DEF Runs, Less, Actions
<1>2. ok \in SUBSET Paths /\ failed \in SUBSET Paths BY DEF Runs
<1>3. /\ good => Transferred(p, good) = [run EXCEPT !.todo = less, !.ok = ok]
      /\ ~good => Transferred(p, good)
                      = [run EXCEPT !.todo = less, !.failed = failed, !.errors = TRUE]
  BY DEF Transferred, Done, Less, Runs
<1> HIDE DEF less, ok, failed
<1>4. /\ [run EXCEPT !.todo = less, !.ok = ok] \in Runs
      /\ [run EXCEPT !.todo = less, !.failed = failed, !.errors = TRUE] \in Runs
  BY <1>1, <1>2 DEF Runs
<1>5. CASE good
  <2>1. Transferred(p, good) = [run EXCEPT !.todo = less, !.ok = ok] BY <1>3, <1>5
  <2> QED BY <1>4, <1>5, <2>1 DEF Runs, SameView, less, ok
<1>6. CASE ~good
  <2>1. Transferred(p, good) = [run EXCEPT !.todo = less, !.failed = failed, !.errors = TRUE]
    BY <1>3, <1>6
  <2> QED BY <1>4, <1>6, <2>1 DEF Runs, SameView, less, failed
<1> QED BY <1>5, <1>6

\* A pool opens with empty accounts.
LEMMA OpenPoolFacts ==
    ASSUME run \in Runs, NEW phase \in Phases
    PROVE  LET s == OpenPool(phase) IN
               /\ s \in Runs /\ s.phase = phase /\ s.todo = run.todo /\ s.touched = run.touched
               /\ s.complete = run.complete /\ s.cancelled = run.cancelled
               /\ s.seen = run.seen /\ s.scan = run.scan /\ s.ok = {} /\ s.failed = {}
<1> DEFINE none == {}
<1>1. none \in SUBSET Paths OBVIOUS
<1>2. OpenPool(phase) = [run EXCEPT !.phase = phase, !.ok = none, !.failed = none]
  BY DEF OpenPool
<1> HIDE DEF none
<1>3. [run EXCEPT !.phase = phase, !.ok = none, !.failed = none] \in Runs BY <1>1 DEF Runs
<1> QED BY <1>2, <1>3 DEF Runs, none

\* ... and closes with the directories to refresh.
LEMMA ClosePoolFacts ==
    ASSUME run \in Runs, NEW phase, NEW action, NEW next \in Phases, ClosePool(phase, action, next)
    PROVE  /\ run' \in Runs /\ run'.phase = next
           /\ run'.complete = run.complete /\ run'.cancelled = run.cancelled
           /\ run'.seen = run.seen /\ run'.scan = run.scan /\ run'.ok = {} /\ run'.failed = {}
           /\ run'.touched = run.touched \cup {ParentDir(p) : p \in run.ok}
           /\ run'.todo = [p \in Paths |-> IF run.todo[p] = action THEN "none" ELSE run.todo[p]]
<1> DEFINE touched == run.touched \cup {ParentDir(p) : p \in run.ok}
           todo == [p \in Paths |-> IF run.todo[p] = action THEN "none" ELSE run.todo[p]]
           pool == OpenPool(next)
<1>1. touched \in SUBSET (Paths \cup {Root}) BY ParentFacts DEF Runs
<1>2. todo \in [Paths -> Actions] BY DEF Runs, Actions
<1>3. /\ pool \in Runs /\ pool.phase = next /\ pool.todo = run.todo
      /\ pool.touched = run.touched
      /\ pool.complete = run.complete /\ pool.cancelled = run.cancelled
      /\ pool.seen = run.seen /\ pool.scan = run.scan /\ pool.ok = {} /\ pool.failed = {}
  BY OpenPoolFacts
<1>4. run' = [pool EXCEPT !.touched = @ \cup {ParentDir(p) : p \in run.ok}, !.todo = todo]
  BY DEF ClosePool
<1> HIDE DEF pool, todo
<1>5. run' = [pool EXCEPT !.touched = touched, !.todo = todo] BY <1>3, <1>4 DEF Runs
<1> HIDE DEF touched
<1>6. run' \in Runs BY <1>1, <1>2, <1>3, <1>5 DEF Runs
<1> QED BY <1>3, <1>5, <1>6 DEF Runs, touched, todo

\* No run is a run with nothing to do.
LEMMA NoRunFacts ==
    /\ NoRun \in Runs /\ NoRun.phase = "idle" /\ NoRun.todo = [p \in Paths |-> "none"]
    /\ NoRun.seen = [p \in Paths |-> NotListed] /\ NoRun.scan = [p \in Paths |-> Absent]
    /\ NoRun.ok = {} /\ NoRun.failed = {} /\ NoRun.touched = {} /\ ~NoRun.cancelled
<1>1. 0 \in Versions /\ 0 \in Ids BY BoundsAssumption, TreeAssumption DEF Versions, Ids
<1>2. NotListed \in Listings BY <1>1 DEF NotListed, Listings
<1> DEFINE seen == [p \in Paths |-> NotListed]
           scan == [p \in Paths |-> Absent]
           todo == [p \in Paths |-> "none"]
           from == [p \in Paths |-> Root]
<1>3. /\ seen \in [Paths -> Listings] /\ scan \in [Paths -> Nodes]
      /\ todo \in [Paths -> Actions] /\ from \in [Paths -> Paths \cup {Root}]
  BY <1>2, NodesHold DEF Actions
<1>4. NoRun = [phase |-> "idle", complete |-> FALSE, seen |-> seen, scan |-> scan, todo |-> todo,
               from |-> from, ok |-> {}, failed |-> {}, touched |-> {}, errors |-> FALSE,
               conflicts |-> FALSE, cancelled |-> FALSE]
  BY DEF NoRun, Nothing
<1> HIDE DEF seen, scan, todo, from
<1>5. NoRun \in Runs BY <1>3, <1>4 DEF Runs, Phases
<1> QED BY <1>4, <1>5 DEF seen, scan, todo

\* What the journal keeps of a path.
LEMMA EntryFacts ==
    /\ NotKnown \in Entries /\ ~NotKnown.here /\ ~NotKnown.dir
    /\ NotKnown.stamp = 0 /\ NotKnown.etag = 0
    /\ \A dir \in BOOLEAN, stamp \in Versions, etag \in Versions, id \in Ids :
           /\ Known(dir, stamp, etag, id) \in Entries /\ Known(dir, stamp, etag, id).here
           /\ Known(dir, stamp, etag, id).dir = dir /\ Known(dir, stamp, etag, id).stamp = stamp
           /\ Known(dir, stamp, etag, id).etag = etag
    /\ NotListed \in Listings /\ ~NotListed.here /\ ~NotListed.dir /\ NotListed.etag = 0
    /\ \A dir \in BOOLEAN, etag \in Versions, id \in Ids :
           /\ Listed(dir, etag, id) \in Listings /\ Listed(dir, etag, id).here
           /\ Listed(dir, etag, id).dir = dir /\ Listed(dir, etag, id).etag = etag
<1>1. 0 \in Versions /\ 0 \in Ids BY BoundsAssumption, TreeAssumption DEF Versions, Ids
<1> QED BY <1>1 DEF NotKnown, NotListed, Known, Listed, Entries, Listings

\* What a run records of a path.
LEMMA RecordedFacts ==
    ASSUME journal \in [Paths -> Entries], run \in Runs, NEW p \in Paths
    PROVE  /\ Recorded(p) \in [Paths -> Entries]
           /\ \A q \in Paths \ {p} : Recorded(p)[q] = journal[q]
           /\ Recorded(p)[p].here /\ Recorded(p)[p].etag = run.seen[p].etag
           /\ Recorded(p)[p].stamp = IF Present(run.scan[p]) THEN run.scan[p].ver
                                     ELSE run.seen[p].etag
           /\ Recorded(p)[p].dir = IF Present(run.scan[p]) THEN IsDir(run.scan[p])
                                   ELSE run.seen[p].dir
<1>1. run.scan[p] \in Nodes /\ run.seen[p] \in Listings BY DEF Runs
<1> DEFINE dir == IF Present(run.scan[p]) THEN IsDir(run.scan[p]) ELSE run.seen[p].dir
           stamp == IF Present(run.scan[p]) THEN run.scan[p].ver ELSE run.seen[p].etag
           etag == run.seen[p].etag
           id == run.seen[p].id
           row == Known(dir, stamp, etag, id)
<1>2. dir \in BOOLEAN /\ stamp \in Versions /\ etag \in Versions /\ id \in Ids
  BY <1>1, NodeFacts DEF Listings, IsDir
<1>3. Recorded(p) = [journal EXCEPT ![p] = row] BY DEF Recorded
<1> HIDE DEF dir, stamp, etag, id
<1>4. row \in Entries /\ row.here /\ row.dir = dir /\ row.stamp = stamp /\ row.etag = etag
  BY <1>2, EntryFacts
<1> HIDE DEF row
<1> QED BY <1>3, <1>4 DEF dir, stamp, etag

\* A planned action is an action.
LEMMA DecisionType ==
    ASSUME NEW l, NEW r, NEW j, NEW complete, NEW moved
    PROVE  Decision(l, r, j, complete, moved)
               \in {"none", "mkdirLocal", "mkdirRemote", "conflict", "record", "deleteLocal",
                    "deleteRemote", "download", "upload"}
<1>1. Compared(l, r, j) \in {"record", "conflict", "download", "upload"} BY DEF Compared
<1>2. FirstSeen(l, r) \in {"record", "conflict"} BY DEF FirstSeen
<1>3. OnlyLocal(l, j, complete, moved) \in {"mkdirRemote", "upload", "deleteLocal", "none"}
  BY DEF OnlyLocal, Added
<1>4. OnlyRemote(r, j, complete) \in {"mkdirLocal", "download", "deleteRemote", "none"}
  BY DEF OnlyRemote
<1> QED BY <1>1, <1>2, <1>3, <1>4 DEF Decision

\* What MakePlan makes of a run.
Planned(q) ==
    LET whole == Plan(local, run.seen, journal, run.complete)
    IN  IF Blacklisted(whole, q) THEN "none" ELSE whole[q]

\* What MakePlan makes of a run: nothing, or a plan for what is on disk.
LEMMA PlanFacts ==
    ASSUME TypeInv, MakePlan
    PROVE  /\ UNCHANGED <<disk, server, db, users>>
           /\ run.phase = "listed"
           /\ \/ run' = NoRun
              \/ /\ run' \in Runs /\ run'.phase = "loop" /\ run'.seen = run.seen
                 /\ run'.complete = run.complete /\ run'.cancelled = run.cancelled
                 /\ run'.ok = run.ok /\ run'.failed = run.failed /\ run'.touched = run.touched
                 /\ run'.scan = local /\ run'.todo = [q \in Paths |-> Planned(q)]
                 /\ run'.from \in [Paths -> Paths \cup {Root}]
                 /\ \A q \in Paths :
                        LET sources == MoveSources(q, local, run.seen, journal, run.complete)
                        IN  sources # {} => run'.from[q] \in sources
<1>1. UNCHANGED <<disk, server, db, users>> /\ run.phase = "listed" BY DEF MakePlan
<1> DEFINE Sources(q) == MoveSources(q, local, run.seen, journal, run.complete)
           from == [q \in Paths |-> IF Sources(q) = {} THEN Root ELSE CHOOSE s \in Sources(q) : TRUE]
           todo == [q \in Paths |-> Planned(q)]
<1>2. run' = NoRun \/ run' = [run EXCEPT !.phase = "loop", !.scan = local, !.todo = todo,
                                         !.from = from]
  BY DEF MakePlan, Planned
<1>3. \A q \in Paths : Sources(q) \subseteq Paths BY DEF MoveSources
<1>4. from \in [Paths -> Paths \cup {Root}] BY <1>3
<1>5. todo \in [Paths -> Actions]
  <2> SUFFICES ASSUME NEW q \in Paths PROVE Planned(q) \in Actions OBVIOUS
  <2>1. Plan(local, run.seen, journal, run.complete)[q] \in Actions
    <3> DEFINE moved == \E s \in Paths : q \in Sources(s)
               decision == Decision(local[q], run.seen[q], journal[q], run.complete, moved)
    <3>1. Plan(local, run.seen, journal, run.complete)[q] \in {"moveLocal", "none", decision}
      BY DEF Plan
    <3>2. decision \in Actions BY DecisionType DEF Actions
    <3> QED BY <3>1, <3>2 DEF Actions
  <2> QED BY <2>1 DEF Planned, Actions
<1>6. \A q \in Paths : Sources(q) # {} => from[q] \in Sources(q) OBVIOUS
<1> HIDE DEF from, todo
<1>7. run \in Runs /\ local \in [Paths -> Nodes] BY DEF TypeInv
<1>8. ASSUME run' # NoRun
      PROVE  /\ run' \in Runs /\ run'.phase = "loop" /\ run'.seen = run.seen
             /\ run'.complete = run.complete /\ run'.cancelled = run.cancelled
             /\ run'.ok = run.ok /\ run'.failed = run.failed /\ run'.touched = run.touched
             /\ run'.scan = local /\ run'.todo = todo /\ run'.from = from
  <2>1. run' = [run EXCEPT !.phase = "loop", !.scan = local, !.todo = todo, !.from = from]
    BY <1>2, <1>8
  <2>2. run' \in Runs BY <1>4, <1>5, <1>7, <2>1 DEF Runs, Phases
  <2> QED BY <1>7, <2>1, <2>2 DEF Runs
<1> QED BY <1>1, <1>4, <1>6, <1>8 DEF todo

\* What Discover makes of a run.
LEMMA DiscoverFacts ==
    ASSUME TypeInv, Discover
    PROVE  /\ UNCHANGED <<disk, server, db, exit, scenario, clock, mine, gone>>
           /\ run.phase = "idle" /\ run' \in Runs /\ run'.phase = "listed"
           /\ run'.todo = [p \in Paths |-> "none"] /\ run'.scan = [p \in Paths |-> Absent]
           /\ run'.ok = {} /\ run'.failed = {} /\ run'.touched = {}
           /\ \/ run'.seen = FromJournal /\ run'.complete /\ ~run'.cancelled
              \/ \E unread \in SUBSET ({Root} \cup Paths) :
                     /\ run'.seen = ServerListing(unread) /\ (run'.complete <=> unread = {})
                     /\ ~run'.cancelled /\ (CanFail("listing") \/ unread = {})
              \/ /\ CanFail("cancel") /\ run'.seen = [p \in Paths |-> NotListed]
                 /\ run'.cancelled
<1>1. /\ UNCHANGED <<disk, server, db, exit, scenario, clock, mine, gone>>
      /\ run.phase = "idle"
  BY DEF Discover
<1> DEFINE Becomes(seen, complete) ==
               [NoRun EXCEPT !.phase = "listed", !.seen = seen, !.complete = complete]
<1>2. \/ run' = Becomes(FromJournal, TRUE)
      \/ \E unread \in SUBSET ({Root} \cup Paths) :
             /\ run' = Becomes(ServerListing(unread), unread = {})
             /\ CanFail("listing") \/ unread = {}
      \/ /\ CanFail("cancel")
         /\ run' = [NoRun EXCEPT !.phase = "listed", !.cancelled = TRUE]
  <2>1. {{}} \subseteq SUBSET ({Root} \cup Paths) OBVIOUS
  <2>2. SUBSET ({Root} \cup {p \in Paths : IsDir(remote[p])}) \subseteq SUBSET ({Root} \cup Paths)
    OBVIOUS
  <2> QED BY <2>1, <2>2 DEF Discover
<1>3. ASSUME NEW seen \in [Paths -> Listings], NEW complete \in BOOLEAN,
             run' = Becomes(seen, complete)
      PROVE  /\ run' \in Runs /\ run'.phase = "listed"
             /\ run'.todo = [p \in Paths |-> "none"] /\ run'.scan = [p \in Paths |-> Absent]
             /\ run'.ok = {} /\ run'.failed = {} /\ run'.touched = {}
             /\ run'.seen = seen /\ (run'.complete <=> complete) /\ ~run'.cancelled
  <2> DEFINE no == NoRun
  <2>1. /\ no \in Runs /\ no.todo = [p \in Paths |-> "none"] /\ no.scan = [p \in Paths |-> Absent]
        /\ no.ok = {} /\ no.failed = {} /\ no.touched = {} /\ ~no.cancelled
    BY NoRunFacts
  <2>2. run' = [no EXCEPT !.phase = "listed", !.seen = seen, !.complete = complete] BY <1>3
  <2> HIDE DEF no
  <2>3. run' \in Runs BY <2>1, <2>2 DEF Runs, Phases
  <2> QED BY <2>1, <2>2, <2>3 DEF Runs
<1>4. FromJournal \in [Paths -> Listings]
  <2> SUFFICES ASSUME NEW p \in Paths
               PROVE (IF journal[p].here THEN Listed(journal[p].dir, journal[p].etag, journal[p].id)
                      ELSE NotListed) \in Listings
    BY DEF FromJournal
  <2>1. journal[p] \in Entries BY DEF TypeInv
  <2>2. journal[p].dir \in BOOLEAN /\ journal[p].etag \in Versions /\ journal[p].id \in Ids
    BY <2>1 DEF Entries
  <2> QED BY <2>2, EntryFacts
<1>5. ASSUME NEW unread PROVE ServerListing(unread) \in [Paths -> Listings]
  <2> SUFFICES ASSUME NEW p \in Paths
               PROVE (IF Present(remote[p]) /\ ({Root} \cup Above(p)) \cap unread = {}
                      THEN Listed(IsDir(remote[p]), remote[p].ver, ids[p]) ELSE NotListed)
                         \in Listings
    BY DEF ServerListing
  <2>1. remote[p] \in Nodes /\ ids[p] \in Ids BY DEF TypeInv
  <2>2. IsDir(remote[p]) \in BOOLEAN /\ remote[p].ver \in Versions BY <2>1, NodeFacts DEF IsDir
  <2> QED BY <2>1, <2>2, EntryFacts
<1>6. CASE run' = Becomes(FromJournal, TRUE) BY <1>1, <1>3, <1>4, <1>6
<1>7. CASE \E unread \in SUBSET ({Root} \cup Paths) :
             /\ run' = Becomes(ServerListing(unread), unread = {})
             /\ CanFail("listing") \/ unread = {}
  <2>1. PICK unread \in SUBSET ({Root} \cup Paths) :
             /\ run' = Becomes(ServerListing(unread), unread = {})
             /\ CanFail("listing") \/ unread = {}
    BY <1>7
  <2>2. (unread = {}) \in BOOLEAN OBVIOUS
  <2> HIDE DEF Becomes
  <2> QED BY <1>1, <1>3, <1>5, <2>1, <2>2
<1>8. CASE CanFail("cancel") /\ run' = [NoRun EXCEPT !.phase = "listed", !.cancelled = TRUE]
  <2> DEFINE no == NoRun
  <2>1. /\ no \in Runs /\ no.todo = [p \in Paths |-> "none"] /\ no.scan = [p \in Paths |-> Absent]
        /\ no.ok = {} /\ no.failed = {} /\ no.touched = {} /\ no.seen = [p \in Paths |-> NotListed]
    BY NoRunFacts
  <2>2. run' = [no EXCEPT !.phase = "listed", !.cancelled = TRUE] BY <1>8
  <2> HIDE DEF no
  <2>3. run' \in Runs BY <2>1, <2>2 DEF Runs, Phases
  <2> QED BY <1>1, <1>8, <2>1, <2>2, <2>3 DEF Runs
<1> QED BY <1>2, <1>6, <1>7, <1>8

-----------------------------------------------------------------------------
(* The steps of a run, seen from the disk, the server and the journal.     *)

\* A file in place of p and the directories above it, or the directory p.
LEMMA PlacedFacts ==
    ASSUME TypeInv, NEW p \in Paths, NEW node \in Nodes
    PROVE  LET tree == [WithParents(local, p) EXCEPT ![p] = node] IN
               /\ tree \in [Paths -> Nodes] /\ tree[p] = node
               /\ \A q \in Paths \ {p} : tree[q] = WithParents(local, p)[q]
<1>1. WithParents(local, p) \in [Paths -> Nodes] BY ParentsMade DEF TypeInv
<1> DEFINE made == WithParents(local, p)
<1> HIDE DEF made
<1> QED BY <1>1 DEF made

\* What the server stores is a version under an id.
LEMMA PutFacts ==
    ASSUME TypeInv, NEW p \in Paths, NEW v \in Versions \ {0}, ServerPut(p, v)
    PROVE  /\ remote' \in [Paths -> Nodes] /\ ids' \in [Paths -> Ids] /\ rootKnown' = FALSE
           /\ remote'[p] = File(v) /\ \A q \in Paths \ {p} : remote'[q] = remote[q]
<1>1. FreshId \in Ids BY FreshIdExists
<1>2. remote \in [Paths -> Nodes] /\ ids \in [Paths -> Ids] BY DEF TypeInv
<1>3. File(v) \in Nodes BY NodesHold
<1> DEFINE id == FreshId
<1> HIDE DEF id
<1>4. ids' = [ids EXCEPT ![p] = IF IsFile(remote[p]) THEN @ ELSE id] BY DEF ServerPut, id
<1>5. ids' \in [Paths -> Ids] BY <1>1, <1>2, <1>4 DEF id
<1> QED BY <1>2, <1>3, <1>5 DEF ServerPut

\* What it removes is a subtree.
LEMMA RemoveFacts ==
    ASSUME TypeInv, NEW p \in Paths, ServerRemove(p)
    PROVE  /\ remote' \in [Paths -> Nodes] /\ ids' \in [Paths -> Ids] /\ rootKnown' \in BOOLEAN
           /\ \A q \in Paths : remote'[q] = IF q \in Subtree(p) THEN Absent ELSE remote[q]
<1>1. remote \in [Paths -> Nodes] /\ ids \in [Paths -> Ids] /\ rootKnown \in BOOLEAN BY DEF TypeInv
<1>2. remote' = Without(remote, p) BY DEF ServerRemove
<1>3. 0 \in Ids BY <1>1 DEF Ids, TypeInv
<1> QED BY <1>1, <1>2, <1>3, SubtreeRemoved DEF ServerRemove

\* A row forgotten.
LEMMA ForgottenFacts ==
    ASSUME TypeInv, NEW p \in Paths
    PROVE  /\ Forgotten(p) \in [Paths -> Entries] /\ ~Forgotten(p)[p].here
           /\ Forgotten(p)[p] = NotKnown
           /\ \A q \in Paths \ {p} : Forgotten(p)[q] = journal[q]
<1>1. journal \in [Paths -> Entries] BY DEF TypeInv
<1>2. NotKnown \in Entries /\ ~NotKnown.here BY EntryFacts
<1> QED BY <1>1, <1>2 DEF Forgotten

\* The row that follows an effect, or the end of the process before it.
LEMMA JournaledFacts ==
    ASSUME TypeInv, NEW p \in Paths, NEW rows \in [Paths -> Entries], Journaled(p, rows)
    PROVE  /\ run' \in Runs /\ journal' \in [Paths -> Entries] /\ interrupts' \in 0..MaxInterrupts
           /\ \/ /\ journal' = rows /\ run'.todo = Less(p)
                 /\ SameView(run, run') /\ SamePool(run, run') /\ run'.touched = run.touched
              \/ CanFail("crash") /\ journal' = journal /\ run' = NoRun
<1>1. CASE journal' = rows /\ run' = Done(p) /\ UNCHANGED interrupts
  <2>1. run \in Runs /\ interrupts \in 0..MaxInterrupts BY DEF TypeInv
  <2> QED BY <1>1, <2>1, DoneFacts
<1>2. CASE /\ CanFail("crash") /\ interrupts < MaxInterrupts
           /\ run' = NoRun
           /\ interrupts' = interrupts + 1
           /\ UNCHANGED journal
  <2>1. journal \in [Paths -> Entries] /\ interrupts \in 0..MaxInterrupts BY DEF TypeInv
  <2>2. MaxInterrupts \in Nat BY BoundsAssumption
  <2>3. NoRun \in Runs BY NoRunFacts
  <2>4. interrupts' \in 0..MaxInterrupts BY <1>2, <2>1, <2>2
  <2> QED BY <1>2, <2>1, <2>3, <2>4
<1> QED BY <1>1, <1>2 DEF Journaled

\* A file renamed on disk.
LEMMA MovedFacts ==
    ASSUME TypeInv, NEW p \in Paths, NEW from \in Paths, from # p
    PROVE  LET tree == [WithParents(local, p) EXCEPT ![p] = local[from], ![from] = Absent] IN
               /\ tree \in [Paths -> Nodes] /\ tree[p] = local[from] /\ tree[from] = Absent
               /\ \A q \in Paths \ {p, from} : tree[q] = WithParents(local, p)[q]
<1>1. WithParents(local, p) \in [Paths -> Nodes] /\ local[from] \in Nodes BY ParentsMade DEF TypeInv
<1>2. Absent \in Nodes BY NodesHold
<1> DEFINE made == WithParents(local, p)
<1> HIDE DEF made
<1> QED BY <1>1, <1>2 DEF made

\* Its row renamed.
LEMMA RenamedFacts ==
    ASSUME TypeInv, NEW p \in Paths, NEW from \in Paths
    PROVE  /\ Renamed(p, from) \in [Paths -> Entries]
           /\ \A q \in Paths \ {p, from} : Renamed(p, from)[q] = journal[q]
<1>1. journal \in [Paths -> Entries] BY DEF TypeInv
<1>2. NotKnown \in Entries BY EntryFacts
<1> QED BY <1>1, <1>2 DEF Renamed

-----------------------------------------------------------------------------
(* The type invariant.                                                     *)

\* A rename takes a file that the server no longer lists from another path.
MovesInv ==
    \A p \in Paths :
        run.todo[p] = "moveLocal" =>
            /\ run.from[p] \in Paths \ {p}
            /\ ~run.seen[run.from[p]].here

\* The types hold at the start.
LEMMA TypeInit == Init => TypeInv /\ MovesInv
<1> SUFFICES ASSUME Init PROVE TypeInv /\ MovesInv OBVIOUS
<1>1. PICK tree \in {Nothing(Absent), [p \in Paths |-> InitialNode(p)]} :
          LET Id(p) == IF IsFile(tree[p]) THEN Place(p) ELSE 0
          IN  /\ local = tree /\ aside = {}
              /\ remote = tree /\ ids = [p \in Paths |-> Id(p)]
              /\ journal = [p \in Paths |->
                     IF Present(tree[p])
                     THEN Known(IsDir(tree[p]), tree[p].ver, tree[p].ver, Id(p))
                     ELSE NotKnown]
              /\ failures = Nothing(NoFailure)
              /\ rootKnown \in {FALSE, \E p \in Paths : Present(tree[p])}
              /\ run = NoRun /\ exit = "None"
              /\ clock = 0 /\ interrupts = 0 /\ mine = {} /\ gone = [local |-> {}, remote |-> {}]
  BY DEF Init
<1>2. /\ scenario \in Scenarios /\ scenario.edits \in 0..MaxEdits
      /\ MaxEdits \in Nat /\ MaxInterrupts \in Nat /\ BlacklistAfter \in Nat
  BY BoundsAssumption, ScenariosAssumption DEF Init
<1>3. /\ \A p \in Paths : Place(p) \in 1..Len(Tree)
      /\ Len(Tree) \in Nat
  BY PathFacts, TreeAssumption
<1>4. \A p \in Paths : Place(p) \in Versions \ {0} /\ Place(p) \in Ids
  BY <1>2, <1>3 DEF Versions, Ids
<1>5. tree \in [Paths -> Nodes]
  <2>1. \A p \in Paths : InitialNode(p) \in Nodes BY <1>4, NodesHold DEF InitialNode
  <2> QED BY <2>1, NodesHold DEF Nothing
<1>6. 0 \in Versions /\ 0 \in Ids BY <1>2, <1>3 DEF Versions, Ids
<1>7. ids \in [Paths -> Ids] BY <1>1, <1>4, <1>6
<1>8. journal \in [Paths -> Entries]
  <2> SUFFICES ASSUME NEW p \in Paths
               PROVE (IF Present(tree[p])
                      THEN Known(IsDir(tree[p]), tree[p].ver, tree[p].ver,
                                 IF IsFile(tree[p]) THEN Place(p) ELSE 0)
                      ELSE NotKnown) \in Entries
    BY <1>1
  <2>1. tree[p].ver \in Versions /\ IsDir(tree[p]) \in BOOLEAN BY <1>5, NodeFacts DEF IsDir
  <2>2. (IF IsFile(tree[p]) THEN Place(p) ELSE 0) \in Ids BY <1>4, <1>6
  <2> QED BY <2>1, <2>2, EntryFacts
<1>9. failures \in [Paths -> Failures]
  <2>1. NoFailure \in Failures BY <1>2, <1>6 DEF NoFailure, Failures
  <2> QED BY <1>1, <2>1 DEF Nothing
<1>10. rootKnown \in BOOLEAN /\ run \in Runs BY <1>1, NoRunFacts
<1>11. clock \in 0..scenario.edits /\ interrupts \in 0..MaxInterrupts BY <1>1, <1>2
<1>12. TypeInv BY <1>1, <1>2, <1>5, <1>7, <1>8, <1>9, <1>10, <1>11 DEF TypeInv
<1>13. MovesInv BY <1>1, NoRunFacts DEF MovesInv
<1> QED BY <1>12, <1>13

\* What an input leaves alone.
LEMMA MayFacts ==
    ASSUME TypeInv, NEW input, NEW side, May(input, side)
    PROVE  /\ clock' \in 0..scenario.edits /\ clock' = clock + 1
           /\ UNCHANGED <<scenario, aside, journal, failures, run, exit, interrupts>>
           /\ Fresh \in Versions \ {0} /\ Fresh = Len(Tree) + clock + 1
           /\ run.phase = "idle" \/ side \in scenario.concurrent
           /\ input \in scenario.inputs
BY FreshFacts DEF May

\* What the users remove is among the paths.
LEMMA GoneFacts ==
    ASSUME TypeInv, NEW p \in Paths, NEW tree, NEW side \in {"local", "remote"}
    PROVE  /\ Created(p, tree) \in [local : SUBSET Paths, remote : SUBSET Paths]
           /\ Removed(p, side) \in [local : SUBSET Paths, remote : SUBSET Paths]
<1>1. Subtree(p) \subseteq Paths BY DEF Subtree, Below
<1> QED BY <1>1 DEF TypeInv, Created, Removed

\* ... after what a user does,
LEMMA UserTypes == ASSUME TypeInv, UserStep PROVE TypeInv'
<1>1. ASSUME NEW p \in Paths,
             LocalWrite(p) \/ LocalMkdir(p) \/ LocalDelete(p) \/ RemoteWrite(p)
                \/ RemoteMkdir(p) \/ RemoteDelete(p) \/ \E q \in Paths \ {p} : RemoteMove(p, q)
      PROVE  TypeInv'
  <2>1. /\ clock' \in 0..scenario.edits /\ Fresh \in Versions \ {0}
        /\ UNCHANGED <<scenario, aside, journal, failures, run, exit, interrupts>>
    BY <1>1, MayFacts DEF LocalWrite, LocalMkdir, LocalDelete, RemoteWrite, RemoteMkdir,
                          RemoteDelete, RemoteMove
  <2>2. /\ local \in [Paths -> Nodes] /\ remote \in [Paths -> Nodes] /\ ids \in [Paths -> Ids]
        /\ rootKnown \in BOOLEAN /\ mine \subseteq Versions
        /\ gone \in [local : SUBSET Paths, remote : SUBSET Paths]
    BY DEF TypeInv
  <2>3. File(Fresh) \in Nodes /\ Directory \in Nodes /\ Absent \in Nodes BY <2>1, NodesHold
  <2>4. 0 \in Ids BY <2>2 DEF Ids, TypeInv
  <2>5. /\ local' \in [Paths -> Nodes] /\ remote' \in [Paths -> Nodes] /\ ids' \in [Paths -> Ids]
        /\ rootKnown' \in BOOLEAN /\ mine' \subseteq Versions
        /\ gone' \in [local : SUBSET Paths, remote : SUBSET Paths]
    <3>1. CASE LocalWrite(p)
      <4>1. local' = [local EXCEPT ![p] = File(Fresh)] /\ UNCHANGED <<server, rootKnown>>
        BY <3>1 DEF LocalWrite
      <4>2. mine' = (mine \ VersionsAt(local, {p})) \cup {Fresh} /\ gone' = Created(p, local)
        BY <3>1 DEF LocalWrite
      <4>3. mine' \subseteq Versions BY <4>2, <2>1, <2>2
      <4>4. gone' \in [local : SUBSET Paths, remote : SUBSET Paths] BY <4>2, GoneFacts
      <4> QED BY <4>1, <4>3, <4>4, <2>2, <2>3 DEF server
    <3>2. CASE LocalMkdir(p) BY <3>2, <2>1, <2>2, <2>3, GoneFacts DEF LocalMkdir, server
    <3>3. CASE LocalDelete(p)
      BY <3>3, <2>1, <2>2, <2>3, GoneFacts, SubtreeRemoved DEF LocalDelete, server
    <3>4. CASE RemoteWrite(p)
      <4>1. ServerPut(p, Fresh) /\ UNCHANGED local /\ gone' = Created(p, remote)
        BY <3>4 DEF RemoteWrite
      <4>2. mine' \subseteq mine BY <3>4 DEF RemoteWrite
      <4>3. remote' \in [Paths -> Nodes] /\ ids' \in [Paths -> Ids] /\ rootKnown' = FALSE
        BY <4>1, <2>1, PutFacts
      <4>4. gone' \in [local : SUBSET Paths, remote : SUBSET Paths] BY <4>1, GoneFacts
      <4> QED BY <4>1, <4>2, <4>3, <4>4, <2>2
    <3>5. CASE RemoteMkdir(p) 
      <4>1. gone' = Created(p, remote) BY <3>5 DEF RemoteMkdir
      <4>2. gone' \in [local : SUBSET Paths, remote : SUBSET Paths] BY <4>1, GoneFacts
      <4> QED BY <3>5, <4>2, <2>1, <2>2, <2>3 DEF RemoteMkdir
    <3>6. CASE RemoteDelete(p) 
      <4>1. ServerRemove(p) /\ UNCHANGED local /\ gone' = Removed(p, "remote")
        BY <3>6 DEF RemoteDelete
      <4>2. mine' \subseteq mine BY <3>6 DEF RemoteDelete
      <4>3. remote' \in [Paths -> Nodes] /\ ids' \in [Paths -> Ids] /\ rootKnown' \in BOOLEAN
        BY <4>1, RemoveFacts
      <4>4. gone' \in [local : SUBSET Paths, remote : SUBSET Paths] BY <4>1, GoneFacts
      <4> QED BY <4>1, <4>2, <4>3, <4>4, <2>2
    <3>7. ASSUME NEW q \in Paths \ {p}, RemoteMove(p, q)
          PROVE  /\ local' \in [Paths -> Nodes] /\ remote' \in [Paths -> Nodes]
                 /\ ids' \in [Paths -> Ids]
                 /\ rootKnown' \in BOOLEAN /\ mine' \subseteq Versions
                 /\ gone' \in [local : SUBSET Paths, remote : SUBSET Paths]
      <4>1. remote' = [remote EXCEPT ![p] = Absent, ![q] = remote[p]] BY <3>7 DEF RemoteMove
      <4>2. ids' = [ids EXCEPT ![p] = 0, ![q] = ids[p]] BY <3>7 DEF RemoteMove
      <4>3. remote' \in [Paths -> Nodes] BY <4>1, <2>2, <2>3
      <4>4. ids' \in [Paths -> Ids] BY <4>2, <2>2, <2>4
      <4>5. gone' \in [local : SUBSET Paths, remote : SUBSET Paths] BY <3>7, <2>2 DEF RemoteMove
      <4>6. UNCHANGED <<local, mine>> /\ rootKnown' = FALSE BY <3>7 DEF RemoteMove
      <4> QED BY <4>3, <4>4, <4>5, <4>6, <2>2
    <3> QED BY <1>1, <3>1, <3>2, <3>3, <3>4, <3>5, <3>6, <3>7
  <2> QED BY <2>1, <2>5 DEF TypeInv
<1> QED BY <1>1 DEF UserStep

\* A run that goes on with less to do, or no run.
Narrows ==
    \/ run' = NoRun
    \/ /\ run'.seen = run.seen /\ run'.from = run.from
       /\ \A p \in Paths : run'.todo[p] \in {run.todo[p], "none", "fetch"}

\* A run with less to do plans no other rename.
LEMMA MovesNarrow == MovesInv /\ Narrows => MovesInv'
<1> SUFFICES ASSUME MovesInv, Narrows PROVE MovesInv' OBVIOUS
<1>1. CASE run' = NoRun BY <1>1, NoRunFacts DEF MovesInv
<1>2. CASE run' # NoRun BY <1>2 DEF MovesInv, Narrows
<1> QED BY <1>1, <1>2

\* An action taken is out of the plan, the others stay.
LEMMA LessFacts ==
    ASSUME run \in Runs, NEW p \in Paths
    PROVE  \A q \in Paths : Less(p)[q] = IF q = p THEN "none" ELSE run.todo[q]
BY DEF Less, Runs

\* The plan narrows at a step that writes a row,
LEMMA JournaledNarrows ==
    ASSUME TypeInv, NEW p \in Paths, NEW rows \in [Paths -> Entries], Journaled(p, rows)
    PROVE  Narrows
<1>1. \/ run'.todo = Less(p) /\ SameView(run, run')
      \/ run' = NoRun
  BY JournaledFacts
<1>2. run \in Runs BY DEF TypeInv
<1> QED BY <1>1, <1>2, LessFacts DEF Narrows, SameView

\* ... and at one that writes none.
LEMMA DoneNarrows ==
    ASSUME TypeInv, NEW p \in Paths,
           \/ run' \in {Done(p), Erred(p), [Done(p) EXCEPT !.conflicts = TRUE]}
           \/ run' = [run EXCEPT !.todo[p] = "fetch"]
           \/ run' = [Done(p) EXCEPT !.conflicts = TRUE, !.touched = @ \cup {ParentDir(p)}]
           \/ \E good \in BOOLEAN : run' = Transferred(p, good)
    PROVE  Narrows /\ run' \in Runs /\ run'.phase = run.phase
<1>1. run \in Runs BY DEF TypeInv
<1>2. run' \in Runs /\ SameView(run, run') /\ run'.todo \in {Less(p), [run.todo EXCEPT ![p] = "fetch"]}
  <2>1. CASE run' \in {Done(p), Erred(p), [Done(p) EXCEPT !.conflicts = TRUE]}
    BY <1>1, <2>1, DoneFacts
  <2>2. CASE run' = [run EXCEPT !.todo[p] = "fetch"] BY <1>1, <2>2, AsideFacts
  <2>3. CASE run' = [Done(p) EXCEPT !.conflicts = TRUE, !.touched = @ \cup {ParentDir(p)}]
    <3> DEFINE s == [Done(p) EXCEPT !.conflicts = TRUE, !.touched = @ \cup {ParentDir(p)}]
    <3>1. s \in Runs /\ s.todo = Less(p) /\ SameView(run, s) BY <1>1, FetchedFacts
    <3>2. run' = s BY <2>3
    <3> QED BY <3>1, <3>2
  <2>4. CASE \E good \in BOOLEAN : run' = Transferred(p, good)
    <3>1. PICK good \in BOOLEAN : run' = Transferred(p, good) BY <2>4
    <3> DEFINE s == Transferred(p, good)
    <3>2. s \in Runs /\ s.todo = Less(p) /\ SameView(run, s) BY <1>1, TransferredFacts
    <3>3. run' = s BY <3>1
    <3> QED BY <3>2, <3>3
  <2> QED BY <2>1, <2>2, <2>3, <2>4
<1>3. run.todo \in [Paths -> Actions] BY <1>1 DEF Runs
<1>4. \A q \in Paths : run'.todo[q] \in {run.todo[q], "none", "fetch"}
  BY <1>1, <1>2, <1>3, LessFacts
<1> QED BY <1>2, <1>4 DEF Narrows, SameView

\* The types of the disk after a step of the plan.
LEMMA DiskTypes ==
    ASSUME TypeInv, NEW p \in Paths
    PROVE  /\ WithParents(local, p) \in [Paths -> Nodes]
           /\ Without(local, p) \in [Paths -> Nodes]
           /\ [WithParents(local, p) EXCEPT ![p] = Directory] \in [Paths -> Nodes]
           /\ Downloaded(p) \in [Paths -> Nodes]
           /\ [local EXCEPT ![p] = Absent] \in [Paths -> Nodes]
           /\ VersionsAt(local, {p}) \subseteq Versions
<1>1. /\ local \in [Paths -> Nodes] /\ remote \in [Paths -> Nodes]
      /\ Directory \in Nodes /\ Absent \in Nodes
  BY NodesHold DEF TypeInv
<1>2. VersionsAt(local, {p}) \subseteq Versions BY <1>1, NodeFacts DEF VersionsAt
<1>3. Downloaded(p) \in [Paths -> Nodes] BY <1>1, PlacedFacts DEF Downloaded
<1> QED BY <1>1, <1>2, <1>3, ParentsMade, SubtreeRemoved, PlacedFacts

\* ... after a step of the plan,
LEMMA PathTypes ==
    ASSUME TypeInv, MovesInv, NEW p \in Paths, PathStep(p)
    PROVE  TypeInv' /\ MovesInv'
<1>1. /\ local \in [Paths -> Nodes] /\ remote \in [Paths -> Nodes] /\ ids \in [Paths -> Ids]
      /\ rootKnown \in BOOLEAN /\ journal \in [Paths -> Entries] /\ run \in Runs
      /\ aside \subseteq Versions /\ interrupts \in 0..MaxInterrupts
  BY DEF TypeInv
<1>2. UNCHANGED <<scenario, failures, exit, clock, mine, gone>>
  BY DEF PathStep, Record, MkdirLocal, MkdirRemote, MoveLocal, SetAside, Fetch, DeleteLocal,
         DeleteRemote, Download, Upload, Takes, db, users
<1>3. Recorded(p) \in [Paths -> Entries] /\ Forgotten(p) \in [Paths -> Entries]
  BY <1>1, RecordedFacts, ForgottenFacts
<1>4. /\ local' \in [Paths -> Nodes] /\ aside' \subseteq Versions
      /\ remote' \in [Paths -> Nodes] /\ ids' \in [Paths -> Ids] /\ rootKnown' \in BOOLEAN
      /\ journal' \in [Paths -> Entries] /\ run' \in Runs /\ interrupts' \in 0..MaxInterrupts
      /\ Narrows
  <2>1. CASE Record(p)
    BY <2>1, <1>1, <1>3, JournaledFacts, JournaledNarrows DEF Record, disk, server
  <2>2. CASE MkdirLocal(p)
    <3>1. UNCHANGED <<aside, server, rootKnown>> BY <2>2 DEF MkdirLocal
    <3>2. local' \in [Paths -> Nodes] BY <2>2, DiskTypes DEF MkdirLocal
    <3>3. Journaled(p, Recorded(p)) \/ (run' = Erred(p) /\ UNCHANGED <<journal, interrupts>>)
      BY <2>2 DEF MkdirLocal
    <3> QED
      BY <3>1, <3>2, <3>3, <1>1, <1>3, JournaledFacts, JournaledNarrows, DoneNarrows DEF server
  <2>3. CASE MkdirRemote(p)
    <3>1. Journaled(p, Recorded(p)) /\ UNCHANGED <<disk, ids>> BY <2>3 DEF MkdirRemote
    <3>2. remote' \in [Paths -> Nodes] /\ rootKnown' \in BOOLEAN
      BY <2>3, <1>1, NodesHold DEF MkdirRemote
    <3> QED BY <3>1, <3>2, <1>1, <1>3, JournaledFacts, JournaledNarrows DEF disk
  <2>4. CASE MoveLocal(p)
    <3> DEFINE from == run.from[p]
    <3>1. from \in Paths \ {p} BY <2>4 DEF MoveLocal, Takes, MovesInv
    <3>2. UNCHANGED <<aside, server, rootKnown>> BY <2>4 DEF MoveLocal
    <3>3. local' \in {WithParents(local, p),
                      [WithParents(local, p) EXCEPT ![p] = local[from], ![from] = Absent]}
      BY <2>4 DEF MoveLocal
    <3>4. \/ run' = Erred(p) /\ UNCHANGED <<journal, interrupts>>
          \/ Journaled(p, Renamed(p, from)) \/ Journaled(p, journal)
      BY <2>4 DEF MoveLocal
    <3>5. local' \in [Paths -> Nodes]
      <4> DEFINE moved == [WithParents(local, p) EXCEPT ![p] = local[from], ![from] = Absent]
      <4>1. moved \in [Paths -> Nodes]
        <5> HIDE DEF from
        <5>1. from \in Paths /\ from # p BY <3>1
        <5> QED BY <5>1, MovedFacts
      <4>2. local' \in {WithParents(local, p), moved} BY <3>3
      <4> HIDE DEF moved
      <4> QED BY <4>1, <4>2, DiskTypes
    <3>6. Renamed(p, from) \in [Paths -> Entries] BY <3>1, RenamedFacts
    <3> HIDE DEF from
    <3>7. /\ journal' \in [Paths -> Entries] /\ run' \in Runs /\ interrupts' \in 0..MaxInterrupts
          /\ Narrows
      BY <3>4, <3>6, <1>1, JournaledFacts, JournaledNarrows, DoneNarrows
    <3> QED BY <3>2, <3>5, <3>7, <1>1 DEF server
  <2>5. CASE SetAside(p)
    <3>1. UNCHANGED <<server, rootKnown, journal, interrupts>> BY <2>5 DEF SetAside
    <3>2. /\ local' \in {local, [local EXCEPT ![p] = Absent]}
          /\ aside' \in {aside, aside \cup VersionsAt(local, {p})}
          /\ run' \in {[Done(p) EXCEPT !.conflicts = TRUE], [run EXCEPT !.todo[p] = "fetch"]}
      BY <2>5 DEF SetAside, disk
    <3> QED BY <3>1, <3>2, <1>1, DiskTypes, DoneNarrows DEF server
  <2>6. CASE Fetch(p)
    <3>1. UNCHANGED <<aside, server, journal, rootKnown, interrupts>> BY <2>6 DEF Fetch
    <3>2. /\ local' \in {[WithParents(local, p) EXCEPT ![p] = Directory], Downloaded(p),
                         WithParents(local, p)}
          /\ run' \in {[Done(p) EXCEPT !.conflicts = TRUE],
                       [Done(p) EXCEPT !.conflicts = TRUE, !.touched = @ \cup {ParentDir(p)}],
                       Erred(p)}
      BY <2>6 DEF Fetch
    <3> QED BY <3>1, <3>2, <1>1, DiskTypes, DoneNarrows DEF server
  <2>7. CASE DeleteLocal(p)
    <3>1. /\ UNCHANGED <<aside, server, rootKnown>> /\ local' \in {local, Without(local, p)}
          /\ Journaled(p, Forgotten(p))
      BY <2>7 DEF DeleteLocal
    <3> QED BY <3>1, <1>1, <1>3, DiskTypes, JournaledFacts, JournaledNarrows DEF server
  <2>8. CASE DeleteRemote(p)
    <3>1. UNCHANGED disk BY <2>8 DEF DeleteRemote
    <3>2. CASE ServerRemove(p) /\ Journaled(p, Forgotten(p))
      BY <3>1, <3>2, <1>1, <1>3, RemoveFacts, JournaledFacts, JournaledNarrows DEF disk
    <3>3. CASE run' = Erred(p) /\ UNCHANGED <<server, rootKnown, journal, interrupts>>
      BY <3>1, <3>3, <1>1, DoneNarrows DEF disk, server
    <3> QED BY <2>8, <3>2, <3>3 DEF DeleteRemote
  <2>9. CASE Download(p)
    <3>1. UNCHANGED <<aside, server, db, interrupts>> BY <2>9 DEF Download, users
    <3>2. /\ local' \in {Downloaded(p), WithParents(local, p)}
          /\ \E good \in BOOLEAN : run' = Transferred(p, good)
      BY <2>9 DEF Download
    <3> QED BY <3>1, <3>2, <1>1, DiskTypes, DoneNarrows DEF server, db
  <2>10. CASE Upload(p)
    <3>1. UNCHANGED <<disk, journal, interrupts>> BY <2>10 DEF Upload, users
    <3>2. \E good \in BOOLEAN : run' = Transferred(p, good) BY <2>10 DEF Upload
    <3>3. CASE UNCHANGED <<server, rootKnown>>
      BY <3>1, <3>2, <3>3, <1>1, DoneNarrows DEF disk, server
    <3>4. CASE CanUpload(p) /\ ServerPut(p, local[p].ver)
      <4>1. local[p].ver \in Versions \ {0} BY <3>4, <1>1, NodeFacts DEF CanUpload
      <4> QED BY <3>1, <3>2, <3>4, <4>1, <1>1, DoneNarrows, PutFacts DEF disk
    <3> QED BY <2>10, <3>3, <3>4 DEF Upload
  <2> QED
    BY <2>1, <2>2, <2>3, <2>4, <2>5, <2>6, <2>7, <2>8, <2>9, <2>10 DEF PathStep
<1>5. MovesInv' BY <1>4, MovesNarrow
<1>6. TypeInv' BY <1>2, <1>4 DEF TypeInv
<1> QED BY <1>5, <1>6

\* A rename is planned from one of the sources.
LEMMA PlanMoves ==
    ASSUME NEW q \in Paths, Planned(q) = "moveLocal"
    PROVE  MoveSources(q, local, run.seen, journal, run.complete) # {}
<1> DEFINE Sources(p) == MoveSources(p, local, run.seen, journal, run.complete)
           moved == \E s \in Paths : q \in Sources(s)
           decision == Decision(local[q], run.seen[q], journal[q], run.complete, moved)
<1>1. Plan(local, run.seen, journal, run.complete)[q] = "moveLocal" BY DEF Planned
<1>2. decision # "moveLocal" BY DecisionType
<1> HIDE DEF decision
<1>3. Sources(q) = {} => Plan(local, run.seen, journal, run.complete)[q] \in {"none", decision}
  BY DEF Plan, decision
<1> QED BY <1>1, <1>2, <1>3

\* ... after every other step of the engine,
LEMMA EngineTypes ==
    ASSUME TypeInv, MovesInv, EngineStep \/ Cancel \/ Crash
    PROVE  TypeInv' /\ MovesInv'
<1>1. /\ run \in Runs /\ interrupts \in 0..MaxInterrupts /\ MaxInterrupts \in Nat
      /\ BlacklistAfter \in Nat
  BY BoundsAssumption DEF TypeInv
<1>2. CASE Discover
  <2>1. /\ UNCHANGED <<disk, server, db, exit, scenario, clock, mine, gone>>
        /\ run' \in Runs /\ run'.todo = [p \in Paths |-> "none"]
    BY <1>2, DiscoverFacts
  <2>2. interrupts' \in 0..MaxInterrupts
    <3>1. \/ interrupts' = interrupts
          \/ interrupts < MaxInterrupts /\ interrupts' = interrupts + 1
      BY <1>2 DEF Discover
    <3> QED BY <1>1, <3>1
  <2>3. MovesInv' BY <2>1 DEF MovesInv
  <2> QED BY <2>1, <2>2, <2>3 DEF TypeInv, disk, server, db
<1>3. CASE MakePlan
  <2>1. UNCHANGED <<disk, server, db, users>> /\ exit' \in {exit, "Safety"} BY <1>3 DEF MakePlan
  <2>2. run' \in Runs /\ MovesInv'
    <3>1. CASE run' = NoRun BY <3>1, NoRunFacts DEF MovesInv
    <3>2. CASE run' # NoRun
      <4>1. /\ run' \in Runs /\ run'.seen = run.seen /\ run'.todo = [q \in Paths |-> Planned(q)]
            /\ \A q \in Paths :
                   LET sources == MoveSources(q, local, run.seen, journal, run.complete)
                   IN  sources # {} => run'.from[q] \in sources
        BY <1>3, <3>2, PlanFacts
      <4>2. ASSUME NEW p \in Paths, run'.todo[p] = "moveLocal"
            PROVE  run'.from[p] \in Paths \ {p} /\ ~run'.seen[run'.from[p]].here
        <5>1. run'.from[p] \in MoveSources(p, local, run.seen, journal, run.complete)
          BY <4>1, <4>2, PlanMoves
        <5> QED BY <4>1, <5>1 DEF MoveSources
      <4> QED BY <4>1, <4>2 DEF MovesInv
    <3> QED BY <3>1, <3>2
  <2> QED BY <2>1, <2>2 DEF TypeInv, disk, server, db, users
<1>4. CASE \E p \in Paths : PathStep(p) BY <1>4, PathTypes
<1>5. CASE StartDownloads
  <2>1. run' = OpenPool("downloads") /\ UNCHANGED <<disk, server, db, exit, users>>
    BY <1>5 DEF StartDownloads
  <2>2. /\ run' \in Runs /\ run'.todo = run.todo /\ run'.seen = run.seen
    BY <1>1, <2>1, OpenPoolFacts DEF Phases
  <2>3. run'.from = run.from
    BY <1>1, <2>1, <2>2 DEF OpenPool, Runs
  <2>4. MovesInv' BY <2>2, <2>3 DEF MovesInv
  <2> QED BY <2>1, <2>2, <2>4 DEF TypeInv, disk, server, db, users
<1>6. CASE CloseDownloads \/ CloseUploads
  <2>1. PICK phase \in Phases, action \in {"download", "upload"}, next \in Phases :
            ClosePool(phase, action, next)
    BY <1>6 DEF CloseDownloads, CloseUploads, Phases
  <2>2. /\ run' \in Runs /\ run'.seen = run.seen
        /\ run'.todo = [p \in Paths |-> IF run.todo[p] = action THEN "none" ELSE run.todo[p]]
    BY <1>1, <2>1, ClosePoolFacts
  <2>3. run'.from = run.from BY <1>1, <2>1 DEF ClosePool, OpenPool, Runs
  <2>4. UNCHANGED <<disk, server, journal, rootKnown, exit, users>> BY <2>1 DEF ClosePool
  <2>5. failures' \in [Paths -> Failures]
    <3>1. failures' = FailuresAfter(action) BY <2>1 DEF ClosePool
    <3>2. ASSUME NEW p \in Paths PROVE FailuresAfter(action)[p] \in Failures
      <4> DEFINE signature == Signature(action, p, run.scan)
                 before == IF FailedBefore(p, signature) THEN failures[p].runs ELSE 0
                 counted == [of |-> signature.of, ver |-> signature.ver,
                             runs |-> IF before < BlacklistAfter THEN before + 1 ELSE before]
      <4>1. failures[p] \in Failures BY DEF TypeInv
      <4>2. run.seen[p] \in Listings /\ run.scan[p] \in Nodes BY <1>1 DEF Runs
      <4>3. run.seen[p].etag \in Versions /\ run.scan[p].ver \in Versions
        BY <4>2, NodeFacts DEF Listings
      <4>4. signature.of \in {"download", "upload"} /\ signature.ver \in Versions
        BY <4>3 DEF Signature
      <4>5. before \in 0..BlacklistAfter BY <1>1, <4>1 DEF Failures
      <4>6. NoFailure \in Failures
        BY <1>1, TreeAssumption, BoundsAssumption DEF NoFailure, Failures, Versions
      <4> HIDE DEF signature, before
      <4>7. (IF before < BlacklistAfter THEN before + 1 ELSE before) \in 0..BlacklistAfter
        BY <1>1, <4>5
      <4>8. counted \in Failures BY <4>4, <4>7 DEF Failures
      <4>9. FailuresAfter(action)[p] \in {NoFailure, counted, failures[p]}
        BY DEF FailuresAfter, signature, before
      <4> QED BY <4>1, <4>6, <4>8, <4>9
    <3> QED BY <3>1, <3>2 DEF FailuresAfter
  <2>6. MovesInv' BY <2>2, <2>3 DEF MovesInv
  <2> QED BY <2>2, <2>4, <2>5, <2>6 DEF TypeInv, disk, server, users
<1>7. CASE \E d \in Paths \cup {Root} : RefreshDir(d)
  <2>1. PICK d \in Paths \cup {Root} : RefreshDir(d) BY <1>7
  <2>2. run' = [run EXCEPT !.touched = @ \ {d}] /\ UNCHANGED <<disk, server, failures, rootKnown, exit, users>>
    BY <2>1 DEF RefreshDir
  <2>3. run' \in Runs /\ run'.todo = run.todo /\ run'.seen = run.seen /\ run'.from = run.from
    <3> DEFINE left == run.touched \ {d}
    <3>1. left \in SUBSET (Paths \cup {Root}) BY <1>1 DEF Runs
    <3>2. run' = [run EXCEPT !.touched = left] BY <2>2
    <3> HIDE DEF left
    <3> QED BY <1>1, <3>1, <3>2 DEF Runs
  <2>4. journal' \in [Paths -> Entries]
    <3> DEFINE Stamp(p) == IF IsDir(remote[p]) \/ IsDir(local[p]) THEN 0
                           ELSE IF IsFile(local[p]) THEN local[p].ver ELSE remote[p].ver
               Row(p) == Known(IsDir(remote[p]), Stamp(p), remote[p].ver, ids[p])
    <3>1. ASSUME NEW p \in Paths PROVE Row(p) \in Entries /\ journal[p] \in Entries
      <4>1. local[p] \in Nodes /\ remote[p] \in Nodes /\ ids[p] \in Ids /\ journal[p] \in Entries
        BY DEF TypeInv
      <4>2. /\ local[p].ver \in Versions /\ remote[p].ver \in Versions /\ 0 \in Versions
            /\ IsDir(remote[p]) \in BOOLEAN
        BY <4>1, NodeFacts, NodesHold DEF IsDir, Versions, Directory
      <4>3. Stamp(p) \in Versions BY <4>2
      <4> HIDE DEF Stamp
      <4> QED BY <4>1, <4>2, <4>3, EntryFacts
    <3>2. \/ \E listed : journal' = [p \in Paths |-> IF p \in listed THEN Row(p) ELSE journal[p]]
          \/ journal' = journal
      BY <2>1 DEF RefreshDir
    <3> HIDE DEF Row
    <3>3. journal \in [Paths -> Entries] BY DEF TypeInv
    <3> QED BY <3>1, <3>2, <3>3
  <2>5. MovesInv' BY <2>3 DEF MovesInv
  <2> QED BY <2>2, <2>3, <2>4, <2>5 DEF TypeInv, disk, server, users
<1>8. CASE Finish
  <2>1. /\ run' = NoRun /\ exit' \in {"Failed", "Conflict", "Success"}
        /\ rootKnown' \in {TRUE, rootKnown}
        /\ gone' = [local  |-> {p \in gone.local : Present(remote[p])},
                    remote |-> {p \in gone.remote : Present(local[p])}]
        /\ UNCHANGED <<disk, server, journal, failures, scenario, clock, interrupts, mine>>
    BY <1>8 DEF Finish
  <2>2. gone' \in [local : SUBSET Paths, remote : SUBSET Paths] BY <2>1 DEF TypeInv
  <2>3. MovesInv' /\ run' \in Runs BY <2>1, NoRunFacts DEF MovesInv
  <2> QED BY <2>1, <2>2, <2>3 DEF TypeInv, disk, server
<1>9. CASE StopCancelled \/ Crash
  <2>1. /\ run' = NoRun /\ UNCHANGED <<disk, server, db, exit, scenario, clock, mine, gone>>
        /\ interrupts' \in 0..MaxInterrupts
    BY <1>1, <1>9 DEF StopCancelled, Crash, users
  <2>2. MovesInv' /\ run' \in Runs BY <2>1, NoRunFacts DEF MovesInv
  <2> QED BY <2>1, <2>2 DEF TypeInv, disk, server, db
<1>10. CASE Cancel
  <2>1. /\ run' = [run EXCEPT !.cancelled = TRUE]
        /\ UNCHANGED <<disk, server, db, exit, scenario, clock, mine, gone>>
        /\ interrupts' \in 0..MaxInterrupts
    BY <1>1, <1>10 DEF Cancel
  <2>2. run' \in Runs /\ run'.todo = run.todo /\ run'.seen = run.seen /\ run'.from = run.from
    BY <1>1, <2>1 DEF Runs
  <2>3. MovesInv' BY <2>2 DEF MovesInv
  <2> QED BY <2>1, <2>2, <2>3 DEF TypeInv, disk, server, db
<1> QED BY <1>2, <1>3, <1>4, <1>5, <1>6, <1>7, <1>8, <1>9, <1>10 DEF EngineStep

\* ... and so after every step.
LEMMA TypeStep == TypeInv /\ MovesInv /\ [Next]_vars => TypeInv' /\ MovesInv'
<1> SUFFICES ASSUME TypeInv, MovesInv, [Next]_vars PROVE TypeInv' /\ MovesInv' OBVIOUS
<1>1. CASE UserStep
  <2>1. run' = run BY <1>1 DEF UserStep, LocalWrite, LocalMkdir, LocalDelete, RemoteWrite,
                               RemoteMkdir, RemoteDelete, RemoteMove, May
  <2> QED BY <1>1, <2>1, UserTypes DEF MovesInv
<1>2. CASE EngineStep \/ Cancel \/ Crash BY <1>2, EngineTypes
<1>3. CASE UNCHANGED vars BY <1>3 DEF TypeInv, MovesInv, vars, disk, server, db, users
<1> QED BY <1>1, <1>2, <1>3 DEF Next

-----------------------------------------------------------------------------
(* What the planner decides, and from what.                                *)

\* What each decision of the planner says of the two sides and the journal.
Means(d, l, r, j, complete) ==
    /\ d = "download" => /\ r.here /\ ~r.dir
                         /\ Present(l) => /\ IsFile(l) /\ j.here /\ l.ver = j.stamp
                                         /\ r.etag # j.etag
                         /\ ~Present(l) => ~j.here
    /\ d = "upload" => /\ IsFile(l)
                       /\ r.here => j.here /\ ~r.dir /\ r.etag = j.etag /\ l.ver # j.stamp
                       /\ ~r.here => ~j.here
    /\ d = "conflict" => /\ Present(l) /\ r.here
                         /\ \/ IsDir(l) <=> ~r.dir
                            \/ /\ IsFile(l)
                               /\ IF j.here THEN r.etag # j.etag /\ l.ver # j.stamp
                                  ELSE l.ver # r.etag
    /\ d = "record" => /\ Present(l) /\ r.here /\ (IsDir(l) <=> r.dir)
                       /\ IsFile(l) => IF j.here THEN r.etag = j.etag /\ l.ver = j.stamp
                                       ELSE l.ver = r.etag
    /\ d = "mkdirLocal" => ~Present(l) /\ r.here /\ r.dir /\ ~j.here
    /\ d = "mkdirRemote" => IsDir(l) /\ ~r.here /\ ~j.here
    /\ d = "deleteLocal" => Present(l) /\ ~r.here /\ j.here
    /\ d = "deleteRemote" => ~Present(l) /\ r.here /\ j.here
    /\ d = "none" => \/ Present(l) /\ ~r.here /\ j.here
                     \/ ~Present(l) /\ ~r.here
                     \/ ~Present(l) /\ j.here /\ ~complete

\* Every branch of the planner leads to its decision under what Means says.
LEMMA DecisionMeans ==
    ASSUME NEW l \in Nodes, NEW r, r.dir \in BOOLEAN, NEW j, NEW complete, NEW moved
    PROVE  Means(Decision(l, r, j, complete, moved), l, r, j, complete)
<1> DEFINE d == Decision(l, r, j, complete, moved)
<1> SUFFICES Means(d, l, r, j, complete) OBVIOUS
<1>0. /\ Present(l) => IsFile(l) \/ IsDir(l)
      /\ ~(IsFile(l) /\ IsDir(l)) /\ (IsFile(l) \/ IsDir(l) => Present(l))
      /\ IsDir(l) \in BOOLEAN
  BY NodeFacts DEF IsDir
<1>1. CASE Present(l) /\ r.here /\ j.here
  <2>1. d = Compared(l, r, j) BY <1>1 DEF Decision
  <2> HIDE DEF d
  <2>2. CASE IsDir(l) /\ r.dir
    <3>1. d = "record" BY <2>1, <2>2 DEF Compared
    <3> QED BY <1>0, <1>1, <2>2, <3>1 DEF Means
  <2>3. CASE IsDir(l) # r.dir
    <3>1. d = "conflict" BY <2>1, <2>3, <1>0 DEF Compared
    <3>2. IsDir(l) <=> ~r.dir BY <1>0, <2>3
    <3>3. Present(l) /\ r.here /\ (IsDir(l) <=> ~r.dir) BY <1>1, <3>2
    <3> QED BY <3>1, <3>3 DEF Means
  <2>4. CASE ~IsDir(l) /\ ~r.dir
    <3>1. d = IF r.etag # j.etag THEN (IF l.ver # j.stamp THEN "conflict" ELSE "download")
              ELSE (IF l.ver # j.stamp THEN "upload" ELSE "record")
      BY <2>1, <2>4, <1>0 DEF Compared, RemoteChanged, LocalChanged
    <3> QED BY <1>0, <1>1, <2>4, <3>1 DEF Means
  <2> QED BY <1>0, <2>2, <2>3, <2>4
<1>2. CASE Present(l) /\ r.here /\ ~j.here
  <2>1. d = FirstSeen(l, r) BY <1>2 DEF Decision
  <2> HIDE DEF d
  <2>2. d = IF (IsDir(l) /\ r.dir) \/ (IsFile(l) /\ ~r.dir /\ l.ver = r.etag) THEN "record"
            ELSE "conflict"
    BY <2>1 DEF FirstSeen
  <2>3. CASE d = "record" BY <1>0, <1>2, <2>2, <2>3 DEF Means
  <2>4. CASE d = "conflict"
    <3>1. (IsDir(l) <=> ~r.dir) \/ (IsFile(l) /\ l.ver # r.etag) BY <1>0, <1>2, <2>2, <2>4
    <3>2. /\ Present(l) /\ r.here
          /\ (IsDir(l) <=> ~r.dir) \/ (IsFile(l) /\ IF j.here THEN r.etag # j.etag /\ l.ver # j.stamp
                                                   ELSE l.ver # r.etag)
      BY <1>2, <3>1
    <3> QED BY <2>4, <3>2 DEF Means
  <2> QED BY <2>2, <2>3, <2>4
<1>3. CASE Present(l) /\ ~r.here
  <2>1. d = OnlyLocal(l, j, complete, moved) BY <1>3 DEF Decision
  <2> HIDE DEF d
  <2>2. d \in {Added(l), "deleteLocal", "none"} /\ (~j.here => d = Added(l))
        /\ (j.here => d # Added(l))
    BY <2>1 DEF OnlyLocal, Added
  <2> QED BY <1>0, <1>3, <2>2 DEF Added, Means
<1>4. CASE ~Present(l) /\ r.here
  <2>1. d = OnlyRemote(r, j, complete) BY <1>4 DEF Decision
  <2> HIDE DEF d
  <2>2. d = IF ~j.here THEN (IF r.dir THEN "mkdirLocal" ELSE "download")
            ELSE IF complete THEN "deleteRemote" ELSE "none"
    BY <2>1 DEF OnlyRemote
  <2> QED BY <1>4, <2>2 DEF Means
<1>5. CASE ~Present(l) /\ ~r.here
  <2>1. d = "none" BY <1>5 DEF Decision
  <2> HIDE DEF d
  <2> QED BY <1>5, <2>1 DEF Means
<1> QED BY <1>1, <1>2, <1>3, <1>4, <1>5

\* What is planned for a path was decided for it, unless it waits: for a rename,
\* below a file, or on the blacklist.
LEMMA PlannedFacts ==
    ASSUME NEW q \in Paths
    PROVE  LET moved == \E s \in Paths :
                            q \in MoveSources(s, local, run.seen, journal, run.complete)
               decision == Decision(local[q], run.seen[q], journal[q], run.complete, moved)
               sources == MoveSources(q, local, run.seen, journal, run.complete)
           IN  /\ Planned(q) # "none" =>
                      \/ Planned(q) = decision /\ sources = {}
                      \/ Planned(q) = "moveLocal" /\ sources # {}
               /\ Planned(q) = "none" /\ sources = {} =>
                      \/ decision = "none"
                      \/ Shadowed(q, local)
                      \/ decision \in {"download", "upload"} /\ failures[q].of = decision
<1> DEFINE Sources(p) == MoveSources(p, local, run.seen, journal, run.complete)
           moved == \E s \in Paths : q \in Sources(s)
           decision == Decision(local[q], run.seen[q], journal[q], run.complete, moved)
           whole == Plan(local, run.seen, journal, run.complete)
<1>1. whole[q] = IF Sources(q) # {} THEN "moveLocal"
                 ELSE IF Shadowed(q, local) THEN "none" ELSE decision
  BY DEF Plan
<1>2. Planned(q) = IF Blacklisted(whole, q) THEN "none" ELSE whole[q] BY DEF Planned
<1>3. Blacklisted(whole, q) => whole[q] \in {"download", "upload"} /\ failures[q].of = whole[q]
  BY DEF Blacklisted, FailedBefore, Signature
<1> HIDE DEF whole, decision, Sources
<1>4. /\ Planned(q) # "none" => \/ Planned(q) = decision /\ Sources(q) = {}
                                \/ Planned(q) = "moveLocal" /\ Sources(q) # {}
      /\ Planned(q) = "none" /\ Sources(q) = {} =>
             \/ decision = "none" \/ Shadowed(q, local)
             \/ decision \in {"download", "upload"} /\ failures[q].of = decision
  BY <1>1, <1>2, <1>3
<1> QED BY <1>4 DEF decision, Sources, moved

\* ... and so does the plan, apart from the renames.
LEMMA PlannedMeans ==
    ASSUME TypeInv, NEW q \in Paths, Planned(q) # "none", Planned(q) # "moveLocal"
    PROVE  Means(Planned(q), local[q], run.seen[q], journal[q], run.complete)
<1> DEFINE moved == \E s \in Paths :
                        q \in MoveSources(s, local, run.seen, journal, run.complete)
           l == local[q]
           r == run.seen[q]
           j == journal[q]
           c == run.complete
<1>1. Planned(q) = Decision(l, r, j, c, moved) BY PlannedFacts
<1>2. l \in Nodes /\ r.dir \in BOOLEAN BY DEF TypeInv, Runs, Listings
<1> SUFFICES Means(Planned(q), l, r, j, c) OBVIOUS
<1> HIDE DEF moved, l, r, j, c
<1> QED BY <1>1, <1>2, DecisionMeans

\* A step of the plan for one path leaves the rows and the files of the others
\* where they are, but for the source of a rename.
LEMMA NeighboursKept ==
    ASSUME TypeInv, MovesInv, NEW p \in Paths, PathStep(p), NEW q \in Paths \ {p},
           run.todo[p] = "moveLocal" => q # run.from[p]
    PROVE  journal'[q] = journal[q] /\ (IsFile(local'[q]) => local'[q] = local[q])
<1>1. /\ local \in [Paths -> Nodes] /\ journal \in [Paths -> Entries] /\ run \in Runs
  BY DEF TypeInv
<1>2. /\ Recorded(p) \in [Paths -> Entries] /\ Forgotten(p) \in [Paths -> Entries]
      /\ Recorded(p)[q] = journal[q] /\ Forgotten(p)[q] = journal[q]
  BY <1>1, RecordedFacts, ForgottenFacts
<1>3. WithParents(local, p) \in [Paths -> Nodes]
      /\ (IsFile(WithParents(local, p)[q]) => WithParents(local, p)[q] = local[q])
  BY <1>1, ParentsMade
<1>4. ASSUME NEW node \in Nodes
      PROVE  [WithParents(local, p) EXCEPT ![p] = node][q] = WithParents(local, p)[q]
  BY <1>3, <1>4
<1>5. ASSUME NEW rows \in [Paths -> Entries], rows[q] = journal[q], Journaled(p, rows)
      PROVE  journal'[q] = journal[q]
  BY <1>5, JournaledFacts
<1>6. ~IsFile(Absent) /\ Absent \in Nodes /\ Directory \in Nodes /\ remote[p] \in Nodes
  BY NodesHold DEF TypeInv
<1>7. CASE Record(p) BY <1>7, <1>2, <1>5 DEF Record, disk
<1>8. CASE MkdirLocal(p)
  <2>1. journal'[q] = journal[q] BY <1>8, <1>2, <1>5 DEF MkdirLocal
  <2>2. local' \in {WithParents(local, p), [WithParents(local, p) EXCEPT ![p] = Directory]}
    BY <1>8 DEF MkdirLocal
  <2> QED BY <2>1, <2>2, <1>3, <1>4, <1>6
<1>9. CASE MkdirRemote(p) BY <1>9, <1>2, <1>5 DEF MkdirRemote, disk
<1>10. CASE MoveLocal(p)
  <2> DEFINE from == run.from[p]
  <2>1. from \in Paths \ {p} /\ q # from BY <1>10 DEF MoveLocal, Takes, MovesInv
  <2>2. local' \in {WithParents(local, p),
                    [WithParents(local, p) EXCEPT ![p] = local[from], ![from] = Absent]}
    BY <1>10 DEF MoveLocal
  <2>3. \/ UNCHANGED journal
        \/ Journaled(p, Renamed(p, from)) \/ Journaled(p, journal)
    BY <1>10 DEF MoveLocal
  <2> HIDE DEF from
  <2>4. Renamed(p, from) \in [Paths -> Entries] /\ Renamed(p, from)[q] = journal[q]
    BY <2>1, RenamedFacts
  <2>5. journal'[q] = journal[q] BY <2>3, <2>4, <1>1, <1>5
  <2>6. local'[q] = WithParents(local, p)[q]
    <3> DEFINE moved == [WithParents(local, p) EXCEPT ![p] = local[from], ![from] = Absent]
    <3>1. moved[q] = WithParents(local, p)[q]
      <4>1. from \in Paths /\ from # p /\ q \in Paths \ {p, from} BY <2>1
      <4> QED BY <4>1, MovedFacts
    <3>2. local' \in {WithParents(local, p), moved} BY <2>2
    <3> HIDE DEF moved
    <3> QED BY <3>1, <3>2
  <2> QED BY <2>5, <2>6, <1>3
<1>11. CASE SetAside(p)
  <2>1. UNCHANGED journal /\ local' \in {local, [local EXCEPT ![p] = Absent]}
    BY <1>11 DEF SetAside, disk
  <2> QED BY <2>1, <1>1
<1>12. CASE Fetch(p)
  <2>1. local' \in {WithParents(local, p), [WithParents(local, p) EXCEPT ![p] = Directory],
                    [WithParents(local, p) EXCEPT ![p] = remote[p]]}
    BY <1>12 DEF Fetch, Downloaded
  <2>2. UNCHANGED journal BY <1>12 DEF Fetch
  <2> QED BY <2>1, <2>2, <1>3, <1>4, <1>6
<1>13. CASE DeleteLocal(p)
  <2>1. journal'[q] = journal[q] BY <1>13, <1>2, <1>5 DEF DeleteLocal
  <2>2. local' \in {local, Without(local, p)} BY <1>13 DEF DeleteLocal
  <2> QED BY <2>1, <2>2, <1>1, <1>6, SubtreeRemoved
<1>14. CASE DeleteRemote(p)
  BY <1>14, <1>2, <1>5 DEF DeleteRemote, disk
<1>15. CASE Download(p)
  <2>1. local' \in {WithParents(local, p), [WithParents(local, p) EXCEPT ![p] = remote[p]]}
    BY <1>15 DEF Download, Downloaded
  <2>2. UNCHANGED journal BY <1>15 DEF Download, db
  <2> QED BY <2>1, <2>2, <1>3, <1>4, <1>6
<1>16. CASE Upload(p) BY <1>16 DEF Upload, disk
<1> QED
  BY <1>7, <1>8, <1>9, <1>10, <1>11, <1>12, <1>13, <1>14, <1>15, <1>16 DEF PathStep

\* A step of the plan ends the action it takes, or makes it the second half of a
\* conflict.
LEMMA StepDone ==
    ASSUME TypeInv, NEW p \in Paths, PathStep(p)
    PROVE  /\ run.phase \in {"loop", "downloads", "uploads"}
           /\ \/ run' = NoRun
              \/ /\ SameView(run, run')
                 /\ \/ run'.todo = Less(p)
                    \/ run.todo[p] = "conflict" /\ run'.todo = [run.todo EXCEPT ![p] = "fetch"]
<1>1. run \in Runs /\ journal \in [Paths -> Entries] BY DEF TypeInv
<1>2. run.phase \in {"loop", "downloads", "uploads"}
  BY DEF PathStep, Record, MkdirLocal, MkdirRemote, MoveLocal, SetAside, Fetch, DeleteLocal,
         DeleteRemote, Download, Upload, Takes
<1>3. ASSUME NEW rows \in [Paths -> Entries], Journaled(p, rows)
      PROVE  run' = NoRun \/ (SameView(run, run') /\ run'.todo = Less(p))
  BY <1>3, JournaledFacts
<1>4. ASSUME \/ run' \in {Done(p), Erred(p), [Done(p) EXCEPT !.conflicts = TRUE]}
             \/ run' = [Done(p) EXCEPT !.conflicts = TRUE, !.touched = @ \cup {ParentDir(p)}]
             \/ \E good \in BOOLEAN : run' = Transferred(p, good)
      PROVE  SameView(run, run') /\ run'.todo = Less(p)
  <2>1. CASE run' \in {Done(p), Erred(p), [Done(p) EXCEPT !.conflicts = TRUE]}
    BY <1>1, <2>1, DoneFacts
  <2>2. CASE run' = [Done(p) EXCEPT !.conflicts = TRUE, !.touched = @ \cup {ParentDir(p)}]
    <3> DEFINE s == [Done(p) EXCEPT !.conflicts = TRUE, !.touched = @ \cup {ParentDir(p)}]
    <3>1. s.todo = Less(p) /\ SameView(run, s) BY <1>1, FetchedFacts
    <3>2. run' = s BY <2>2
    <3> QED BY <3>1, <3>2
  <2>3. CASE \E good \in BOOLEAN : run' = Transferred(p, good)
    <3>1. PICK good \in BOOLEAN : run' = Transferred(p, good) BY <2>3
    <3> DEFINE s == Transferred(p, good)
    <3>2. s.todo = Less(p) /\ SameView(run, s) BY <1>1, TransferredFacts
    <3>3. run' = s BY <3>1
    <3> QED BY <3>2, <3>3
  <2> QED BY <1>4, <2>1, <2>2, <2>3
<1>5. Recorded(p) \in [Paths -> Entries] /\ Forgotten(p) \in [Paths -> Entries]
  BY <1>1, RecordedFacts, ForgottenFacts
<1>6. CASE Record(p) \/ MkdirLocal(p) \/ MkdirRemote(p) \/ DeleteLocal(p) \/ DeleteRemote(p)
  <2>1. Journaled(p, Recorded(p)) \/ Journaled(p, Forgotten(p)) \/ run' = Erred(p)
    BY <1>6 DEF Record, MkdirLocal, MkdirRemote, DeleteLocal, DeleteRemote
  <2> QED BY <2>1, <1>2, <1>3, <1>4, <1>5
<1>7. CASE MoveLocal(p)
  <2>1. \/ run' = Erred(p)
        \/ run' = Done(p) \/ run' = NoRun
    BY <1>7 DEF MoveLocal, Journaled
  <2> QED BY <2>1, <1>2, <1>4
<1>8. CASE SetAside(p)
  <2>1. /\ run.todo[p] = "conflict"
        /\ run' \in {[Done(p) EXCEPT !.conflicts = TRUE], [run EXCEPT !.todo[p] = "fetch"]}
    BY <1>8 DEF SetAside, Takes
  <2> QED BY <2>1, <1>1, <1>2, <1>4, AsideFacts
<1>9. CASE Fetch(p)
  <2>1. run' \in {[Done(p) EXCEPT !.conflicts = TRUE],
                  [Done(p) EXCEPT !.conflicts = TRUE, !.touched = @ \cup {ParentDir(p)}], Erred(p)}
    BY <1>9 DEF Fetch
  <2> QED BY <2>1, <1>2, <1>4
<1>10. CASE Download(p) \/ Upload(p)
  <2>1. \E good \in BOOLEAN : run' = Transferred(p, good) BY <1>10 DEF Download, Upload
  <2> QED BY <2>1, <1>2, <1>4
<1> QED BY <1>6, <1>7, <1>8, <1>9, <1>10 DEF PathStep

-----------------------------------------------------------------------------
(* What a download replaces.                                               *)

\* What a download of the plan is about to replace is what the journal knows.
ReplacedInv ==
    \A p \in Paths :
        run.todo[p] = "download" =>
            /\ run.phase \in {"loop", "downloads"} /\ run.seen[p].here
            /\ IsFile(local[p]) => journal[p].here /\ journal[p].stamp = local[p].ver

\* No step of a run changes a file that a download of the same plan is to replace:
\* only the local user could, and does not while a run is in progress.
LEMMA ReplacedStep ==
    ASSUME TypeInv, MovesInv, "local" \notin scenario.concurrent, ReplacedInv, [Next]_vars
    PROVE  ReplacedInv'
<1>1. run \in Runs BY DEF TypeInv
<1>2. CASE UserStep
  <2>1. UNCHANGED <<run, journal>>
    BY <1>2 DEF UserStep, LocalWrite, LocalMkdir, LocalDelete, RemoteWrite, RemoteMkdir,
                RemoteDelete, RemoteMove, May
  <2>2. run.phase = "idle" \/ UNCHANGED local
    BY <1>2 DEF UserStep, LocalWrite, LocalMkdir, LocalDelete, RemoteWrite, RemoteMkdir,
                RemoteDelete, RemoteMove, May
  <2> QED BY <2>1, <2>2 DEF ReplacedInv
<1>3. CASE Discover
  <2>1. run'.todo = [p \in Paths |-> "none"] BY <1>3, DiscoverFacts
  <2> QED BY <2>1 DEF ReplacedInv
<1>4. ASSUME run' = NoRun PROVE ReplacedInv' BY <1>4, NoRunFacts DEF ReplacedInv
<1>5. CASE MakePlan /\ run' # NoRun
  <2>1. /\ run'.phase = "loop" /\ run'.seen = run.seen /\ UNCHANGED <<local, journal>>
        /\ run'.todo = [q \in Paths |-> Planned(q)]
    BY <1>5, PlanFacts DEF disk, db
  <2>2. ASSUME NEW p \in Paths, Planned(p) = "download"
        PROVE  run.seen[p].here /\ (IsFile(local[p]) => journal[p].here /\ journal[p].stamp = local[p].ver)
    <3>1. Means(Planned(p), local[p], run.seen[p], journal[p], run.complete)
      BY <2>2, PlannedMeans
    <3>2. local[p] \in Nodes BY DEF TypeInv
    <3> QED BY <2>2, <3>1, <3>2, NodeFacts DEF Means
  <2> QED BY <2>1, <2>2 DEF ReplacedInv
<1>6. ASSUME NEW p \in Paths, PathStep(p), run' # NoRun PROVE ReplacedInv'
  <2>1. /\ SameView(run, run')
        /\ run'.todo \in {Less(p), [run.todo EXCEPT ![p] = "fetch"]}
    BY <1>6, StepDone
  <2>2. ASSUME NEW q \in Paths, run'.todo[q] = "download"
        PROVE  /\ run'.phase \in {"loop", "downloads"} /\ run'.seen[q].here
               /\ IsFile(local'[q]) => journal'[q].here /\ journal'[q].stamp = local'[q].ver
    <3>1. run.todo \in [Paths -> Actions] BY <1>1 DEF Runs
    <3>2. q # p /\ run.todo[q] = "download" BY <2>1, <2>2, <3>1, <1>1, LessFacts
    <3>3. /\ run.phase \in {"loop", "downloads"} /\ run.seen[q].here
          /\ IsFile(local[q]) => journal[q].here /\ journal[q].stamp = local[q].ver
      BY <3>2 DEF ReplacedInv
    <3>4. run.todo[p] = "moveLocal" => q # run.from[p] BY <3>3 DEF MovesInv
    <3>5. journal'[q] = journal[q] /\ (IsFile(local'[q]) => local'[q] = local[q])
      BY <1>6, <3>2, <3>4, NeighboursKept
    <3> QED BY <2>1, <3>3, <3>5 DEF SameView
  <2> QED BY <2>2 DEF ReplacedInv
<1>7. CASE StartDownloads
  <2>1. /\ run'.phase = "downloads" /\ run'.todo = run.todo /\ run'.seen = run.seen
        /\ UNCHANGED <<local, journal>>
    BY <1>1, <1>7, OpenPoolFacts DEF StartDownloads, Phases, disk, db
  <2> QED BY <2>1 DEF ReplacedInv
<1>8. CASE CloseDownloads
  <2>1. run'.todo = [p \in Paths |-> IF run.todo[p] = "download" THEN "none" ELSE run.todo[p]]
    BY <1>1, <1>8, ClosePoolFacts DEF CloseDownloads, Phases
  <2> QED BY <2>1 DEF ReplacedInv
<1>9. CASE CloseUploads
  <2>1. /\ run.phase = "uploads"
        /\ run'.todo = [p \in Paths |-> IF run.todo[p] = "upload" THEN "none" ELSE run.todo[p]]
    BY <1>1, <1>9, ClosePoolFacts DEF CloseUploads, ClosePool, Phases
  <2> QED BY <2>1 DEF ReplacedInv
<1>10. CASE \E d \in Paths \cup {Root} : RefreshDir(d)
  <2>1. run.phase = "refresh" /\ run'.todo = run.todo BY <1>1, <1>10 DEF RefreshDir, Runs
  <2> QED BY <2>1 DEF ReplacedInv
<1>11. CASE Cancel
  <2>1. /\ run'.phase = run.phase /\ run'.todo = run.todo /\ run'.seen = run.seen
        /\ UNCHANGED <<local, journal>>
    BY <1>1, <1>11 DEF Cancel, Runs, disk, db
  <2> QED BY <2>1 DEF ReplacedInv
<1>12. CASE UNCHANGED vars BY <1>12 DEF vars, disk, db, ReplacedInv
<1>13. CASE Finish \/ StopCancelled \/ Crash
  <2>1. run' = NoRun BY <1>13 DEF Finish, StopCancelled, Crash
  <2> QED BY <2>1, <1>4
<1> QED
  BY <1>2, <1>3, <1>4, <1>5, <1>6, <1>7, <1>8, <1>9, <1>10, <1>11, <1>12, <1>13
  DEF Next, EngineStep

\* What the journal knows is not a local change.
LEMMA SpareFollows == ReplacedInv => DownloadsSpareEdits
BY DEF ReplacedInv, DownloadsSpareEdits, LocalChanged

\* The trees, the journal and the run keep their types, for every tree of paths,
\* every scenario of inputs and faults, and every bound.
THEOREM TypesHold == Spec => []TypeInv
<1>1. Init => TypeInv /\ MovesInv BY TypeInit
<1>2. TypeInv /\ MovesInv /\ [Next]_vars => (TypeInv /\ MovesInv)' BY TypeStep
<1> QED BY <1>1, <1>2, PTL DEF Spec

\* The invariant of the scenarios without edits during a run.
Spared == "local" \notin scenario.concurrent => ReplacedInv

\* Whatever fails, is cancelled or dies, and whatever other clients do meanwhile,
\* a download replaces on disk only the version that the journal calls
\* synchronized, unless the local user writes during the run (reconcile.rs,
\* transfer.rs: the rename over the destination does not look at it again).
THEOREM DownloadsReplaceTheJournaled ==
    Spec => []("local" \notin scenario.concurrent => DownloadsSpareEdits)
<1>1. Init => TypeInv /\ MovesInv /\ Spared
  <2>1. Init => ReplacedInv BY NoRunFacts DEF Init, ReplacedInv
  <2> QED BY <2>1, TypeInit DEF Spared
<1>2. TypeInv /\ MovesInv /\ Spared /\ [Next]_vars => (TypeInv /\ MovesInv /\ Spared)'
  <2> SUFFICES ASSUME TypeInv, MovesInv, Spared, [Next]_vars PROVE (TypeInv /\ MovesInv /\ Spared)'
    OBVIOUS
  <2>1. scenario' = scenario
    BY DEF Next, UserStep, LocalWrite, LocalMkdir, LocalDelete, RemoteWrite, RemoteMkdir,
           RemoteDelete, RemoteMove, May, EngineStep, Discover, MakePlan, PathStep, Record,
           MkdirLocal, MkdirRemote, MoveLocal, SetAside, Fetch, DeleteLocal, DeleteRemote,
           Download, Upload, Takes, StartDownloads, CloseDownloads, CloseUploads, ClosePool,
           RefreshDir, Finish, StopCancelled, Cancel, Crash, users, vars
  <2> QED BY <2>1, TypeStep, ReplacedStep DEF Spared
<1>3. Spared => ("local" \notin scenario.concurrent => DownloadsSpareEdits)
  BY SpareFollows DEF Spared
<1> QED BY <1>1, <1>2, <1>3, PTL DEF Spec

=============================================================================
