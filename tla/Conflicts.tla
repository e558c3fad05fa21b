------------------------------ MODULE Conflicts ------------------------------
(***************************************************************************)
(* One file that is edited on both sides, and what becomes of its          *)
(* conflicted copies: the engine's conflict (engine.rs), the scan for      *)
(* copies and the two resolutions (conflict_files.rs) and the window that  *)
(* offers them (conflict_resolver.rs).                                     *)
(*                                                                         *)
(* The window works on the main loop, one file operation after another;    *)
(* the user's programs, the engine and the other computers go on beside    *)
(* it.  Runs of the engine that fail or race with edits are SyncEngine's:  *)
(* here a run compares the file and carries the outcome through.           *)
(***************************************************************************)
EXTENDS Integers, Sequences, FiniteSets, SequencesExt

CONSTANTS
    MaxWrites,   \* bound: edits, on both sides together
    MaxCopies,   \* bound: conflicts
    MaxRefusals  \* bound: file operations of the window that fail

ASSUME ConflictsAssumption == {MaxWrites, MaxCopies, MaxRefusals} \subseteq Nat

\* What a file holds: who wrote it, and when.  A copy that breaks off leaves
\* neither the one content nor the other.
Contents == [by : {"here", "there", "nobody"}, when : 0..MaxWrites]
Beginning == [by |-> "there", when |-> 0]
Torn == [by |-> "nobody", when |-> 0]

\* The names of the copies end in their dates.
Dates == 1..MaxCopies

VARIABLES
    working,   \* the file in the synced folder
    held,      \* what the server holds under its name
    base,      \* what the journal says both held last
    copies,    \* the conflicted copies in the folder, by date
    dated,     \* the date of the last one
    rows,      \* the copies the window lists
    asked,     \* the side its bulk dialog asks about, "none" without one
    task,      \* the resolution under way
    writes, refused,   \* spent bounds
    wanted,    \* history: what somebody wrote and nobody replaced or gave up
    promoted   \* history: the copies the task has promoted

conflictVars == <<working, held, base, copies, dated, rows, asked, task, writes,
                  refused, wanted, promoted>>

NoTask == [side |-> "none", bulk |-> FALSE, todo |-> <<>>, copied |-> FALSE]

\* find_conflicts, sorted by name.
Found == SetToSortSeq(DOMAIN copies, <)

ConflictsInit ==
    /\ working = Beginning /\ held = Beginning /\ base = Beginning
    /\ copies = <<>> /\ dated = 0
    /\ rows = {} /\ asked = "none" /\ task = NoTask
    /\ writes = 0 /\ refused = 0 /\ wanted = {Beginning} /\ promoted = {}

Without(d) == [c \in DOMAIN copies \ {d} |-> copies[c]]

-----------------------------------------------------------------------------
(* The users and the engine.                                               *)

Write(by, old) ==
    LET new == [by |-> by, when |-> writes + 1]
    IN  /\ writes < MaxWrites /\ writes' = writes + 1
        /\ wanted' = (wanted \ {old}) \cup {new}
        /\ IF by = "here" THEN working' = new /\ UNCHANGED held
           ELSE held' = new /\ UNCHANGED working
        /\ UNCHANGED <<base, copies, dated, rows, asked, task, refused, promoted>>

WriteHere == Write("here", working)
WriteThere == Write("there", held)

\* conflict_name: the local version gets a name of its own.
SetAside ==
    /\ dated < MaxCopies /\ dated' = dated + 1
    /\ copies' = [d \in DOMAIN copies \cup {dated'} |->
                     IF d = dated' THEN working ELSE copies[d]]

\* Mutant: the journal keeps the old row.
RecordedLate == base' = base

\* The row of the journal after the run.
Recorded == base' = working'

\* A run of the engine.
Sync ==
    LET here == working # base
        there == held # base
    IN  /\ here \/ there
        /\ \/ here /\ there /\ SetAside /\ working' = held /\ UNCHANGED held
           \/ here /\ ~there /\ held' = working /\ UNCHANGED <<working, copies, dated>>
           \/ ~here /\ there /\ working' = held /\ UNCHANGED <<held, copies, dated>>
        /\ Recorded
        /\ UNCHANGED <<rows, asked, task, writes, refused, wanted, promoted>>

\* Another computer resolved the conflict, and the run follows.
ResolvedElsewhere(d) ==
    /\ d \in DOMAIN copies
    /\ copies' = Without(d) /\ wanted' = wanted \ {copies[d]}
    /\ UNCHANGED <<working, held, base, dated, rows, asked, task, writes, refused,
                   promoted>>

-----------------------------------------------------------------------------
(* The window.                                                             *)

Idle == task = NoTask /\ asked = "none"

\* The window opens, or Refresh is clicked.
Reload ==
    /\ Idle /\ rows' = DOMAIN copies
    /\ UNCHANGED <<working, held, base, copies, dated, asked, task, writes, refused,
                   wanted, promoted>>

\* Keep Local or Keep Remote on a row, which may be out of date.
RowClicked(d, side) ==
    /\ Idle /\ d \in rows
    /\ task' = [NoTask EXCEPT !.side = side, !.todo = <<d>>]
    /\ UNCHANGED <<working, held, base, copies, dated, rows, asked, writes, refused,
                   wanted, promoted>>

\* confirm_bulk_resolve: counts the copies there are now.
BulkClicked(side) ==
    /\ Idle /\ rows # {} /\ DOMAIN copies # {} /\ asked' = side
    /\ UNCHANGED <<working, held, base, copies, dated, rows, task, writes, refused,
                   wanted, promoted>>

\* apply_bulk_resolve scans again, and finds what there is by now.
BulkAnswered(yes) ==
    /\ asked # "none" /\ asked' = "none"
    /\ task' = IF yes /\ Found # <<>>
               THEN [NoTask EXCEPT !.side = asked, !.bulk = TRUE, !.todo = Found]
               ELSE NoTask
    /\ rows' = IF yes /\ Found = <<>> THEN {} ELSE rows
    /\ UNCHANGED <<working, held, base, copies, dated, writes, refused, wanted, promoted>>

\* On to the next copy.  A row that was resolved has the window reload, one
\* that failed does not; a bulk reloads at its end.
Onward(resolved) ==
    IF Len(task.todo) > 1
    THEN /\ task' = [task EXCEPT !.todo = Tail(@), !.copied = FALSE]
         /\ UNCHANGED <<rows, promoted>>
    ELSE /\ task' = NoTask /\ promoted' = {}
         /\ rows' = IF resolved \/ task.bulk THEN DOMAIN copies' ELSE rows

CannotWrite == refused < MaxRefusals /\ refused' = refused + 1

\* keep_local: a copy that is gone already counts as deleted.
KeepLocal(d) ==
    /\ task.side = "local"
    /\ \/ /\ copies' = Without(d)
          /\ wanted' = IF d \in DOMAIN copies THEN wanted \ {copies[d]} ELSE wanted
          /\ UNCHANGED refused /\ Onward(TRUE)
       \/ CannotWrite /\ UNCHANGED <<copies, wanted>> /\ Onward(FALSE)
    /\ UNCHANGED <<working, held, base, dated, asked, writes>>

\* Mutant: the copy is moved, and a move across file systems breaks off.
PromotionMoves(d) ==
    /\ CannotWrite /\ working' = Torn /\ copies' = Without(d) /\ Onward(FALSE)

\* The copy of the file breaks off: the working file is lost, not the copy.
PromotionBreaks(d) ==
    /\ CannotWrite /\ working' = Torn /\ UNCHANGED copies /\ Onward(FALSE)

\* keep_remote, first half: the copy's content over the working file.
Promote(d) ==
    /\ task.side = "remote" /\ ~task.copied
    /\ IF d \in DOMAIN copies
       THEN /\ wanted' = wanted \ ({working} \ {copies[d]})
            /\ \/ /\ working' = copies[d] /\ promoted' = promoted \cup {d}
                  /\ task' = [task EXCEPT !.copied = TRUE]
                  /\ UNCHANGED <<copies, rows, refused>>
               \/ PromotionBreaks(d)
       ELSE UNCHANGED <<working, copies, refused, wanted>> /\ Onward(FALSE)
    /\ UNCHANGED <<held, base, dated, asked, writes>>

\* Second half: the copy goes, or stays where it cannot be removed.
RemovePromoted(d) ==
    /\ task.side = "remote" /\ task.copied
    /\ \/ copies' = Without(d) /\ UNCHANGED refused
       \/ CannotWrite /\ UNCHANGED copies
    /\ Onward(TRUE)
    /\ UNCHANGED <<working, held, base, dated, asked, writes, wanted>>

Resolve ==
    /\ task # NoTask
    /\ LET d == Head(task.todo) IN KeepLocal(d) \/ Promote(d) \/ RemovePromoted(d)

ConflictsNext ==
    \/ WriteHere \/ WriteThere \/ Sync \/ Reload \/ Resolve
    \/ \E d \in Dates : ResolvedElsewhere(d)
    \/ \E side \in {"local", "remote"} : BulkClicked(side) \/ \E d \in Dates : RowClicked(d, side)
    \/ \E yes \in BOOLEAN : BulkAnswered(yes)

ConflictsSpec == ConflictsInit /\ [][ConflictsNext]_conflictVars

-----------------------------------------------------------------------------
\* What somebody wrote, here or on another computer, stays in the folder or on
\* the server until its author replaces it or somebody resolves the conflict
\* against it, however edits, runs and resolutions interleave and break off.
EditsOutliveConflicts == wanted \subseteq {working, held} \cup Range(copies)

\* Where a file has several copies, a bulk Keep Remote ends on the newest: it
\* never promotes an older copy over a newer one, whatever conflicts come up or
\* are resolved elsewhere meanwhile.
BulkEndsOnNewest ==
    task.bulk => \A d \in promoted, e \in Range(task.todo) :
                     e >= d /\ (e = d => task.copied)

\* "Kept local version of {name}" (conflict_resolver.rs): the copy is "the
\* engine's version of the remote content" (conflict_files.rs:345), so Keep
\* Local never deletes what was written on this computer.
KeepLocalKeepsLocal ==
    [][task.side = "local" => \A d \in DOMAIN copies \ DOMAIN copies' :
           d = Head(task.todo) => copies[d].by # "here"]_conflictVars
=============================================================================
