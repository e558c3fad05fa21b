------------------------------ MODULE Progress ------------------------------
(***************************************************************************)
(* How what an engine is doing reaches the row of its folder: the sink of  *)
(* src/nextcloud/native_runner.rs, the bounded channel and the forwarder   *)
(* of src/core/account_runtime.rs, and the progress half of the folder's   *)
(* state controller.                                                       *)
(*                                                                         *)
(* The engine of a run works on a thread of its own and reports before     *)
(* each operation; a report waits for room in the channel.  Everything     *)
(* else runs on the main loop.  Forwarders are connected once, at startup, *)
(* for the folders there are by then.                                      *)
(***************************************************************************)
EXTENDS Integers, SequencesExt

CONSTANTS
    Rows,           \* the folders, each with its row
    EventRoom,      \* what a channel holds (256)
    MaxOperations,  \* bound: reports of one run
    MaxRuns,        \* bound: runs since the launch
    NoLine          \* no progress to show

ASSUME ProgressAssumption == {EventRoom, MaxOperations, MaxRuns} \subseteq Nat

VARIABLES
    launched,  \* the startup handler has connected the folders
    progress,  \* per folder: its run, its channel and its line; `late' is history
    slot       \* the permit: how many runs began, and who waits for the one slot

progressVars == <<launched, progress, slot>>

\* is_operation(): what is worth a line; moves, new directories and the rest
\* hide it.
Kinds == {"operation", "other"}

NoRow ==
    [phase |-> "away", late |-> FALSE, connected |-> FALSE, active |-> FALSE,
     channel |-> <<>>, left |-> 0, line |-> NoLine]

Taken == \E r \in Rows : progress[r].phase \in {"running", "ended"}
Idling(r) == progress[r].phase = "idle"

ProgressInit ==
    /\ launched = FALSE
    /\ \E first \in SUBSET Rows :
           progress = [r \in Rows |-> IF r \in first THEN [NoRow EXCEPT !.phase = "idle"]
                                      ELSE NoRow]
    /\ slot = [runs |-> 0, waiters |-> <<>>]

-----------------------------------------------------------------------------
(* The main loop.                                                          *)

\* Mutant: a folder whose first run is under way is left for later.
ConnectedAtRest(row) ==
    IF row.phase = "idle" THEN [row EXCEPT !.connected = TRUE] ELSE row

\* connect_progress: a run that is under way goes on being shown (issue #148).
Connected(row) ==
    [row EXCEPT !.connected = TRUE, !.active = row.phase \in {"running", "ended"}]

\* connect_all_glue, in the handler of the application's startup.
Connect ==
    /\ ~launched
    /\ launched' = TRUE
    /\ progress' = [r \in Rows |-> IF progress[r].phase = "away" THEN progress[r]
                                   ELSE Connected(progress[r])]
    /\ UNCHANGED slot

\* ensure_folder, while the application runs: a channel, and nobody who reads it.
AddRow(r) ==
    /\ launched /\ progress[r].phase = "away"
    /\ progress' = [progress EXCEPT ![r].phase = "idle", ![r].late = TRUE]
    /\ UNCHANGED <<launched, slot>>

\* prepare_sync: only a connected folder has the flag.
Prepared(row) == [row EXCEPT !.active = row.connected, !.line = NoLine]

Begun(row, n) == [Prepared(row) EXCEPT !.phase = "running", !.left = n]

\* An attempt to synchronize: a run if the slot is free and nobody is in line.
Attempt(r) ==
    /\ Idling(r) /\ slot.runs < MaxRuns
    /\ \/ /\ ~Taken /\ slot.waiters = <<>>
          /\ \E n \in 0..MaxOperations : progress' = [progress EXCEPT ![r] = Begun(@, n)]
          /\ slot' = [slot EXCEPT !.runs = @ + 1]
       \/ /\ Taken \/ slot.waiters # <<>>
          /\ progress' = [progress EXCEPT ![r] = [Prepared(@) EXCEPT !.phase = "waiting"]]
          /\ slot' = [slot EXCEPT !.runs = @ + 1, !.waiters = Append(@, r)]
    /\ UNCHANGED launched

\* The idle callback of a release: the oldest waiter starts again.
WaiterStarts ==
    /\ launched /\ ~Taken /\ slot.waiters # <<>>
    /\ LET r == Head(slot.waiters) IN
           \E n \in 0..MaxOperations : progress' = [progress EXCEPT ![r] = Begun(@, n)]
    /\ slot' = [slot EXCEPT !.waiters = Tail(@)]
    /\ UNCHANGED launched

\* The end of finished(): the flag drops before the line is cleared (issue #145).
Over(row) == [row EXCEPT !.phase = "idle", !.active = FALSE, !.line = NoLine]

RunOver(r) ==
    /\ launched /\ progress[r].phase = "ended"
    /\ progress' = [progress EXCEPT ![r] = Over(@)]
    /\ UNCHANGED <<launched, slot>>

\* What the forwarder does with the oldest report: paint it, or drop it.
Heard(row) ==
    [row EXCEPT !.channel = Tail(@),
                !.line = IF row.active THEN Head(row.channel) ELSE @]

Forward(r) ==
    /\ launched /\ progress[r].connected /\ progress[r].channel # <<>>
    /\ progress' = [progress EXCEPT ![r] = Heard(@)]
    /\ UNCHANGED <<launched, slot>>

-----------------------------------------------------------------------------
(* The engine's thread.                                                    *)

\* ChannelSink::event.
Announce(r) ==
    /\ progress[r].phase = "running" /\ progress[r].left > 0
    /\ Len(progress[r].channel) < EventRoom
    /\ \E kind \in Kinds :
           progress' = [progress EXCEPT ![r].channel = Append(@, kind), ![r].left = @ - 1]
    /\ UNCHANGED <<launched, slot>>

\* Engine::run returns; its outcome waits for the main loop.
EngineReturns(r) ==
    /\ progress[r].phase = "running" /\ progress[r].left = 0
    /\ progress' = [progress EXCEPT ![r].phase = "ended"]
    /\ UNCHANGED <<launched, slot>>

EngineWorks(r) == Announce(r) \/ EngineReturns(r)
LoopTurns(r) == RunOver(r) \/ Forward(r)

ProgressNext ==
    \/ Connect \/ WaiterStarts
    \/ \E r \in Rows : AddRow(r) \/ Attempt(r) \/ EngineWorks(r) \/ LoopTurns(r)

ProgressSpec == ProgressInit /\ [][ProgressNext]_progressVars

-----------------------------------------------------------------------------
\* A row shows progress only while a run of its folder is under way or in line,
\* whatever its engine left in the channel for the main loop to find afterwards.
LinesAreOfRuns ==
    \A r \in Rows : progress[r].line # NoLine => progress[r].phase \notin {"away", "idle"}

\* An engine whose reports nobody reads, with no room left for the next one: a
\* folder that was added while the application ran.
Jammed(r) ==
    /\ progress[r].phase = "running" /\ progress[r].left > 0
    /\ progress[r].late /\ Len(progress[r].channel) = EventRoom

\* Who attempts a run has it and comes to its end, unless the engine of a folder
\* that was added later is jammed: it holds the slot for ever.
RunsEndOrJam ==
    \A r \in Rows :
        progress[r].phase \in {"waiting", "running", "ended"}
            ~> (progress[r].phase = "idle" \/ \E late \in Rows : Jammed(late))

=============================================================================
