---------------------------- MODULE MCSyncEngine ----------------------------
(***************************************************************************)
(* Instances of the engine for TLC: a directory, a file in it and one      *)
(* beside it, and what happens around the runs.                            *)
(***************************************************************************)
EXTENDS SyncEngineProps

SmallTree == <<<<"d">>, <<"d", "x">>, <<"y">>>>

Dirs  == {<<"d">>}
Files == Paths \ Dirs

FlatTree == <<<<"x">>, <<"y">>>>
FlatFiles == Paths
NoDirs == {}

Scenario(inputs, concurrent, faults, edits) ==
    [inputs |-> inputs, concurrent |-> concurrent, faults |-> faults, edits |-> edits]

\* Edits and local deletions between the runs.
Edits == Scenario({"localWrite", "remoteWrite", "mkdir", "localDelete"}, {}, {}, 5)

\* Deletions and renames by another client, with local deletions that fail.
Moves == Scenario({"localWrite", "mkdir", "remoteDelete", "move"}, {}, {"unlink"}, 5)

\* A run dies at any step, also between an effect and its journal row.
Deaths == Scenario({"localWrite", "remoteWrite", "mkdir"}, {}, {"crash"}, 4)

\* Other clients write during a run, transfers fail, a run is cancelled.
Rough == Scenario({"localWrite", "remoteWrite", "mkdir"}, {"remote"},
                  {"transfer", "cancel"}, 3)

\* Other clients write during a run, and every request is answered.
Beside == Scenario({"localWrite", "remoteWrite", "mkdir", "localDelete"}, {"remote"},
                   {"unlink"}, 3)

\* Listings of the server that fail, in part or as a whole.
Unlisted == Scenario({"localWrite", "remoteWrite", "mkdir"}, {}, {"listing"}, 3)

Ordinary == {Edits, Moves, Deaths, Rough, Unlisted, Beside}

\* Another client creates a file while a run is in progress.
CreatedBeside == {Scenario({"localWrite", "remoteWrite"}, {"remote"}, {}, 2)}

=============================================================================
