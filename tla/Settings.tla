------------------------------ MODULE Settings ------------------------------
(***************************************************************************)
(* The settings file (ConfigStore of storage/config.rs).  Every change of  *)
(* it is load, mutate, save: the new content goes to a staging file of its *)
(* own, is forced to disk and renamed over the settings, and the directory *)
(* is forced to disk after it.  Two instances of the program work on one   *)
(* file here; one can be killed between any two steps, each step can fail, *)
(* and the power can go.                                                   *)
(*                                                                         *)
(* What the file holds is a set of accounts, or Garbled for what no parser *)
(* accepts.  Schema migrations and validation belong to load and are left  *)
(* out, as are the folders of an account.                                  *)
(***************************************************************************)
EXTENDS Naturals

CONSTANTS
    Processes, Entries,
    Garbled,        \* what is neither the old nor the new content
    NoFile,         \* no such file
    MaxSaves,       \* bound: how often somebody saves
    MaxMishaps      \* bound: failing steps, kills and power cuts

VARIABLES
    settings,   \* what the file holds, as every process reads it
    staged,     \* staging file -> [holds, synced], or NoFile
    afterCut,   \* what the file may hold once the power is back
    writer,     \* process -> [at, config, turn]
    turns,      \* how many saves were put in place
    renames,    \* the last save that was answered for, and those put in place since:
                \* a set of [turn, config]
    tries, mishaps

ASSUME StoreAssumption == \A config \in SUBSET Entries : config # Garbled

settingsVars == <<settings, staged, afterCut, writer, turns, renames, tries, mishaps>>

AtRest == [at |-> "rest", config |-> {}, turn |-> 0]

SettingsInit ==
    /\ settings = {} /\ staged = [p \in Processes |-> NoFile]
    /\ afterCut = {{}}
    /\ writer = [p \in Processes |-> AtRest]
    /\ turns = 0 /\ renames = {[turn |-> 0, config |-> {}]}
    /\ tries = 0 /\ mishaps = 0

\* Mutant: the fixed suffix of before issue #136.
SharedPath(p) == CHOOSE q \in Processes : TRUE

\* pid and counter keep every writer on its own staging file.
TemporaryPath(p) == p

-----------------------------------------------------------------------------
(* load, mutate and the steps of save.                                     *)

\* add_account and add_folder refuse what is there, remove_account and
\* remove_folder what is not; update_account, persist_account and
\* persist_config write the whole file for a change inside an entry.
Mutated(config) == {config \cup {e} : e \in Entries} \cup {config \ {e} : e \in Entries}

\* A file that does not parse is an error to every operation.
Load(p) ==
    /\ writer[p].at = "rest" /\ settings # Garbled /\ tries < MaxSaves
    /\ tries' = tries + 1
    /\ \E config \in Mutated(settings) :
         writer' = [writer EXCEPT ![p] = [at |-> "open", config |-> config, turn |-> 0]]
    /\ UNCHANGED <<settings, staged, afterCut, turns, renames, mishaps>>

\* The writer goes on to its next step.
Goes(p, at) == writer' = [writer EXCEPT ![p].at = at]

\* open(create, truncate)
OpenStaging(p) ==
    /\ writer[p].at = "open" /\ Goes(p, "write")
    /\ staged' = [staged EXCEPT ![TemporaryPath(p)] = [holds |-> Garbled, synced |-> FALSE]]
    /\ UNCHANGED <<settings, afterCut, turns, renames, tries, mishaps>>

\* write_all
WriteStaging(p) ==
    /\ writer[p].at = "write" /\ Goes(p, "sync")
    /\ staged' = [staged EXCEPT ![TemporaryPath(p)] =
                     [holds |-> writer[p].config, synced |-> FALSE]]
    /\ UNCHANGED <<settings, afterCut, turns, renames, tries, mishaps>>

\* sync_all of the staging file.
SyncStaging(p) ==
    /\ writer[p].at = "sync" /\ Goes(p, "rename")
    /\ staged' = [staged EXCEPT ![TemporaryPath(p)] =
                     [holds |-> writer[p].config, synced |-> TRUE]]
    /\ UNCHANGED <<settings, afterCut, turns, renames, tries, mishaps>>

\* Until the directory is synced a power cut may undo the rename, and of
\* content that was not synced it leaves anything.
ReplaceSettings(p) ==
    LET t == TemporaryPath(p)
    IN /\ writer[p].at = "rename" /\ staged[t] # NoFile
       /\ settings' = staged[t].holds
       /\ afterCut' = afterCut \cup (IF staged[t].synced THEN {staged[t].holds}
                                     ELSE {staged[t].holds, Garbled})
       /\ staged' = [staged EXCEPT ![t] = NoFile]
       /\ turns' = turns + 1
       /\ renames' = renames \cup {[turn |-> turns + 1, config |-> writer[p].config]}
       /\ writer' = [writer EXCEPT ![p] = [@ EXCEPT !.at = "directory", !.turn = turns + 1]]
       /\ UNCHANGED <<tries, mishaps>>

\* What is answered for is p's save and the ones that came after it.
AnsweredFor(p) == {r \in renames : r.turn >= writer[p].turn}

\* Mutant: the rename is left to the file system.
AnswerAtOnce(p) ==
    /\ writer[p].at = "directory"
    /\ renames' = AnsweredFor(p)
    /\ writer' = [writer EXCEPT ![p] = AtRest]
    /\ UNCHANGED <<afterCut, settings, staged, turns, tries, mishaps>>

\* sync_all of the directory; save answers Ok.
SyncDirectory(p) ==
    /\ writer[p].at = "directory"
    /\ afterCut' = {settings} \cup (afterCut \cap {Garbled})
    /\ renames' = AnsweredFor(p)
    /\ writer' = [writer EXCEPT ![p] = AtRest]
    /\ UNCHANGED <<settings, staged, turns, tries, mishaps>>

-----------------------------------------------------------------------------
(* What goes wrong.                                                        *)

MayGoWrong == mishaps < MaxMishaps /\ mishaps' = mishaps + 1

\* A step fails: the staging file goes and save answers with the error, also
\* when all that failed is syncing the directory after the rename.
StepFails(p) ==
    /\ writer[p].at # "rest" /\ MayGoWrong
    /\ staged' = [staged EXCEPT ![TemporaryPath(p)] = NoFile]
    /\ writer' = [writer EXCEPT ![p] = AtRest]
    /\ UNCHANGED <<settings, afterCut, turns, renames, tries>>

\* The process dies and its staging file stays; its next life has another pid.
ProcessDies(p) ==
    /\ writer[p].at # "rest" /\ MayGoWrong
    /\ writer' = [writer EXCEPT ![p] = AtRest]
    /\ UNCHANGED <<settings, staged, afterCut, turns, renames, tries>>

\* The power goes: the disk decides between what it may hold.
PowerCut ==
    /\ MayGoWrong
    /\ settings' \in afterCut /\ afterCut' = {settings'}
    /\ staged' = [p \in Processes |-> NoFile]
    /\ writer' = [p \in Processes |-> AtRest]
    /\ renames' = {[turn |-> turns, config |-> settings']}
    /\ UNCHANGED <<turns, tries>>

Save(p) ==
    \/ OpenStaging(p) \/ WriteStaging(p) \/ SyncStaging(p)
    \/ ReplaceSettings(p) \/ SyncDirectory(p)

SettingsNext ==
    \/ \E p \in Processes : Load(p) \/ Save(p) \/ StepFails(p) \/ ProcessDies(p)
    \/ PowerCut

SettingsSpec == SettingsInit /\ [][SettingsNext]_settingsVars

-----------------------------------------------------------------------------
\* Whoever reads the settings, now or after a power cut, finds a configuration
\* that somebody saved as a whole.
SettingsAreWhole == settings # Garbled /\ Garbled \notin afterCut

\* A save that was answered with Ok is there after a power cut, unless a later
\* one replaced it.
SavesSurvive == \A config \in afterCut : \E r \in renames : r.config = config

=============================================================================
