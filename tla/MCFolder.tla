------------------------------ MODULE MCFolder ------------------------------
(***************************************************************************)
(* Folders for TLC, in one of six episodes. One folder: what the gates of  *)
(* its scheduler hold back and let through again; what becomes of it when  *)
(* settings change and it is removed, dropped and added again; file by     *)
(* file, what its two guards make of deletions; and how the user reviews   *)
(* them. How folders enter the application in the first place. And a fleet *)
(* of two, which share the permit. All inputs at once are more than TLC    *)
(* can enumerate: the gates and the fleet have those of the configuration, *)
(* a life has its own and takes the scheduler's steps with them.           *)
(***************************************************************************)
EXTENDS MCScheduler, DeletionGuard, Review, FirstSync

CONSTANT Episodes

VARIABLE episode

Lives == INSTANCE Scheduler WITH
    Inputs   <- {"battery", "hush", "push", "settings", "credentials", "delete",
                 "deleteInFlight", "restore", "guard", "folders"},
    Requests <- {"LocalInotify", "RemoteInterval"},
    Outcomes <- {"Success", "Failed", "AuthFailed"},
    MaxCallbacks <- 1

FolderInit ==
    /\ episode \in Episodes
    /\ Init /\ GuardInit /\ ReviewInit /\ FirstSyncInit
    /\ episode # "guards" => onServer = {}
    /\ episode # "reviews" => nextcloud /\ cloud.has = Goods /\ spares = {}
    /\ episode # "arrivals" =>
           \A h \in Homes : homes[h] = (CHOOSE w \in FirstWorlds : TRUE).homes[h]

FolderNext ==
    \/ episode \in {"gates", "fleet"} /\ Next
       /\ UNCHANGED <<episode, guardVars, reviewVars, firstSyncVars>>
    \/ episode = "lives" /\ Lives!Next /\ UNCHANGED <<episode, guardVars, reviewVars, firstSyncVars>>
    \/ episode = "guards" /\ GuardNext /\ UNCHANGED <<episode, vars, reviewVars, firstSyncVars>>
    \/ episode = "reviews" /\ ReviewNext /\ UNCHANGED <<episode, vars, guardVars, firstSyncVars>>
    \/ episode = "arrivals" /\ FirstSyncNext /\ UNCHANGED <<episode, vars, guardVars, reviewVars>>

FolderSpec ==
    FolderInit /\ [][FolderNext]_<<vars, episode, guardVars, reviewVars, firstSyncVars>>
FairFolderSpec == FolderSpec /\ Fairness

-----------------------------------------------------------------------------
\* No mass deletion goes out before its review.  Restores and deletions during
\* a run belong to the episode of lives: with them it does not hold.
MassDeletionsWait == episode = "gates" => MassDeletionReviewed

\* Nothing queued is stranded by a pause, a lost network, a metered one or the
\* end of a run.  Quiet hours end without an event: what they held back waits
\* for the next interval, so they belong to the episode of lives.
NothingStranded == episode = "gates" => NoStrandedWork

-----------------------------------------------------------------------------
\* Three files in a directory and two beside it; what is missing is worth a
\* summary, or a list with a group.
Tree == [p \in 1..5 |-> IF p <= 3 THEN 1 ELSE 0]
Lost == {{1, 2, 3, 4, 5}, {1, 2, 4}}

\* A new folder with old journals, one with files, one that is not there yet;
\* servers that hold little, much or nothing.
CONSTANTS n1, o1, h1, h2, q1, q2

NameOf == [h \in Homes |-> IF h = h1 THEN q1 ELSE q2]
Shared == [place |-> q1, kind |-> "project", own |-> FALSE, rank |-> 1]
DrivesOf == [c \in OpenClouds |->
                {Shared, [Shared EXCEPT !.place = q2, !.kind = "personal", !.rank = 0]}]
Typed == {<<h1, q1>>, <<h2, q2>>, <<h2, NoPlace>>}
World(first, second, one, other, threshold) ==
    [homes |-> [h \in Homes |-> IF h = h1 THEN first ELSE second],
     holdings |-> [c \in Clouds |-> [p \in Places |-> IF p = q1 THEN one ELSE other]],
     limited |-> threshold]
EmptyHome == [Home(FALSE, FALSE) EXCEPT !.there = TRUE]
Arrivals == {World(EmptyHome, Home(FALSE, TRUE), "little", "much", TRUE),
             World(Home(TRUE, FALSE), Home(FALSE, FALSE), "much", "nowhere", TRUE),
             World(Home(TRUE, TRUE), EmptyHome, "nothing", "little", FALSE)}

=============================================================================
