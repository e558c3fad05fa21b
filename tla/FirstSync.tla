------------------------------ MODULE FirstSync ------------------------------
(***************************************************************************)
(* How a folder enters the application: the last page of the Add Account   *)
(* wizard (ui/setup.rs) and the Add Folder dialog (ui/settings.rs), each   *)
(* with a probe of the server (nextcloud/api.rs) and the review of what    *)
(* the first synchronization would do (core/sync_safety.rs,                *)
(* ui/safety_review.rs), and what ends up in the configuration.            *)
(*                                                                         *)
(* A probe is a thread; the wizard stays usable while it runs, the server, *)
(* the disk and the settings change meanwhile, and what is committed is    *)
(* what the wizard holds by then.  Signing in is Wizard's; here it is one  *)
(* step.                                                                   *)
(***************************************************************************)
EXTENDS Integers, FiniteSets, SequencesExt

CONSTANTS
    Clouds,          \* accounts: a server and a login name each
    OpenClouds,      \* those of an OpenCloud server
    Homes,           \* local folders
    Places,          \* remote folders of an account, or spaces
    NamedAfter,      \* per local folder: the remote one of the same name
    Drives,          \* per OpenCloud account: the drives it can see
    NoPlace,         \* no remote folder, no space
    FirstWorlds,     \* what is on disk and on the servers at the start
    Wishes,          \* the pairs of folders a user may type
    MaxSetups,       \* bound: wizards opened
    MaxInquiries,    \* bound: probes and reviews at once
    MaxAsks,         \* bound: probes in all
    MaxAccidents     \* bound: changes from outside, and things that fail

ASSUME FirstSyncAssumption ==
    /\ OpenClouds \subseteq Clouds /\ NoPlace \notin Places
    /\ NamedAfter \in [Homes -> Places] /\ Wishes \subseteq Homes \X (Places \cup {NoPlace})
    /\ Drives \in [OpenClouds -> SUBSET [place: Places, kind: {"personal", "project", "share"},
                                         own: BOOLEAN, rank: Nat]]
    /\ {MaxSetups, MaxInquiries, MaxAsks, MaxAccidents} \subseteq Nat

VARIABLES
    setups,     \* the wizards, with what each collected
    shownSetup, \* MainWindow.setup_window: the wizard on display, or 0
    searches,   \* discoveries of spaces under way
    inquiries,  \* probes under way and reviews on display
    homes,      \* the local folders
    holdings,   \* per account and remote folder: what the server holds
    limited,    \* the setting: large downloads have to be confirmed
    registry,   \* the configured accounts with their folders
    accepted,   \* history: who accepted a large download
    asks, accidents

firstSyncVars == <<setups, shownSetup, searches, inquiries, homes, holdings, limited,
                   registry, accepted, asks, accidents>>

Home(files, journals) == [there |-> files \/ journals, files |-> files, journals |-> journals]
Amounts == {"nowhere", "nothing", "little", "much"}
NoCloud == "nobody"
TheDialog == 0                       \* who asks: a wizard, by its number, or this
NewSetup == [open |-> FALSE, page |-> "authentication", cloud |-> NoCloud,
             folders |-> <<>>, space |-> NoPlace, sized |-> FALSE]
Unasked == [stage |-> "free"]
Unconfigured == [there |-> FALSE, folders |-> {}]

FirstSyncInit ==
    /\ setups = [w \in 1..MaxSetups |-> NewSetup] /\ shownSetup = 0
    /\ searches = {} /\ inquiries = [i \in 1..MaxInquiries |-> Unasked]
    /\ \E world \in FirstWorlds :
           homes = world.homes /\ holdings = world.holdings /\ limited = world.limited
    /\ registry = [c \in Clouds |-> Unconfigured]
    /\ accepted = {} /\ asks = 0 /\ accidents = 0

Accident == accidents < MaxAccidents /\ accidents' = accidents + 1
NoAccident == UNCHANGED accidents

\* A review is a modal dialog: nothing behind it can be clicked.
Unblocked == \A i \in DOMAIN inquiries : inquiries[i].stage # "review"

-----------------------------------------------------------------------------
(* The wizard up to its last page.                                         *)

\* show_add_account: the one that is there comes back as it was left.
OpenSetup(w) ==
    /\ Unblocked /\ shownSetup = 0 /\ setups[w] = NewSetup
    /\ \A v \in 1..(w - 1) : setups[v] # NewSetup
    /\ setups' = [setups EXCEPT ![w].open = TRUE] /\ shownSetup' = w
    /\ UNCHANGED <<searches, inquiries, homes, holdings, limited, registry, accepted,
                   asks, accidents>>

OnPage(w, page) == shownSetup = w /\ setups[w].page = page /\ Unblocked

\* An account that is configured already is refused, after its name was taken
\* over.  On an OpenCloud server the search for its spaces starts.
SignIn(w, cloud) ==
    /\ OnPage(w, "authentication")
    /\ setups' = [setups EXCEPT ![w].cloud = cloud,
                      ![w].page = IF registry[cloud].there THEN @ ELSE "folders"]
    /\ searches' = searches \cup
           (IF cloud \in OpenClouds /\ ~registry[cloud].there
            THEN {[setup |-> w, cloud |-> cloud]} ELSE {})
    /\ UNCHANGED <<shownSetup, inquiries, homes, holdings, limited, registry, accepted,
                   asks, accidents>>

\* list_opencloud_spaces: one's own space and those of projects, by their names;
\* other people's and the virtual drive of shares are left out.
Spaces(cloud) == {d \in Drives[cloud] : d.kind = "project" \/ (d.kind = "personal" /\ d.own)}
FirstSpace(cloud) ==
    IF Spaces(cloud) = {} THEN NoPlace
    ELSE (CHOOSE d \in Spaces(cloud) : \A e \in Spaces(cloud) : d.rank <= e.rank).place

\* The first space, or none after a failure, whoever is signed in by now.
SpacesFound(s) ==
    /\ \/ /\ setups' = [setups EXCEPT ![s.setup].space = FirstSpace(s.cloud)]
          /\ NoAccident
       \/ /\ setups' = [setups EXCEPT ![s.setup].space = NoPlace]
          /\ Accident
    /\ searches' = searches \ {s}
    /\ UNCHANGED <<shownSetup, inquiries, homes, holdings, limited, registry, accepted, asks>>

GoBack(w) ==
    /\ OnPage(w, "folders")
    /\ setups' = [setups EXCEPT ![w].page = "authentication"]
    /\ UNCHANGED <<shownSetup, searches, inquiries, homes, holdings, limited, registry,
                   accepted, asks, accidents>>

\* Without a space an OpenCloud account gets no dialog.
OfferFolder(w) ==
    /\ OnPage(w, "folders")
    /\ setups[w].cloud \in OpenClouds => setups[w].space # NoPlace
    /\ setups' = [setups EXCEPT ![w].page = "adding"]
    /\ UNCHANGED <<shownSetup, searches, inquiries, homes, holdings, limited, registry,
                   accepted, asks, accidents>>

Pair(cloud, home, place, space) ==
    [home |-> home, place |-> place,
     space |-> IF cloud \in OpenClouds THEN space ELSE NoPlace]

\* The dialog's answer; a local folder the wizard has already is refused and the
\* dialog comes back.  The space is the one that is known by now.
CollectFolder(w, home, place) ==
    LET setup == setups[w]
    IN  /\ OnPage(w, "adding") /\ place # NoPlace
        /\ \A n \in DOMAIN setup.folders : setup.folders[n].home # home
        /\ setups' = [setups EXCEPT ![w].page = "folders",
                          ![w].folders = Append(@, Pair(setup.cloud, home, place, setup.space))]
        /\ UNCHANGED <<shownSetup, searches, inquiries, homes, holdings, limited, registry,
                       accepted, asks, accidents>>

\* The bin beside a row.
ForgetFolder(w, home) ==
    /\ OnPage(w, "folders")
    /\ \E n \in DOMAIN setups[w].folders : setups[w].folders[n].home = home
    /\ setups' = [setups EXCEPT ![w].folders =
                      SelectSeq(@, LAMBDA pair : pair.home # home)]
    /\ UNCHANGED <<shownSetup, searches, inquiries, homes, holdings, limited, registry,
                   accepted, asks, accidents>>

-----------------------------------------------------------------------------
(* What is asked before a first synchronization (core/sync_safety.rs).     *)

\* A folder that is not there, or cannot be read, counts as full.
LocalEmpty(home) == homes[home] = [Home(FALSE, FALSE) EXCEPT !.there = TRUE]

\* first_sync_warnings.
Warnings(remote, localEmpty, journals, threshold) ==
    {x \in {"merge", "old", "large"} :
        \/ x = "merge" /\ remote.known /\ remote.filled /\ ~localEmpty
        \/ x = "old" /\ journals
        \/ x = "large" /\ threshold /\ remote.size = "over"}

HomesOf(folders) == {folders[n].home : n \in DOMAIN folders}

\* Mutant: only the first folder is looked into.
FirstJournals(folders) == folders # <<>> /\ homes[folders[1].home].journals

\* stale_artifact_names, for all the folders of a wizard.
Journals(folders) == \E h \in HomesOf(folders) : homes[h].journals

\* History: what there was to ask of each folder, the server as it was when it
\* was probed and the disk as it is now.
Due(folders, cloud, truth, sizeKnown, threshold) ==
    [n \in DOMAIN folders |->
        LET amount == truth[IF cloud \in OpenClouds THEN folders[n].space
                            ELSE folders[n].place]
            home == homes[folders[n].home]
        IN  {x \in {"merge", "old", "large"} :
                \/ /\ x = "merge" /\ amount \in {"little", "much"}
                   /\ home.files \/ home.journals
                \/ x = "old" /\ home.journals
                \/ x = "large" /\ sizeKnown /\ threshold /\ amount = "much"}]

Unknown == [known |-> FALSE, filled |-> FALSE, size |-> "unknown"]

\* size_threshold_bytes; 0 in the settings asks nothing.
Threshold == limited

\* A click on Finish Setup or Add: a thread asks the server about a folder, the
\* first of a wizard's.  The dialog takes the space of its account's other
\* folders and reads the threshold now, the wizard reads it afterwards.
Inquires(who, cloud, folders) ==
    /\ asks < MaxAsks /\ asks' = asks + 1
    /\ \E i \in DOMAIN inquiries :
           /\ inquiries[i] = Unasked
           /\ \A j \in 1..(i - 1) : inquiries[j] # Unasked
           /\ inquiries' = [inquiries EXCEPT ![i] =
                  [stage |-> "probing", who |-> who, cloud |-> cloud, folders |-> folders,
                   threshold |-> Threshold, remote |-> Unknown, asked |-> {}, altered |-> FALSE,
                   truth |-> [p \in Places \cup {NoPlace} |-> "nowhere"], due |-> <<>>]]

\* A shallow PROPFIND of the folder, or of the space.
Filled(amount) == amount # "nothing"
\* The files of the whole tree, unless the server refuses to walk it.
TreeSize(amount) == IF amount = "much" THEN {"over"} ELSE {"under"}
\* The quota of a space counts more than its files.
QuotaUsed(amount) == TreeSize(amount) \cup {"over"}

\* The thread: without a password, a space or an answer nothing is known; where
\* there is no such folder the answer is an error.
ProbeAnswers(i) ==
    LET q == inquiries[i]
        isSpace == q.cloud \in OpenClouds
        place == IF isSpace THEN q.folders[1].space ELSE q.folders[1].place
        truth == [p \in Places \cup {NoPlace} |->
                     IF p = NoPlace THEN "nowhere" ELSE holdings[q.cloud][p]]
        amount == truth[place]
        Says(remote) == inquiries' = [inquiries EXCEPT ![i].stage = "answered",
                                          ![i].remote = remote, ![i].truth = truth]
        Tells(size) == Says([known |-> TRUE, filled |-> Filled(amount), size |-> size])
    IN  /\ q.stage = "probing"
        /\ \/ amount = "nowhere" /\ Says(Unknown) /\ NoAccident
           \/ amount # "nowhere" /\ Says(Unknown) /\ Accident
           \/ amount # "nowhere" /\ Tells("unknown") /\ Accident
           \/ /\ amount # "nowhere" /\ NoAccident
              /\ \E size \in IF isSpace THEN QuotaUsed(amount) ELSE TreeSize(amount) : Tells(size)
        /\ UNCHANGED <<setups, shownSetup, searches, homes, holdings, limited, registry,
                       accepted, asks>>

-----------------------------------------------------------------------------
(* What is committed.                                                      *)

\* History: with what each folder came into the configuration.
Entry(pair, sized, who, asked, due, known, first, altered) ==
    [home |-> pair.home, place |-> pair.place, space |-> pair.space, sized |-> sized,
     who |-> who, asked |-> asked, due |-> due, known |-> known, first |-> first,
     altered |-> altered]

\* finish_setup, with what the wizard holds now: the folders are created, the
\* account is added unless there is one of its name, and the wizard on display
\* closes, whichever it is.  `after' is the disk as the answer left it.
FinishSetup(w, after, sized, asked, due, known, altered) ==
    LET setup == setups[w]
        cloud == setup.cloud
        mine == HomesOf(setup.folders)
    IN  /\ homes' = [h \in Homes |-> IF h \in mine THEN [after[h] EXCEPT !.there = TRUE]
                                     ELSE after[h]]
        /\ IF registry[cloud].there
           THEN /\ setups' = [setups EXCEPT ![w].sized = sized]
                /\ UNCHANGED <<registry, shownSetup>>
           ELSE /\ registry' = [registry EXCEPT ![cloud] =
                       [there |-> TRUE,
                        folders |-> {Entry(setup.folders[n], sized, w, asked,
                                           IF n \in DOMAIN due THEN due[n] ELSE {},
                                           known, n = 1, altered) :
                                     n \in DOMAIN setup.folders}]]
                /\ shownSetup' = 0
                /\ setups' = [v \in DOMAIN setups |->
                                 IF v = w THEN [setup EXCEPT !.sized = sized, !.open = FALSE]
                                 ELSE IF v = shownSetup THEN [setups[v] EXCEPT !.open = FALSE]
                                 ELSE setups[v]]

\* start_syncing: nothing to ask without folders.
FinishClicked(w) ==
    /\ OnPage(w, "folders")
    /\ IF setups[w].folders = <<>>
       THEN /\ FinishSetup(w, homes, setups[w].sized, {}, <<>>, FALSE, FALSE)
            /\ UNCHANGED <<inquiries, asks>>
       ELSE /\ Inquires(w, setups[w].cloud, setups[w].folders)
            /\ UNCHANGED <<setups, shownSetup, homes, registry>>
    /\ UNCHANGED <<searches, holdings, limited, accepted, accidents>>

\* The wizard's answer: a review whenever the server could be asked, of the
\* folders the wizard has by then, and none when it could not.
SetupHears(i) ==
    LET q == inquiries[i]
        w == q.who
        folders == setups[w].folders
        changed == folders # q.folders \/ setups[w].cloud # q.cloud
        due == Due(folders, q.cloud, q.truth, q.remote.size # "unknown", Threshold)
    IN  /\ q.stage = "answered" /\ w # TheDialog
        /\ IF q.remote.known
           THEN /\ inquiries' = [inquiries EXCEPT
                       ![i].stage = "review", ![i].folders = folders,
                       ![i].asked = Warnings(q.remote, \A h \in HomesOf(folders) : LocalEmpty(h),
                                             Journals(folders), Threshold),
                       ![i].altered = changed, ![i].due = due]
                /\ UNCHANGED <<setups, shownSetup, homes, registry>>
           ELSE /\ inquiries' = [inquiries EXCEPT ![i] = Unasked]
                /\ FinishSetup(w, homes, setups[w].sized, {}, due, FALSE, changed)
        /\ UNCHANGED <<searches, holdings, limited, accepted, asks, accidents>>

-----------------------------------------------------------------------------
(* The Add Folder dialog of a configured account.                          *)

\* remote_path_for: an empty field stands for a folder of the same name.
RemotePathFor(home, text) == IF text = NoPlace THEN NamedAfter[home] ELSE text

KnownSpace(cloud) ==
    LET spaces == {f.space : f \in registry[cloud].folders} \ {NoPlace}
    IN  IF spaces = {} THEN NoPlace ELSE CHOOSE s \in spaces : TRUE

AddClicked(cloud, home, text) ==
    /\ Unblocked /\ registry[cloud].there
    /\ Inquires(TheDialog, cloud,
                <<Pair(cloud, home, RemotePathFor(home, text), KnownSpace(cloud))>>)
    /\ UNCHANGED <<setups, shownSetup, searches, homes, holdings, limited, registry,
                   accepted, accidents>>

\* add_folder: refused when the account is gone or has this very pair.
Addable(cloud, pair) ==
    /\ registry[cloud].there
    /\ ~\E f \in registry[cloud].folders : f.home = pair.home /\ f.place = pair.place

\* After a refusal the dialog comes back with what was typed.
CommitFolder(q, asked, due) ==
    LET pair == q.folders[1]
        entry == Entry(pair, "large" \in asked, TheDialog, asked, due[1], q.remote.known,
                       TRUE, FALSE)
    IN  registry' = IF Addable(q.cloud, pair)
                    THEN [registry EXCEPT ![q.cloud].folders = @ \cup {entry}]
                    ELSE registry

\* The dialog's answer: a review only when there is something to ask.
DialogHears(i) ==
    LET q == inquiries[i]
        home == q.folders[1].home
        asked == Warnings(q.remote, LocalEmpty(home), Journals(q.folders), q.threshold)
        due == Due(q.folders, q.cloud, q.truth, q.remote.size # "unknown", q.threshold)
    IN  /\ q.stage = "answered" /\ q.who = TheDialog
        /\ IF asked # {}
           THEN /\ inquiries' = [inquiries EXCEPT ![i].stage = "review", ![i].asked = asked,
                                                  ![i].due = due]
                /\ UNCHANGED registry
           ELSE /\ inquiries' = [inquiries EXCEPT ![i] = Unasked]
                /\ CommitFolder(q, {}, due)
        /\ UNCHANGED <<setups, shownSetup, searches, homes, holdings, limited, accepted,
                       asks, accidents>>

-----------------------------------------------------------------------------
(* The answers of a review (ui/safety_review.rs).                          *)

\* Back to setup.
Cancels(i) ==
    LET w == inquiries[i].who
    IN  /\ inquiries[i].stage = "review"
        /\ inquiries' = [inquiries EXCEPT ![i] = Unasked]
        /\ setups' = IF w = TheDialog THEN setups
                     ELSE [setups EXCEPT ![w].page = IF @ = "adding" THEN @ ELSE "folders"]
        /\ UNCHANGED <<shownSetup, searches, homes, holdings, limited, registry, accepted,
                       asks, accidents>>

\* trash_stale_artifacts: what cannot be moved to the trash stays.
SweptUp(stale, failed) ==
    [h \in Homes |-> IF h \in stale \ failed THEN [homes[h] EXCEPT !.journals = FALSE]
                     ELSE homes[h]]

\* Start Fresh puts the journals of every folder of the review into the trash;
\* the other answers leave them.  Then comes the commit.
Decides(i, fresh) ==
    LET q == inquiries[i]
        w == q.who
        stale == {h \in HomesOf(q.folders) : fresh /\ homes[h].journals}
        Commits(after) ==
            IF w = TheDialog
            THEN /\ homes' = after /\ CommitFolder(q, q.asked, q.due)
                 /\ UNCHANGED <<setups, shownSetup>>
            ELSE FinishSetup(w, after, setups[w].sized \/ "large" \in q.asked, q.asked,
                             q.due, TRUE, q.altered)
    IN  /\ q.stage = "review" /\ (fresh => "old" \in q.asked)
        /\ \/ Commits(SweptUp(stale, {})) /\ NoAccident
           \/ \E h \in stale : Commits(SweptUp(stale, {h})) /\ Accident
        /\ accepted' = accepted \cup (IF "large" \in q.asked THEN {w} ELSE {})
        /\ inquiries' = [inquiries EXCEPT ![i] = Unasked]
        /\ UNCHANGED <<searches, holdings, limited, asks>>

-----------------------------------------------------------------------------
(* Around them.                                                            *)

OthersWrite(cloud, place) ==
    /\ Accident
    /\ \E amount \in Amounts \ {holdings[cloud][place]} :
           holdings' = [holdings EXCEPT ![cloud][place] = amount]
    /\ UNCHANGED <<setups, shownSetup, searches, inquiries, homes, limited, registry,
                   accepted, asks>>

HomeChanges(home) ==
    /\ Accident
    /\ \E state \in {Home(FALSE, FALSE), Home(TRUE, FALSE), Home(TRUE, TRUE)} \ {homes[home]} :
           homes' = [homes EXCEPT ![home] = state]
    /\ UNCHANGED <<setups, shownSetup, searches, inquiries, holdings, limited, registry,
                   accepted, asks>>

ThresholdSet ==
    /\ Accident /\ Unblocked /\ limited' = ~limited
    /\ UNCHANGED <<setups, shownSetup, searches, inquiries, homes, holdings, registry,
                   accepted, asks>>

AccountRemoved(cloud) ==
    /\ Accident /\ Unblocked /\ registry[cloud].there
    /\ registry' = [registry EXCEPT ![cloud] = Unconfigured]
    /\ UNCHANGED <<setups, shownSetup, searches, inquiries, homes, holdings, limited,
                   accepted, asks>>

FirstSyncNext ==
    \/ \E w \in DOMAIN setups :
           \/ OpenSetup(w) \/ GoBack(w) \/ OfferFolder(w) \/ FinishClicked(w)
           \/ \E c \in Clouds : SignIn(w, c)
           \/ \E h \in Homes : ForgetFolder(w, h)
           \/ \E wish \in Wishes : CollectFolder(w, wish[1], wish[2])
    \/ \E s \in searches : SpacesFound(s)
    \/ \E i \in DOMAIN inquiries :
           \/ ProbeAnswers(i) \/ SetupHears(i) \/ DialogHears(i) \/ Cancels(i)
           \/ \E fresh \in BOOLEAN : Decides(i, fresh)
    \/ \E c \in Clouds, wish \in Wishes : AddClicked(c, wish[1], wish[2])
    \/ \E c \in Clouds : AccountRemoved(c) \/ \E p \in Places : OthersWrite(c, p)
    \/ \E h \in Homes : HomeChanges(h)
    \/ ThresholdSet

FirstSyncSpec == FirstSyncInit /\ [][FirstSyncNext]_firstSyncVars

-----------------------------------------------------------------------------
\* Nobody's files are merged, and no large tree comes down, by surprise: what
\* there was to ask about a folder when its probe was answered, the user was
\* asked before it came into the configuration.  A wizard asks the server about
\* the first of its folders, asks nothing when the server does not answer, and
\* commits what was changed under its probe; the dialog asks about old journals
\* whatever the server says.  A folder is marked as confirmed large only after
\* somebody in the same dialog or wizard accepted that.
FirstSyncsAreReviewed ==
    \A c \in Clouds : \A f \in registry[c].folders :
        /\ (f.known \/ f.who = TheDialog) /\ ~f.altered =>
               /\ "old" \in f.due => "old" \in f.asked
               /\ f.known /\ f.first => f.due \subseteq f.asked
        /\ f.sized => f.who \in accepted

=============================================================================
