---------------------------- MODULE MCTransfers ----------------------------
(***************************************************************************)
(* What is on its way between a folder, the server and the disk, for TLC:  *)
(* a file that comes down or goes up, a change on its way to the           *)
(* scheduler, the settings on their way to the disk, the preferences on    *)
(* their way from the pages to the settings, what the engine and the       *)
(* accounts report on its way to the main window, what a server answers,   *)
(* publishes and notifies, a line on its way to the log, and what each     *)
(* part takes for the folder's files. The engine works through its plan    *)
(* one action at a time and a transfer touches no other file, so a         *)
(* behaviour is the life of one of them.                                   *)
(***************************************************************************)
EXTENDS Download, Upload, Watcher, Settings, Preferences, Progress, Window,
        Wire, Updates, ServerNotifications, Log, Scope

CONSTANT Directions

VARIABLE direction

answerVars == <<wireVars, updateVars, noticeVars, logVars, scopeVars>>
vars == <<direction, downloadVars, uploadVars, watcherVars, settingsVars,
          preferenceVars, progressVars, windowVars, answerVars>>

\* Nothing to look at.
Nowhere == [disk |-> {}, server |-> {}, patterns |-> <<>>, hidden |-> FALSE,
            purpose |-> "listing"]

\* The direction not taken rests in one of its initial states.
Init ==
    /\ direction \in Directions
    /\ DownloadInit /\ (direction # "down" => /\ setting = CHOOSE s \in DownloadSettings : TRUE
                                             /\ remote = CHOOSE v \in Versions : TRUE)
    /\ UploadInit /\ (direction # "up" => /\ way = CHOOSE w \in UploadSettings : TRUE
                                         /\ file = CHOOSE v \in Editions : TRUE)
    /\ WatcherInit /\ SettingsInit
    /\ PreferencesInit /\ (direction # "shown" => document = Written(DefaultConfig))
    /\ ProgressInit /\ (direction # "reported" => \A r \in Rows : progress[r] = NoRow)
    /\ WindowInit /\ (direction # "looked_at" =>
                         desk.order = <<>> /\ window.world = CHOOSE w \in WindowWorlds : TRUE)
    /\ WireInit /\ (direction # "read" => answering = CHOOSE w \in WireWorlds : TRUE)
    /\ UpdatesInit /\ (direction # "offered" => installed = CHOOSE v \in Installed : TRUE)
    /\ NoticesInit /\ (direction # "notified" =>
                          notices = <<>> /\ around.enabled /\ around.locked)
    /\ LogInit /\ (direction # "logged" => log.retention = CHOOSE n \in Retentions : TRUE)
    /\ ScopeInit /\ (direction # "scoped" => ground.world = Nowhere)

Down == /\ direction = "down"
        /\ UNCHANGED <<direction, uploadVars, watcherVars, settingsVars,
                       preferenceVars, progressVars, windowVars, answerVars>>
Up == /\ direction = "up"
      /\ UNCHANGED <<direction, downloadVars, watcherVars, settingsVars,
                     preferenceVars, progressVars, windowVars, answerVars>>
Watched == /\ direction = "watched"
           /\ UNCHANGED <<direction, downloadVars, uploadVars, settingsVars,
                          preferenceVars, progressVars, windowVars, answerVars>>
Saved == /\ direction = "saved"
         /\ UNCHANGED <<direction, downloadVars, uploadVars, watcherVars,
                        preferenceVars, progressVars, windowVars, answerVars>>
Shown == /\ direction = "shown"
         /\ UNCHANGED <<direction, downloadVars, uploadVars, watcherVars,
                        settingsVars, progressVars, windowVars, answerVars>>
InReport == /\ direction = "reported"
            /\ UNCHANGED <<direction, downloadVars, uploadVars, watcherVars,
                           settingsVars, preferenceVars, windowVars, answerVars>>
InWindow == /\ direction = "looked_at"
            /\ UNCHANGED <<direction, downloadVars, uploadVars, watcherVars,
                           settingsVars, preferenceVars, progressVars, answerVars>>

Elsewhere == UNCHANGED <<downloadVars, uploadVars, watcherVars, settingsVars,
                         preferenceVars, progressVars, windowVars>>
InAnswers == /\ direction = "read" /\ Elsewhere
             /\ UNCHANGED <<direction, updateVars, noticeVars, logVars, scopeVars>>
InManifest == /\ direction = "offered" /\ Elsewhere
              /\ UNCHANGED <<direction, wireVars, noticeVars, logVars, scopeVars>>
InNotices == /\ direction = "notified" /\ Elsewhere
             /\ UNCHANGED <<direction, wireVars, updateVars, logVars, scopeVars>>
InLog == /\ direction = "logged" /\ Elsewhere
         /\ UNCHANGED <<direction, wireVars, updateVars, noticeVars, scopeVars>>
InScope == /\ direction = "scoped" /\ Elsewhere
           /\ UNCHANGED <<direction, wireVars, updateVars, noticeVars, logVars>>

Next ==
    \/ Down /\ DownloadNext
    \/ Up /\ UploadNext
    \/ Watched /\ WatcherNext
    \/ Saved /\ SettingsNext
    \/ Shown /\ PreferencesNext
    \/ InReport /\ ProgressNext
    \/ InWindow /\ WindowNext
    \/ InAnswers /\ WireNext
    \/ InManifest /\ UpdatesNext
    \/ InNotices /\ NoticesNext
    \/ InLog /\ LogNext
    \/ InScope /\ ScopeNext

\* The engine runs again and again, and a run carries its transfer through; its
\* thread, the notify thread, the push worker and the main loop take what is
\* there, and the timer of the notifications asks every minute.
Spec == Init /\ [][Next]_vars
FairSpec ==
    /\ Spec
    /\ WF_vars(Down /\ DownloadStep) /\ WF_vars(Up /\ UploadStep)
    /\ WF_vars(Watched /\ Callback) /\ WF_vars(Watched /\ Consume)
    /\ WF_vars(InReport /\ Connect) /\ WF_vars(InReport /\ WaiterStarts)
    /\ \A r \in Rows : /\ WF_vars(InReport /\ EngineWorks(r))
                       /\ WF_vars(InReport /\ RunOver(r))
                       /\ WF_vars(InReport /\ Forward(r))
    /\ WF_vars(InAnswers /\ WireRuns)
    /\ WF_vars(InNotices /\ Poll) /\ WF_vars(InNotices /\ Fetch)
    /\ WF_vars(InNotices /\ AnswerApplied)

-----------------------------------------------------------------------------
\* Whatever a kill or a failed run leaves on disk, the server's file comes down in
\* the end, and an edited file goes up, unless three runs failed with this version
\* of it: then the engine leaves it alone.  An upload does not go through, either,
\* while its folder holds a chunk of a former edition: every run skips it, every
\* MOVE is refused.  (Every run is taken to list the server; SyncEngine has those
\* that do not.)
Landed ==
    /\ direction = "down" => dest = Whole(remote) \/ GivenUp
    /\ direction = "up" => published = WholeEdition(file) \/ StaleFolder \/ UploadGivenUp

TransfersLand == <>[]Landed

\* What the window displays is so: the lines of its rows, its pages and pictures.
DisplayIsTrue == LinesAreOfRuns /\ WindowIsTrue

\* However an answer is cut into reads, the worker comes to an end with it: it
\* reports, or it listens, or it spins at half a line.
AnswerRead == direction = "read" => wire.stage \in {"over", "listen"} \/ Spins

\* What a server says is heard, through push.rs and through server_notifications.rs:
\* its answers are taken whole, and to their end; a notification is shown once, the
\* first list never, and in the end everything else that was not dismissed.
\* (A behaviour reads or is notified, and what it does not do is done.)
ServerIsHeard == [](AnswersAreWhole /\ ShownOnce) /\ []<>(AnswerRead /\ AllShown)

-----------------------------------------------------------------------------
CONSTANTS u1, u2, r1, w1, w2

\* Folders that report and settings that fail; servers that have pictures.
Worlds == {[pictures |-> FALSE, reports |-> 1, stumbles |-> 1],
           [pictures |-> TRUE, reports |-> 0, stumbles |-> 0]}

\* A new installation, files of three generations, and one edited by hand into
\* what cannot be loaded.
Generation(shape, own, app) ==
    [shape |-> shape,
     accounts |-> [u \in {u1} |-> [folders |-> {r1}, own |-> own]], app |-> app]
PreferenceFiles ==
    {Written(DefaultConfig), Generation("single", DefaultOwn, DefaultConfig.app),
     Generation("pairs", [DefaultOwn EXCEPT !["max_sync_retries"] = "chosen"],
                [DefaultConfig.app EXCEPT !["quiet_hours"] = "bad"]),
     Generation("folders", [DefaultOwn EXCEPT !["custom_proxy"] = "bad"],
                [DefaultConfig.app EXCEPT !["quiet_hours"] = "chosen"]),
     Generation("folders", [DefaultOwn EXCEPT !["exclude_patterns"] = "bad"],
                [DefaultConfig.app EXCEPT !["global_proxy"] = "bad"])}

TwoOrThree == [v \in 1..2 |-> v + 1]

\* Without a checksum: one stream when no part outlives its download, and what
\* does when the file stays as it is.  Three faults can make three failing runs.
AllDown == DownloadFaults
DownloadCases ==
    {[checksum |-> TRUE,  streams |-> 2, most |-> 2, faults |-> AllDown \ {"keep"}],
     [checksum |-> TRUE,  streams |-> 2, most |-> 2, faults |-> {"refuse", "edit", "keep"}],
     [checksum |-> TRUE,  streams |-> 2, most |-> 3, faults |-> {"drop", "disk"}],
     [checksum |-> FALSE, streams |-> 1, most |-> 2, faults |-> AllDown \ {"disk", "keep", "kill"}],
     [checksum |-> FALSE, streams |-> 1, most |-> 3, faults |-> AllDown \ {"edit", "keep"}],
     [checksum |-> FALSE, streams |-> 2, most |-> 3, faults |-> AllDown \ {"edit", "keep", "kill"}]}

MixedRanges == {[checksum |-> FALSE, streams |-> 2, most |-> 0, faults |-> {"edit"}]}

\* Editions 1 and 2 have the same length and mtime, edition 3 neither.
EditionChunks == <<2, 2, 1>>
EditionStamps == <<1, 1, 2>>

AllUp == {"refuse", "lost", "list", "disk", "cancel", "edit", "kill"}
UploadCases ==
    {[way |-> "put", checksum |-> c, faults |-> AllUp] : c \in BOOLEAN}
    \cup {[way |-> "chunks", checksum |-> TRUE, faults |-> AllUp],
          [way |-> "tus", checksum |-> FALSE, faults |-> AllUp \ {"edit"}]}

-----------------------------------------------------------------------------
\* The usual answers to the three requests, and what differs from them.
Document(word) == <<Of("{"), CR, LF, Of(word), Of("}")>>
Reply(framing, doc) == [status |-> Byte("status", 200), headers |-> <<Of("no-colon")>>,
                        way |-> framing, doc |-> doc, more |-> <<>>]
Refusal(status) == [Reply("length", <<>>) EXCEPT !.status = status]
Switch == [status |-> Byte("status", 101),
           headers |-> <<Of("no-colon"), Of("upgrade-among-others"), Byte("accept", TheKey)>>,
           way |-> "socket", more |-> <<>>,
           doc |-> <<Of("authenticated"), Byte("notify_file_id", 7), Byte("notify_file_id", 0),
                     Of("else"), Of("notify_notification"), Of("invalid-credentials")>>]
Usual == [secure |-> TRUE, forced |-> FALSE,
          capabilities |-> Reply("chunks", Document("wss-preauth")),
          pre_auth |-> Reply("length", Document("ocs-token")), socket |-> Switch]
ServersAnswer ==
    {[Usual EXCEPT !.forced = TRUE], [Usual EXCEPT !.secure = FALSE]}
    \cup {[Usual EXCEPT !.capabilities = r] :
             r \in {Reply("close", Document("wss-preauth")), Refusal(Byte("status", 401)),
                    Refusal(Byte("status", 503)), Refusal(Of("garbled")),
                    [Reply("length", Document("ws")) EXCEPT !.more = <<Of("junk")>>],
                    Reply("length", Document("no-push")),
                    [Reply("close", Document("endpoints-is-a-list"))
                        EXCEPT !.headers = <<Of("bad-length")>>]}}
    \cup {[Usual EXCEPT !.capabilities = Reply("length", Document("wss-preauth")),
                        !.pre_auth = r] :
             r \in {Reply("close", <<Of("text")>>), Reply("chunks", <<Of("{"), Of("token")>>),
                    Refusal(Byte("status", 404))}}
    \cup {[Usual EXCEPT !.capabilities = Reply("length", Document("wss")), !.socket = r] :
             r \in {Refusal(Byte("status", 502)), [Switch EXCEPT !.headers = <<Of("upgrade")>>],
                    [Switch EXCEPT !.headers = <<Of("upgrade"), Byte("accept", TheKey)>>],
                    [Switch EXCEPT !.headers = @ \o <<Of("upgrade"), Of("more"), Of("more")>>]}}

\* Releases around 1.0.0 and its prereleases, a number beyond the widest, and
\* texts that look like versions.
N(n) == Mark("number", n)
W(n) == Mark("word", n)
Prereleases == {<<>>, <<W(1)>>, <<W(1), N(1)>>, <<W(1), W(2)>>, <<W(2)>>, <<W(2), N(2)>>,
                <<W(2), N(11)>>, <<N(3)>>}
Releases ==
    {Version(<<1, 0, 0>>, pre, <<>>) : pre \in Prereleases}
    \cup {Version(core, <<>>, build) : core \in {<<0, 9, 9>>, <<1, 0, 10>>, <<1, 2, 0>>},
                                      build \in {<<>>, <<W(1)>>}}
Manifests == Releases \cup {Version(<<99, 0, 0>>, <<>>, <<>>)}
OneTwoThree == Text(Version(<<1, 2, 3>>, <<>>, <<>>))
NoVersions ==
    {<<>>, <<N(1), Dot, N(0)>>, <<N(1), Dot, Mark("padded", 2), Dot, N(0)>>,
     OneTwoThree \o <<Hyphen>>, OneTwoThree \o <<Hyphen, Mark("padded", 1)>>,
     OneTwoThree \o <<Plus>>, OneTwoThree \o <<Plus, W(1), Plus, W(1)>>,
     OneTwoThree \o <<Mark(" ", 0)>>}


-----------------------------------------------------------------------------
\* A folder with a name that must be escaped twice, one with a backslash, hidden
\* and partial names, the engine's own directory, a path too deep, a link in a
\* file's place, and names of the server that are not safe.
In(path, kind) == [path |-> path, kind |-> kind, fresh |-> FALSE]
AFile(path) == In(path, "file")
ADir(path) == In(path, "dir")
L(c) == Literal(c)
B == <<"b">>
Odd == <<" ", "%", "2", "0">>
Hidden == <<".", "b">>
Parts == <<"b", ".part">>
OnBothSides ==
    {ADir(<<Odd>>), AFile(<<Odd, <<"a", "a", "b">>>>), ADir(<<Odd, B>>), AFile(<<Odd, B, B>>),
     ADir(<<Hidden>>), AFile(<<Hidden, B>>),
     AFile(<<Odd, <<"a", "\\", "b">>>>),
     ADir(<<Parts>>), AFile(<<Parts, <<"*", "a", "b">>>>), AFile(<<Parts, <<"a", ".part">>>>),
     ADir(<< <<".nextsync">> >>), AFile(<< <<".nextsync">>, B>>), AFile(<< <<"sync.db">> >>)}
OnTheServer == {AFile(<<B>>), ADir(<< <<"c">> >>), AFile(<< <<"c">>, <<"..">> >>)}
Stars == << <<Star, L("a"), L("b")>>, <<Star>> >>
Around == << <<L("b"), Star, L("b")>>, <<One, L("b")>> >>
NoClass == << <<ClassOf(TRUE, << <<"a", "b">>, <<".", ".">> >>), Star>> >>
PatternLists ==
    {Stars, Around, NoClass, << <<Star, L("0")>> >>, << <<ClassOf(FALSE, << <<"a", "b">> >>)>> >>}
WhatTakesPart ==
    {Nowhere}
    \cup {[disk |-> OnBothSides \cup {In(<<B>>, "link")}, server |-> OnBothSides \cup more,
      patterns |-> list, hidden |-> hidden, purpose |-> "listing"] :
         more \in {{}, OnTheServer}, list \in PatternLists, hidden \in BOOLEAN}
    \cup {[disk |-> {e \in OnBothSides : Head(e.path) \in {Odd, Parts, Hidden}}, server |-> {},
           patterns |-> list, hidden |-> FALSE, purpose |-> "changes"] :
             list \in {Stars, Around, NoClass}}

=============================================================================
