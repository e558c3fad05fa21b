------------------------------- MODULE Scope -------------------------------
(***************************************************************************)
(* Which files take part in a synchronization: the engine's scan of the    *)
(* disk (native-engine/src/local.rs), its listing of the server            *)
(* (discover_remote of engine.rs, the multistatus of http.rs), the scan of *)
(* the deletion guard, the events of the watcher and the preview of        *)
(* pending changes (src/src/core/pending_changes.rs) each decide it for    *)
(* themselves, the last three with a matcher of their own                  *)
(* (src/src/core/exclusions.rs).  What one of them leaves out and another  *)
(* does not looks like a deletion, or is deleted without a look.           *)
(*                                                                         *)
(* A name is a sequence of marks: characters, and the few words the code   *)
(* looks for.  A path is a sequence of names.                              *)
(***************************************************************************)
EXTENDS Integers, Sequences, FiniteSets, SequencesExt

CONSTANTS
    ScopeWorlds,    \* disks, servers and patterns, and what is watched of them
    MaxDepth,       \* the directories the engine's scan goes down
    RowsShown,      \* PENDING_LIST_CAP
    MaxDeeds,
    NeverRecorded

ASSUME ScopeAssumption ==
    /\ MaxDepth \in Nat /\ RowsShown \in Nat /\ MaxDeeds \in Nat
    /\ \A w \in ScopeWorlds : w.purpose \in {"listing", "changes"} /\ w.hidden \in BOOLEAN

VARIABLES
    ground,     \* the world, what became of its files, and whether the engine and
                \* the guard are told of the patterns
    listing,    \* discover_remote: queue, result, and whether it is complete
    journal,    \* the guard's manifest, with the disk it was recorded from
    preview     \* the pending changes as displayed

scopeVars == <<ground, listing, journal, preview>>

World == ground.world

\* The disk when some of its files were removed and others written since.
DiskWith(removed, written) ==
    {[e EXCEPT !.fresh = e.path \in written] : e \in {x \in World.disk : x.path \notin removed}}
Folder == DiskWith(ground.removed, ground.written)

-----------------------------------------------------------------------------
(* Names and paths.                                                        *)

InSomeOrder(set) == FoldSet(LAMBDA e, order : Append(order, e), <<>>, set)

Joined(path) ==
    FlattenSeq([i \in DOMAIN path |-> IF i = 1 THEN path[i] ELSE <<"/">> \o path[i]])

\* split('/').
Segments(text) ==
    LET ends == Append(SetToSortSeq({i \in DOMAIN text : text[i] = "/"}, <), Len(text) + 1)
    IN  [k \in DOMAIN ends |->
            SubSeq(text, IF k = 1 THEN 1 ELSE ends[k - 1] + 1, ends[k] - 1)]

DotLed == {".", "..", ".part", ".nextsync", ".sync.db"}
IsSafeRel(text) ==
    text # <<>> => \A s \in ToSet(Segments(text)) : s \notin {<<>>, <<".">>, <<"..">>}

\* is_sync_database_name.
IsDatabase(name) == name # <<>> /\ Head(name) \in {"sync.db", ".sync.db"}

-----------------------------------------------------------------------------
(* The engine's patterns (matches_pattern) and the application's           *)
(* (glob_match with backtrack and match_class).                            *)

MatchesPattern(pattern, value) ==
    LET go[i \in 1..Len(pattern) + 1, j \in 1..Len(value) + 1] ==
            IF i > Len(pattern) THEN j > Len(value)
            ELSE IF pattern[i] = "*" THEN \E k \in j..Len(value) + 1 : go[i + 1, k]
            ELSE /\ j <= Len(value) /\ pattern[i] \in {"?", value[j]}
                 /\ go[i + 1, j + 1]
    IN  go[1, 1]

Alphabet == <<"!", "-", ".", "a", "b", "c">>
Before(c, d) ==
    \E i, j \in DOMAIN Alphabet : i <= j /\ Alphabet[i] = c /\ Alphabet[j] = d

\* The class that opens at start, for one character: where it ends and whether
\* it matches, or nothing when it is never closed.
MatchClass(pattern, start, c) ==
    LET negated == start < Len(pattern) /\ pattern[start + 1] \in {"!", "^"}
        first == start + (IF negated THEN 2 ELSE 1)
        IsSpan(q) == q + 2 <= Len(pattern) /\ pattern[q + 1] = "-" /\ pattern[q + 2] # "]"
        from[q \in first..Len(pattern) + 1, hit \in BOOLEAN] ==
            IF q > Len(pattern) THEN {}
            ELSE IF pattern[q] = "]" /\ q # first THEN {[next |-> q + 1, hit |-> hit # negated]}
            ELSE IF IsSpan(q)
                 THEN from[q + 3, hit \/ (Before(pattern[q], c) /\ Before(c, pattern[q + 2]))]
            ELSE from[q + 1, hit \/ pattern[q] = c]
    IN  IF first > Len(pattern) THEN {} ELSE from[first, FALSE]

\* One position in each, and where the last star stands and what it has taken.
GlobMatch(pattern, text) ==
    LET walk[p \in 1..Len(pattern) + 1, t \in 1..Len(text) + 1,
             star \in 0..Len(pattern), taken \in 0..Len(text) + 1] ==
            LET backtrack == star # 0 /\ walk[star + 1, taken + 1, star, taken + 1]
                here == p <= Len(pattern)
                class == MatchClass(pattern, p, text[t])
            IN  IF t > Len(text) THEN \A i \in p..Len(pattern) : pattern[i] = "*"
                ELSE IF here /\ pattern[p] \in {"?", text[t]} THEN walk[p + 1, t + 1, star, taken]
                ELSE IF here /\ pattern[p] = "[" /\ \E k \in class : k.hit
                     THEN \E k \in class : walk[k.next, t + 1, star, taken]
                ELSE IF here /\ pattern[p] = "*" THEN walk[p + 1, t, p, t]
                ELSE backtrack
    IN  walk[1, 1, 0, 0]

Classless(pattern) == "[" \notin ToSet(pattern)

\* Patterns as their authors mean them, the texts they write, and fnmatch.
Star == [is |-> "star"]
One == [is |-> "one"]
Literal(c) == [is |-> "literal", c |-> c]
ClassOf(negated, spans) == [is |-> "class", negated |-> negated, spans |-> spans]

PatternText(meant) ==
    LET Span(s) == IF s[1] = s[2] THEN <<s[1]>> ELSE <<s[1], "-", s[2]>>
        Part(m) == CASE m.is = "star" -> <<"*">> [] m.is = "one" -> <<"?">>
                     [] m.is = "literal" -> <<m.c>>
                     [] OTHER -> (IF m.negated THEN <<"[", "!">> ELSE <<"[">>)
                        \o FlattenSeq([i \in DOMAIN m.spans |-> Span(m.spans[i])]) \o <<"]">>
    IN  FlattenSeq([i \in DOMAIN meant |-> Part(meant[i])])

Fnmatch(meant, text) ==
    LET Takes(m, c) ==
            \/ m.is = "one"
            \/ m.is = "literal" /\ m.c = c
            \/ m.is = "class" /\ (m.negated # \E i \in DOMAIN m.spans :
                                      Before(m.spans[i][1], c) /\ Before(c, m.spans[i][2]))
        from[i \in 1..Len(meant) + 1, j \in 1..Len(text) + 1] ==
            IF i > Len(meant) THEN j > Len(text)
            ELSE IF meant[i].is = "star" THEN \E k \in j..Len(text) + 1 : from[i + 1, k]
            ELSE j <= Len(text) /\ Takes(meant[i], text[j]) /\ from[i + 1, j + 1]
    IN  from[1, 1]

\* ExclusionMatcher::new with validate_pattern, and matches_name.
TooBroad == {<<>>, <<"*">>, <<".", "*">>, <<"*", ".", "*">>}
IsValid(pattern) == ToSet(pattern) \cap {"/", ".."} = {} /\ pattern \notin TooBroad
MatchesName(settings, name) ==
    settings.enabled /\ \E p \in ToSet(settings.patterns) : IsValid(p) /\ GlobMatch(p, name)

-----------------------------------------------------------------------------
(* What the engine takes part in: excluded, shared by scan and listing.    *)

Excluded(text, name, isDir, settings) ==
    LET segments == Segments(text)
    IN  \/ ~isDir /\ name # <<>> /\ Last(name) = ".part"
        \/ ~World.hidden
              /\ \E s \in ToSet(segments) : s # <<>> /\ s # <<".">> /\ Head(s) \in DotLed
        \/ settings.enabled
              /\ \E p \in ToSet(settings.patterns) :
                     \/ MatchesPattern(p, text) \/ MatchesPattern(p, name)
                     \/ isDir /\ MatchesPattern(p, Append(text, "/"))

\* Mutant: the listing takes whatever is safe.
AcceptsAllSafe(text, isDir, settings) == IsSafeRel(text)

\* accept_remote_entry.
AcceptRemoteEntry(text, isDir, settings) ==
    IsSafeRel(text) /\ ~Excluded(text, Last(Segments(text)), isDir, settings)

\* A path as the scan spells it, a backslash of a name like one between names.
Spelled(path) ==
    LET text == Joined(path)
    IN  [i \in DOMAIN text |-> IF text[i] = "\\" THEN "/" ELSE text[i]]

\* walk: symbolic links, the engine's own directory and what is out of scope are
\* skipped with all that is below; so is what lies too deep.
ScanLocal(disk, settings) ==
    {Spelled(e.path) : e \in {x \in disk :
        /\ Len(x.path) <= MaxDepth + 1
        /\ \A n \in DOMAIN x.path : \E up \in disk :
              /\ up.path = SubSeq(x.path, 1, n) /\ up.kind # "link"
              /\ Head(Segments(Spelled(up.path))) # <<".nextsync">>
              /\ ~Excluded(Spelled(up.path), Last(up.path), up.kind = "dir", settings)}}

\* scan_local_files and scan_local_files_with_times: regular files none of whose
\* names is a journal's or matches a pattern.
ScanFiles(disk, settings) ==
    {e \in disk : /\ e.kind = "file"
                  /\ \A name \in ToSet(e.path) :
                        ~IsDatabase(name) /\ ~MatchesName(settings, name)}
PathsOf(files) == {Joined(e.path) : e \in files}

\* is_excluded and classify_event, for an event of a file.
Wakes(path, settings) == \A name \in ToSet(path) : ~MatchesName(settings, name)

-----------------------------------------------------------------------------
(* One collection asked of the server: PROPFIND with depth 1.              *)

Escapes == [c \in {" ", "%"} |-> IF c = " " THEN <<"%", "2", "0">> ELSE <<"%", "2", "5">>]
PercentEncodePath(text) ==
    FlattenSeq([i \in DOMAIN text |->
        IF text[i] \in DOMAIN Escapes THEN Escapes[text[i]] ELSE <<text[i]>>])
PercentDecode(text) ==
    LET from[i \in 1..Len(text) + 1] ==
            LET escaped == {c \in DOMAIN Escapes : i + 2 <= Len(text)
                                                  /\ SubSeq(text, i, i + 2) = Escapes[c]}
            IN  IF i > Len(text) THEN <<>>
                ELSE IF escaped # {} THEN <<CHOOSE c \in escaped : TRUE>> \o from[i + 3]
                ELSE <<text[i]>> \o from[i + 1]
    IN  from[1]

\* endpoints and join_remote: the folder's collection, and one below it.
RemoteRoot == <<"/", "dav", "/">> \o PercentEncodePath(<<"b", " ">>)
UrlOf(text) == IF text = <<>> THEN RemoteRoot
               ELSE RemoteRoot \o <<"/">> \o PercentEncodePath(text)

\* What the server says of a collection: itself and its members, each with what
\* it knows of the properties asked for.
Collection(url) ==
    LET asked == PercentDecode(url)
        text == SubSeq(asked, Len(PercentDecode(RemoteRoot)) + 2, Len(asked))
        path == IF text = <<>> THEN <<>> ELSE Segments(text)
        members == {e \in World.server : e.path # <<>> /\ Front(e.path) = path}
        Href(at, isDir) == IF isDir THEN Append(at, "/") ELSE at
        Stats(isDir) == <<[ok |-> TRUE, isDir |-> isDir], [ok |-> FALSE, isDir |-> FALSE]>>
    IN  << [href |-> Href(url, TRUE), stats |-> Stats(TRUE)] >>
            \o InSomeOrder({[href |-> Href(UrlOf(Joined(e.path)), e.kind = "dir"),
                          stats |-> Stats(e.kind = "dir")] : e \in members})

\* parse_multistatus and url_prefix: the path below the collection asked for;
\* the collection itself is skipped, and so are properties that are not there.
ParseMultistatus(answer, url) ==
    LET prefix == PercentDecode(url)
        Below(href) == LET path == PercentDecode(href)
                       IN  IF IsPrefix(prefix, path)
                           THEN SubSeq(path, Len(prefix) + 1, Len(path)) ELSE path
        Trimmed(text) == LET bare == IF text # <<>> /\ Head(text) = "/" THEN Tail(text) ELSE text
                         IN  IF bare # <<>> /\ Last(bare) = "/" THEN Front(bare) ELSE bare
        entries == [i \in DOMAIN answer |->
                       [path |-> Trimmed(Below(answer[i].href)),
                        isDir |-> Last(SelectSeq(answer[i].stats, LAMBDA s : s.ok)).isDir]]
    IN  SelectSeq(entries, LAMBDA e : e.path # <<>>)

-----------------------------------------------------------------------------
\* The settings of the account, with the patterns switched on or not.
With(enabled) ==
    [patterns |-> [i \in DOMAIN World.patterns |-> PatternText(World.patterns[i])],
     enabled |-> enabled]

NoPreview == [open |-> FALSE, rows |-> <<>>, more |-> 0]

ScopeInit ==
    /\ ground \in [world : ScopeWorlds, removed : {{}}, written : {{}}, engine : {TRUE},
                   guard : {TRUE}, deeds : {0}]
    /\ listing = [queue |-> << <<>> >>, entries |-> {}, complete |-> TRUE, over |-> FALSE]
    /\ journal = NeverRecorded
    /\ preview = NoPreview

Listing == World.purpose = "listing" /\ ~listing.over

\* discover_remote, one turn of its loop: the collection last found is asked
\* next; what is unsafe makes the listing incomplete, what is out of scope is
\* left out with all that is below it.
Discovered ==
    /\ Listing /\ listing.queue # <<>>
    /\ LET prefix == Last(listing.queue)
           found == ParseMultistatus(Collection(UrlOf(prefix)), UrlOf(prefix))
           Whole(e) == [e EXCEPT !.path = IF prefix = <<>> THEN e.path
                                          ELSE prefix \o <<"/">> \o e.path]
           safe == {e \in {Whole(x) : x \in ToSet(found)} : IsSafeRel(e.path)}
           taken == {e \in safe : AcceptRemoteEntry(e.path, e.isDir, With(ground.engine))}
       IN  listing' = [listing EXCEPT
               !.queue = Front(@) \o InSomeOrder({e.path : e \in {x \in taken : x.isDir}}),
               !.entries = @ \cup {e.path : e \in taken},
               !.complete = @ /\ Cardinality(safe) = Len(found)]
    /\ UNCHANGED <<ground, journal, preview>>

\* The collection is gone; or cannot be read.
CollectionGone ==
    /\ Listing /\ listing.queue # <<>>
    /\ listing' = [listing EXCEPT !.complete = FALSE, !.over = TRUE]
    /\ UNCHANGED <<ground, journal, preview>>
CollectionFails ==
    /\ Listing /\ listing.queue # <<>>
    /\ listing' = [listing EXCEPT !.queue = Front(@), !.complete = FALSE]
    /\ UNCHANGED <<ground, journal, preview>>
ListingOver ==
    /\ Listing /\ listing.queue = <<>>
    /\ listing' = [listing EXCEPT !.over = TRUE]
    /\ UNCHANGED <<ground, journal, preview>>

\* What happens to the folder and its settings; a preview is closed by then.
Deeds == /\ ~preview.open /\ World.purpose = "changes" /\ ground.deeds < MaxDeeds
         /\ UNCHANGED <<listing, journal, preview>>
FileRemoved ==
    /\ Deeds
    /\ \E e \in {x \in Folder : x.kind = "file"} :
           ground' = [ground EXCEPT !.removed = @ \cup {e.path}, !.deeds = @ + 1]
FileWritten ==
    /\ Deeds
    /\ \E e \in {x \in World.disk : x.kind = "file"} :
           ground' = [ground EXCEPT !.removed = @ \ {e.path}, !.written = @ \cup {e.path},
                                    !.deeds = @ + 1]

\* The switch of the exclusions reaches the guard; engine and watcher have the
\* settings of their start (apply_guard_config, connect_watcher).
ExclusionsSwitched ==
    /\ Deeds
    /\ ground' = [ground EXCEPT !.guard = ~@, !.deeds = @ + 1]
ApplicationRestarted ==
    /\ World.purpose = "changes" /\ ground.engine # ground.guard /\ ~preview.open
    /\ ground' = [ground EXCEPT !.engine = ground.guard]
    /\ UNCHANGED <<listing, journal, preview>>

\* record_current after a run, and the manifest's modification time with it.
Recorded ==
    /\ World.purpose = "changes" /\ ~preview.open
    /\ ground' = [ground EXCEPT !.written = {}]
    /\ journal' = [files |-> PathsOf(ScanFiles(Folder, With(ground.guard))),
                   removed |-> ground.removed, enabled |-> ground.guard]
    /\ UNCHANGED <<listing, preview>>

\* The paths DeleteGuard::check counts as missing.
MissingFiles == journal.files \ PathsOf(ScanFiles(Folder, With(ground.guard)))

\* compute_pending_changes.
ChangeKinds == <<"new", "changed", "deleted">>
ComputePendingChanges(previous, current) ==
    [new |-> PathsOf(current) \ previous,
     changed |-> PathsOf({e \in current : Joined(e.path) \in previous /\ e.fresh}),
     deleted |-> previous \ PathsOf(current)]

\* bounded_rows.
BoundedRows(changes) ==
    LET all == FlattenSeq([k \in DOMAIN ChangeKinds |->
                   LET paths == InSomeOrder(changes[ChangeKinds[k]])
                   IN  [i \in DOMAIN paths |-> <<ChangeKinds[k], paths[i]>>]])
        shown == IF Len(all) <= RowsShown THEN Len(all) ELSE RowsShown
    IN  [rows |-> SubSeq(all, 1, shown), more |-> Len(all) - shown]

\* pending_for_folder: without a manifest every file counts as new.
PendingForFolder(settings) ==
    ComputePendingChanges(IF journal = NeverRecorded THEN {} ELSE journal.files,
                          ScanFiles(Folder, settings))

\* present_pending_changes and present_changes.
PendingPresented ==
    /\ World.purpose = "changes" /\ ~preview.open
    /\ LET bounded == BoundedRows(PendingForFolder(With(ground.guard)))
       IN  preview' = [open |-> TRUE, rows |-> bounded.rows, more |-> bounded.more]
    /\ UNCHANGED <<ground, listing, journal>>
PendingClosed ==
    /\ preview.open
    /\ preview' = NoPreview /\ UNCHANGED <<ground, listing, journal>>

ScopeNext ==
    \/ Discovered \/ CollectionGone \/ CollectionFails \/ ListingOver
    \/ FileRemoved \/ FileWritten \/ ExclusionsSwitched \/ ApplicationRestarted
    \/ Recorded \/ PendingPresented \/ PendingClosed

ScopeSpec == ScopeInit /\ [][ScopeNext]_scopeVars

-----------------------------------------------------------------------------
\* What is on the disk and on the server is in both listings or in neither, so
\* that nothing looks deleted because it is out of scope (issue #271): whatever
\* was listed was scanned, and whatever was scanned is listed when the listing is
\* complete.  The engine's own directory and what lies too deep are the
\* exceptions: they are listed and never scanned; and a name with a backslash,
\* which the scan takes for two.
ListingsAgree ==
    listing.over =>
        LET shared == {e.path : e \in Folder \cap World.server}
            within == {p \in shared : /\ Len(p) <= MaxDepth + 1 /\ Head(p) # <<".nextsync">>
                                     /\ "\\" \notin ToSet(Joined(p))}
            scanned == ScanLocal(Folder, With(ground.engine))
        IN  \A p \in within :
                /\ Joined(p) \in listing.entries => Joined(p) \in scanned
                /\ listing.complete /\ Joined(p) \in scanned => Joined(p) \in listing.entries

\* Files the engine takes for the user's while the guard takes them for journals,
\* and patterns that only the guard reads as classes, are beyond the next checks;
\* so is what changed with the switch, which the engine hears of at a restart.
Comparable ==
    /\ journal # NeverRecorded
    /\ ground.engine = ground.guard /\ journal.enabled = ground.guard
    /\ \A p \in ToSet(With(TRUE).patterns) : Classless(p)
EngineFiles(disk) ==
    {e \in disk : /\ e.kind = "file" /\ ~\E n \in ToSet(e.path) : IsDatabase(n)
                  /\ Spelled(e.path) \in ScanLocal(disk, With(ground.engine))}
EngineBaseline == EngineFiles(DiskWith(journal.removed, {}))
GoneFiles == {e \in EngineBaseline : \A x \in Folder : x.path # e.path}

\* What the engine would delete on the server, the guard counts; and the watcher
\* lets no change pass that the engine would upload.
GuardSeesWhatEngineDoes ==
    Comparable =>
        /\ PathsOf(GoneFiles) \subseteq MissingFiles
        /\ \A e \in EngineFiles(Folder) : Wakes(e.path, With(ground.engine))

\* The preview names or counts every change the engine would carry out.
PreviewIsWhole ==
    preview.open /\ Comparable =>
        LET changed == PathsOf(EngineFiles(Folder) \ EngineBaseline) \cup PathsOf(GoneFiles)
        IN  Cardinality({r \in ToSet(preview.rows) : r[2] \in changed}) + preview.more
                >= Cardinality(changed)

\* Either matcher reads a pattern as fnmatch does, the engine's without classes.
\* A star in a name is the exception: glob_match lets a star of the pattern take
\* it as a literal, and takes nothing more with that star.
MatchersAreFnmatch ==
    ground.deeds = 0 /\ journal = NeverRecorded /\ listing.entries = {} =>
        \A meant \in ToSet(World.patterns) :
            \A name \in {n \in UNION {ToSet(e.path) : e \in Folder} : "*" \notin ToSet(n)} :
                LET text == PatternText(meant)
                IN  /\ GlobMatch(text, name) <=> Fnmatch(meant, name)
                    /\ Classless(text) => (MatchesPattern(text, name) <=> Fnmatch(meant, name))

\* All who decide what takes part decide alike: the engine of disk and server, the
\* guard and the engine of what is gone, the preview and the engine of what is to
\* come, and the two matchers of a pattern.
ScopesAgree ==
    /\ ListingsAgree /\ GuardSeesWhatEngineDoes
    /\ PreviewIsWhole /\ MatchersAreFnmatch
=============================================================================
