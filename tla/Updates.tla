------------------------------ MODULE Updates ------------------------------
(***************************************************************************)
(* The update check (src/src/core/updates.rs, src/src/ui/about.rs and its  *)
(* dialogs in src/src/ui/main_window.rs): a manifest is fetched, validated *)
(* strictly, its version parsed and compared by the precedence of SemVer   *)
(* with the installed one, and the user told.  The spinner that is shown   *)
(* meanwhile cannot be closed by the user.                                 *)
(*                                                                         *)
(* A version's text is a sequence of marks: numbers, words, dots, hyphens  *)
(* and plus signs.  Words are numbered in their alphabetical order.        *)
(***************************************************************************)
EXTENDS Integers, Sequences, SequencesExt, Ranks

CONSTANTS
    Installed,      \* the versions the application may be
    Published,      \* the versions a server may publish
    IllFormed,      \* texts that are no version
    Widest,         \* the largest number a u64 holds
    MaxChecks

VARIABLES
    installed,  \* the running version
    answered,   \* what the server said to the last check
    updates     \* the dialogs and the check under way

updateVars == <<installed, answered, updates>>

-----------------------------------------------------------------------------
(* Versions as their authors mean them, and their texts.                   *)

Mark(c, n) == [c |-> c, n |-> n]
Dot == Mark(".", 0)
Hyphen == Mark("-", 0)
Plus == Mark("+", 0)

\* A version is three numbers, identifiers of a prerelease (numbers or words)
\* and the metadata of a build.
Version(core, pre, build) == [core |-> core, pre |-> pre, build |-> build]
Identifiers == [c : {"number", "word"}, n : Nat]
SemVers == [core : [1..3 -> Nat], pre : Seq(Identifiers),
            build : Seq([c : {"number", "padded", "word", "-"}, n : Nat])]

ASSUME UpdatesAssumption ==
    /\ Widest \in Nat /\ MaxChecks \in Nat
    /\ \A v \in Installed \cup Published : v \in SemVers

\* Identifiers of one mark each.
Ones(marks) == [i \in DOMAIN marks |-> <<marks[i]>>]

Dotted(parts) ==
    FlattenSeq([i \in DOMAIN parts |-> IF i = 1 THEN parts[i] ELSE <<Dot>> \o parts[i]])
Text(v) ==
    Dotted(Ones([i \in 1..3 |-> Mark("number", v.core[i])]))
        \o (IF v.pre = <<>> THEN <<>> ELSE <<Hyphen>> \o Dotted(Ones(v.pre)))
        \o (IF v.build = <<>> THEN <<>> ELSE <<Plus>> \o Dotted(Ones(v.build)))

\* The precedence of SemVer, section 11, as one comparison of keys: the core,
\* then the identifiers up to an end that comes before any of them; a number
\* comes before a word, and a release after every prerelease.
LexBefore(s, t) ==
    \E n \in 0..Len(s) :
        /\ n < Len(t) /\ SubSeq(s, 1, n) = SubSeq(t, 1, n)
        /\ n = Len(s) \/ s[n + 1] < t[n + 1]
Key(v) ==
    v.core \o (IF v.pre = <<>> THEN <<3>>
               ELSE FlattenSeq([i \in DOMAIN v.pre |->
                        <<IF v.pre[i].c = "number" THEN 1 ELSE 2, v.pre[i].n>>]) \o <<0>>)
Precedes(v, w) == LexBefore(Key(v), Key(w))

-----------------------------------------------------------------------------
(* SemanticVersion::parse.                                                 *)

\* split('.'): the parts between the marks c.
Split(text, c) ==
    LET ends == Rising({i \in DOMAIN text : text[i].c = c} \cup {Len(text) + 1})
    IN  [k \in DOMAIN ends |->
            SubSeq(text, IF k = 1 THEN 1 ELSE ends[k - 1] + 1, ends[k] - 1)]

\* split_once_any: before and after the first mark c.
SplitOnce(text, c) ==
    LET At == {i \in DOMAIN text : text[i].c = c}
        p == IF At = {} THEN Len(text) + 1 ELSE CHOOSE i \in At : \A j \in At : i <= j
    IN  [head |-> SubSeq(text, 1, p - 1), found |-> At # {},
         tail |-> SubSeq(text, p + 1, Len(text))]

IsNumber(part) == Len(part) = 1 /\ part[1].c = "number"
IsPadded(part) == Len(part) = 1 /\ part[1].c = "padded"
IsIdentifier(part) ==
    part # <<>> /\ \A i \in DOMAIN part : part[i].c \in {"number", "padded", "word", "-"}

\* A number that does not fit is taken for 0.
Fitted(n) == IF n <= Widest THEN n ELSE 0

\* The one version a text stands for, or none.
ParsedVersion(text) ==
    LET build == SplitOnce(text, "+")
        pre == SplitOnce(build.head, "-")
        core == Split(pre.head, ".")
        identifiers == IF pre.found THEN Split(pre.tail, ".") ELSE <<>>
        metadata == IF build.found THEN Split(build.tail, ".") ELSE <<>>
        \* an empty part, too many plus signs and an empty prerelease are no
        \* identifiers either
        fine == /\ text # <<>> /\ Head(text).c # " " /\ Last(text).c # " "
                /\ Len(core) = 3 /\ \A i \in 1..3 : IsNumber(core[i])
                /\ \A part \in Range(identifiers) \cup Range(metadata) : IsIdentifier(part)
                /\ \A part \in Range(identifiers) : ~IsPadded(part)
    IN  IF fine THEN {[core |-> [i \in 1..3 |-> Fitted(core[i][1].n)], pre |-> identifiers]} ELSE {}

-----------------------------------------------------------------------------
(* SemanticVersion::cmp.                                                   *)

\* The place of a mark among the characters: '-', then digits, then letters.
Place(mark) == CASE mark.c = "-" -> <<0, 0>> [] mark.c = "word" -> <<2, mark.n>>
                 [] OTHER -> <<1, mark.n>>
TextAfter(own, theirs) ==
    LexBefore(FlattenSeq([i \in DOMAIN theirs |-> Place(theirs[i])]),
              FlattenSeq([i \in DOMAIN own |-> Place(own[i])]))

IdentifierAfter(own, theirs) ==
    CASE IsNumber(own) /\ IsNumber(theirs) -> Fitted(own[1].n) > Fitted(theirs[1].n)
      [] IsNumber(own) /\ ~IsNumber(theirs) -> FALSE
      [] ~IsNumber(own) /\ IsNumber(theirs) -> TRUE
      [] OTHER -> TextAfter(own, theirs)

\* Mutant: the shorter list wins.
ShorterWins(own, theirs) == Len(own) < Len(theirs)

\* The longer list wins when all shared identifiers are equal.
LongerWins(own, theirs) == Len(own) > Len(theirs)

\* The first identifiers that differ decide.
PrereleaseAfter(own, theirs) ==
    LET differ == {i \in DOMAIN own \cap DOMAIN theirs : own[i] # theirs[i]}
    IN  IF differ = {} THEN LongerWins(own, theirs)
        ELSE \E i \in differ : /\ \A j \in differ : i <= j
                               /\ IdentifierAfter(own[i], theirs[i])

Follows(own, theirs) ==
    IF own.core # theirs.core THEN LexBefore(theirs.core, own.core)
    ELSE IF own.pre = <<>> \/ theirs.pre = <<>> THEN own.pre = <<>> /\ theirs.pre # <<>>
    ELSE PrereleaseAfter(own.pre, theirs.pre)

-----------------------------------------------------------------------------
(* The check.                                                              *)

\* What a server answers: nothing, a refusal, or a manifest with at most one
\* field that parse_update_manifest does not take.
Flaws == {"too_large", "no_json", "no_object", "schema", "mandatory", "summary", "changelog",
          "released_at"}
Answers ==
    [kind : {"error", "status"}, flaw : {"none"}, text : {<<>>}]
    \cup [kind : {"manifest"}, flaw : {"none"}, text : {Text(v) : v \in Published} \cup IllFormed]
    \cup [kind : {"manifest"}, flaw : Flaws, text : {Text(CHOOSE v \in Published : TRUE)}]

\* UpdateChecker::check, evaluate_update and classify_update_result.
Outcome(answer) ==
    IF answer.kind # "manifest" \/ answer.flaw # "none" \/ ParsedVersion(answer.text) = {}
           \/ ParsedVersion(Text(installed)) = {}
    THEN "unavailable"
    ELSE IF \E latest \in ParsedVersion(answer.text), own \in ParsedVersion(Text(installed)) : Follows(latest, own)
    THEN "available" ELSE "up_to_date"

UpdatesInit ==
    /\ installed \in Installed
    /\ answered \in {a \in Answers : a.kind = "error"}
    /\ updates = [about |-> FALSE, clicks |-> 0, spinner |-> FALSE, running |-> 0,
                  shown |-> "nothing", checks |-> 0]

ShowAbout ==
    /\ ~updates.about
    /\ updates' = [updates EXCEPT !.about = TRUE] /\ UNCHANGED <<installed, answered>>
AboutClosed ==
    /\ updates.about
    /\ updates' = [updates EXCEPT !.about = FALSE] /\ UNCHANGED <<installed, answered>>

\* The link of the dialog; the check itself starts when the main loop is idle.
CheckClicked ==
    /\ updates.about /\ updates.checks < MaxChecks
    /\ updates' = [updates EXCEPT !.clicks = @ + 1, !.checks = @ + 1]
    /\ UNCHANGED <<installed, answered>>

\* check_for_updates: a second click during a check is ignored.
CheckForUpdates ==
    /\ updates.clicks > 0
    /\ updates' = IF updates.spinner THEN [updates EXCEPT !.clicks = @ - 1]
                  ELSE [updates EXCEPT !.clicks = @ - 1, !.spinner = TRUE, !.running = @ + 1]
    /\ UNCHANGED <<installed, answered>>

\* finish_update_check.
FinishUpdateCheck ==
    /\ updates.running > 0
    /\ \E answer \in Answers :
           /\ answered' = answer
           /\ updates' = [updates EXCEPT !.running = @ - 1, !.spinner = FALSE,
                                         !.shown = Outcome(answer)]
    /\ UNCHANGED installed

ResultClosed ==
    /\ updates.shown # "nothing"
    /\ updates' = [updates EXCEPT !.shown = "nothing"] /\ UNCHANGED <<installed, answered>>

UpdatesNext ==
    ShowAbout \/ AboutClosed \/ CheckClicked \/ CheckForUpdates \/ FinishUpdateCheck \/ ResultClosed

UpdatesSpec == UpdatesInit /\ [][UpdatesNext]_updateVars

-----------------------------------------------------------------------------
\* The numbers of a version are those a u64 holds.
NumbersFit(v) ==
    /\ \A i \in 1..3 : v.core[i] <= Widest
    /\ \A i \in DOMAIN v.pre : v.pre[i].c = "number" => v.pre[i].n <= Widest

\* An update is offered if and only if the server published, in a manifest
\* without a flaw, a version that follows the installed one by the precedence
\* of SemVer (numbers beyond 64 bits aside); a server that publishes nothing
\* readable is told from one that publishes nothing newer; and the spinner,
\* which nobody can close, is there while a check is under way and only then.
OffersAreNewer ==
    /\ updates.shown # "nothing" =>
           LET readable == {v \in Published : answered.kind = "manifest"
                                             /\ answered.flaw = "none" /\ answered.text = Text(v)}
               fits == \A v \in readable \cup {installed} : NumbersFit(v)
           IN  /\ updates.shown = "unavailable" <=> readable = {}
               /\ fits => (updates.shown = "available" <=>
                               \E v \in readable : Precedes(installed, v))
    /\ updates.spinner <=> updates.running > 0
=============================================================================
