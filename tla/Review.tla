------------------------------- MODULE Review -------------------------------
(***************************************************************************)
(* The deletion review of one folder, from the alert of the guard to the   *)
(* user's answer: the notification and the poller that opens the dialog    *)
(* (ui/main_window.rs), its rows and groups (core/delete_guard.rs), the    *)
(* probes that mark them with what the server still has                    *)
(* (ui/deletion_presence.rs, core/server_state.rs), and the answers that   *)
(* bring files back (ui/deletion_restore.rs, ui/server_trash.rs).          *)
(*                                                                         *)
(* What makes the guard raise an alert, and what a run does with an        *)
(* approval, is DeletionGuard's; here alerts come and go while dialogs are *)
(* open, and other clients change the server under the probes.             *)
(***************************************************************************)
EXTENDS Integers, SequencesExt, Ranks

CONSTANTS
    Goods,          \* the files of the folder: numbers, in the order of names
    TopOf,          \* per file: its top-level directory, a number, or 0
    GroupMin,       \* DELETION_GROUP_MIN (5)
    ListMax,        \* DELETION_LIST_MAX (50)
    ChildCap,       \* GROUP_CHILD_CAP (25)
    LooseCap,       \* LOOSE_PREVIEW_CAP (15)
    CheckCap,       \* MAX_PRESENCE_CHECKS (200)
    GroupCheckCap,  \* GROUP_PRESENCE_CAP (25)
    Probers,        \* PRESENCE_WORKERS (4)
    Losses,         \* what is missing when the guard raises an alert
    MaxDialogs,     \* bound: dialogs open at once
    MaxAlerts,      \* bound: alerts
    MaxUpsets       \* bound: what others do to the server, requests that fail

ASSUME ReviewAssumption ==
    /\ Goods \subseteq Nat \ {0} /\ IsFiniteSet(Goods) /\ TopOf \in [Goods -> Nat]
    /\ Losses \subseteq SUBSET Goods
    /\ {ChildCap, LooseCap, CheckCap, GroupCheckCap, Probers, MaxDialogs} \subseteq Nat \ {0}
    /\ {GroupMin, ListMax, MaxAlerts, MaxUpsets} \subseteq Nat

VARIABLES
    nextcloud,  \* the provider: OpenCloud has neither rescan nor trash here
    cloud,      \* the server: the files it has and those in its trash
    spares,     \* files with a conflicted copy beside them
    guardian,   \* the scheduler: its alert, its approval, the alerts so far
    calls,      \* notifications on display, requests on their way to the poller
    reviews,    \* the dialogs
    rescue,     \* the copies and trash items being restored
    upsets

reviewVars == <<nextcloud, cloud, spares, guardian, calls, reviews, rescue, upsets>>

Slots == 1..MaxDialogs

-----------------------------------------------------------------------------
(* deletion_review_rows().                                                 *)

InOrder(files) == Rising(files)
Under(files, top) == {p \in files : TopOf[p] = top}

\* The directories worth a group, the largest first, equal ones by name.
Tops(files) ==
    LET big == {top \in {TopOf[p] : p \in files} \ {0} :
                    Cardinality(Under(files, top)) > GroupMin}
        Larger(s, t) == \/ Cardinality(Under(files, s)) > Cardinality(Under(files, t))
                        \/ /\ Cardinality(Under(files, s)) = Cardinality(Under(files, t))
                           /\ s < t
    IN Ranked(big, Larger)

GroupsOf(files) == [i \in DOMAIN Tops(files) |-> InOrder(Under(files, Tops(files)[i]))]
SinglesOf(files) == InOrder({p \in files : TopOf[p] \notin ToSet(Tops(files))})

-----------------------------------------------------------------------------
(* What present_delete_review shows.  Its limits of a hundred rows and two *)
(* hundred children cannot be reached: a list has at most ListMax files.   *)

FirstOf(s, n) == SubSeq(s, 1, IF Len(s) < n THEN Len(s) ELSE n)

InSummary(files) == Cardinality(files) > ListMax

\* Rows that stand for one file.
RowsOf(files) ==
    IF InSummary(files) THEN FirstOf(SinglesOf(files), LooseCap)
    ELSE FlattenSeq([i \in DOMAIN GroupsOf(files) |-> FirstOf(GroupsOf(files)[i], ChildCap)])
             \o SinglesOf(files)

\* Rows that stand for many: a summary also counts the others, in one group.
HeadsOf(files) ==
    GroupsOf(files) \o
        (IF InSummary(files) /\ SinglesOf(files) # <<>> THEN <<SinglesOf(files)>> ELSE <<>>)

\* targets(): some of each group first, then the rows, none twice.
Wanted(s, p) == IF p \in ToSet(s) \/ Len(s) >= CheckCap THEN s ELSE Append(s, p)
TargetsOf(rows, heads) ==
    FoldLeft(Wanted, <<>>,
             FlattenSeq([i \in DOMAIN heads |-> FirstOf(heads[i], GroupCheckCap)]) \o rows)

\* chunks(): equal parts but for the last; a small review has fewer.
PartSize(targets) == (Len(targets) + Probers - 1) \div Probers
PartOf(targets, k) ==
    SubSeq(targets, (k - 1) * PartSize(targets) + 1,
           IF k * PartSize(targets) < Len(targets) THEN k * PartSize(targets) ELSE Len(targets))

\* ConflictIndex: for each file its newest conflicted copy, if it has one.
CopiesOf(files) == spares \cap files

AnswersTo(alert) ==
    {"keep"} \cup (IF nextcloud THEN {"restore", "trash"} ELSE {})
        \cup (IF alert.approvable THEN {"approve"} ELSE {})
        \cup (IF CopiesOf(alert.missing) # {} THEN {"copies"} ELSE {})

NoAlarm == [missing |-> {}, approvable |-> FALSE, raised |-> FALSE]
Closed == [open |-> FALSE]

\* What a lookup of p finds on a server that has these files.
Result(p, files) == IF p \in files THEN "present" ELSE "gone"

Seen(files) == [p \in Goods |-> {Result(p, files)}]

\* `saw' is history: what the server had while the dialog was open.
Opened(alert) ==
    LET rows == RowsOf(alert.missing)
        heads == HeadsOf(alert.missing)
        targets == TargetsOf(rows, heads)
    IN [open |-> TRUE, missing |-> alert.missing, answers |-> AnswersTo(alert),
        copies |-> CopiesOf(alert.missing),
        rows |-> rows, heads |-> heads,
        left |-> [k \in 1..Probers |-> PartOf(targets, k)],
        found |-> [p \in Goods |-> "unchecked"],
        asked |-> FALSE, labelled |-> targets = <<>>,
        marks |-> [p \in Goods |-> "plain"], sums |-> <<>>,
        saw |-> Seen(cloud.has)]

-----------------------------------------------------------------------------
(* Initial states                                                          *)

ReviewInit ==
    /\ nextcloud \in BOOLEAN
    /\ \E files \in {Goods, {p \in Goods : TopOf[p] = 0}} : cloud = [has |-> files, bin |-> {}]
    /\ \E copies \in {{}, {p \in Goods : TopOf[p] = 0}} : spares = copies
    /\ guardian = [alert |-> NoAlarm, bypass |-> FALSE, alerts |-> 0]
    /\ calls = [notices |-> 0, requests |-> 0]
    /\ reviews = [d \in Slots |-> Closed]
    /\ rescue = [copies |-> {}, restored |-> 0, items |-> {}]
    /\ upsets = 0

Upset == upsets < MaxUpsets /\ upsets' = upsets + 1

-----------------------------------------------------------------------------
(* The scheduler.                                                          *)

\* set_delete_alert: a mass deletion, or a folder that is not there at all,
\* which has no list and cannot be approved.  The callback of
\* install_delete_review_handler notifies.
Raise ==
    /\ ~guardian.alert.raised /\ ~guardian.bypass /\ guardian.alerts < MaxAlerts
    /\ \E lost \in Losses \cup {{}} :
           guardian' = [guardian EXCEPT
               !.alert = [missing |-> lost, approvable |-> lost # {}, raised |-> TRUE],
               !.alerts = @ + 1]
    /\ calls' = [calls EXCEPT !.notices = @ + 1]
    /\ UNCHANGED <<nextcloud, cloud, spares, reviews, rescue, upsets>>

\* clear_delete_alert: the guard was switched off.
ClearAlert ==
    /\ guardian.alert.raised
    /\ guardian' = [guardian EXCEPT !.alert = NoAlarm, !.bypass = FALSE]
    /\ UNCHANGED <<nextcloud, cloud, spares, calls, reviews, rescue, upsets>>

\* approve_delete_once.
Approved(g) ==
    IF g.alert.raised /\ g.alert.approvable
    THEN [g EXCEPT !.alert = NoAlarm, !.bypass = TRUE] ELSE g

\* restore_from_server.
Rescanned(g) ==
    IF g.alert.raised THEN [g EXCEPT !.alert = NoAlarm, !.bypass = FALSE] ELSE g

\* An attempt uses the approval up.
UseApproval ==
    /\ guardian.bypass
    /\ guardian' = [guardian EXCEPT !.bypass = FALSE]
    /\ UNCHANGED <<nextcloud, cloud, spares, calls, reviews, rescue, upsets>>

-----------------------------------------------------------------------------
(* The server, as other clients and the engine's runs change it.           *)

Changed(files, bin) ==
    /\ cloud' = [has |-> files, bin |-> bin]
    /\ reviews' = [d \in Slots |->
                      IF reviews[d].open
                      THEN [reviews[d] EXCEPT !.saw = [p \in Goods |-> @[p] \cup {Result(p, files)}]]
                      ELSE reviews[d]]

ServerLoses(p) ==
    /\ p \in cloud.has /\ Upset
    /\ Changed(cloud.has \ {p}, cloud.bin \cup {p})
    /\ UNCHANGED <<nextcloud, spares, guardian, calls, rescue>>

ServerGets(p) ==
    /\ p \notin cloud.has /\ Upset
    /\ Changed(cloud.has \cup {p}, cloud.bin)
    /\ UNCHANGED <<nextcloud, spares, guardian, calls, rescue>>

-----------------------------------------------------------------------------
(* From the notification to the dialog.                                    *)

\* wait_for_action calls back for the button, for the body and for "__closed":
\* a notification that is dismissed opens the review as well.
ActOnNotice ==
    /\ calls.notices > 0
    /\ calls' = [notices |-> calls.notices - 1, requests |-> calls.requests + 1]
    /\ UNCHANGED <<nextcloud, cloud, spares, guardian, reviews, rescue, upsets>>

\* Without an alert a dialog says that nothing is pending.
Present(d) ==
    /\ ~reviews[d].open
    /\ reviews' = IF guardian.alert.raised
                  THEN [reviews EXCEPT ![d] = Opened(guardian.alert)] ELSE reviews

\* The poller, every 150 ms: one request.
PollRequests ==
    /\ calls.requests > 0
    /\ calls' = [calls EXCEPT !.requests = @ - 1]
    /\ \E d \in Slots : Present(d)
    /\ UNCHANGED <<nextcloud, cloud, spares, guardian, rescue, upsets>>

\* The button of the folder's row.
ReviewDeletions ==
    /\ guardian.alert.raised
    /\ \E d \in Slots : Present(d)
    /\ UNCHANGED <<nextcloud, cloud, spares, guardian, calls, rescue, upsets>>

-----------------------------------------------------------------------------
(* The probes.                                                             *)

Probing(d) == reviews[d].open /\ ~reviews[d].labelled

\* get_for_account finds nothing: nothing is probed.
NoSecret(d) ==
    /\ Probing(d) /\ ~reviews[d].asked /\ Upset
    /\ reviews' = [reviews EXCEPT ![d].left = [k \in 1..Probers |-> <<>>], ![d].asked = TRUE]
    /\ UNCHANGED <<nextcloud, cloud, spares, guardian, calls, rescue>>

\* path_exists: a PROPFIND that finds the file or answers 404.
Probe(d, k) ==
    /\ Probing(d) /\ reviews[d].left[k] # <<>>
    /\ reviews' = [reviews EXCEPT ![d].found[Head(reviews[d].left[k])] =
                                      Result(Head(reviews[d].left[k]), cloud.has),
                                  ![d].left[k] = Tail(@), ![d].asked = TRUE]
    /\ UNCHANGED <<nextcloud, cloud, spares, guardian, calls, rescue, upsets>>

\* Mutant: a request that fails counts as a file that is not there.
StoppedGone(review, k) ==
    [review EXCEPT !.found[Head(review.left[k])] = "gone", !.left[k] = <<>>, !.asked = TRUE]

\* A failure ends the part: its other files stay unchecked.
Stopped(review, k) == [review EXCEPT !.left[k] = <<>>, !.asked = TRUE]

ProbeFails(d, k) ==
    /\ Probing(d) /\ reviews[d].left[k] # <<>> /\ Upset
    /\ reviews' = [reviews EXCEPT ![d] = Stopped(@, k)]
    /\ UNCHANGED <<nextcloud, cloud, spares, guardian, calls, rescue>>

\* PresenceSummary::of, with the cap of a group.
Summed(review, head) ==
    LET kind(i) == IF i > GroupCheckCap THEN "unchecked" ELSE review.found[head[i]]
        count(what) == Cardinality({i \in DOMAIN head : kind(i) = what})
    IN [present |-> count("present"), gone |-> count("gone"), unchecked |-> count("unchecked")]

\* All parts are in: nothing is marked if nothing could be checked.
Labelled(review) ==
    IF \A p \in Goods : review.found[p] = "unchecked"
    THEN [review EXCEPT !.labelled = TRUE]
    ELSE [review EXCEPT !.labelled = TRUE,
             !.marks = [p \in Goods |-> IF p \in ToSet(review.rows) THEN review.found[p]
                                        ELSE "plain"],
             !.sums = [i \in DOMAIN review.heads |-> Summed(review, review.heads[i])]]

MarkRows(d) ==
    /\ Probing(d) /\ \A k \in 1..Probers : reviews[d].left[k] = <<>>
    /\ reviews' = [reviews EXCEPT ![d] = Labelled(@)]
    /\ UNCHANGED <<nextcloud, cloud, spares, guardian, calls, rescue, upsets>>

-----------------------------------------------------------------------------
(* The answers.  They reach the scheduler as it is by then: an answer to a *)
(* dialog that was left open answers whatever alert there is.              *)

Answer(d, answer) ==
    /\ reviews[d].open /\ answer \in reviews[d].answers
    /\ reviews' = [reviews EXCEPT ![d] = Closed]
    /\ guardian' = CASE answer = "approve" -> Approved(guardian)
                     [] answer = "restore" -> Rescanned(guardian)
                     [] OTHER -> guardian
    /\ UNCHANGED <<nextcloud, cloud, spares, calls, upsets>>

\* Keep, approve, restore.
Decide(d) ==
    /\ \E answer \in {"keep", "approve", "restore"} : Answer(d, answer)
    /\ UNCHANGED rescue

\* present_restore_copies, on a thread of its own (bound: one at a time).
RestoreCopies(d) ==
    /\ rescue.copies = {} /\ rescue.restored = 0
    /\ Answer(d, "copies")
    /\ rescue' = [rescue EXCEPT !.copies = reviews[d].copies]

\* list_trash.
Trashed == cloud.bin

\* present_server_trash and Restore All: what the trash held when it was listed
\* (bound: one at a time).
RestoreTrash(d) ==
    /\ rescue.items = {}
    /\ Answer(d, "trash")
    /\ rescue' = [rescue EXCEPT !.items = Trashed]

\* keep_remote for one file; its failure leaves the copy where it is.
PromoteOne ==
    /\ \E p \in rescue.copies :
           \/ /\ spares' = spares \ {p}
              /\ rescue' = [rescue EXCEPT !.copies = @ \ {p}, !.restored = @ + 1]
              /\ UNCHANGED upsets
           \/ /\ Upset
              /\ rescue' = [rescue EXCEPT !.copies = @ \ {p}]
              /\ UNCHANGED spares
    /\ UNCHANGED <<nextcloud, cloud, guardian, calls, reviews>>

\* Back on the main loop: one that made it is enough to clear the alert.
PromotionOver ==
    /\ rescue.copies = {} /\ rescue.restored > 0
    /\ guardian' = Rescanned(guardian)
    /\ rescue' = [rescue EXCEPT !.restored = 0]
    /\ UNCHANGED <<nextcloud, cloud, spares, calls, reviews, upsets>>

\* restore_trash_item: a MOVE out of the trash, which the server accepts or not.
MayMove(p) == p \in cloud.bin /\ p \notin cloud.has

\* restore_all: what fails stays in the trash.
MoveItem ==
    /\ \E p \in rescue.items :
           /\ rescue' = [rescue EXCEPT !.items = @ \ {p}]
           /\ \/ /\ MayMove(p)
                 /\ Changed(cloud.has \cup {p}, cloud.bin \ {p})
                 /\ UNCHANGED upsets
              \/ /\ Upset
                 /\ UNCHANGED <<cloud, reviews>>
              \/ /\ ~MayMove(p)
                 /\ UNCHANGED <<cloud, reviews, upsets>>
    /\ UNCHANGED <<nextcloud, spares, guardian, calls>>

-----------------------------------------------------------------------------
ReviewNext ==
    \/ Raise \/ ClearAlert \/ UseApproval
    \/ \E p \in Goods : ServerLoses(p) \/ ServerGets(p)
    \/ ActOnNotice \/ PollRequests \/ ReviewDeletions
    \/ \E d \in Slots : \/ NoSecret(d) \/ MarkRows(d)
                        \/ \E k \in 1..Probers : Probe(d, k) \/ ProbeFails(d, k)
                        \/ Decide(d) \/ RestoreCopies(d) \/ RestoreTrash(d)
    \/ PromoteOne \/ PromotionOver \/ MoveItem

ReviewSpec == ReviewInit /\ [][ReviewNext]_reviewVars

-----------------------------------------------------------------------------
\* Every missing file is counted in exactly one group or has a row of its own.
AllAreListed(review) ==
    /\ \A p \in review.missing :
           \/ \E i \in DOMAIN review.heads : p \in ToSet(review.heads[i])
           \/ p \in ToSet(review.rows)
    /\ \A i, j \in DOMAIN review.heads :
           i # j => ToSet(review.heads[i]) \cap ToSet(review.heads[j]) = {}
    /\ ToSet(review.rows) \subseteq review.missing
    /\ \A i \in DOMAIN review.heads : ToSet(review.heads[i]) \subseteq review.missing

\* What could be true of group `head' while the dialog was open: no more files
\* present, or gone, than were so at some time, and all are counted.
SumIsTrue(review, head, sum) ==
    /\ sum.present <= Cardinality({p \in ToSet(head) : "present" \in review.saw[p]})
    /\ sum.gone <= Cardinality({p \in ToSet(head) : "gone" \in review.saw[p]})
    /\ sum.present + sum.gone + sum.unchecked = Len(head)

\* No mark says more than some probe found: a file that is shown as on the server,
\* or gone from it, was so while the dialog was open.
MarksAreTrue(review) ==
    \A p \in Goods : review.marks[p] \in {"present", "gone"} => review.marks[p] \in review.saw[p]

\* A review lists everything that is missing, and says of no file that it is
\* still on the server, or gone from it, unless it was so since the dialog
\* opened, whatever fails, stops or is answered meanwhile
\* (src/ui/deletion_presence.rs: "the dialog never claims more than it checked").
ReviewsTellTrue ==
    \A d \in Slots : reviews[d].open =>
        /\ AllAreListed(reviews[d])
        /\ MarksAreTrue(reviews[d])
        /\ \A i \in DOMAIN reviews[d].sums :
               SumIsTrue(reviews[d], reviews[d].heads[i], reviews[d].sums[i])

=============================================================================
