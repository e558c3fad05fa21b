------------------------- MODULE ServerNotifications -------------------------
(***************************************************************************)
(* Desktop notifications for what the server notifies                      *)
(* (src/src/core/server_notifications.rs): a timer and the push channel    *)
(* ask for the list of an account, a thread fetches it, and the main loop  *)
(* shows what it has not seen.  The first answer is only remembered: the   *)
(* backlog is not shown.                                                   *)
(*                                                                         *)
(* A request reads the setting when it is asked and the keyring in its     *)
(* thread; without a password the thread answers with an empty list.       *)
(***************************************************************************)
EXTENDS Naturals, FiniteSets, Sequences, SequencesExt

CONSTANTS
    Notices,        \* the notifications there may ever be, numbered
    MaxFlips        \* bound on settings, locks and networks that change

ASSUME NoticesAssumption == Notices \subseteq Nat /\ MaxFlips \in Nat

VARIABLES
    notices,    \* the server's list, in its order
    watcher,    \* seen, seeded, the request under way and its answer
    around,     \* the setting, the keyring, the network; spent changes
    raised,     \* history: what was shown, in order
    backlog     \* history: what the first list held; what came when unasked for

noticeVars == <<notices, watcher, around, raised, backlog>>

NoAnswer == [kind |-> "none", list |-> <<>>]

NoticesInit ==
    /\ notices \in {<<>>} \cup {<<n>> : n \in Notices}
    /\ watcher = [seen |-> {}, seeded |-> FALSE, stage |-> "idle", answer |-> NoAnswer]
    /\ around \in [enabled : BOOLEAN, locked : BOOLEAN, reachable : {TRUE}, flips : {0}]
    /\ raised = <<>>
    /\ backlog = [first |-> {}, blind |-> FALSE]

\* poll, by the timer or by the hint of the push channel.
Poll ==
    /\ around.enabled /\ watcher.stage = "idle"
    /\ watcher' = [watcher EXCEPT !.stage = "asked"]
    /\ UNCHANGED <<notices, around, raised, backlog>>

\* The thread: no password makes an empty list, and so does a 204.
Fetch ==
    /\ watcher.stage = "asked"
    /\ watcher' = [watcher EXCEPT !.stage = "answered", !.answer =
           IF around.locked THEN [kind |-> "list", list |-> <<>>]
           ELSE IF around.reachable THEN [kind |-> "list", list |-> notices]
           ELSE [kind |-> "error", list |-> <<>>]]
    /\ backlog' =
           IF watcher.seeded THEN backlog
           ELSE IF around.locked THEN [backlog EXCEPT !.blind = TRUE]
           ELSE IF around.reachable THEN [backlog EXCEPT !.first = ToSet(notices)]
           ELSE backlog
    /\ UNCHANGED <<notices, around, raised>>

\* unseen: in the server's order.
Unseen(list) == SelectSeq(list, LAMBDA n : n \notin watcher.seen)

\* Mutant: the baseline is the set, and an empty one is no baseline (issue #141).
SeededByList == watcher.seen # {}

\* The flag decides, not the set.
Seeded == watcher.seeded

\* The continuation on the main loop, whatever the setting is by then.
AnswerApplied ==
    LET list == watcher.answer.list
    IN  /\ watcher.stage = "answered"
        /\ IF watcher.answer.kind = "error"
           THEN /\ watcher' = [watcher EXCEPT !.stage = "idle", !.answer = NoAnswer]
                /\ UNCHANGED raised
           ELSE /\ raised' = IF Seeded THEN raised \o Unseen(list) ELSE raised
                /\ watcher' = [watcher EXCEPT !.stage = "idle", !.answer = NoAnswer,
                                              !.seeded = TRUE, !.seen = @ \cup ToSet(list)]
    /\ UNCHANGED <<notices, around, backlog>>

-----------------------------------------------------------------------------
(* Around it.                                                              *)

\* Ids only grow; a notification is dismissed here or elsewhere.
NoticeArrives ==
    /\ \E n \in Notices :
           /\ \A m \in ToSet(notices) \cup watcher.seen \cup ToSet(watcher.answer.list) : m < n
           /\ notices' = <<n>> \o notices
    /\ UNCHANGED <<watcher, around, raised, backlog>>

NoticeDismissed ==
    /\ \E i \in DOMAIN notices : notices' = RemoveAt(notices, i)
    /\ UNCHANGED <<watcher, around, raised, backlog>>

AroundChanges ==
    /\ around.flips < MaxFlips
    /\ \/ around' = [around EXCEPT !.enabled = ~@, !.flips = @ + 1]
       \/ around' = [around EXCEPT !.locked = ~@, !.flips = @ + 1]
       \/ around' = [around EXCEPT !.reachable = ~@, !.flips = @ + 1]
    /\ UNCHANGED <<notices, watcher, raised, backlog>>

NoticesNext ==
    Poll \/ Fetch \/ AnswerApplied \/ NoticeArrives \/ NoticeDismissed \/ AroundChanges

NoticesSpec == NoticesInit /\ [][NoticesNext]_noticeVars

-----------------------------------------------------------------------------
\* Nothing is shown twice, and nothing the first list held is shown, unless the
\* keyring was locked when that list was asked for: the empty list of a missing
\* password counts as the first.
ShownOnce ==
    /\ Cardinality(ToSet(raised)) = Len(raised)
    /\ backlog.blind \/ ToSet(raised) \cap backlog.first = {}

\* Once the setting stays on and the server in reach, all that is listed is
\* shown in the end, but for the first list and what is dismissed before.
Undisturbed == around.enabled /\ around.reachable /\ ~around.locked
AllShown == Undisturbed => ToSet(notices) \subseteq ToSet(raised) \cup backlog.first
=============================================================================
