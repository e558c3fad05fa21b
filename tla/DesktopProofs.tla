---------------------------- MODULE DesktopProofs ----------------------------
(***************************************************************************)
(* What MCDesktop checks of the application around the schedulers, for any *)
(* constants: no edit is lost to a conflict or to its resolution; the push *)
(* channel is what the client takes it for; who signed in has a password   *)
(* that works; an account that is removed leaves none behind; every folder *)
(* hears of the settings and the network; and the tray and the accounts    *)
(* show the worst there is.                                                *)
(***************************************************************************)
EXTENDS MCDesktop, ListTheorems, SequenceTheorems, FiniteSetTheorems, TLAPS

-----------------------------------------------------------------------------
(* Conflicted copies: any number of edits, copies and file operations that *)
(* fail.                                                                   *)

\* What the copies in the folder hold.
CopyContents == {copies[d] : d \in DOMAIN copies}

\* Copies are dated, and the task in hand has its fields.
ShapeOK ==
    /\ writes \in Nat /\ dated \in Nat
    /\ DOMAIN copies \subseteq 1..dated
    /\ {"side", "bulk", "todo", "copied"} \subseteq DOMAIN task

\* A write makes a content that is nowhere yet.
OldContents ==
    \A c \in {working, held, base} \cup CopyContents \cup wanted : c.when \in 0..writes

\* What the journal has recorded is wanted only where a run can still see it:
\* on the server as long as nobody wrote there, and in the folder.
BaseIsReplaced ==
    base \in wanted => /\ held = base
                       /\ working = base \/ base \in CopyContents

\* Between the two halves of a promotion, the copy may go.
PromotedIsKept ==
    task.copied =>
        LET d == Head(task.todo) IN
        /\ d \in 1..dated
        /\ d \in DOMAIN copies /\ copies[d] \in wanted =>
               \/ copies[d] = working
               \/ \E e \in DOMAIN copies \ {d} : copies[e] = copies[d]

\* What EditsOutliveConflicts says, in the words of the proof.
NothingLost == wanted \subseteq {working, held} \cup CopyContents

\* The inductive invariant of the conflicts.
EditsInv == ShapeOK /\ OldContents /\ BaseIsReplaced /\ PromotedIsKept /\ NothingLost

\* At first the file is the same everywhere.
LEMMA EditsInit == ConflictsInit => EditsInv
  BY DEF ConflictsInit, EditsInv, ShapeOK, OldContents, BaseIsReplaced, PromotedIsKept,
         NothingLost, CopyContents, NoTask, Beginning

\* A step that leaves the files, the journal and the promotion alone.
LEMMA EditsUntouched ==
    ASSUME EditsInv,
           UNCHANGED <<working, held, base, copies, dated, writes, wanted>>,
           {"side", "bulk", "todo", "copied"} \subseteq DOMAIN task',
           ~task'.copied \/ task' = task
    PROVE  EditsInv'
  BY DEF EditsInv, ShapeOK, OldContents, BaseIsReplaced, PromotedIsKept, NothingLost,
         CopyContents

\* The next copy is not promoted yet.
LEMMA OnwardStartsOver ==
    ASSUME ShapeOK, NEW resolved, Onward(resolved)
    PROVE  {"side", "bulk", "todo", "copied"} \subseteq DOMAIN task' /\ ~task'.copied
<1>1. CASE task' = NoTask BY <1>1 DEF NoTask
<1>2. CASE task' = [task EXCEPT !.todo = Tail(@), !.copied = FALSE]
  <2>1. DOMAIN task' = DOMAIN task BY <1>2
  <2>2. "copied" \in DOMAIN task /\ "todo" \in DOMAIN task BY DEF ShapeOK
  <2>3. task'.copied = FALSE BY <1>2, <2>2
  <2> QED BY <2>1, <2>3 DEF ShapeOK
<1> QED BY <1>1, <1>2 DEF Onward

\* A content written now is none of those there are.
LEMMA FreshIsNew ==
    ASSUME EditsInv, NEW new, new.when = writes + 1
    PROVE  \A c \in {working, held, base} \cup CopyContents \cup wanted : c # new
<1> SUFFICES ASSUME NEW c \in {working, held, base} \cup CopyContents \cup wanted, c = new
             PROVE  FALSE
  OBVIOUS
<1>1. writes \in Nat /\ c.when <= writes BY DEF EditsInv, ShapeOK, OldContents
<1>2. writes + 1 <= writes BY <1>1
<1> QED BY <1>1, <1>2

\* Somebody writes here ...
LEMMA WriteHereKeeps == ASSUME EditsInv, WriteHere PROVE EditsInv'
<1> DEFINE new == [by |-> "here", when |-> writes + 1]
<1>1. new.when = writes + 1 OBVIOUS
<1>2. /\ wanted' = (wanted \ {working}) \cup {new} /\ working' = new
      /\ writes' = writes + 1
      /\ UNCHANGED <<held, base, copies, dated, task>>
  BY DEF WriteHere, Write
<1>3. ShapeOK' BY <1>2 DEF EditsInv, ShapeOK
<1>4. CopyContents' = CopyContents BY <1>2 DEF CopyContents
<1>5. \A c \in {working, held, base} \cup CopyContents \cup wanted : c # new
  BY <1>1, FreshIsNew
<1>6. OldContents'
  <2>1. new.when \in 0..writes' /\ 0..writes \subseteq 0..writes'
    BY <1>2 DEF EditsInv, ShapeOK
  <2> QED BY <2>1, <1>2, <1>4 DEF EditsInv, OldContents
<1>7. BaseIsReplaced' BY <1>2, <1>4, <1>5 DEF EditsInv, BaseIsReplaced
<1>8. PromotedIsKept' BY <1>2, <1>5 DEF EditsInv, PromotedIsKept, CopyContents
<1>9. NothingLost' BY <1>2, <1>4 DEF EditsInv, NothingLost
<1> QED BY <1>3, <1>6, <1>7, <1>8, <1>9 DEF EditsInv

\* ... or on another computer.
LEMMA WriteThereKeeps == ASSUME EditsInv, WriteThere PROVE EditsInv'
<1> DEFINE new == [by |-> "there", when |-> writes + 1]
<1>1. new.when = writes + 1 OBVIOUS
<1>2. /\ wanted' = (wanted \ {held}) \cup {new} /\ held' = new
      /\ writes' = writes + 1
      /\ UNCHANGED <<working, base, copies, dated, task>>
  BY DEF WriteThere, Write
<1>3. ShapeOK' BY <1>2 DEF EditsInv, ShapeOK
<1>4. CopyContents' = CopyContents BY <1>2 DEF CopyContents
<1>5. \A c \in {working, held, base} \cup CopyContents \cup wanted : c # new
  BY <1>1, FreshIsNew
<1>6. OldContents'
  <2>1. new.when \in 0..writes' /\ 0..writes \subseteq 0..writes'
    BY <1>2 DEF EditsInv, ShapeOK
  <2> QED BY <2>1, <1>2, <1>4 DEF EditsInv, OldContents
<1>7. BaseIsReplaced' BY <1>2, <1>4, <1>5 DEF EditsInv, BaseIsReplaced
<1>8. PromotedIsKept' BY <1>2, <1>5 DEF EditsInv, PromotedIsKept, CopyContents
<1>9. NothingLost' BY <1>2, <1>4 DEF EditsInv, NothingLost
<1> QED BY <1>3, <1>6, <1>7, <1>8, <1>9 DEF EditsInv

\* The local version is set aside under a new name.
LEMMA ConflictKeeps ==
    ASSUME EditsInv, SetAside, working' = held, base' = working',
           UNCHANGED <<held, task, writes, wanted>>
    PROVE  EditsInv'
<1>1. /\ dated \in Nat /\ dated' = dated + 1
      /\ DOMAIN copies \subseteq 1..dated /\ dated' \notin DOMAIN copies
  BY DEF SetAside, EditsInv, ShapeOK
<1>2. /\ DOMAIN copies' = DOMAIN copies \cup {dated'}
      /\ copies'[dated'] = working
      /\ \A d \in DOMAIN copies : copies'[d] = copies[d]
  BY <1>1 DEF SetAside
<1>3. CopyContents' = CopyContents \cup {working} BY <1>1, <1>2 DEF CopyContents
<1>4. ShapeOK' BY <1>1, <1>2 DEF EditsInv, ShapeOK
<1>5. OldContents' BY <1>3 DEF EditsInv, OldContents
<1>6. BaseIsReplaced' BY DEF BaseIsReplaced
<1>7. PromotedIsKept'
  <2> DEFINE d == Head(task.todo)
  <2> SUFFICES ASSUME task.copied, d \in DOMAIN copies', copies'[d] \in wanted
               PROVE  \/ copies'[d] = working'
                      \/ \E e \in DOMAIN copies' \ {d} : copies'[e] = copies'[d]
    <3>1. task.copied => d \in 1..dated /\ 1..dated \subseteq 1..dated'
      BY <1>1 DEF EditsInv, PromotedIsKept
    <3> QED BY <3>1 DEF PromotedIsKept
  <2>1. d \in DOMAIN copies
    <3>1. d \in 1..dated /\ dated' \notin 1..dated BY <1>1 DEF EditsInv, PromotedIsKept
    <3> QED BY <1>2, <3>1
  <2>2. CASE copies[d] = working BY <1>1, <1>2, <2>1, <2>2
  <2>3. CASE \E e \in DOMAIN copies \ {d} : copies[e] = copies[d] BY <1>2, <2>1, <2>3
  <2> QED BY <1>2, <2>1, <2>2, <2>3 DEF EditsInv, PromotedIsKept
<1>8. NothingLost' BY <1>3 DEF EditsInv, NothingLost
<1> QED BY <1>4, <1>5, <1>6, <1>7, <1>8 DEF EditsInv

\* A run uploads, downloads, or leaves a copy of the server's version.
LEMMA SyncKeeps == ASSUME EditsInv, Sync PROVE EditsInv'
<1>1. base' = working' /\ UNCHANGED <<task, writes, wanted>> BY DEF Sync, Recorded
<1>2. CASE SetAside /\ working' = held /\ UNCHANGED held BY <1>1, <1>2, ConflictKeeps
<1>3. CASE /\ working # base /\ held = base /\ held' = working
           /\ UNCHANGED <<working, copies, dated>>
  BY <1>1, <1>3 DEF EditsInv, ShapeOK, OldContents, BaseIsReplaced, PromotedIsKept,
                    NothingLost, CopyContents
<1>4. CASE /\ working = base /\ held # base /\ working' = held
           /\ UNCHANGED <<held, copies, dated>>
  <2>1. working \notin wanted BY <1>4 DEF EditsInv, BaseIsReplaced
  <2>2. PromotedIsKept' BY <1>1, <1>4, <2>1 DEF EditsInv, PromotedIsKept
  <2>3. NothingLost' BY <1>1, <1>4, <2>1 DEF EditsInv, NothingLost, CopyContents
  <2> QED BY <1>1, <1>4, <2>2, <2>3
          DEF EditsInv, ShapeOK, OldContents, BaseIsReplaced, CopyContents
<1> QED BY <1>2, <1>3, <1>4 DEF Sync

\* A copy goes, and with it the claim on what it holds.
LEMMA CopyGivenUp ==
    ASSUME EditsInv, NEW d, d \in DOMAIN copies, copies' = Without(d),
           wanted' = wanted \ {copies[d]},
           UNCHANGED <<working, held, base, dated, writes>>,
           {"side", "bulk", "todo", "copied"} \subseteq DOMAIN task',
           ~task'.copied \/ task' = task
    PROVE  EditsInv'
<1>1. /\ DOMAIN copies' = DOMAIN copies \ {d}
      /\ \A e \in DOMAIN copies \ {d} : copies'[e] = copies[e]
  BY DEF Without
<1>2. CopyContents' \subseteq CopyContents /\ CopyContents \ {copies[d]} \subseteq CopyContents'
  BY <1>1 DEF CopyContents
<1>3. ShapeOK' BY <1>1 DEF EditsInv, ShapeOK
<1>4. OldContents' BY <1>2 DEF EditsInv, OldContents
<1>5. BaseIsReplaced' BY <1>2 DEF EditsInv, BaseIsReplaced
<1>6. PromotedIsKept' BY <1>1 DEF EditsInv, PromotedIsKept
<1>7. NothingLost' BY <1>2 DEF EditsInv, NothingLost
<1> QED BY <1>3, <1>4, <1>5, <1>6, <1>7 DEF EditsInv

\* Keep Local removes the copy that was resolved against.
LEMMA KeepLocalKeeps ==
    ASSUME EditsInv, NEW d, KeepLocal(d) PROVE EditsInv'
<1>1. /\ {"side", "bulk", "todo", "copied"} \subseteq DOMAIN task' /\ ~task'.copied
      /\ UNCHANGED <<working, held, base, dated, writes>>
  BY OnwardStartsOver DEF KeepLocal, EditsInv
<1>2. CASE d \in DOMAIN copies /\ copies' = Without(d) /\ wanted' = wanted \ {copies[d]}
  BY <1>1, <1>2, CopyGivenUp
<1>3. CASE UNCHANGED <<copies, wanted>> BY <1>1, <1>3, EditsUntouched
<1>4. CASE d \notin DOMAIN copies /\ copies' = Without(d) /\ UNCHANGED wanted
  <2>1. /\ DOMAIN copies' = DOMAIN copies
        /\ \A e \in DOMAIN copies : copies'[e] = copies[e]
    BY <1>4 DEF Without
  <2>2. CopyContents' = CopyContents BY <2>1 DEF CopyContents
  <2> QED BY <1>1, <1>4, <2>1, <2>2
          DEF EditsInv, ShapeOK, OldContents, BaseIsReplaced, PromotedIsKept, NothingLost
<1> QED BY <1>2, <1>3, <1>4 DEF KeepLocal

\* Keep Remote copies the copy over the file ...
LEMMA PromoteKeeps ==
    ASSUME EditsInv, NEW d, d = Head(task.todo), Promote(d) PROVE EditsInv'
<1>1. UNCHANGED <<held, base, dated, writes>> BY DEF Promote
<1>2. CASE d \notin DOMAIN copies
  <2>1. /\ UNCHANGED <<working, copies, wanted>>
        /\ {"side", "bulk", "todo", "copied"} \subseteq DOMAIN task' /\ ~task'.copied
    BY <1>2, OnwardStartsOver DEF Promote, EditsInv
  <2> QED BY <1>1, <2>1, EditsUntouched
<1>3. CASE d \in DOMAIN copies
  <2>1. /\ wanted' = wanted \ ({working} \ {copies[d]}) /\ copies' = copies
        /\ CopyContents' = CopyContents /\ copies[d] \in CopyContents
    BY <1>3 DEF Promote, PromotionBreaks, CopyContents
  <2>2. BaseIsReplaced' BY <1>1, <2>1 DEF EditsInv, BaseIsReplaced
  <2>3. NothingLost' BY <1>1, <2>1 DEF EditsInv, NothingLost
  <2>4. CASE working' = copies[d] /\ task' = [task EXCEPT !.copied = TRUE]
    <3>1. DOMAIN task' = DOMAIN task BY <2>4
    <3>2. task'.todo = task.todo BY <2>4 DEF EditsInv, ShapeOK
    <3>3. d \in 1..dated BY <1>3 DEF EditsInv, ShapeOK
    <3>4. PromotedIsKept' BY <1>1, <2>1, <2>4, <3>2, <3>3 DEF PromotedIsKept
    <3> QED BY <1>1, <2>1, <2>2, <2>3, <2>4, <3>1, <3>4
            DEF EditsInv, ShapeOK, OldContents
  <2>5. CASE working' = Torn /\ Onward(FALSE)
    <3>1. /\ {"side", "bulk", "todo", "copied"} \subseteq DOMAIN task' /\ ~task'.copied
      BY <2>5, OnwardStartsOver DEF EditsInv
    <3>2. working'.when \in 0..writes BY <2>5 DEF Torn, EditsInv, ShapeOK
    <3> QED BY <1>1, <2>1, <2>2, <2>3, <3>1, <3>2
            DEF EditsInv, ShapeOK, OldContents, PromotedIsKept
  <2> QED BY <1>3, <2>4, <2>5 DEF Promote, PromotionBreaks
<1> QED BY <1>2, <1>3

\* ... and removes it in a step of its own.
LEMMA RemovePromotedKeeps ==
    ASSUME EditsInv, NEW d, d = Head(task.todo), RemovePromoted(d) PROVE EditsInv'
<1>1. /\ UNCHANGED <<working, held, base, dated, writes, wanted>> /\ task.copied
      /\ {"side", "bulk", "todo", "copied"} \subseteq DOMAIN task' /\ ~task'.copied
  BY OnwardStartsOver DEF RemovePromoted, EditsInv
<1>2. CASE UNCHANGED copies BY <1>1, <1>2, EditsUntouched
<1>3. CASE copies' = Without(d)
  <2>1. /\ DOMAIN copies' = DOMAIN copies \ {d}
        /\ \A e \in DOMAIN copies \ {d} : copies'[e] = copies[e]
    BY <1>3 DEF Without
  <2>2. \A c \in CopyContents \cap wanted : c = working \/ c \in CopyContents'
    <3> SUFFICES ASSUME NEW e \in DOMAIN copies, copies[e] \in wanted,
                        copies[e] # working
                 PROVE  \E x \in DOMAIN copies' : copies'[x] = copies[e]
      BY DEF CopyContents
    <3>1. CASE e # d BY <2>1, <3>1
    <3>2. CASE e = d BY <1>1, <2>1, <3>2 DEF EditsInv, PromotedIsKept
    <3> QED BY <3>1, <3>2
  <2>3. CopyContents' \subseteq CopyContents BY <2>1 DEF CopyContents
  <2>4. ShapeOK' BY <1>1, <2>1 DEF EditsInv, ShapeOK
  <2>5. OldContents' BY <1>1, <2>3 DEF EditsInv, OldContents
  <2>6. BaseIsReplaced' BY <1>1, <2>2 DEF EditsInv, BaseIsReplaced
  <2>7. PromotedIsKept' BY <1>1 DEF PromotedIsKept
  <2>8. NothingLost' BY <1>1, <2>2 DEF EditsInv, NothingLost
  <2> QED BY <2>4, <2>5, <2>6, <2>7, <2>8 DEF EditsInv
<1> QED BY <1>2, <1>3 DEF RemovePromoted

\* Every step of the conflicts keeps the edits.
LEMMA EditsStep == EditsInv /\ [ConflictsNext]_conflictVars => EditsInv'
<1> SUFFICES ASSUME EditsInv, [ConflictsNext]_conflictVars PROVE EditsInv'
  OBVIOUS
<1>1. CASE UNCHANGED conflictVars
  BY <1>1, EditsUntouched DEF conflictVars, EditsInv, ShapeOK
<1>2. CASE WriteHere BY <1>2, WriteHereKeeps
<1>3. CASE WriteThere BY <1>3, WriteThereKeeps
<1>4. CASE Sync BY <1>4, SyncKeeps
<1>5. CASE Reload BY <1>5, EditsUntouched DEF Reload, EditsInv, ShapeOK
<1>6. CASE Resolve
  BY <1>6, KeepLocalKeeps, PromoteKeeps, RemovePromotedKeeps DEF Resolve
<1>7. ASSUME NEW d \in Dates, ResolvedElsewhere(d) PROVE EditsInv'
  BY <1>7, CopyGivenUp DEF ResolvedElsewhere, EditsInv, ShapeOK
<1>8. ASSUME NEW side, BulkClicked(side) PROVE EditsInv'
  BY <1>8, EditsUntouched DEF BulkClicked, EditsInv, ShapeOK
<1>9. ASSUME NEW side, NEW d \in Dates, RowClicked(d, side) PROVE EditsInv'
  <2>1. {"side", "bulk", "todo", "copied"} \subseteq DOMAIN task' /\ ~task'.copied
    BY <1>9 DEF RowClicked, NoTask
  <2> QED BY <1>9, <2>1, EditsUntouched DEF RowClicked
<1>10. ASSUME NEW yes \in BOOLEAN, BulkAnswered(yes) PROVE EditsInv'
  <2>1. {"side", "bulk", "todo", "copied"} \subseteq DOMAIN task' /\ ~task'.copied
    BY <1>10 DEF BulkAnswered, NoTask
  <2> QED BY <1>10, <2>1, EditsUntouched DEF BulkAnswered
<1> QED BY <1>1, <1>2, <1>3, <1>4, <1>5, <1>6, <1>7, <1>8, <1>9, <1>10 DEF ConflictsNext

\* Whatever edits, runs and resolutions interleave and break off, what somebody
\* wrote and nobody replaced or gave up stays in the folder or on the server:
\* a run never writes over what the journal has not recorded, and a promotion
\* removes the copy only once its content stands elsewhere (keep_remote).
THEOREM EditsOutlive == ConflictsSpec => []EditsOutliveConflicts
<1>1. EditsInv => EditsOutliveConflicts
  BY DEF EditsInv, NothingLost, CopyContents, EditsOutliveConflicts, Range
<1> QED BY <1>1, EditsInit, EditsStep, PTL DEF ConflictsSpec

-----------------------------------------------------------------------------
(***************************************************************************)
(* The push channel. Workers run in threads of their own and send events   *)
(* to the client in the main loop; what the client believes is what the    *)
(* events it has heard so far say. The invariant relates a worker to the   *)
(* events that are still on their way (Truthful, Farewell), the workers to *)
(* the one connection (Attached) and the report to both (Reported).        *)
(***************************************************************************)

\* The stages of a worker that runs, and the words after which it is gone.
Active == {"discover", "socket", "open"}
LastWords == {"failed", "unsupported", "closed"}

\* What a worker has said and nobody has heard: it says that it is authenticated
\* when it is, and nothing after it gave up.
Truthful(worker) ==
    \A i \in 1..Len(worker.events) :
        LET kind == worker.events[i].kind
            last == i = Len(worker.events) /\ worker.stage = "gone"
        IN  /\ kind = "authenticated" => worker.authed
            /\ kind = "auth" => worker.rejected \/ last
            /\ kind \in LastWords => last

\* It goes with a word of farewell.
Farewell(worker) ==
    worker.stage = "gone" =>
        /\ Len(worker.events) > 0
        /\ worker.events[Len(worker.events)].kind \in LastWords \cup {"auth"}

\* A typed worker with honest events; a rejected one is not authenticated.
Honest(worker) ==
    /\ worker \in Worker
    /\ Truthful(worker) /\ Farewell(worker)
    /\ ~(worker.authed /\ worker.rejected)
    /\ worker.stage = "free" => ~worker.current

\* The client's worker is the one it speaks of, and of the others none is left
\* running that was neither stopped nor rejected.
Attached(c, ws) ==
    /\ \A w \in Slots : ws[w].current => c.connection = w \/ ws[w].rejected
    /\ \A v, w \in Slots : ws[v].current /\ ws[w].current => v = w
    /\ \A w \in Slots :
           ws[w].stage \in Active /\ ~ws[w].current => ws[w].stop \/ ws[w].rejected
    /\ c.connection # 0 =>
           /\ c.connection \in Slots /\ c.enabled /\ c.configured /\ c.online
           /\ ws[c.connection].current /\ ~ws[c.connection].stop
           /\ ws[c.connection].stage # "free"

\* The connection is up.
Serving(c, ws) == c.connection # 0 /\ ws[c.connection].authed

\* "connected" was reported by a client that may run; it serves, unless it is
\* offline or was dropped on a resume.
Reported(c, ws, report) ==
    report = "connected" =>
        /\ c.enabled /\ c.configured
        /\ c.online /\ "resume" \notin server.troubles => Serving(c, ws)

\* The types of the client, the workers and the report.
Typed(c, ws, report) ==
    /\ c \in Client /\ ws \in [Slots -> Worker] /\ report \in PushStates
    /\ \A w \in Slots : Honest(ws[w])

\* A reconnect is due only while there is no connection.
Timed(c, report) == c.timer => c.connection = 0 /\ report # "connected"

\* The inductive invariant of the channel.
PushInv ==
    /\ Typed(client, workers, reported)
    /\ Attached(client, workers)
    /\ Timed(client, reported)
    /\ Reported(client, workers, reported)
    /\ client.online = link
    /\ switch \in BOOLEAN /\ {secret, accepts} \subseteq Passwords

\* A slot is not the client's 0 for no connection.
LEMMA SlotsArePositive == Slots \subseteq Nat \ {0} /\ Servers \subseteq Server
BY PushAssumption

\* Attempts are counted up to their bound.
LEMMA AttemptsCount ==
    0 \in 0..MaxAttempts /\ \A n \in 0..MaxAttempts : n = MaxAttempts \/ n + 1 \in 0..MaxAttempts
BY DEF MaxAttempts

\* A free slot has nothing to say.
LEMMA NoWorkerIsHonest == Honest(NoWorker)
<1>1. NoWorker \in Worker
  BY DEF NoWorker, Worker
<1>2. Len(NoWorker.events) = 0
  BY DEF NoWorker
<1> QED
  BY <1>1, <1>2 DEF Honest, Truthful, Farewell, NoWorker

\* At first nobody is connected.
LEMMA InitPush == PushInit => PushInv
<1> SUFFICES ASSUME PushInit PROVE PushInv
  OBVIOUS
<1> USE DEF PushInit
<1>1. client \in Client
  BY DEF Client, Passwords, MaxAttempts
<1>2. workers \in [Slots -> Worker] /\ \A w \in Slots : Honest(workers[w])
  BY NoWorkerIsHonest DEF Honest
<1>3. Typed(client, workers, reported)
  BY <1>1, <1>2, SlotsArePositive DEF Typed, PushStates
<1>4. Attached(client, workers)
  BY DEF Attached, NoWorker, Active
<1> QED
  BY <1>3, <1>4 DEF PushInv, Timed, Reported, Passwords

-----------------------------------------------------------------------------
\* A worker that is stopped or given up stays honest.
LEMMA GivenUp ==
  ASSUME NEW v, Honest(v)
  PROVE  /\ Honest([v EXCEPT !.current = FALSE])
         /\ Honest([v EXCEPT !.current = FALSE, !.stop = TRUE])
<1>1. v \in Worker
  BY DEF Honest
<1>2. /\ [v EXCEPT !.current = FALSE] \in Worker
      /\ [v EXCEPT !.current = FALSE, !.stop = TRUE] \in Worker
  BY <1>1 DEF Worker
<1> QED
  BY <1>1, <1>2 DEF Honest, Truthful, Farewell, Worker

\* What a worker says next.
LEMMA Speaks ==
  ASSUME NEW v, Honest(v), NEW u \in Worker, NEW e \in Event, v.stage \in Active,
         u.events = Append(v.events, e), v.rejected => u.rejected, v.authed => u.authed,
         ~(u.authed /\ u.rejected), u.stage = "free" => ~u.current,
         e.kind = "authenticated" => u.authed,
         e.kind = "auth" => u.rejected \/ u.stage = "gone",
         e.kind \in LastWords => u.stage = "gone",
         u.stage = "gone" => e.kind \in LastWords \cup {"auth"}
  PROVE  Honest(u)
<1>1. v \in Worker /\ Truthful(v)
  BY DEF Honest
<1>2. v.events \in Seq(Event)
  BY <1>1 DEF Worker
<1>3. /\ Len(u.events) = Len(v.events) + 1
      /\ \A i \in 1..Len(v.events) : u.events[i] = v.events[i]
      /\ u.events[Len(v.events) + 1] = e
  BY <1>2
<1>4. ASSUME NEW i \in 1..Len(v.events)
      PROVE  /\ u.events[i].kind = "authenticated" => u.authed
             /\ u.events[i].kind = "auth" => u.rejected
             /\ u.events[i].kind \notin LastWords
  <2>1. v.stage # "gone"
    BY DEF Active
  <2> QED
    BY <1>1, <1>3, <2>1 DEF Truthful
<1>5. Len(v.events) \in Nat
  BY <1>2
<1>6. Truthful(u)
  <2> SUFFICES ASSUME NEW i \in 1..Len(u.events)
               PROVE  /\ u.events[i].kind = "authenticated" => u.authed
                      /\ u.events[i].kind = "auth"
                            => u.rejected \/ (i = Len(u.events) /\ u.stage = "gone")
                      /\ u.events[i].kind \in LastWords
                            => i = Len(u.events) /\ u.stage = "gone"
    BY DEF Truthful
  <2>1. CASE i \in 1..Len(v.events)
    BY <2>1, <1>4
  <2>2. CASE i = Len(v.events) + 1
    BY <2>2, <1>3
  <2> QED
    BY <2>1, <2>2, <1>3, <1>5
<1>7. Farewell(u)
  BY <1>3, <1>5 DEF Farewell
<1> QED
  BY <1>6, <1>7 DEF Honest

\* What the main loop has heard of it.
LEMMA Hears ==
  ASSUME NEW v, Honest(v), v.events # <<>>
  PROVE  /\ Head(v.events) \in Event
         /\ Head(v.events).kind = "authenticated" => v.authed
         /\ Head(v.events).kind = "auth"
              => v.rejected \/ (Tail(v.events) = <<>> /\ v.stage = "gone")
         /\ Head(v.events).kind \in LastWords => Tail(v.events) = <<>> /\ v.stage = "gone"
         /\ Tail(v.events) = <<>> /\ v.stage = "gone"
              => Head(v.events).kind \in LastWords \cup {"auth"}
         /\ ~(v.stage = "gone" /\ Tail(v.events) = <<>>)
              => Honest([v EXCEPT !.events = Tail(v.events)])
<1>1. v \in Worker /\ Truthful(v) /\ Farewell(v)
  BY DEF Honest
<1>2. v.events \in Seq(Event) /\ v.events # <<>>
  BY <1>1 DEF Worker
<1> DEFINE q == v.events
<1>q. q \in Seq(Event) /\ q # <<>>
  BY <1>2
<1> HIDE DEF q
<1>r. /\ Len(q) \in Nat /\ Len(q) # 0 /\ Head(q) = q[1] /\ Head(q) \in Event
      /\ Tail(q) \in Seq(Event) /\ Len(Tail(q)) = Len(q) - 1
  BY <1>q
<1>s. \A i \in 1..Len(Tail(q)) : i + 1 \in 1..Len(q) /\ Tail(q)[i] = q[i + 1]
  BY <1>q, <1>r
<1>t. Len(q) = 1 <=> Tail(q) = <<>>
  <2>0. Tail(q) = <<>> => Len(q) = 1
    BY <1>r
  <2> SUFFICES ASSUME Len(q) = 1, Tail(q) # <<>> PROVE FALSE
    BY <2>0
  <2>1. Len(Tail(q)) \in Nat \ {0}
    BY <1>r, EmptySeq, Zenon
  <2> QED
    BY <2>1, <1>r
<1>3. /\ Head(v.events) = v.events[1] /\ Head(v.events) \in Event
      /\ Len(v.events) \in Nat /\ 1 \in 1..Len(v.events)
      /\ Tail(v.events) \in Seq(Event) /\ Len(Tail(v.events)) = Len(v.events) - 1
      /\ \A i \in 1..Len(Tail(v.events)) :
             i + 1 \in 1..Len(v.events) /\ Tail(v.events)[i] = v.events[i + 1]
      /\ Len(v.events) = 1 <=> Tail(v.events) = <<>>
  BY <1>r, <1>s, <1>t DEF q
<1>4. /\ Head(v.events).kind = "authenticated" => v.authed
      /\ Head(v.events).kind = "auth"
           => v.rejected \/ (Len(v.events) = 1 /\ v.stage = "gone")
      /\ Head(v.events).kind \in LastWords => Len(v.events) = 1 /\ v.stage = "gone"
  BY <1>1, <1>3 DEF Truthful
<1> DEFINE u == [v EXCEPT !.events = Tail(v.events)]
<1>5. /\ u \in Worker /\ u.events = Tail(v.events) /\ u.stage = v.stage
      /\ u.authed = v.authed /\ u.rejected = v.rejected /\ u.current = v.current
  BY <1>1, <1>3 DEF Worker
<1>6. Truthful(u)
  <2> SUFFICES ASSUME NEW i \in 1..Len(u.events)
               PROVE  /\ u.events[i].kind = "authenticated" => u.authed
                      /\ u.events[i].kind = "auth"
                            => u.rejected \/ (i = Len(u.events) /\ u.stage = "gone")
                      /\ u.events[i].kind \in LastWords
                            => i = Len(u.events) /\ u.stage = "gone"
    BY DEF Truthful
  <2> HIDE DEF u
  <2>1. i \in 1..Len(Tail(v.events)) /\ u.events[i] = v.events[i + 1]
    BY <1>3, <1>5
  <2>2. i + 1 = Len(v.events) => i = Len(u.events)
    BY <2>1, <1>3, <1>5
  <2>3. /\ v.events[i + 1].kind = "authenticated" => v.authed
        /\ v.events[i + 1].kind = "auth"
              => v.rejected \/ (i + 1 = Len(v.events) /\ v.stage = "gone")
        /\ v.events[i + 1].kind \in LastWords
              => i + 1 = Len(v.events) /\ v.stage = "gone"
    BY <1>1, <1>3, <2>1 DEF Truthful
  <2> QED
    BY <2>1, <2>2, <2>3, <1>5
<1> HIDE DEF u
<1>7. Tail(v.events) = <<>> /\ v.stage = "gone" => Head(v.events).kind \in LastWords \cup {"auth"}
  BY <1>1, <1>3 DEF Farewell
<1>8. ~(v.stage = "gone" /\ Tail(v.events) = <<>>) => Farewell(u)
  <2> SUFFICES ASSUME u.stage = "gone", Tail(v.events) # <<>> PROVE Farewell(u)
    BY <1>5 DEF Farewell
  <2>1. Len(v.events) # 1 /\ Len(v.events) \in Nat /\ Len(v.events) # 0
    BY <1>3
  <2>2. Len(u.events) = Len(v.events) - 1 /\ Len(u.events) \in 1..Len(Tail(v.events))
    BY <2>1, <1>3, <1>5
  <2>3. u.events[Len(u.events)] = v.events[Len(v.events)]
    BY <2>1, <2>2, <1>3, <1>5
  <2> QED
    BY <2>1, <2>2, <2>3, <1>1, <1>5 DEF Farewell
<1>9. ~(v.stage = "gone" /\ Tail(v.events) = <<>>) => Honest(u)
  BY <1>5, <1>6, <1>8 DEF Honest
<1> QED
  BY <1>3, <1>4, <1>7, <1>9 DEF u

-----------------------------------------------------------------------------
(* The client's operations.                                                *)

\* Every worker but the connection stays what it is; the connection is told to stop.
LEMMA Drops ==
  ASSUME NEW c, NEW ws, NEW report, NEW d, NEW next, Typed(c, ws, report), Attached(c, ws),
         d \in Client, d.connection = 0, next \in PushStates
  PROVE  /\ Typed(d, Halted(ws, c.connection), next)
         /\ Attached(d, Halted(ws, c.connection))
<1> DEFINE h == Halted(ws, c.connection)
<1>1. ws \in [Slots -> Worker] /\ \A w \in Slots : Honest(ws[w])
  BY DEF Typed
<1>2. \A w \in Slots :
        h[w] = IF w = c.connection THEN [ws[w] EXCEPT !.current = FALSE, !.stop = TRUE]
                                   ELSE [ws[w] EXCEPT !.current = FALSE]
  BY DEF Halted
<1>3. \A w \in Slots : Honest(h[w])
  <2> TAKE w \in Slots
  <2>1. Honest(ws[w])
    BY <1>1
  <2>2. /\ Honest([ws[w] EXCEPT !.current = FALSE])
        /\ Honest([ws[w] EXCEPT !.current = FALSE, !.stop = TRUE])
    BY <2>1, GivenUp
  <2>3. \/ h[w] = [ws[w] EXCEPT !.current = FALSE]
        \/ h[w] = [ws[w] EXCEPT !.current = FALSE, !.stop = TRUE]
    BY <1>2
  <2> HIDE DEF h
  <2> QED
    BY <2>2, <2>3
<1>4. h \in [Slots -> Worker]
  <2>1. h = [w \in Slots |-> h[w]]
    BY DEF Halted
  <2> QED
    BY <1>3, <2>1 DEF Honest
<1>5. \A w \in Slots : /\ h[w].current = FALSE /\ h[w].stage = ws[w].stage
                        /\ h[w].rejected = ws[w].rejected
                        /\ h[w].stop = (w = c.connection \/ ws[w].stop)
  <2> TAKE w \in Slots
  <2>1. ws[w] \in Worker
    BY <1>1
  <2>2. h[w] = IF w = c.connection THEN [ws[w] EXCEPT !.current = FALSE, !.stop = TRUE]
                                   ELSE [ws[w] EXCEPT !.current = FALSE]
    BY <1>2
  <2> HIDE DEF h
  <2>3. CASE w = c.connection
    BY <2>1, <2>2, <2>3 DEF Worker
  <2>4. CASE w # c.connection
    BY <2>1, <2>2, <2>4 DEF Worker
  <2> QED
    BY <2>3, <2>4
<1> HIDE DEF h
<1>6. Typed(d, h, next)
  BY <1>3, <1>4 DEF Typed
<1>7. Attached(d, h)
  <2>1. \A w \in Slots : h[w].stage \in Active => h[w].stop \/ h[w].rejected
    BY <1>5 DEF Attached
  <2> QED
    BY <2>1, <1>5 DEF Attached
<1> QED
  BY <1>6, <1>7 DEF h

\* A client that is disconnected keeps its switches.
LEMMA DisconnectedFacts ==
  ASSUME NEW c \in Client
  PROVE  /\ Disconnected(c) \in Client
         /\ Disconnected(c).connection = 0 /\ Disconnected(c).timer = FALSE
         /\ Disconnected(c).enabled = c.enabled /\ Disconnected(c).online = c.online
         /\ Disconnected(c).configured = c.configured
BY DEF Disconnected, Client

\* Before connect there may be nothing to serve: the word "connected" holds once
\* the client has connected again.
Reports(c, ws, report) ==
    report = "connected" =>
        /\ c.enabled /\ c.configured
        /\ c.online /\ "resume" \notin server.troubles =>
               c.connection = 0 \/ Serving(c, ws)

\* A client that connects has one worker, whose events are yet to come.
LEMMA Connects ==
  ASSUME NEW c, NEW ws, NEW report, Typed(c, ws, report), Attached(c, ws),
         Timed(c, report), Reports(c, ws, report), Connect(c, ws, report)
  PROVE  /\ Typed(client', workers', reported')
         /\ Attached(client', workers')
         /\ Timed(client', reported')
         /\ Reported(client', workers', reported')
         /\ client'.online = c.online
<1>1. CASE ~(c.enabled /\ c.online /\ c.configured /\ c.connection = 0)
  <2>1. client' = c /\ workers' = ws /\ reported' = report
    BY <1>1 DEF Connect
  <2>2. Reported(c, ws, report)
    BY <1>1 DEF Reports, Reported
  <2> QED
    BY <2>1, <2>2
<1>2. CASE c.enabled /\ c.online /\ c.configured /\ c.connection = 0
  <2>1. PICK s \in Slots :
          /\ ws[s] = NoWorker
          /\ client' = [c EXCEPT !.connection = s, !.timer = FALSE]
          /\ workers' = [w \in Slots |->
                 IF w = s
                 THEN [NoWorker EXCEPT !.stage = "discover", !.current = TRUE,
                                       !.force = c.force, !.password = c.password]
                 ELSE [ws[w] EXCEPT !.current = FALSE]]
          /\ reported' = "connecting"
    BY <1>2 DEF Connect
  <2>2. c \in Client /\ ws \in [Slots -> Worker] /\ \A w \in Slots : Honest(ws[w])
    BY DEF Typed
  <2>3. s # 0
    BY SlotsArePositive
  <2>4. /\ client' \in Client /\ client'.connection = s /\ client'.timer = FALSE
        /\ client'.enabled /\ client'.online /\ client'.configured
    BY <1>2, <2>1, <2>2 DEF Client
  <2> DEFINE new == [NoWorker EXCEPT !.stage = "discover", !.current = TRUE,
                                     !.force = c.force, !.password = c.password]
  <2>5. /\ new \in Worker /\ new.stage = "discover" /\ new.current /\ ~new.stop
        /\ ~new.rejected /\ ~new.authed /\ new.events = <<>>
    <3>1. c.force \in BOOLEAN /\ c.password \in Passwords \cup {"none"}
      BY <2>2 DEF Client
    <3>2. /\ NoWorker \in Worker /\ NoWorker.events = <<>> /\ ~NoWorker.stop
          /\ ~NoWorker.rejected /\ ~NoWorker.authed
      BY NoWorkerIsHonest DEF Honest, NoWorker
    <3> QED
      BY <3>1, <3>2 DEF Worker
  <2>6. Honest(new)
    <3> HIDE DEF new
    <3>1. Len(new.events) = 0
      BY <2>5
    <3>2. Truthful(new) /\ Farewell(new)
      BY <2>5, <3>1 DEF Truthful, Farewell
    <3> QED
      BY <2>5, <3>2 DEF Honest
  <2> HIDE DEF new
  <2>7. /\ workers'[s] = new
        /\ \A w \in Slots \ {s} : workers'[w] = [ws[w] EXCEPT !.current = FALSE]
    BY <2>1 DEF new
  <2>8. \A w \in Slots : Honest(workers'[w])
    BY <2>2, <2>6, <2>7, GivenUp
  <2>9. workers' \in [Slots -> Worker]
    <3>1. workers' = [w \in Slots |-> workers'[w]]
      BY <2>1
    <3> QED
      BY <2>8, <3>1 DEF Honest
  <2>10. \A w \in Slots \ {s} :
           /\ workers'[w].current = FALSE /\ workers'[w].stage = ws[w].stage
           /\ workers'[w].rejected = ws[w].rejected /\ workers'[w].stop = ws[w].stop
    <3> TAKE w \in Slots \ {s}
    <3>1. ws[w] \in Worker /\ workers'[w] = [ws[w] EXCEPT !.current = FALSE]
      BY <2>2, <2>7
    <3> QED
      BY <3>1 DEF Worker
  <2>11. \A w \in Slots \ {s} : ws[w].stage \in Active => ws[w].stop \/ ws[w].rejected
    <3> SUFFICES ASSUME NEW w \in Slots \ {s}, ws[w].stage \in Active
                 PROVE  ws[w].stop \/ ws[w].rejected
      OBVIOUS
    <3>1. CASE ws[w].current
      <4>1. c.connection = w \/ ws[w].rejected
        BY <3>1 DEF Attached
      <4>2. w # 0
        BY SlotsArePositive
      <4> QED
        BY <4>1, <4>2, <1>2
    <3>2. CASE ~ws[w].current
      BY <3>2 DEF Attached
    <3> QED
      BY <3>1, <3>2
  <2>12. Attached(client', workers')
    BY <2>4, <2>5, <2>7, <2>10, <2>11, <2>3 DEF Attached
  <2>13. Typed(client', workers', reported')
    BY <2>1, <2>4, <2>8, <2>9 DEF Typed, PushStates
  <2> QED
    BY <1>2, <2>1, <2>4, <2>12, <2>13 DEF Timed, Reported
<1> QED
  BY <1>1, <1>2

-----------------------------------------------------------------------------
(* The steps of a worker.                                                  *)

\* A worker that goes on, with what it says, disturbs nobody.
LEMMA Moves ==
  ASSUME PushInv, NEW w \in Slots, NEW u, Honest(u), workers[w].stage \in Active,
         workers' = [workers EXCEPT ![w] = u], u.stage # "free",
         u.current = workers[w].current, u.stop = workers[w].stop,
         workers[w].rejected => u.rejected, workers[w].authed => u.authed,
         UNCHANGED <<world, client, reported>>
  PROVE  PushInv'
<1>1. /\ workers \in [Slots -> Worker] /\ \A v \in Slots : Honest(workers[v])
      /\ client \in Client /\ reported \in PushStates
  BY DEF PushInv, Typed
<1>2. workers'[w] = u /\ \A v \in Slots \ {w} : workers'[v] = workers[v]
  BY <1>1
<1>3. workers' \in [Slots -> Worker] /\ \A v \in Slots : Honest(workers'[v])
  BY <1>1, <1>2 DEF Honest
<1>4. Attached(client, workers)
  BY DEF PushInv
<1>5. Attached(client, workers)'
  BY <1>2, <1>4 DEF Attached, world, Active
<1>6. Reported(client, workers, reported)'
  <2>1. Reported(client, workers, reported)
    BY DEF PushInv
  <2>2. Serving(client, workers) => Serving(client, workers)'
    BY <1>2, <1>4 DEF Serving, Attached, world
  <2> QED
    BY <2>1, <2>2 DEF Reported, world
<1> QED
  BY <1>1, <1>3, <1>5, <1>6 DEF PushInv, Typed, Timed, world

\* An event goes to the end of those that were sent.
LEMMA SendFacts ==
  ASSUME NEW w \in Slots, NEW kind \in Kinds, workers[w] \in Worker
  PROVE  \E e \in Event : e.kind = kind /\ Send(w, kind) = Append(workers[w].events, e)
<1> DEFINE e == [kind |-> kind, mode |-> workers[w].mode, authed |-> workers[w].authed]
<1>1. e \in Event
  BY DEF Event, Worker
<1> QED
  BY <1>1 DEF Send

\* What it says is true of the worker it becomes.
LEMMA Says ==
  ASSUME PushInv, NEW w \in Slots, NEW v \in Worker, NEW kind \in Kinds,
         workers[w].stage \in Active, workers' = [workers EXCEPT ![w] = v],
         v.stage # "free", v.events = Send(w, kind),
         v.current = workers[w].current, v.stop = workers[w].stop,
         workers[w].rejected => v.rejected, workers[w].authed => v.authed,
         ~(v.authed /\ v.rejected), kind = "authenticated" => v.authed,
         kind = "auth" => v.rejected \/ v.stage = "gone",
         kind \in LastWords => v.stage = "gone",
         v.stage = "gone" => kind \in LastWords \cup {"auth"},
         UNCHANGED <<world, client, reported>>
  PROVE  PushInv'
<1>1. Honest(workers[w]) /\ workers[w] \in Worker
  BY DEF PushInv, Typed, Honest
<1>2. PICK e \in Event : e.kind = kind /\ v.events = Append(workers[w].events, e)
  BY <1>1, SendFacts
<1>3. Honest(v)
  BY <1>1, <1>2, Speaks
<1> QED
  BY <1>3, Moves

\* ... which are a sequence.
LEMMA SendIsSeq ==
  ASSUME NEW w \in Slots, NEW kind \in Kinds, workers[w] \in Worker
  PROVE  Send(w, kind) \in Seq(Event)
<1>1. PICK e \in Event : Send(w, kind) = Append(workers[w].events, e)
  BY SendFacts
<1>2. workers[w].events \in Seq(Event)
  BY DEF Worker
<1> QED
  BY <1>1, <1>2

\* A worker that says its last word goes.
LEMMA Departs ==
  ASSUME PushInv, NEW w \in Slots, workers[w].stage \in Active,
         NEW kind \in LastWords \cup {"auth"}, Leaves(w, kind)
  PROVE  PushInv'
<1>1. workers[w] \in Worker /\ Honest(workers[w])
  BY DEF PushInv, Typed, Honest
<1>2. kind \in Kinds /\ kind # "" /\ kind # "authenticated"
  BY DEF Kinds, LastWords
<1> DEFINE v == [[workers[w] EXCEPT !.stage = "gone"] EXCEPT !.events = Send(w, kind)]
<1>3. /\ v \in Worker /\ v.stage = "gone" /\ v.events = Send(w, kind)
      /\ v.current = workers[w].current /\ v.stop = workers[w].stop
      /\ v.rejected = workers[w].rejected /\ v.authed = workers[w].authed
  BY <1>1, <1>2, SendIsSeq DEF Worker
<1>4. ~(v.authed /\ v.rejected)
  BY <1>1, <1>3 DEF Honest
<1>5. workers' = [workers EXCEPT ![w] = v] /\ UNCHANGED <<world, client, reported>>
  BY <1>2 DEF Leaves, Becomes
<1> HIDE DEF v
<1> QED
  BY <1>2, <1>3, <1>4, <1>5, Says

\* It asks the server for the channel ...
LEMMA DiscoverStep ==
  ASSUME PushInv, NEW w \in Slots, Discover(w) PROVE PushInv'
<1>1. workers[w] \in Worker /\ Honest(workers[w]) /\ workers[w].stage = "discover"
  BY DEF PushInv, Typed, Honest, Discover
<1>2. CASE Leaves(w, "failed") \/ Leaves(w, "auth") \/ Leaves(w, "unsupported")
  BY <1>1, <1>2, Departs DEF Active, LastWords
<1>3. CASE \E mode \in {"password", "preauth"} :
             Becomes(w, [workers[w] EXCEPT !.stage = "socket", !.mode = mode], "")
  <2> PICK mode \in {"password", "preauth"} :
             Becomes(w, [workers[w] EXCEPT !.stage = "socket", !.mode = mode], "")
    BY <1>3
  <2> DEFINE v == [workers[w] EXCEPT !.stage = "socket", !.mode = mode]
  <2>1. /\ v \in Worker /\ v.stage = "socket" /\ v.events = workers[w].events
        /\ v.current = workers[w].current /\ v.stop = workers[w].stop
        /\ v.rejected = workers[w].rejected /\ v.authed = workers[w].authed
    BY <1>1 DEF Worker
  <2>2. workers' = [workers EXCEPT ![w] = v] /\ UNCHANGED <<world, client, reported>>
    BY DEF Becomes
  <2> HIDE DEF v
  <2>3. Honest(v)
    BY <1>1, <2>1 DEF Honest, Truthful, Farewell
  <2> QED
    BY <1>1, <2>1, <2>2, <2>3, Moves DEF Active
<1> QED
  BY <1>2, <1>3 DEF Discover

\* ... opens the socket ...
LEMMA OpenSocketStep ==
  ASSUME PushInv, NEW w \in Slots, OpenSocket(w) PROVE PushInv'
<1>1. workers[w] \in Worker /\ Honest(workers[w]) /\ workers[w].stage = "socket"
  BY DEF PushInv, Typed, Honest, OpenSocket
<1>2. CASE Leaves(w, "failed")
  BY <1>1, <1>2, Departs DEF Active, LastWords
<1>3. CASE Becomes(w, [workers[w] EXCEPT !.stage = "open"], "")
  <2> DEFINE v == [workers[w] EXCEPT !.stage = "open"]
  <2>1. /\ v \in Worker /\ v.stage = "open" /\ v.events = workers[w].events
        /\ v.current = workers[w].current /\ v.stop = workers[w].stop
        /\ v.rejected = workers[w].rejected /\ v.authed = workers[w].authed
    BY <1>1 DEF Worker
  <2>2. workers' = [workers EXCEPT ![w] = v] /\ UNCHANGED <<world, client, reported>>
    BY <1>3 DEF Becomes
  <2> HIDE DEF v
  <2>3. Honest(v)
    BY <1>1, <2>1 DEF Honest, Truthful, Farewell
  <2> QED
    BY <1>1, <2>1, <2>2, <2>3, Moves DEF Active
<1> QED
  BY <1>2, <1>3 DEF OpenSocket

\* ... reads what comes ...
LEMMA ReadsStep ==
  ASSUME PushInv, NEW w \in Slots, ReadAuthenticated(w) \/ ReadInvalid(w) PROVE PushInv'
<1>1. /\ workers[w] \in Worker /\ workers[w].stage = "open"
      /\ ~workers[w].authed /\ ~workers[w].rejected
  BY DEF PushInv, Typed, Honest, ReadAuthenticated, ReadInvalid, Listening
<1>2. CASE ReadAuthenticated(w)
  <2> DEFINE v == [[workers[w] EXCEPT !.authed = TRUE] EXCEPT !.events = Send(w, "authenticated")]
  <2>1. /\ v \in Worker /\ v.stage = "open" /\ v.events = Send(w, "authenticated")
        /\ v.current = workers[w].current /\ v.stop = workers[w].stop
        /\ v.rejected = FALSE /\ v.authed = TRUE
    BY <1>1, SendIsSeq DEF Worker, Kinds
  <2>2. workers' = [workers EXCEPT ![w] = v] /\ UNCHANGED <<world, client, reported>>
    BY <1>2 DEF ReadAuthenticated, Becomes
  <2> HIDE DEF v
  <2> QED
    BY <1>1, <2>1, <2>2, Says DEF Active, Kinds, LastWords
<1>3. CASE ReadInvalid(w)
  <2> DEFINE v == [[workers[w] EXCEPT !.rejected = TRUE] EXCEPT !.events = Send(w, "auth")]
  <2>1. /\ v \in Worker /\ v.stage = "open" /\ v.events = Send(w, "auth")
        /\ v.current = workers[w].current /\ v.stop = workers[w].stop
        /\ v.rejected = TRUE /\ v.authed = FALSE
    BY <1>1, SendIsSeq DEF Worker, Kinds
  <2>2. workers' = [workers EXCEPT ![w] = v] /\ UNCHANGED <<world, client, reported>>
    BY <1>3 DEF ReadInvalid, Becomes
  <2> HIDE DEF v
  <2> QED
    BY <1>1, <2>1, <2>2, Says DEF Active, Kinds, LastWords
<1> QED
  BY <1>2, <1>3

\* ... and sees it closed;
LEMMA ClosesStep ==
  ASSUME PushInv, NEW w \in Slots, ReadClosed(w) \/ HeartbeatTimeout(w) PROVE PushInv'
<1>1. workers[w] \in Worker /\ Honest(workers[w]) /\ workers[w].stage = "open"
  BY DEF PushInv, Typed, Honest, ReadClosed, HeartbeatTimeout, Listening
<1>2. CASE Leaves(w, "closed")
  BY <1>1, <1>2, Departs DEF Active, LastWords
<1>3. CASE /\ workers' = [workers EXCEPT ![w] =
                 [workers[w] EXCEPT !.stage = "gone", !.events = Send(w, "closed")]]
           /\ UNCHANGED <<world, client, reported>>
  <2> DEFINE v == [workers[w] EXCEPT !.stage = "gone", !.events = Send(w, "closed")]
  <2>1. /\ v \in Worker /\ v.stage = "gone" /\ v.events = Send(w, "closed")
        /\ v.current = workers[w].current /\ v.stop = workers[w].stop
        /\ v.rejected = workers[w].rejected /\ v.authed = workers[w].authed
    BY <1>1, SendIsSeq DEF Worker, Kinds
  <2>2. ~(v.authed /\ v.rejected)
    BY <1>1, <2>1 DEF Honest
  <2>3. workers' = [workers EXCEPT ![w] = v]
    BY <1>3
  <2> HIDE DEF v
  <2> QED
    BY <1>1, <1>3, <2>1, <2>2, <2>3, Says DEF Active, Kinds, LastWords
<1> QED
  BY <1>2, <1>3 DEF ReadClosed, HeartbeatTimeout

\* A connection that is half dead for a while leaves the worker what it was;
LEMMA StallsStep ==
  ASSUME PushInv, NEW w \in Slots, Stalls(w) \/ Thaws(w) PROVE PushInv'
<1>1. workers[w] \in Worker /\ Honest(workers[w])
  BY DEF PushInv, Typed, Honest
<1>2. PICK half \in BOOLEAN :
        /\ workers' = [workers EXCEPT ![w] = [@ EXCEPT !.stalled = half]]
        /\ UNCHANGED <<world, client, reported>>
  BY DEF Stalls, Thaws
<1> DEFINE v == [workers[w] EXCEPT !.stalled = half]
<1>3. /\ v \in Worker /\ v.stage = workers[w].stage /\ v.events = workers[w].events
      /\ v.current = workers[w].current /\ v.stop = workers[w].stop
      /\ v.rejected = workers[w].rejected /\ v.authed = workers[w].authed
  BY <1>1 DEF Worker
<1>4. workers' = [workers EXCEPT ![w] = v]
  BY <1>1, <1>2 DEF PushInv, Typed
<1> HIDE DEF v
<1>5. Honest(v)
  BY <1>1, <1>3 DEF Honest, Truthful, Farewell
<1>6. workers[w].stage \in Active
  BY DEF Stalls, Thaws, Active
<1> QED
  BY <1>2, <1>3, <1>4, <1>5, <1>6, Moves DEF Active

\* or it notices that it was told to stop.
LEMMA WorkerStopsStep ==
  ASSUME PushInv, NEW w \in Slots, WorkerStops(w) PROVE PushInv'
<1>1. /\ workers \in [Slots -> Worker] /\ \A v \in Slots : Honest(workers[v])
      /\ client \in Client /\ reported \in PushStates
  BY DEF PushInv, Typed
<1>2. workers'[w] = NoWorker /\ \A v \in Slots \ {w} : workers'[v] = workers[v]
  BY <1>1 DEF WorkerStops
<1>3. workers' \in [Slots -> Worker] /\ \A v \in Slots : Honest(workers'[v])
  <2>1. workers' = [workers EXCEPT ![w] = NoWorker]
    BY DEF WorkerStops
  <2>2. NoWorker \in Worker
    BY NoWorkerIsHonest DEF Honest
  <2> HIDE DEF NoWorker
  <2> QED
    BY <1>1, <1>2, <2>1, <2>2, NoWorkerIsHonest
<1>4. Attached(client, workers) /\ client.connection # w
  BY SlotsArePositive DEF PushInv, Attached, WorkerStops
<1>5. NoWorker.current = FALSE /\ NoWorker.stage = "free"
  BY DEF NoWorker
<1>6. UNCHANGED <<world, client, reported>>
  BY DEF WorkerStops
<1>7. Attached(client, workers)'
  BY <1>2, <1>4, <1>5, <1>6 DEF Attached, Active
<1>8. Reported(client, workers, reported)'
  <2>1. Reported(client, workers, reported)
    BY DEF PushInv
  <2>2. Serving(client, workers) => Serving(client, workers)'
    BY <1>2, <1>4, <1>6 DEF Serving, Attached
  <2> QED
    BY <2>1, <2>2, <1>6 DEF Reported, world
<1> QED
  BY <1>1, <1>3, <1>6, <1>7, <1>8 DEF PushInv, Typed, Timed, world

\* A hint leaves every worker what it was.
LEMMA RemoteChangeStep == ASSUME PushInv, RemoteChange PROVE PushInv'
<1>1. /\ workers \in [Slots -> Worker] /\ \A v \in Slots : Honest(workers[v])
      /\ client \in Client /\ reported \in PushStates
  BY DEF PushInv, Typed
<1>2. \A w \in Slots :
        \/ workers'[w] = workers[w]
        \/ /\ workers[w].stage = "open" /\ workers[w].authed
           /\ workers'[w] = [workers[w] EXCEPT !.events = Send(w, "hint")]
  BY DEF RemoteChange, Listening
<1>3. \A w \in Slots :
        /\ Honest(workers'[w])
        /\ workers'[w].stage = workers[w].stage /\ workers'[w].current = workers[w].current
        /\ workers'[w].stop = workers[w].stop /\ workers'[w].authed = workers[w].authed
        /\ workers'[w].rejected = workers[w].rejected
  <2> TAKE w \in Slots
  <2>1. CASE workers'[w] = workers[w]
    BY <1>1, <2>1
  <2>2. CASE /\ workers[w].stage = "open" /\ workers[w].authed
             /\ workers'[w] = [workers[w] EXCEPT !.events = Send(w, "hint")]
    <3> DEFINE u == [workers[w] EXCEPT !.events = Send(w, "hint")]
    <3>0. workers[w] \in Worker /\ Honest(workers[w]) /\ "hint" \in Kinds
      BY <1>1 DEF Kinds
    <3>1. PICK e \in Event : e.kind = "hint" /\ Send(w, "hint") = Append(workers[w].events, e)
      BY <3>0, SendFacts
    <3>2. Send(w, "hint") \in Seq(Event)
      BY <3>0, SendIsSeq
    <3>3. /\ u \in Worker /\ u.events = Append(workers[w].events, e)
          /\ u.stage = workers[w].stage /\ u.current = workers[w].current
          /\ u.stop = workers[w].stop /\ u.authed = workers[w].authed
          /\ u.rejected = workers[w].rejected
      BY <3>0, <3>1, <3>2 DEF Worker
    <3> HIDE DEF u
    <3>4. Honest(u)
      <4>1. workers[w].stage \in Active /\ u.stage # "free" /\ u.stage # "gone"
        BY <2>2, <3>3 DEF Active
      <4>2. e.kind # "authenticated" /\ e.kind # "auth" /\ e.kind \notin LastWords
        BY <3>1 DEF LastWords
      <4>3. ~(u.authed /\ u.rejected)
        BY <3>0, <3>3 DEF Honest
      <4> QED
        BY <3>0, <3>3, <4>1, <4>2, <4>3, Speaks
    <3> QED
      BY <2>2, <3>3, <3>4 DEF u
  <2> QED
    BY <1>2, <2>1, <2>2
<1>4. workers' \in [Slots -> Worker]
  <2>1. workers' = [w \in Slots |-> workers'[w]]
    BY DEF RemoteChange
  <2> QED
    BY <1>3, <2>1 DEF Honest
<1>5. UNCHANGED <<world, client, reported>>
  BY DEF RemoteChange
<1>6. Attached(client, workers)'
  <2>1. Attached(client, workers)
    BY DEF PushInv
  <2> QED
    BY <2>1, <1>3, <1>5 DEF Attached
<1>7. Reported(client, workers, reported)'
  <2>1. Reported(client, workers, reported) /\ Attached(client, workers)
    BY DEF PushInv
  <2>2. Serving(client, workers) => Serving(client, workers)'
    BY <2>1, <1>3, <1>5 DEF Serving, Attached
  <2> QED
    BY <2>1, <2>2, <1>5 DEF Reported, world
<1> QED
  BY <1>1, <1>3, <1>4, <1>5, <1>6, <1>7 DEF PushInv, Typed, Timed, world

-----------------------------------------------------------------------------
(* The main loop hears an event.                                           *)

\* What is left of the workers when one event was heard.
LEMMA Consumes ==
  ASSUME PushInv, NEW w \in Slots, workers[w].events # <<>>
  PROVE  LET next == Consumed(workers, w) IN
         /\ next \in [Slots -> Worker] /\ \A v \in Slots : Honest(next[v])
         /\ \A v \in Slots \ {w} : next[v] = workers[v]
         /\ \/ /\ next[w].stage = "free" /\ ~next[w].current
               /\ workers[w].stage = "gone" /\ Tail(workers[w].events) = <<>>
            \/ /\ ~(workers[w].stage = "gone" /\ Tail(workers[w].events) = <<>>)
               /\ next[w].stage = workers[w].stage /\ next[w].current = workers[w].current
               /\ next[w].stop = workers[w].stop /\ next[w].authed = workers[w].authed
               /\ next[w].rejected = workers[w].rejected
<1> DEFINE next == Consumed(workers, w)
           kept == [workers[w] EXCEPT !.events = Tail(workers[w].events)]
           over == workers[w].stage = "gone" /\ Tail(workers[w].events) = <<>>
<1>1. workers \in [Slots -> Worker] /\ \A v \in Slots : Honest(workers[v])
  BY DEF PushInv, Typed
<1>2. next = [workers EXCEPT ![w] = IF over THEN NoWorker ELSE kept]
  BY DEF Consumed
<1>3. ~over => Honest(kept)
  BY <1>1, Hears
<1>4. NoWorker.stage = "free" /\ ~NoWorker.current
  BY DEF NoWorker
<1>5. /\ kept.stage = workers[w].stage /\ kept.current = workers[w].current
      /\ kept.stop = workers[w].stop /\ kept.authed = workers[w].authed
      /\ kept.rejected = workers[w].rejected
  <2>1. workers[w] \in Worker
    BY <1>1
  <2> QED
    BY <2>1 DEF Worker
<1> HIDE DEF kept, next
<1>6. over \/ ~over
  OBVIOUS
<1>7. CASE over
  <2>1. next[w] = NoWorker /\ \A v \in Slots \ {w} : next[v] = workers[v]
    BY <1>1, <1>2, <1>7
  <2>2. next = [workers EXCEPT ![w] = NoWorker]
    BY <1>2, <1>7
  <2>3. NoWorker \in Worker
    BY NoWorkerIsHonest DEF Honest
  <2>4. next \in [Slots -> Worker]
    <3> HIDE DEF NoWorker
    <3> QED
      BY <1>1, <2>2, <2>3
  <2>5. \A v \in Slots : Honest(next[v])
    BY <1>1, <2>1, NoWorkerIsHonest
  <2> QED
    BY <1>4, <1>7, <2>1, <2>4, <2>5 DEF next
<1>8. CASE ~over
  <2>1. next[w] = kept /\ \A v \in Slots \ {w} : next[v] = workers[v]
    BY <1>1, <1>2, <1>8
  <2>2. next = [workers EXCEPT ![w] = kept]
    BY <1>2, <1>8
  <2>3. kept \in Worker
    BY <1>3, <1>8 DEF Honest
  <2>4. next \in [Slots -> Worker]
    BY <1>1, <2>2, <2>3
  <2>5. \A v \in Slots : Honest(next[v])
    BY <1>1, <1>3, <1>8, <2>1
  <2> QED
    BY <1>5, <1>8, <2>1, <2>4, <2>5 DEF next
<1> QED
  BY <1>6, <1>7, <1>8

\* When the last word of the client's worker is heard, the client is without one.
LEMMA ConnectionEnds ==
  ASSUME PushInv, NEW w \in Slots, workers[w].events # <<>>, workers[w].current,
         NEW next, next = Consumed(workers, w),
         Head(workers[w].events).kind \in LastWords \cup {"auth"},
         NEW c \in Client, c.connection = 0
  PROVE  Attached(c, next)
<1>1. Honest(workers[w]) /\ Attached(client, workers)
  BY DEF PushInv, Typed
<1>2. \/ workers[w].rejected
      \/ workers[w].stage = "gone" /\ Tail(workers[w].events) = <<>>
  BY <1>1, Hears
<1>3. /\ \A v \in Slots \ {w} : next[v] = workers[v]
      /\ \/ next[w].stage = "free" /\ ~next[w].current
         \/ /\ ~(workers[w].stage = "gone" /\ Tail(workers[w].events) = <<>>)
            /\ next[w].rejected = workers[w].rejected
  BY Consumes
<1>4. \A v \in Slots \ {w} : ~workers[v].current
  BY <1>1 DEF Attached
<1>5. \A v \in Slots : next[v].current => next[v].rejected
  BY <1>2, <1>3, <1>4
<1>6. \A u, v \in Slots : next[u].current /\ next[v].current => u = v
  BY <1>3, <1>4
<1>7. \A v \in Slots :
        next[v].stage \in Active /\ ~next[v].current => next[v].stop \/ next[v].rejected
  BY <1>1, <1>2, <1>3 DEF Attached, Active
<1> QED
  BY <1>5, <1>6, <1>7 DEF Attached

\* Any other word changes nothing about who is attached.
LEMMA ConnectionStays ==
  ASSUME PushInv, NEW w \in Slots, workers[w].events # <<>>,
         NEW next, next = Consumed(workers, w),
         \/ ~workers[w].current
         \/ Head(workers[w].events).kind \notin LastWords \cup {"auth"},
         NEW c \in Client, c.connection = client.connection, c.enabled = client.enabled,
         c.configured = client.configured, c.online = client.online
  PROVE  /\ Attached(c, next)
         /\ Serving(client, workers) => Serving(c, next)
<1>1. Honest(workers[w]) /\ Attached(client, workers)
  BY DEF PushInv, Typed
<1>2. Tail(workers[w].events) = <<>> /\ workers[w].stage = "gone"
         => Head(workers[w].events).kind \in LastWords \cup {"auth"}
  BY <1>1, Hears
<1>3. /\ \A v \in Slots \ {w} : next[v] = workers[v]
      /\ \/ /\ next[w].stage = "free" /\ ~next[w].current /\ workers[w].stage = "gone"
            /\ Tail(workers[w].events) = <<>>
         \/ /\ next[w].stage = workers[w].stage /\ next[w].current = workers[w].current
            /\ next[w].stop = workers[w].stop /\ next[w].authed = workers[w].authed
            /\ next[w].rejected = workers[w].rejected
  BY Consumes
<1>4. CASE ~workers[w].current
  <2>1. client.connection # w
    BY <1>1, <1>4, SlotsArePositive DEF Attached
  <2>2. Attached(c, next)
    BY <1>1, <1>3, <1>4, <2>1 DEF Attached, Active
  <2>3. Serving(client, workers) => Serving(c, next)
    BY <1>1, <1>3, <2>1 DEF Serving, Attached
  <2> QED
    BY <2>2, <2>3
<1>5. CASE Head(workers[w].events).kind \notin LastWords \cup {"auth"}
  <2>1. \A v \in Slots :
          /\ next[v].stage = workers[v].stage /\ next[v].current = workers[v].current
          /\ next[v].stop = workers[v].stop /\ next[v].authed = workers[v].authed
          /\ next[v].rejected = workers[v].rejected
    BY <1>2, <1>3, <1>5
  <2>2. Attached(c, next)
    BY <1>1, <2>1 DEF Attached
  <2>3. Serving(client, workers) => Serving(c, next)
    BY <1>1, <2>1 DEF Serving, Attached
  <2> QED
    BY <2>2, <2>3
<1> QED
  BY <1>4, <1>5

\* An event is handled: the client reconnects, gives up, or reports.
LEMMA HandleEventStep ==
  ASSUME PushInv, NEW w \in Slots, HandleEvent(w) PROVE PushInv'
<1> DEFINE e == Head(workers[w].events)
<1>1. /\ workers[w].events # <<>> /\ workers' = Consumed(workers, w)
      /\ UNCHANGED world
  BY DEF HandleEvent
<1>2. /\ client \in Client /\ reported \in PushStates /\ Honest(workers[w])
      /\ Attached(client, workers) /\ Timed(client, reported)
      /\ Reported(client, workers, reported)
  BY DEF PushInv, Typed
<1>3. workers' \in [Slots -> Worker] /\ \A v \in Slots : Honest(workers'[v])
  BY <1>1, Consumes
<1>4. e \in Event /\ (e.kind = "authenticated" => workers[w].authed)
  BY <1>1, <1>2, Hears
<1>5. SUFFICES /\ client' \in Client /\ reported' \in PushStates
               /\ client'.online = client.online
               /\ Attached(client', workers') /\ Timed(client', reported')
               /\ Reported(client', workers', reported')
  BY <1>1, <1>3 DEF PushInv, Typed, Attached, Timed, Reported, world
<1>6. CASE UNCHANGED <<client, reported>>
           /\ (~workers[w].current \/ e.kind \notin LastWords \cup {"auth"})
  <2>1. /\ Attached(client, workers')
        /\ Serving(client, workers) => Serving(client, workers')
    BY <1>1, <1>2, <1>6, ConnectionStays
  <2> QED
    BY <1>2, <1>6, <2>1 DEF Reported
<1>7. CASE workers[w].current /\ e.kind = "authenticated"
           /\ client' = [client EXCEPT !.force = FALSE, !.failures = 0]
           /\ reported' = "connected"
  <2>1. /\ client' \in Client /\ client'.connection = client.connection
        /\ client'.enabled = client.enabled /\ client'.configured = client.configured
        /\ client'.online = client.online /\ client'.timer = client.timer
    BY <1>2, <1>7, AttemptsCount DEF Client
  <2>2. e.kind \notin LastWords \cup {"auth"}
    BY <1>7 DEF LastWords
  <2>3. /\ Attached(client', workers')
        /\ Serving(client, workers) => Serving(client', workers')
    BY <1>1, <2>1, <2>2, ConnectionStays
  <2>4. client.connection = w /\ w # 0 /\ workers[w].authed
    BY <1>2, <1>4, <1>7, SlotsArePositive DEF Attached, Honest
  <2>5. Serving(client, workers)
    BY <2>4 DEF Serving
  <2>6. ~client.timer /\ client.enabled /\ client.configured
    BY <1>2, <2>4 DEF Timed, Attached
  <2> QED
    BY <1>7, <2>1, <2>3, <2>5, <2>6 DEF Timed, Reported, PushStates
<1>8. CASE /\ workers[w].current /\ e.kind \in LastWords \cup {"auth"}
           /\ client' \in Client /\ client'.connection = 0
           /\ client'.online = client.online
           /\ reported' \in PushStates \ {"connected"}
  <2>1. Attached(client', workers')
    BY <1>1, <1>8, ConnectionEnds
  <2> QED
    BY <1>8, <2>1 DEF Timed, Reported
<1>9. CASE ~workers[w].current
  BY <1>6, <1>9 DEF HandleEvent, Fresh
<1>10. CASE workers[w].current
  <2>1. Handle(e)
    BY <1>10 DEF HandleEvent, Fresh
  <2> HIDE DEF e
  <2>2. CASE e.kind = "hint"
    BY <2>1, <2>2, <1>6 DEF Handle, LastWords
  <2>3. CASE e.kind = "authenticated"
    BY <2>1, <2>3, <1>7, <1>10 DEF Handle
  <2>4. CASE e.kind = "failed"
    <3>1. client' = [client EXCEPT !.connection = 0, !.timer = TRUE] /\ reported' = "reconnecting"
      BY <2>1, <2>4 DEF Handle
    <3>2. /\ client' \in Client /\ client'.connection = 0
          /\ client'.online = client.online
      BY <1>2, <3>1 DEF Client
    <3> QED
      BY <1>8, <1>10, <2>4, <3>1, <3>2 DEF LastWords, PushStates
  <2>5. CASE e.kind = "auth" \/ e.kind = "unsupported"
    <3>1. /\ client' = [client EXCEPT !.connection = 0]
          /\ reported' \in {"auth_required", "unsupported"}
      BY <2>1, <2>5 DEF Handle, AfterRejection
    <3>2. /\ client' \in Client /\ client'.connection = 0
          /\ client'.online = client.online
      BY <1>2, <3>1 DEF Client
    <3> QED
      BY <1>8, <1>10, <2>5, <3>1, <3>2 DEF LastWords, PushStates
  <2>6. CASE e.kind = "closed"
    <3> DEFINE c == AfterClose(e)
    <3>1. /\ c \in Client /\ c.connection = 0 /\ c.online = client.online
      <4>1. e.authed \in BOOLEAN
        BY <1>4 DEF Event
      <4>2. client.force \in BOOLEAN /\ client.failures \in 0..MaxAttempts
        BY <1>2 DEF Client
      <4> DEFINE force == IF e.authed THEN client.force ELSE e.mode = "preauth"
                 failures == IF e.authed \/ client.failures = MaxAttempts THEN client.failures
                             ELSE client.failures + 1
      <4>3. force \in BOOLEAN /\ failures \in 0..MaxAttempts
        BY <4>1, <4>2, AttemptsCount
      <4>4. c = [client EXCEPT !.connection = 0, !.force = force, !.failures = failures]
        BY DEF AfterClose
      <4> HIDE DEF force, failures
      <4> QED
        BY <4>3, <4>4, <1>2 DEF Client
    <3>2. /\ client' = c \/ client' = [c EXCEPT !.timer = TRUE]
          /\ reported' \in {"auth_required", "reconnecting"}
      BY <2>1, <2>6 DEF Handle
    <3> HIDE DEF c
    <3>3. /\ client' \in Client /\ client'.connection = 0
          /\ client'.online = client.online
      BY <3>1, <3>2 DEF Client
    <3> QED
      BY <1>8, <1>10, <2>6, <3>2, <3>3 DEF LastWords, PushStates
  <2> QED
    BY <2>2, <2>3, <2>4, <2>5, <2>6, <1>4 DEF Event, Kinds
<1> QED
  BY <1>9, <1>10

-----------------------------------------------------------------------------
(* What drives the client.                                                 *)

\* What a step of the client must show, when the world keeps its server.
Outcome ==
    /\ Typed(client', workers', reported') /\ Attached(client', workers')
    /\ Timed(client', reported') /\ Reported(client', workers', reported')

\* A client operation that ends so keeps the invariant.
LEMMA OutcomeHolds ==
  ASSUME Outcome, server' = server, client'.online = link', switch' \in BOOLEAN,
         {secret', accepts'} \subseteq Passwords
  PROVE  PushInv'
BY DEF Outcome, PushInv, Typed, Attached, Timed, Reported, Serving

\* The client is disconnected, and says so unless it goes offline or resumes.
LEMMA Dropped ==
  ASSUME PushInv, NEW c \in Client, client' = Disconnected(c),
         workers' = Halted(workers, client.connection), reported' \in PushStates,
         \/ reported' # "connected"
         \/ /\ reported' = reported /\ c.enabled = client.enabled
            /\ c.configured = client.configured
            /\ ~c.online \/ "resume" \in server.troubles
  PROVE  Outcome
<1>1. /\ Typed(client, workers, reported) /\ Attached(client, workers)
      /\ Reported(client, workers, reported)
  BY DEF PushInv
<1>2. /\ Disconnected(c) \in Client
      /\ Disconnected(c).connection = 0 /\ Disconnected(c).timer = FALSE
      /\ Disconnected(c).enabled = c.enabled /\ Disconnected(c).online = c.online
      /\ Disconnected(c).configured = c.configured
  BY DisconnectedFacts
<1>3. /\ Typed(client', workers', reported') /\ Attached(client', workers')
  BY <1>1, <1>2, Drops
<1>4. Reported(client', workers', reported')
  BY <1>1, <1>2 DEF Reported
<1> QED
  BY <1>2, <1>3, <1>4 DEF Outcome, Timed

\* The runtime configures the client ...
LEMMA ConfigureOutcome ==
  ASSUME PushInv, NEW password \in Passwords, NEW on \in BOOLEAN, Configure(password, on)
  PROVE  Outcome /\ client'.online = client.online
<1> DEFINE c == [client EXCEPT !.configured = TRUE, !.password = password, !.enabled = on]
<1>1. /\ Typed(client, workers, reported) /\ Attached(client, workers)
      /\ Timed(client, reported) /\ Reported(client, workers, reported)
      /\ client \in Client
  BY DEF PushInv, Typed
<1>2. /\ c \in Client /\ c.online = client.online /\ c.enabled = on /\ c.configured
      /\ c.connection = client.connection /\ c.timer = client.timer
  BY <1>1 DEF Client
<1>3. /\ Disconnected(c) \in Client
      /\ Disconnected(c).connection = 0 /\ Disconnected(c).timer = FALSE
      /\ Disconnected(c).enabled = c.enabled /\ Disconnected(c).online = c.online
      /\ Disconnected(c).configured = c.configured
  BY <1>2, DisconnectedFacts
<1>4. "disabled" \in PushStates /\ "disabled" # "connected"
  BY DEF PushStates
<1>5. CASE c # client /\ on /\ c.online
  <2> DEFINE h == Halted(workers, client.connection)
             d == Disconnected(c)
  <2>1. Connect(d, h, "disabled")
    BY <1>5 DEF Configure
  <2>2. Typed(d, h, "disabled") /\ Attached(d, h)
    BY <1>1, <1>3, <1>4, Drops
  <2>3. Timed(d, "disabled") /\ Reports(d, h, "disabled")
    BY <1>3, <1>4 DEF Timed, Reports
  <2> HIDE DEF d, h
  <2>4. Outcome /\ client'.online = d.online
    BY <2>1, <2>2, <2>3, Connects DEF Outcome
  <2> QED
    BY <2>4, <1>2, <1>3 DEF d
<1>6. CASE c # client /\ ~(on /\ c.online)
  <2>1. /\ client' = Disconnected(c) /\ workers' = Halted(workers, client.connection)
        /\ reported' = "disabled"
    BY <1>6 DEF Configure
  <2> HIDE DEF c
  <2> QED
    BY <2>1, <1>2, <1>3, <1>4, Dropped
<1>7. CASE c = client
  <2> DEFINE report == IF on THEN reported ELSE "disabled"
  <2>1. Connect(client, workers, report)
    BY <1>7 DEF Configure
  <2>2. report \in PushStates /\ (report = "connected" => reported = "connected")
    BY <1>1, <1>4 DEF Typed
  <2> HIDE DEF report
  <2>3. /\ Typed(client, workers, report) /\ Timed(client, report)
        /\ Reports(client, workers, report)
    BY <1>1, <2>2 DEF Typed, Timed, Reports, Reported
  <2> QED
    BY <2>1, <2>3, <1>1, Connects DEF Outcome
<1> QED
  BY <1>5, <1>6, <1>7

\* ... switches it ...
LEMMA SetEnabledOutcome ==
  ASSUME PushInv, NEW on \in BOOLEAN, SetEnabled(on)
  PROVE  Outcome /\ client'.online = client.online
<1>1. /\ Typed(client, workers, reported) /\ Attached(client, workers)
      /\ Timed(client, reported) /\ Reported(client, workers, reported)
      /\ client \in Client
  BY DEF PushInv, Typed
<1>2. CASE client.enabled = on
  BY <1>1, <1>2 DEF SetEnabled, Outcome
<1>3. CASE client.enabled # on /\ on
  <2> DEFINE c == [client EXCEPT !.enabled = TRUE]
  <2>1. /\ c \in Client /\ c.online = client.online /\ c.enabled
        /\ c.connection = client.connection /\ c.timer = client.timer
        /\ c.configured = client.configured
    BY <1>1 DEF Client
  <2>2. Connect(c, workers, reported)
    BY <1>3 DEF SetEnabled
  <2> HIDE DEF c
  <2>3. client.enabled = FALSE
    BY <1>1, <1>3 DEF Client
  <2>4. client.connection = 0 /\ reported # "connected"
    BY <1>1, <2>3 DEF Attached, Reported
  <2>5. /\ Typed(c, workers, reported) /\ Attached(c, workers)
        /\ Timed(c, reported) /\ Reports(c, workers, reported)
    BY <1>1, <2>1, <2>4 DEF Typed, Attached, Timed, Reports
  <2> QED
    BY <2>1, <2>2, <2>5, Connects DEF Outcome
<1>4. CASE client.enabled # on /\ ~on
  <2> DEFINE c == [client EXCEPT !.enabled = FALSE]
  <2>1. c \in Client /\ c.online = client.online
    BY <1>1 DEF Client
  <2>2. /\ client' = Disconnected(c) /\ workers' = Halted(workers, client.connection)
        /\ reported' = "disabled"
    BY <1>4 DEF SetEnabled
  <2> HIDE DEF c
  <2>3. client'.online = c.online
    BY <2>1, <2>2, DisconnectedFacts
  <2> QED
    BY <2>1, <2>2, <2>3, Dropped DEF PushStates
<1> QED
  BY <1>2, <1>3, <1>4

\* ... and tells it of the network.
LEMMA SetOnlineOutcome ==
  ASSUME PushInv, NEW on \in BOOLEAN, SetOnline(on), on = ~client.online
  PROVE  Outcome /\ client'.online = on
<1>1. /\ Typed(client, workers, reported) /\ Attached(client, workers)
      /\ Timed(client, reported) /\ Reported(client, workers, reported)
      /\ client \in Client
  BY DEF PushInv, Typed
<1>2. CASE on
  <2> DEFINE c == [client EXCEPT !.online = TRUE, !.failures = 0]
  <2>1. /\ c \in Client /\ c.online = TRUE /\ c.enabled = client.enabled
        /\ c.connection = client.connection /\ c.timer = client.timer
        /\ c.configured = client.configured
    BY <1>1, AttemptsCount DEF Client
  <2>2. Connect(c, workers, reported)
    BY <1>2 DEF SetOnline
  <2> HIDE DEF c
  <2>3. client.connection = 0
    BY <1>1, <1>2 DEF Attached
  <2>4. /\ Typed(c, workers, reported) /\ Attached(c, workers)
        /\ Timed(c, reported) /\ Reports(c, workers, reported)
    BY <1>1, <2>1, <2>3 DEF Typed, Attached, Timed, Reports, Reported
  <2> QED
    BY <1>2, <2>1, <2>2, <2>4, Connects DEF Outcome
<1>3. CASE ~on
  <2> DEFINE c == [client EXCEPT !.online = FALSE]
  <2>1. /\ c \in Client /\ c.online = FALSE /\ c.enabled = client.enabled
        /\ c.configured = client.configured
    BY <1>1 DEF Client
  <2>2. /\ client' = Disconnected(c) /\ workers' = Halted(workers, client.connection)
        /\ reported' = reported
    BY <1>3 DEF SetOnline
  <2> HIDE DEF c
  <2>3. client'.online = c.online
    BY <2>1, <2>2, DisconnectedFacts
  <2>4. reported' \in PushStates
    BY <2>2, <1>1 DEF Typed
  <2>5. Outcome
    BY <2>1, <2>2, <2>4, Dropped
  <2> QED
    BY <1>3, <2>1, <2>3, <2>5
<1> QED
  BY <1>2, <1>3

\* Every step of the channel and around it keeps the invariant.
LEMMA PushStep == ASSUME PushInv, [PushNext]_pushVars PROVE PushInv'
<1>1. /\ Typed(client, workers, reported) /\ Attached(client, workers)
      /\ Timed(client, reported) /\ Reported(client, workers, reported)
      /\ client \in Client /\ client.online = link /\ link \in BOOLEAN
      /\ switch \in BOOLEAN /\ secret \in Passwords /\ accepts \in Passwords
      /\ reported \in PushStates
  BY DEF PushInv, Typed, Client
<1>2. CASE UNCHANGED pushVars
  BY <1>2 DEF PushInv, Typed, Attached, Timed, Reported, Serving, pushVars
<1>3. CASE \E w \in Slots :
             WorkerStep(w) \/ ReadClosed(w) \/ HandleEvent(w) \/ Stalls(w) \/ Thaws(w)
  BY <1>3, WorkerStopsStep, DiscoverStep, OpenSocketStep, ReadsStep, ClosesStep,
     HandleEventStep, StallsStep DEF WorkerStep
<1>4. CASE ReconnectDue
  <2> DEFINE c == [client EXCEPT !.timer = FALSE, !.connection = 0]
  <2>1. /\ c \in Client /\ c.online = client.online /\ c.enabled = client.enabled
        /\ c.connection = 0 /\ c.timer = FALSE /\ c.configured = client.configured
    BY <1>1 DEF Client
  <2>2. Connect(c, workers, reported) /\ client.timer /\ UNCHANGED world
    BY <1>4 DEF ReconnectDue
  <2> HIDE DEF c
  <2>3. client.connection = 0 /\ reported # "connected"
    BY <1>1, <2>2 DEF Timed
  <2>4. /\ Typed(c, workers, reported) /\ Attached(c, workers)
        /\ Timed(c, reported) /\ Reports(c, workers, reported)
    BY <1>1, <2>1, <2>3 DEF Typed, Attached, Timed, Reports
  <2>5. Outcome /\ client'.online = c.online
    BY <2>2, <2>4, Connects DEF Outcome
  <2> QED
    BY <2>5, <2>1, <2>2, <1>1, OutcomeHolds DEF world
<1>5. CASE LookupReturns
  <2>1. UNCHANGED <<server, accepts, link, switch, secret>>
    BY <1>5 DEF LookupReturns
  <2>2. CASE Configure(secret, lookup = "on")
    <3>1. (lookup = "on") \in BOOLEAN
      OBVIOUS
    <3>2. Outcome /\ client'.online = client.online
      BY <1>1, <2>2, <3>1, ConfigureOutcome
    <3> QED
      BY <3>2, <2>1, <1>1, OutcomeHolds
  <2>3. CASE UNCHANGED <<client, workers, reported>>
    <3>1. Outcome
      BY <1>1, <2>3 DEF Outcome
    <3> QED
      BY <3>1, <2>1, <2>3, <1>1, OutcomeHolds
  <2> QED
    BY <1>5, <2>2, <2>3 DEF LookupReturns
<1>6. CASE PollDue \/ ServerFlips \/ PasswordChanges \/ PasswordRenewed
  <2>1. /\ UNCHANGED <<server, link, switch, client, workers, reported>>
        /\ secret' \in Passwords /\ accepts' \in Passwords
    BY <1>1, <1>6 DEF PollDue, ServerFlips, PasswordChanges, PasswordRenewed, world, Passwords
  <2>2. Outcome
    BY <1>1, <2>1 DEF Outcome
  <2> QED
    BY <1>1, <2>1, <2>2, OutcomeHolds
<1>7. CASE PushNetworkChanges
  <2>1. /\ link' = ~link /\ SetOnline(link')
        /\ UNCHANGED <<server, accepts, switch, secret>>
    BY <1>7 DEF PushNetworkChanges
  <2>2. Outcome /\ client'.online = link'
    BY <1>1, <2>1, SetOnlineOutcome
  <2> QED
    BY <1>1, <2>1, <2>2, OutcomeHolds
<1>8. CASE Resume
  <2>1. /\ "resume" \in server.troubles /\ client' = Disconnected(client)
        /\ workers' = Halted(workers, client.connection)
        /\ UNCHANGED <<world, reported>>
    BY <1>8 DEF Resume, Trouble
  <2>2. Outcome
    BY <1>1, <2>1, Dropped
  <2>3. client'.online = client.online
    BY <1>1, <2>1, DisconnectedFacts
  <2> QED
    BY <1>1, <2>1, <2>2, <2>3, OutcomeHolds DEF world
<1>9. CASE SwitchFlips
  <2>1. /\ switch' = ~switch /\ SetEnabled(switch')
        /\ UNCHANGED <<server, accepts, link, secret>>
    BY <1>9 DEF SwitchFlips
  <2>2. Outcome /\ client'.online = client.online
    BY <1>1, <2>1, SetEnabledOutcome
  <2> QED
    BY <1>1, <2>1, <2>2, OutcomeHolds
<1>10. CASE StopRuntime
  <2>1. /\ client' = Disconnected(client) /\ reported' = "disabled"
        /\ workers' = Halted(workers, client.connection)
        /\ UNCHANGED <<server, accepts, link, switch, secret>>
    BY <1>10 DEF StopRuntime
  <2>2. Outcome
    BY <1>1, <2>1, Dropped DEF PushStates
  <2>3. client'.online = client.online
    BY <1>1, <2>1, DisconnectedFacts
  <2> QED
    BY <1>1, <2>1, <2>2, <2>3, OutcomeHolds
<1>11. CASE RemoteChange
  BY <1>11, RemoteChangeStep
<1> QED
  BY <1>2, <1>3, <1>4, <1>5, <1>6, <1>7, <1>8, <1>9, <1>10, <1>11 DEF PushNext, Around

\* Two sockets never serve one client, and the interval polls of the folders are
\* dropped only while a worker that is authenticated serves it, whatever the server,
\* the network and the user do, and in whichever order the events of the workers
\* are heard.
THEOREM ChannelIsSound == PushSpec => []PushIsSound
<1>1. PushInv => PushIsSound
  <2> SUFFICES ASSUME PushInv PROVE OneSocket /\ PollsCovered
    BY DEF PushIsSound
  <2>1. Attached(client, workers) /\ Reported(client, workers, reported) /\ client.online = link
    BY DEF PushInv
  <2>2. OneSocket
    BY <2>1 DEF OneSocket, Attached, Active
  <2>3. PollsCovered
    BY <2>1 DEF PollsCovered, PollsSkipped, Attached, Reported, Serving
  <2> QED
    BY <2>2, <2>3
<1> QED
  BY <1>1, InitPush, PushStep, PTL DEF PushSpec

-----------------------------------------------------------------------------
(***************************************************************************)
(* The password of an account. A lookup reads the cache, the keyring and   *)
(* the places where older versions kept it, a step at a time; a sign-in    *)
(* writes, a removal clears, and each may run beside the others. The       *)
(* invariant is about who meets whom: an account that was signed in to is  *)
(* met by no lookup that could bring an older password back (Kept), the    *)
(* dialog's password is one the server accepts and is stored before the    *)
(* account is written (Offered), and a clean-up is alone with its account  *)
(* (Cleared). A crossing that breaks this is recorded in crossed.          *)
(***************************************************************************)

\* Where a lookup, an eviction or an erasure is.
Places == {"idle", "search", "legacy", "adopt", "keep", "done", "evict", "erase"}

\* What a reader knows.
Looking ==
    [at : Places, id : Logins \cup {Nobody}, login : Logins \cup {Nobody}, found : Nat]

\* The types of the keyring, the cache and the readers.
SecretsTyped ==
    /\ accepted \in [Logins -> SUBSET (Nat \ {None})] /\ minted \in Nat
    /\ stored \in [Ids -> Nat] /\ legacy \in [Logins -> Nat] /\ cache \in [Ids -> Nat]
    /\ reader \in [Readers -> Looking]

\* A reader is busy with an account.
LookedUp(r, id) == reader[r].at # "idle" /\ reader[r].id = id

\* Who the account, the dialog and the readers are about.
Named ==
    /\ file \in Logins \cup {Nobody} /\ signed \in {Nobody, file}
    /\ runtime = IF file = Nobody THEN NoRuntime ELSE [id |-> file, login |-> file]
    /\ \A r \in Readers :
           reader[r].at # "idle" => reader[r].id \in Logins /\ reader[r].login = reader[r].id
    /\ dialog # NoDialog =>
           /\ DOMAIN dialog = DOMAIN NoDialog
           /\ dialog.step \in {"checked", "stored"} /\ dialog.id \in Logins
           /\ dialog.login = dialog.id /\ dialog.password \in Nat \ {None}
           /\ dialog.where = "wizard" => file = Nobody

\* Neither the cache nor the keyring has a password the server refuses.
Good(id) == cache[id] \in accepted[id] \cup {None} /\ stored[id] \in accepted[id]

\* An account that was signed in to has a good one, whoever looks it up.
Kept ==
    signed # Nobody /\ signed \notin crossed =>
        /\ Good(signed)
        /\ dialog # NoDialog /\ dialog.id = signed => dialog.password \in accepted[signed]
        /\ \A r \in Readers : LookedUp(r, signed) =>
               /\ r # "cleanup" /\ reader[r].at \in {"search", "keep", "done"}
               /\ reader[r].at = "keep" => reader[r].found \in accepted[signed]

\* A dialog nothing crossed has a password that works, and will be found.
Offered ==
    dialog # NoDialog /\ ~dialog.raced /\ (dialog.where = "wizard" \/ file = dialog.id) =>
        /\ dialog.password \in accepted[dialog.id]
        /\ ~LookedUp("cleanup", dialog.id)
        /\ dialog.step = "stored" =>
               /\ stored[dialog.id] = dialog.password
               /\ \A r \in Readers :
                      LookedUp(r, dialog.id) => reader[r].at \in {"search", "keep", "done"}

\* A clean-up nothing crossed is alone with an account that is gone.
Cleared ==
    LET c == reader["cleanup"] IN
    c.at # "idle" /\ c.id \notin crossed =>
        /\ file # c.id
        /\ \A r \in Readers \ {"cleanup"} : ~LookedUp(r, c.id)
        /\ c.at = "erase" => cache[c.id] = None

\* The inductive invariant of the secrets.
SecretsInv == SecretsTyped /\ Named /\ Kept /\ Offered /\ Cleared

\* At first no account is there.
LEMMA InitSecrets == CredentialsInit => SecretsInv
  BY LoginsAssumption
  DEF CredentialsInit, SecretsInv, SecretsTyped, Named, Kept, Offered, Cleared, Good, LookedUp,
      NoLookup, NoDialog, NoRuntime, Looking, Places, Ids, AccountId, None, Readers

\* The steps keep the types,
LEMMA SecretsTypedStays ==
  ASSUME SecretsInv, CredentialsNext, "rename" \notin Events PROVE SecretsTyped'
<1> USE LoginsAssumption
        DEF SecretsInv, SecretsTyped, At, Move, Begin, keyring, NoLookup, NoDialog, NoRuntime,
            Looking, Places, Ids, AccountId, None, Readers, Named, Cached, Forgotten
<1>1. ASSUME NEW r \in Readers, Search(r) PROVE SecretsTyped'
  BY <1>1 DEF Search
<1>2. ASSUME NEW r \in Readers, SearchLegacy(r) PROVE SecretsTyped'
  BY <1>2 DEF SearchLegacy
<1>3. ASSUME NEW r \in Readers, Adopt(r) PROVE SecretsTyped'
  BY <1>3 DEF Adopt
<1>4. ASSUME NEW r \in Readers, Keep(r) PROVE SecretsTyped'
  BY <1>4 DEF Keep
<1>5. ASSUME NEW r \in Readers, LookupOver(r) PROVE SecretsTyped'
  BY <1>5 DEF LookupOver
<1>6. CASE WorkerLooksUp
  BY <1>6 DEF WorkerLooksUp
<1>7. CASE RunStarts
  BY <1>7 DEF RunStarts
<1>8. CASE SignIn("wizard")
  BY <1>8 DEF SignIn
<1>9. CASE SignIn("again")
  BY <1>9 DEF SignIn
<1>10. CASE SignInRefused
  BY <1>10 DEF SignInRefused
<1>11. CASE PasswordStored
  BY <1>11 DEF PasswordStored
<1>12. CASE AccountAdded
  BY <1>12 DEF AccountAdded
<1>13. CASE SignedInAgain
  BY <1>13 DEF SignedInAgain
<1>14. CASE RemoveAndCleanUp
  BY <1>14 DEF RemoveAndCleanUp
<1>15. CASE Revoke
  BY <1>15 DEF Revoke
<1>16. CASE Evict
  BY <1>16 DEF Evict
<1>17. CASE Erase
  BY <1>17 DEF Erase
<1>18. ASSUME NEW u \in Logins, PasswordMinted(u) PROVE SecretsTyped'
  BY <1>18 DEF PasswordMinted
<1>19. ASSUME NEW u \in Logins, PasswordsDropped(u) PROVE SecretsTyped'
  BY <1>19 DEF PasswordsDropped
<1>20. CASE LockFlips
  BY <1>20 DEF LockFlips
<1>21. CASE Restart
  BY <1>21 DEF Restart
<1> QED
  BY <1>1, <1>2, <1>3, <1>4, <1>5, <1>6, <1>7, <1>8, <1>9, <1>10, <1>11, <1>12, <1>13, <1>14,
     <1>15, <1>16, <1>17, <1>18, <1>19, <1>20, <1>21
  DEF CredentialsNext, Lookup

\* and everyone is about the account they were about;
LEMMA NamedStays ==
  ASSUME SecretsInv, CredentialsNext, "rename" \notin Events PROVE Named'
<1> USE LoginsAssumption
        DEF SecretsInv, SecretsTyped, Named, At, Move, Begin, keyring, Signable, NoLookup,
            NoDialog, NoRuntime, Looking, Ids, AccountId, None, Readers
<1>1. ASSUME NEW r \in Readers, Search(r) PROVE Named'
  BY <1>1 DEF Search
<1>2. ASSUME NEW r \in Readers, SearchLegacy(r) PROVE Named'
  BY <1>2 DEF SearchLegacy
<1>3. ASSUME NEW r \in Readers, Adopt(r) PROVE Named'
  BY <1>3 DEF Adopt
<1>4. ASSUME NEW r \in Readers, Keep(r) PROVE Named'
  BY <1>4 DEF Keep
<1>5. ASSUME NEW r \in Readers, LookupOver(r) PROVE Named'
  BY <1>5 DEF LookupOver
<1>6. CASE WorkerLooksUp
  BY <1>6 DEF WorkerLooksUp
<1>7. CASE RunStarts
  BY <1>7 DEF RunStarts
<1>8. CASE SignIn("wizard")
  BY <1>8 DEF SignIn
<1>9. CASE SignIn("again")
  BY <1>9 DEF SignIn
<1>10. CASE SignInRefused
  BY <1>10 DEF SignInRefused
<1>11. CASE PasswordStored
  BY <1>11 DEF PasswordStored
<1>12. CASE AccountAdded
  BY <1>12 DEF AccountAdded
<1>13. CASE SignedInAgain
  BY <1>13 DEF SignedInAgain
<1>14. CASE RemoveAndCleanUp
  BY <1>14 DEF RemoveAndCleanUp
<1>15. CASE Revoke
  BY <1>15 DEF Revoke
<1>16. CASE Evict
  BY <1>16 DEF Evict
<1>17. CASE Erase
  BY <1>17 DEF Erase
<1>18. ASSUME NEW u \in Logins, PasswordMinted(u) PROVE Named'
  BY <1>18 DEF PasswordMinted
<1>19. ASSUME NEW u \in Logins, PasswordsDropped(u) PROVE Named'
  BY <1>19 DEF PasswordsDropped
<1>20. CASE LockFlips
  BY <1>20 DEF LockFlips
<1>21. CASE Restart
  BY <1>21 DEF Restart
<1> QED
  BY <1>1, <1>2, <1>3, <1>4, <1>5, <1>6, <1>7, <1>8, <1>9, <1>10, <1>11, <1>12, <1>13, <1>14,
     <1>15, <1>16, <1>17, <1>18, <1>19, <1>20, <1>21
  DEF CredentialsNext, Lookup

\* Whatever is signed in with, wherever, the server accepts.
LEMMA SignInMeans ==
  ASSUME SignIn("wizard") \/ SignIn("again"), "rename" \notin Events
  PROVE  /\ \E u \in Logins :
              /\ dialog'.id = u /\ dialog'.password \in accepted[u]
              /\ dialog'.step = "checked" /\ dialog'.raced = Busy(u)
         /\ UNCHANGED <<accepted, stored, cache, reader, signed, crossed>>
<1>1. /\ \E u \in Logins : \E p \in accepted[u] : \E where \in {"wizard", "again"} :
           dialog' = [where |-> where, step |-> "checked", login |-> u, password |-> p,
                      id |-> u, raced |-> Busy(u)]
      /\ UNCHANGED <<accepted, stored, cache, reader, signed, crossed>>
  BY DEF SignIn, Signable, AccountId, keyring
<1> QED
  BY <1>1

\* what was signed in with stays findable;
LEMMA KeptStays ==
  ASSUME SecretsInv, CredentialsNext, "rename" \notin Events PROVE Kept'
<1>8. CASE SignIn("wizard") \/ SignIn("again")
  BY <1>8, SignInMeans DEF SecretsInv, Kept, Good, LookedUp
<1> USE LoginsAssumption
        DEF SecretsInv, SecretsTyped, Named, Kept, Offered, Cleared, Good, LookedUp, At, Move,
            Begin, Cached, CrossedIf, Busy, Forgotten, MainFree, keyring, NoLookup, NoDialog,
            NoRuntime, Looking, Places, Ids, AccountId, None, Readers
<1>1. ASSUME NEW r \in Readers, Search(r) PROVE Kept'
  BY <1>1 DEF Search
<1>2. ASSUME NEW r \in Readers, SearchLegacy(r) PROVE Kept'
  BY <1>2 DEF SearchLegacy
<1>3. ASSUME NEW r \in Readers, Adopt(r) PROVE Kept'
  BY <1>3 DEF Adopt
<1>4. ASSUME NEW r \in Readers, Keep(r) PROVE Kept'
  BY <1>4 DEF Keep
<1>5. ASSUME NEW r \in Readers, LookupOver(r) PROVE Kept'
  BY <1>5 DEF LookupOver
<1>6. CASE WorkerLooksUp
  BY <1>6 DEF WorkerLooksUp
<1>7. CASE RunStarts
  BY <1>7 DEF RunStarts
<1>10. CASE SignInRefused
  BY <1>10 DEF SignInRefused
<1>11. CASE PasswordStored
  BY <1>11 DEF PasswordStored
<1>12. CASE AccountAdded
  BY <1>12 DEF AccountAdded
<1>13. CASE SignedInAgain
  BY <1>13 DEF SignedInAgain
<1>14. CASE RemoveAndCleanUp
  BY <1>14 DEF RemoveAndCleanUp
<1>15. CASE Revoke
  BY <1>15 DEF Revoke
<1>16. CASE Evict
  BY <1>16 DEF Evict
<1>17. CASE Erase
  BY <1>17 DEF Erase
<1>18. ASSUME NEW u \in Logins, PasswordMinted(u) PROVE Kept'
  BY <1>18 DEF PasswordMinted
<1>19. ASSUME NEW u \in Logins, PasswordsDropped(u) PROVE Kept'
  BY <1>19 DEF PasswordsDropped
<1>20. CASE LockFlips
  BY <1>20 DEF LockFlips
<1>21. CASE Restart
  BY <1>21 DEF Restart
<1> QED
  BY <1>1, <1>2, <1>3, <1>4, <1>5, <1>6, <1>7, <1>8, <1>10, <1>11, <1>12, <1>13, <1>14, <1>15,
     <1>16, <1>17, <1>18, <1>19, <1>20, <1>21
  DEF CredentialsNext, Lookup

\* a sign-in starts with a password the server accepts;
LEMMA SigningInIsOffered ==
  ASSUME SecretsInv, SignIn("wizard") \/ SignIn("again"), "rename" \notin Events PROVE Offered'
<1>1. PICK u \in Logins : /\ dialog'.id = u /\ dialog'.password \in accepted[u]
                          /\ dialog'.step = "checked" /\ dialog'.raced = Busy(u)
                          /\ UNCHANGED <<accepted, reader>>
  BY SignInMeans
<1>2. reader'["cleanup"].at # "idle" /\ reader'["cleanup"].id = u => Busy(u)
  BY <1>1 DEF Busy, Readers
<1> QED
  BY <1>1, <1>2 DEF Offered, LookedUp

\* once stored, it is what a lookup finds;
LEMMA StoringIsOffered ==
  ASSUME SecretsInv, PasswordStored PROVE Offered'
<1>1. /\ dialog # NoDialog /\ DOMAIN dialog = DOMAIN NoDialog
      /\ dialog.id \in Ids /\ stored \in [Ids -> Nat]
  BY DEF PasswordStored, SecretsInv, SecretsTyped, Named, NoDialog, Ids, AccountId
<1>2. /\ stored' = [stored EXCEPT ![dialog.id] = dialog.password]
      /\ dialog' = [dialog EXCEPT !.step = "stored", !.raced = dialog.raced \/ Busy(dialog.id)]
      /\ UNCHANGED <<accepted, reader, file>>
  BY DEF PasswordStored
<1>3. /\ dialog'.id = dialog.id /\ dialog'.password = dialog.password
      /\ dialog'.where = dialog.where
      /\ dialog'.raced = (dialog.raced \/ Busy(dialog.id))
      /\ stored'[dialog.id] = dialog.password
  BY <1>1, <1>2 DEF NoDialog
<1>4. ~dialog'.raced => \A r \in Readers : ~LookedUp(r, dialog.id)' /\ ~LookedUp(r, dialog.id)
  BY <1>2, <1>3 DEF LookedUp, Busy
<1> QED
  BY <1>1, <1>2, <1>3, <1>4 DEF SecretsInv, Offered, LookedUp

\* and it stays so until the account is written;
LEMMA OfferedStays ==
  ASSUME SecretsInv, CredentialsNext, "rename" \notin Events PROVE Offered'
<1>1. CASE SignIn("wizard") \/ SignIn("again")
  BY <1>1, SigningInIsOffered
<1>2. CASE PasswordStored
  BY <1>2, StoringIsOffered
<1> USE LoginsAssumption
        DEF SecretsInv, SecretsTyped, Named, Offered, LookedUp, At, Move, Begin, Busy, MainFree,
            keyring, NoLookup, NoDialog, NoRuntime, Looking, Ids, AccountId, None, Readers
<1>3. ASSUME NEW r \in Readers, Search(r) PROVE Offered'
  BY <1>3 DEF Search
<1>4. ASSUME NEW r \in Readers, SearchLegacy(r) PROVE Offered'
  BY <1>4 DEF SearchLegacy
<1>5. ASSUME NEW r \in Readers, Adopt(r) PROVE Offered'
  BY <1>5 DEF Adopt
<1>6. ASSUME NEW r \in Readers, Keep(r) PROVE Offered'
  BY <1>6 DEF Keep
<1>7. ASSUME NEW r \in Readers, LookupOver(r) PROVE Offered'
  BY <1>7 DEF LookupOver
<1>8. CASE WorkerLooksUp
  BY <1>8 DEF WorkerLooksUp
<1>9. CASE RunStarts
  BY <1>9 DEF RunStarts
<1>10. CASE SignInRefused
  BY <1>10 DEF SignInRefused
<1>11. CASE AccountAdded
  BY <1>11 DEF AccountAdded
<1>12. CASE SignedInAgain
  BY <1>12 DEF SignedInAgain
<1>13. CASE RemoveAndCleanUp
  BY <1>13 DEF RemoveAndCleanUp
<1>14. CASE Revoke
  BY <1>14 DEF Revoke
<1>15. CASE Evict
  BY <1>15 DEF Evict
<1>16. CASE Erase
  BY <1>16 DEF Erase
<1>17. ASSUME NEW u \in Logins, PasswordMinted(u) PROVE Offered'
  BY <1>17 DEF PasswordMinted
<1>18. ASSUME NEW u \in Logins, PasswordsDropped(u) PROVE Offered'
  BY <1>18 DEF PasswordsDropped
<1>19. CASE LockFlips
  BY <1>19 DEF LockFlips
<1>20. CASE Restart
  BY <1>20 DEF Restart
<1> QED
  BY <1>1, <1>2, <1>3, <1>4, <1>5, <1>6, <1>7, <1>8, <1>9, <1>10, <1>11, <1>12, <1>13, <1>14,
     <1>15, <1>16, <1>17, <1>18, <1>19, <1>20
  DEF CredentialsNext, Lookup

\* a clean-up stays alone.
LEMMA ClearedStays ==
  ASSUME SecretsInv, CredentialsNext, "rename" \notin Events PROVE Cleared'
<1> USE LoginsAssumption
        DEF SecretsInv, SecretsTyped, Named, Cleared, LookedUp, At, Move, Begin, Cached,
            CrossedIf, Busy, Forgotten, keyring, NoLookup, NoDialog, NoRuntime, Looking, Ids,
            AccountId, None, Readers
<1>1. ASSUME NEW r \in Readers, Search(r) PROVE Cleared'
  BY <1>1 DEF Search
<1>2. ASSUME NEW r \in Readers, SearchLegacy(r) PROVE Cleared'
  BY <1>2 DEF SearchLegacy
<1>3. ASSUME NEW r \in Readers, Adopt(r) PROVE Cleared'
  BY <1>3 DEF Adopt
<1>4. ASSUME NEW r \in Readers, Keep(r) PROVE Cleared'
  BY <1>4 DEF Keep
<1>5. ASSUME NEW r \in Readers, LookupOver(r) PROVE Cleared'
  BY <1>5 DEF LookupOver
<1>6. CASE WorkerLooksUp
  BY <1>6 DEF WorkerLooksUp
<1>7. CASE RunStarts
  BY <1>7 DEF RunStarts
<1>8. CASE SignIn("wizard")
  BY <1>8 DEF SignIn
<1>9. CASE SignIn("again")
  BY <1>9 DEF SignIn
<1>10. CASE SignInRefused
  BY <1>10 DEF SignInRefused
<1>11. CASE PasswordStored
  BY <1>11 DEF PasswordStored
<1>12. CASE AccountAdded
  BY <1>12 DEF AccountAdded
<1>13. CASE SignedInAgain
  BY <1>13 DEF SignedInAgain
<1>14. CASE RemoveAndCleanUp
  BY <1>14 DEF RemoveAndCleanUp
<1>15. CASE Revoke
  BY <1>15 DEF Revoke
<1>16. CASE Evict
  BY <1>16 DEF Evict
<1>17. CASE Erase
  BY <1>17 DEF Erase
<1>18. ASSUME NEW u \in Logins, PasswordMinted(u) PROVE Cleared'
  BY <1>18 DEF PasswordMinted
<1>19. ASSUME NEW u \in Logins, PasswordsDropped(u) PROVE Cleared'
  BY <1>19 DEF PasswordsDropped
<1>20. CASE LockFlips
  BY <1>20 DEF LockFlips
<1>21. CASE Restart
  BY <1>21 DEF Restart
<1> QED
  BY <1>1, <1>2, <1>3, <1>4, <1>5, <1>6, <1>7, <1>8, <1>9, <1>10, <1>11, <1>12, <1>13, <1>14,
     <1>15, <1>16, <1>17, <1>18, <1>19, <1>20, <1>21
  DEF CredentialsNext, Lookup

\* Every step keeps the invariant.
LEMMA SecretsStep ==
  ASSUME "rename" \notin Events
  PROVE  SecretsInv /\ [CredentialsNext]_credentialVars => SecretsInv'
<1> SUFFICES ASSUME SecretsInv, [CredentialsNext]_credentialVars PROVE SecretsInv'
  OBVIOUS
<1>1. CASE CredentialsNext
  BY <1>1, SecretsTypedStays, NamedStays, KeptStays, OfferedStays, ClearedStays DEF SecretsInv
<1>2. CASE UNCHANGED credentialVars
  BY <1>2
  DEF credentialVars, keyring, SecretsInv, SecretsTyped, Named, Kept, Offered, Cleared, Good,
      LookedUp
<1> QED
  BY <1>1, <1>2

\* The invariant gives the run's property.
LEMMA SecretsStick == SecretsInv => SignInSticks
  BY LoginsAssumption
  DEF SecretsInv, SecretsTyped, Named, Kept, Good, Ids, AccountId, SignInSticks, Answer, None,
      NoRuntime

\* What a clean-up erased is gone from the keyring and from the cache.
LEMMA ErasedIsForgotten ==
  ASSUME SecretsInv, Erase, ~locked, reader["cleanup"].id \notin crossed
  PROVE  stored'[reader["cleanup"].id] = None /\ cache'[reader["cleanup"].id] = None
  BY DEF SecretsInv, SecretsTyped, Named, Cleared, Erase, At, Ids, AccountId, Readers

\* For any logins, passwords and interleavings of lookups, sign-ins and clean-ups,
\* while nobody signs in again under another name: once a removal that nothing
\* crossed is through, no password of the account is left (issue #28).
THEOREM RemovedIsForgotten ==
  ASSUME "rename" \notin Events PROVE CredentialsSpec => RemovalForgets
<1>1. SecretsInv => [Erase /\ file = Nobody /\ dialog = NoDialog /\ ~locked
                         /\ reader["cleanup"].id \notin crossed
                       => /\ stored'[reader["cleanup"].id] = None
                          /\ cache'[reader["cleanup"].id] = None]_credentialVars
  BY ErasedIsForgotten
<1>2. SecretsInv /\ [CredentialsNext]_credentialVars => SecretsInv'
  BY SecretsStep
<1>3. CredentialsInit => SecretsInv
  BY InitSecrets
<1> QED
  BY <1>1, <1>2, <1>3, PTL DEF CredentialsSpec, RemovalForgets

-----------------------------------------------------------------------------
(***************************************************************************)
(* The wizard adds an account only after its password is in the keyring.   *)
(***************************************************************************)

\* While sign-ins do not meet, the user the wizard knows is the one whose
\* password is being written, and on the folder page has been.
AddedInv ==
    /\ mixed \in BOOLEAN
    /\ \A m \in manuals : {"user", "step"} \subseteq DOMAIN m
    /\ mixed \/ /\ accounts \subseteq secrets
                /\ page = "folders" => username \in secrets
                /\ saving \subseteq {username}
                /\ \A m \in manuals : m.step = "saving" => m.user = username

\* At first nobody has signed in.
LEMMA InitAdded == WizardInit => AddedInv
  BY DEF WizardInit, AddedInv

\* A sign-in with a typed password is refused, checked or saved.
LEMMA ManualsStay ==
  ASSUME AddedInv, NEW m \in manuals, ManualRefused(m) \/ ManualChecked(m) \/ ManualSaved(m)
  PROVE  AddedInv'
<1>1. CASE ManualRefused(m)
  BY <1>1 DEF AddedInv, ManualRefused
<1>2. CASE ManualSaved(m)
  BY <1>2 DEF AddedInv, ManualSaved, Refused
<1>3. CASE ManualChecked(m)
  <2> DEFINE next == [m EXCEPT !.step = "saving"]
  <2>1. DOMAIN next = DOMAIN m /\ next.user = m.user
    BY DEF AddedInv
  <2>2. \A n \in manuals' : n \in manuals \/ n = next
    BY <1>3 DEF ManualChecked
  <2>3. mixed' \/ (~mixed /\ manuals = {m} /\ saving = {} /\ page = "authentication")
    BY <1>3 DEF ManualChecked, AddedInv
  <2>4. /\ mixed' \in BOOLEAN /\ UNCHANGED <<accounts, secrets, saving, page>>
        /\ username' = m.user
    BY <1>3 DEF ManualChecked, AddedInv
  <2>5. \A n \in manuals' : {"user", "step"} \subseteq DOMAIN n
    BY <2>1, <2>2 DEF AddedInv
  <2>6. ~mixed' => \A n \in manuals' : n.user = username'
    BY <2>1, <2>2, <2>3, <2>4
  <2> HIDE DEF next
  <2> QED
    BY <2>3, <2>4, <2>5, <2>6 DEF AddedInv
<1> QED
  BY <1>1, <1>2, <1>3

\* Every step of the wizard keeps the invariant.
LEMMA AddedStep == AddedInv /\ [WizardNext]_wizardVars => AddedInv'
<1> SUFFICES ASSUME AddedInv, [WizardNext]_wizardVars PROVE AddedInv'
  OBVIOUS
<1>1. CASE UNCHANGED wizardVars
  BY <1>1 DEF AddedInv, wizardVars, signIns
<1>2. ASSUME NEW i \in initiates, InitiateBegins(i) \/ InitiateFails(i) \/ InitiateSucceeds(i)
      PROVE  AddedInv'
  BY <1>2 DEF AddedInv, InitiateBegins, InitiateFails, InitiateSucceeds, signIns
<1>3. ASSUME NEW f \in timers, TickStops(f) \/ TickPolls(f) PROVE AddedInv'
  BY <1>3 DEF AddedInv, TickStops, TickPolls, signIns
<1>4. ASSUME NEW p \in pollers, PollBegins(p) \/ PollPending(p) \/ PollFails(p)
      PROVE  AddedInv'
  BY <1>4 DEF AddedInv, PollBegins, PollPending, PollFails, signIns
<1>5. ASSUME NEW p \in pollers, PollAuthorized(p) PROVE AddedInv'
  BY <1>5 DEF AddedInv, PollAuthorized, signIns
<1>6. ASSUME NEW u \in saving, Saved(u) PROVE AddedInv'
  BY <1>6 DEF AddedInv, Saved, Refused, signIns
<1>7. ASSUME NEW m \in manuals, ManualRefused(m) \/ ManualChecked(m) \/ ManualSaved(m)
      PROVE  AddedInv'
  BY <1>7, ManualsStay
<1>8. CASE BrowserLogin \/ CancelClicked \/ Back \/ ServerChosenAgain
  BY <1>8 DEF AddedInv, BrowserLogin, CancelClicked, Back, ServerChosenAgain, signIns
<1>9. CASE FinishSetup
  BY <1>9 DEF AddedInv, FinishSetup, signIns
<1>10. ASSUME NEW u \in Users, ManualLogin(u) PROVE AddedInv'
  BY <1>10 DEF AddedInv, ManualLogin
<1>11. ASSUME NEW u \in Users, NEW f \in timers, Granted(f, u) PROVE AddedInv'
  BY <1>11 DEF AddedInv, Granted, signIns
<1> QED
  BY <1>1, <1>2, <1>3, <1>4, <1>5, <1>6, <1>7, <1>8, <1>9, <1>10, <1>11
  DEF WizardNext, WizardRuns

\* For any users, sign-ins through the browser or by hand, cancellations and
\* answers that come late: unless two sign-ins met, every account the wizard
\* added has its password in the keyring.
THEOREM AddedAccountsHaveSecrets == WizardSpec => []AddedHasSecret
<1>1. AddedInv => AddedHasSecret
  BY DEF AddedInv, AddedHasSecret
<1> QED
  BY <1>1, InitAdded, AddedStep, PTL DEF WizardSpec

-----------------------------------------------------------------------------
(* The surroundings of one account: any networks, settings and hours.      *)

\* What the fields of a gate are read from.
GateFields ==
    {"online", "metered", "spot", "wishes", "battery", "dirty", "queue", "start"}

\* The folders of an account are there while its watchers are; all of them have the
\* settings the watchers go by, and what the watchers read last.
WorldInv ==
    /\ DOMAIN gates = Members /\ \A f \in Present : DOMAIN gates[f] = GateFields
    /\ hour \in 0 .. (Midnight - 1)
    /\ wishes \in Wishes \cup {Free} /\ wakes \in Nat
    /\ ears \in [there : BOOLEAN, online : BOOLEAN, wishes : Wishes \cup {Free}]
    /\ Present # {} => ears.there
    /\ ears.there => ears.online = Available(connection)
    /\ \A f \in Present : gates[f].wishes = ears.wishes
    /\ OneWorld

\* The difference of two hours, counted around the clock.
LEMMA HoursApart ==
  ASSUME NEW a \in 0 .. (Midnight - 1), NEW b \in 0 .. (Midnight - 1)
  PROVE  (a - b) % Midnight = IF a >= b THEN a - b ELSE a - b + Midnight
  BY SMTT(30), SurroundingsAssumption

\* An hour out of a window lies, around the clock, past its end.
LEMMA OutsideTheWindow ==
  ASSUME NEW h \in 0 .. (Midnight - 1),
         NEW s \in 0 .. (Midnight - 1), NEW e \in 0 .. (Midnight - 1),
         ~InWindow(h, <<s, e>>)
  PROVE  (h - s) % Midnight >= (e - s) % Midnight
<1>1. Midnight \in Nat \ {0}
  BY SurroundingsAssumption
<1>2. /\ (h - s) % Midnight = IF h >= s THEN h - s ELSE h - s + Midnight
      /\ (e - s) % Midnight = IF e >= s THEN e - s ELSE e - s + Midnight
  BY HoursApart
<1>3. IF s <= e THEN h < s \/ h >= e ELSE h < s /\ h >= e
  BY <1>1 DEF InWindow
<1> QED
  BY <1>1, <1>2, <1>3

\* No folder is there before the account starts.
LEMMA InitWorld == SurroundingsInit => WorldInv
  BY SurroundingsAssumption
  DEF SurroundingsInit, WorldInv, OneWorld, Present, NoEars, Free

\* A request leaves alone what was read, and is queued or remembered.
LEMMA RequestedFields ==
  ASSUME NEW g, DOMAIN g = GateFields
  PROVE  LET r == Requested(g) IN
         /\ DOMAIN r = GateFields
         /\ /\ r.online = g.online /\ r.metered = g.metered /\ r.spot = g.spot
            /\ r.wishes = g.wishes /\ r.battery = g.battery
         /\ g.queue => r.queue
         /\ g.dirty => r.dirty
         /\ r.queue \/ r.dirty
         /\ g.battery \/ (r.queue /\ (g.online /\ ~Closed(g) => r.start))
         /\ g.start => r.start
  BY DEF Requested, GateFields

\* A report of the network is taken over, and a return asked about.
LEMMA WithOnlineFields ==
  ASSUME NEW g, DOMAIN g = GateFields, NEW online \in BOOLEAN
  PROVE  LET r == WithOnline(g, online) IN
         /\ DOMAIN r = GateFields
         /\ /\ r.online = online /\ r.metered = g.metered /\ r.spot = g.spot
            /\ r.wishes = g.wishes /\ r.battery = g.battery
         /\ g.queue => r.queue
         /\ g.start => r.start
         /\ \/ r = [g EXCEPT !.online = online] /\ (online => g.online)
            \/ r = Requested([g EXCEPT !.online = online]) /\ online
<1> DEFINE h == [g EXCEPT !.online = online]
<1>1. /\ DOMAIN h = GateFields
      /\ h.online = online /\ h.metered = g.metered /\ h.spot = g.spot
      /\ h.wishes = g.wishes /\ h.battery = g.battery /\ h.queue = g.queue
      /\ h.start = g.start
  BY DEF GateFields
<1>2. WithOnline(g, online) = IF online /\ ~g.online THEN Requested(h) ELSE h
  BY DEF WithOnline
<1> HIDE DEF h
<1>3. LET r == Requested(h) IN
      /\ DOMAIN r = GateFields
      /\ r.online = h.online /\ r.metered = h.metered /\ r.spot = h.spot
      /\ r.wishes = h.wishes /\ r.battery = h.battery
      /\ h.queue => r.queue
      /\ h.start => r.start
  BY <1>1, RequestedFields
<1>4. CASE online /\ ~g.online
  BY <1>1, <1>2, <1>3, <1>4 DEF h
<1>5. CASE ~(online /\ ~g.online)
  BY <1>1, <1>2, <1>5 DEF h
<1> QED
  BY <1>4, <1>5

\* A folder that is told the settings and the connection has what is read now; if
\* the settings restrict nothing, what it may do by now is not left behind unless
\* it was.
LEMMA InformedFields ==
  ASSUME NEW g, DOMAIN g = GateFields, NEW w, NEW l
  PROVE  LET r == Informed(g, w, l) IN
         /\ DOMAIN r = GateFields
         /\ /\ r.online = g.online /\ r.metered = MeteredBy(l) /\ r.spot = SpotOf(l)
            /\ r.wishes = w /\ r.battery = g.battery
         /\ g.queue => r.queue
         /\ g.start => r.start
         /\ r.queue /\ ~r.start /\ g.online /\ ~g.battery /\ w = Free /\ ~MeteredBy(l)
              => ~g.metered /\ g.queue /\ ~g.start
<1> DEFINE h == [g EXCEPT !.wishes = w]
           k == [h EXCEPT !.metered = MeteredBy(l)]
           m == IF h.metered /\ ~MeteredBy(l) /\ h.online THEN Requested(k) ELSE k
<1>1. /\ DOMAIN k = GateFields
      /\ k.online = g.online /\ k.metered = MeteredBy(l) /\ k.wishes = w
      /\ k.battery = g.battery /\ k.queue = g.queue /\ k.start = g.start
      /\ h.metered = g.metered /\ h.online = g.online
  BY DEF GateFields
<1>2. Informed(g, w, l) = [m EXCEPT !.spot = SpotOf(l)]
  BY DEF Informed, WithMetered
<1> HIDE DEF h, k
<1>3. LET r == Requested(k) IN
      /\ DOMAIN r = GateFields
      /\ r.online = k.online /\ r.metered = k.metered /\ r.spot = k.spot
      /\ r.wishes = k.wishes /\ r.battery = k.battery
      /\ k.queue => r.queue
      /\ k.start => r.start
      /\ k.battery \/ (r.queue /\ (k.online /\ ~Closed(k) => r.start))
  BY <1>1, RequestedFields
<1>4. w = Free /\ ~MeteredBy(l) => ~Closed(k)
  BY <1>1 DEF Closed, Free
<1>5. /\ DOMAIN m = GateFields
      /\ m.online = g.online /\ m.metered = MeteredBy(l)
      /\ m.wishes = w /\ m.battery = g.battery
      /\ g.queue => m.queue
      /\ g.start => m.start
      /\ m.queue /\ ~m.start /\ g.online /\ ~g.battery /\ w = Free /\ ~MeteredBy(l)
           => ~g.metered /\ g.queue /\ ~g.start
  BY <1>1, <1>3, <1>4
<1> HIDE DEF m
<1> QED
  BY <1>2, <1>5 DEF GateFields

\* The same with the report that there is a network, or none.
LEMMA ReachedFields ==
  ASSUME NEW g, DOMAIN g = GateFields, NEW w, NEW l
  PROVE  LET r == Reached(g, w, l) IN
         /\ DOMAIN r = GateFields
         /\ /\ r.online = Available(l) /\ r.metered = MeteredBy(l) /\ r.spot = SpotOf(l)
            /\ r.wishes = w /\ r.battery = g.battery
         /\ g.queue => r.queue
         /\ r.queue /\ ~r.start /\ Available(l) /\ ~g.battery /\ w = Free /\ ~MeteredBy(l)
            /\ g.wishes = Free
              => ~g.metered /\ g.queue /\ ~g.start /\ g.online
<1> DEFINE o == WithOnline(g, Available(l))
           h == [g EXCEPT !.online = Available(l)]
<1>1. /\ DOMAIN o = GateFields
      /\ o.online = Available(l) /\ o.metered = g.metered
      /\ o.wishes = g.wishes /\ o.battery = g.battery
      /\ g.queue => o.queue
      /\ g.start => o.start
      /\ \/ o = h /\ (Available(l) => g.online)
         \/ o = Requested(h) /\ Available(l)
  BY WithOnlineFields DEF Available
<1>2. /\ DOMAIN h = GateFields
      /\ h.online = Available(l) /\ h.metered = g.metered /\ h.wishes = g.wishes
      /\ h.queue = g.queue /\ h.start = g.start /\ h.battery = g.battery
  BY DEF GateFields
<1>3. LET r == Requested(h) IN
      h.battery \/ (r.queue /\ (h.online /\ ~Closed(h) => r.start))
  BY <1>2, RequestedFields
<1>4. g.wishes = Free /\ ~g.metered => ~Closed(h)
  BY <1>2 DEF Closed, Free
<1>5. Reached(g, w, l) = Informed(o, w, l)
  BY DEF Reached
<1> HIDE DEF o, h
<1>6. LET r == Informed(o, w, l) IN
         /\ DOMAIN r = GateFields
         /\ r.online = o.online /\ r.metered = MeteredBy(l) /\ r.spot = SpotOf(l)
         /\ r.wishes = w /\ r.battery = o.battery
         /\ o.queue => r.queue
         /\ r.queue /\ ~r.start /\ o.online /\ ~o.battery /\ w = Free /\ ~MeteredBy(l)
              => ~o.metered /\ o.queue /\ ~o.start
  BY <1>1, InformedFields
<1> QED
  BY <1>1, <1>2, <1>3, <1>4, <1>5, <1>6

\* What a step keeps that neither starts nor loses a folder's watchers.
FollowsOn == WorldInv' /\ FoldersFollow

\* Nothing is told to the folders: the clock, the settings file.
LEMMA UntoldFollow ==
  ASSUME WorldInv, UNCHANGED <<connection, ears, gates, wakes>>,
         hour' \in 0 .. (Midnight - 1), wishes' \in Wishes \cup {Free}
  PROVE  FollowsOn
<1>1. Present' = Present
  BY DEF Present
<1>2. WorldInv'
  BY <1>1 DEF WorldInv, OneWorld
<1>3. NobodyLeftBehind
  <2> SUFFICES ASSUME NEW f \in Members, Stranded(f)', ears.wishes = Free
               PROVE  Stranded(f)
    BY DEF NobodyLeftBehind
  <2>1. f \in Present /\ gates[f].wishes = Free
    BY <1>1 DEF Stranded, WorldInv
  <2>2. Closed(gates[f])' <=> Closed(gates[f])
    BY <2>1 DEF Closed, Free
  <2> QED
    BY <2>1, <2>2 DEF Stranded
<1>4. RunsKeepQuiet
  BY DEF RunsKeepQuiet
<1>5. WakesReachAll
  BY DEF WakesReachAll, WorldInv
<1>6. ReadingsAreFresh
  BY DEF ReadingsAreFresh
<1> QED
  BY <1>2, <1>3, <1>4, <1>5, <1>6 DEF FollowsOn, FoldersFollow, WorldInv

\* Requests and attempts: the gates of one folder or of several move, and what was
\* read stays.
LEMMA MovedFollow ==
  ASSUME WorldInv, UNCHANGED <<connection, hour, wishes, ears>>, wakes' \in Nat,
         DOMAIN gates' = Members,
         \A f \in Members \ Present : gates'[f] = NoGate,
         \A f \in Present :
             /\ DOMAIN gates'[f] = GateFields
             /\ gates'[f].online = gates[f].online /\ gates'[f].metered = gates[f].metered
             /\ gates'[f].spot = gates[f].spot /\ gates'[f].wishes = gates[f].wishes
             /\ gates'[f].battery = gates[f].battery,
         \A f \in Present :
             \/ gates'[f] = gates[f]
             \/ gates[f].queue => gates'[f].queue
             \/ gates[f].queue /\ ~Closed(gates[f]),
         \A f \in Present :
             \/ gates'[f] = gates[f]
             \/ gates'[f].queue /\ ~gates'[f].start /\ gates[f].online /\ ~gates[f].battery
                => Closed(gates[f]),
         wakes' < wakes => \A f \in Present : gates'[f].queue \/ gates'[f].dirty
  PROVE  FollowsOn
<1>1. Present' \subseteq Present
  BY DEF Present
<1>2. WorldInv'
  BY <1>1 DEF WorldInv, OneWorld
<1>3. NobodyLeftBehind
  <2> SUFFICES ASSUME NEW f \in Members, Stranded(f)'
               PROVE  Stranded(f)
    BY DEF NobodyLeftBehind
  <2>1. f \in Present
    BY <1>1 DEF Stranded
  <2>2. Closed(gates[f])' <=> Closed(gates[f])
    BY <2>1 DEF Closed
  <2> QED
    BY <2>1, <2>2 DEF Stranded
<1>4. RunsKeepQuiet
  <2> SUFFICES ASSUME NEW f \in Present, f \in Present',
                      gates[f].start, gates[f].queue, ~gates'[f].queue
               PROVE  /\ \A q \in gates[f].wishes.quiet :
                             (hour - q[1]) % Midnight >= (q[2] - q[1]) % Midnight
                      /\ gates[f].wishes.allowed # {} =>
                             gates[f].spot \in gates[f].wishes.allowed
    BY DEF RunsKeepQuiet
  <2>1. ~Closed(gates[f])
    OBVIOUS
  <2>2. ASSUME NEW q \in gates[f].wishes.quiet
        PROVE  (hour - q[1]) % Midnight >= (q[2] - q[1]) % Midnight
    <3>1. gates[f].wishes \in Wishes \cup {Free}
      BY DEF WorldInv
    <3>2. q \in (0 .. (Midnight - 1)) \X (0 .. (Midnight - 1))
      BY <3>1, SurroundingsAssumption DEF Free
    <3>3. /\ q[1] \in 0 .. (Midnight - 1) /\ q[2] \in 0 .. (Midnight - 1)
          /\ q = <<q[1], q[2]>>
      BY <3>2
    <3>4. ~InWindow(hour, q)
      BY <2>1 DEF Closed
    <3>5. ~InWindow(hour, <<q[1], q[2]>>)
      BY <3>3, <3>4
    <3> QED
      BY <3>3, <3>5, OutsideTheWindow DEF WorldInv
  <2> QED
    BY <2>1, <2>2 DEF Closed
<1>5. WakesReachAll
  BY <1>1 DEF WakesReachAll
<1>6. ReadingsAreFresh
  BY DEF ReadingsAreFresh
<1> QED
  BY <1>2, <1>3, <1>4, <1>5, <1>6 DEF FollowsOn, FoldersFollow, WorldInv

\* A report or a refresh reaches every folder: all have what is read now.
LEMMA ToldFollow ==
  ASSUME WorldInv, NEW w \in Wishes \cup {Free}, UNCHANGED <<hour, wishes, wakes>>,
         DOMAIN gates' = Members,
         ears' = [there |-> TRUE, online |-> Available(connection'), wishes |-> w],
         \A f \in Present' :
             /\ DOMAIN gates'[f] = GateFields
             /\ gates'[f].metered = MeteredBy(connection')
             /\ gates'[f].spot = SpotOf(connection') /\ gates'[f].wishes = w
             /\ Available(connection') => gates'[f].online
             /\ f \in Present /\ gates[f].queue => gates'[f].queue,
         ears.wishes = Free /\ w = Free =>
             \A f \in Present' :
                 /\ gates'[f].queue /\ ~gates'[f].start /\ gates'[f].online
                 /\ ~gates'[f].battery /\ ~MeteredBy(connection')
                 => /\ f \in Present /\ ~gates[f].metered /\ gates[f].queue
                    /\ ~gates[f].start /\ gates[f].online /\ ~gates[f].battery
  PROVE  FollowsOn
<1>1. DOMAIN ears' = {"there", "online", "wishes"} /\ ears'.there
      /\ ears'.online = Available(connection') /\ ears'.wishes = w
  OBVIOUS
<1>2. OneWorld'
  BY DEF OneWorld, Available
<1>3. WorldInv'
  <2>1. Available(connection)' = Available(connection')
        /\ Available(connection') \in BOOLEAN
    BY DEF Available
  <2>2. ears' \in [there : BOOLEAN, online : BOOLEAN, wishes : Wishes \cup {Free}]
    BY <2>1
  <2>3. \A f \in Present' : DOMAIN gates'[f] = GateFields /\ gates'[f].wishes = ears'.wishes
    BY <1>1
  <2>4. DOMAIN gates' = Members /\ hour' = hour /\ wishes' = wishes /\ wakes' = wakes
    OBVIOUS
  <2> QED
    BY <1>1, <1>2, <2>1, <2>2, <2>3, <2>4 DEF WorldInv
<1>4. NobodyLeftBehind
  <2> SUFFICES ASSUME NEW f \in Members, Stranded(f)', ears.wishes = Free, w = Free
               PROVE  Stranded(f)
    BY <1>1 DEF NobodyLeftBehind
  <2>1. f \in Present'
    BY DEF Stranded
  <2>2. ~Closed(gates[f])'
    BY DEF Stranded
  <2>3. ~MeteredBy(connection')
    BY <2>1, <2>2 DEF Closed
  <2>4. /\ f \in Present /\ ~gates[f].metered /\ gates[f].queue
        /\ ~gates[f].start /\ gates[f].online /\ ~gates[f].battery
    BY <2>1, <2>3 DEF Stranded
  <2>5. ~Closed(gates[f])
    BY <2>4 DEF Closed, WorldInv, Free
  <2> QED
    BY <2>4, <2>5 DEF Stranded
<1>5. RunsKeepQuiet
  BY DEF RunsKeepQuiet
<1>6. WakesReachAll
  BY DEF WakesReachAll, WorldInv
<1>7. ReadingsAreFresh
  BY DEF ReadingsAreFresh
<1> QED
  BY <1>2, <1>3, <1>4, <1>5, <1>6, <1>7 DEF FollowsOn, FoldersFollow

\* What a scheduler is created with.
LEMMA NewGateFields ==
  ASSUME NEW battery \in BOOLEAN, NEW online \in BOOLEAN
  PROVE  LET r == Requested([WithOnline(NewGate, online) EXCEPT !.battery = battery]) IN
         /\ DOMAIN NewGate = GateFields /\ DOMAIN r = GateFields
         /\ r.online = online /\ r.wishes = Free /\ r.battery = battery
         /\ battery \/ (online => r.start)
<1> DEFINE o == WithOnline(NewGate, online)
           h == [o EXCEPT !.battery = battery]
<1>1. DOMAIN NewGate = GateFields /\ NewGate.online
  BY DEF NewGate, GateFields
<1>2. /\ DOMAIN o = GateFields /\ o.online = online /\ o.wishes = Free /\ ~o.metered
  BY <1>1, WithOnlineFields DEF NewGate
<1> HIDE DEF o
<1>3. /\ DOMAIN h = GateFields /\ h.online = online /\ h.wishes = Free /\ ~h.metered
      /\ h.battery = battery
  BY <1>2 DEF GateFields
<1> HIDE DEF h
<1>4. ~Closed(h)
  BY <1>3 DEF Closed, Free
<1>5. LET r == Requested(h) IN
      /\ DOMAIN r = GateFields
      /\ r.online = h.online /\ r.wishes = h.wishes /\ r.battery = h.battery
      /\ h.battery \/ (r.queue /\ (h.online /\ ~Closed(h) => r.start))
  BY <1>3, RequestedFields
<1> QED
  BY <1>1, <1>3, <1>4, <1>5 DEF o, h

\* The account starts: its folders are new, and each is told all that is read.
LEMMA MountFollow == ASSUME WorldInv, Mount PROVE FollowsOn
<1>1. PICK configured \in SUBSET Members, battery \in BOOLEAN :
        LET mounted == [WithOnline(NewGate, Available(connection)) EXCEPT !.battery = battery]
        IN  gates' = [f \in Members |->
                IF f \in configured THEN Informed(Requested(mounted), wishes, connection)
                ELSE NoGate]
  BY DEF Mount
<1> DEFINE r == Requested([WithOnline(NewGate, Available(connection)) EXCEPT
                              !.battery = battery])
           i == Informed(r, wishes, connection)
<1>2. /\ DOMAIN r = GateFields
      /\ r.online = Available(connection) /\ r.wishes = Free /\ r.battery = battery
      /\ battery \/ (Available(connection) => r.start)
  BY NewGateFields DEF Available
<1>3. gates' = [f \in Members |-> IF f \in configured THEN i ELSE NoGate]
  BY <1>1
<1> HIDE DEF r
<1>4. /\ DOMAIN i = GateFields
      /\ i.online = r.online /\ i.metered = MeteredBy(connection) /\ i.spot = SpotOf(connection)
      /\ i.wishes = wishes /\ i.battery = r.battery
      /\ r.start => i.start
  BY <1>2, InformedFields
<1> HIDE DEF i
<1>5. Present = {} /\ wishes \in Wishes \cup {Free} /\ ~ears.there
  BY DEF WorldInv, Mount
<1>6. \A f \in Present' : gates'[f] = i
  BY <1>3 DEF Present
<1>7. UNCHANGED <<connection, hour, wishes, wakes>>
      /\ ears' = [there |-> TRUE, online |-> Available(connection), wishes |-> wishes]
  BY DEF Mount
<1> QED
  BY <1>2, <1>3, <1>4, <1>5, <1>6, <1>7, ToldFollow

\* The folders change: the new ones hear what the others have heard.
LEMMA RefreshedFollow == ASSUME WorldInv, Refreshed PROVE FollowsOn
<1>1. PICK configured \in SUBSET Members :
        gates' = [f \in Members |->
               IF f \notin configured THEN NoGate
               ELSE Informed(IF f \in Present THEN gates[f] ELSE Requested(NewGate),
                             wishes, connection)]
  BY DEF Refreshed
<1>2. ears.there /\ UNCHANGED <<connection, hour, wishes, wakes>>
      /\ ears' = [ears EXCEPT !.wishes = wishes]
  BY DEF Refreshed
<1>3. ears' = [there |-> TRUE, online |-> Available(connection), wishes |-> wishes]
  BY <1>2 DEF WorldInv
<1> DEFINE n == Requested(NewGate)
<1>4. DOMAIN NewGate = GateFields /\ NewGate.online /\ ~NewGate.battery
      /\ NewGate.wishes = Free /\ ~NewGate.metered
  BY DEF NewGate, GateFields
<1>5. ~Closed(NewGate)
  BY <1>4 DEF Closed, Free
<1> HIDE DEF NewGate
<1>6. DOMAIN n = GateFields /\ n.start /\ n.online
  BY <1>4, <1>5, RequestedFields
<1> HIDE DEF n
<1>7. ASSUME NEW f \in Present'
      PROVE  /\ DOMAIN gates'[f] = GateFields
             /\ gates'[f].metered = MeteredBy(connection)
             /\ gates'[f].spot = SpotOf(connection) /\ gates'[f].wishes = wishes
             /\ Available(connection) => gates'[f].online
             /\ f \in Present /\ gates[f].queue => gates'[f].queue
             /\ ears.wishes = Free /\ wishes = Free =>
                 (/\ gates'[f].queue /\ ~gates'[f].start /\ gates'[f].online
                  /\ ~gates'[f].battery /\ ~MeteredBy(connection)
                  => /\ f \in Present /\ ~gates[f].metered /\ gates[f].queue
                     /\ ~gates[f].start /\ gates[f].online /\ ~gates[f].battery)
  <2> DEFINE g == IF f \in Present THEN gates[f] ELSE n
             i == Informed(g, wishes, connection)
  <2>1. f \in Members /\ gates'[f] = i
    BY <1>1 DEF Present, n
  <2>2. DOMAIN g = GateFields
    BY <1>6 DEF WorldInv
  <2>3. Available(connection) => g.online
    BY <1>6 DEF WorldInv, OneWorld
  <2> HIDE DEF g
  <2>4. /\ DOMAIN i = GateFields
        /\ i.online = g.online /\ i.metered = MeteredBy(connection)
        /\ i.spot = SpotOf(connection) /\ i.wishes = wishes /\ i.battery = g.battery
        /\ g.queue => i.queue
        /\ g.start => i.start
        /\ i.queue /\ ~i.start /\ g.online /\ ~g.battery /\ wishes = Free
           /\ ~MeteredBy(connection) => ~g.metered /\ g.queue /\ ~g.start
    BY <2>2, InformedFields
  <2> HIDE DEF i
  <2>5. CASE f \in Present
    <3>1. g = gates[f]
      BY <2>5 DEF g
    <3> QED
      BY <2>1, <2>3, <2>4, <2>5, <3>1
  <2>6. CASE f \notin Present
    <3>1. g = n
      BY <2>6 DEF g
    <3> QED
      BY <1>6, <2>1, <2>3, <2>4, <2>6, <3>1
  <2> QED
    BY <2>5, <2>6
<1>8. DOMAIN gates' = Members /\ wishes \in Wishes \cup {Free}
  BY <1>1 DEF WorldInv
<1> QED
  BY <1>2, <1>3, <1>7, <1>8, ToldFollow

\* The system reports another network, or none.
LEMMA ConnectionFollow == ASSUME WorldInv, ConnectionChanges PROVE FollowsOn
<1>1. UNCHANGED <<hour, wishes, wakes>>
  BY DEF ConnectionChanges
<1>2. CASE ears.there /\ ears.online # Available(connection')
  <2>1. ears' = [ears EXCEPT !.online = Available(connection')]
        /\ gates' = EachGate([f \in Present |->
                               Reached(gates[f], ears.wishes, connection')])
    BY <1>2 DEF ConnectionChanges
  <2>2. ears' = [there |-> TRUE, online |-> Available(connection'), wishes |-> ears.wishes]
    BY <1>2, <2>1 DEF WorldInv
  <2>3. ASSUME NEW f \in Present'
        PROVE  /\ DOMAIN gates'[f] = GateFields
               /\ gates'[f].metered = MeteredBy(connection')
               /\ gates'[f].spot = SpotOf(connection') /\ gates'[f].wishes = ears.wishes
               /\ Available(connection') => gates'[f].online
               /\ f \in Present /\ gates[f].queue => gates'[f].queue
               /\ ears.wishes = Free /\ ears.wishes = Free =>
                   (/\ gates'[f].queue /\ ~gates'[f].start /\ gates'[f].online
                    /\ ~gates'[f].battery /\ ~MeteredBy(connection')
                    => /\ f \in Present /\ ~gates[f].metered /\ gates[f].queue
                       /\ ~gates[f].start /\ gates[f].online /\ ~gates[f].battery)
    <3> DEFINE i == Reached(gates[f], ears.wishes, connection')
    <3>1. f \in Present /\ gates'[f] = i
      BY <2>1 DEF Present, EachGate
    <3>2. DOMAIN gates[f] = GateFields /\ gates[f].wishes = ears.wishes
      BY <3>1 DEF WorldInv
    <3>3. /\ DOMAIN i = GateFields
          /\ i.online = Available(connection') /\ i.metered = MeteredBy(connection')
          /\ i.spot = SpotOf(connection') /\ i.wishes = ears.wishes
          /\ i.battery = gates[f].battery
          /\ gates[f].queue => i.queue
          /\ i.queue /\ ~i.start /\ Available(connection') /\ ~gates[f].battery
             /\ ears.wishes = Free /\ ~MeteredBy(connection') /\ gates[f].wishes = Free
               => ~gates[f].metered /\ gates[f].queue /\ ~gates[f].start /\ gates[f].online
      BY <3>2, ReachedFields
    <3> HIDE DEF i
    <3> QED
      BY <3>1, <3>2, <3>3
  <2>4. DOMAIN gates' = Members /\ ears.wishes \in Wishes \cup {Free}
    BY <2>1 DEF EachGate, WorldInv
  <2> QED
    BY <1>1, <2>2, <2>3, <2>4, ToldFollow
<1>3. CASE ~(ears.there /\ ears.online # Available(connection'))
  <2>1. UNCHANGED <<ears, gates>>
    BY <1>3 DEF ConnectionChanges
  <2>2. Present' = Present
    BY <2>1 DEF Present
  <2>3. WorldInv'
    <3>1. ears.there => Available(connection') = Available(connection)
      BY <1>3 DEF WorldInv
    <3>2. Available(connection)' = Available(connection')
      BY DEF Available
    <3>3. OneWorld'
      BY <2>1, <2>2, <3>1, <3>2 DEF WorldInv, OneWorld
    <3> QED
      BY <1>1, <2>1, <2>2, <3>1, <3>2, <3>3 DEF WorldInv
  <2>4. NobodyLeftBehind
    BY <1>1, <2>1, <2>2 DEF NobodyLeftBehind, Stranded, Closed
  <2> QED
    BY <1>1, <2>1, <2>3, <2>4
    DEF FollowsOn, FoldersFollow, WorldInv, ReadingsAreFresh, RunsKeepQuiet, WakesReachAll
<1> QED
  BY <1>2, <1>3

\* The account stops, its folders with it.
LEMMA UnmountFollow == ASSUME WorldInv, Unmount PROVE FollowsOn
<1>1. Present' = {} /\ ears' = NoEars /\ wakes' = 0 /\ hour' = hour /\ wishes' = wishes
      /\ DOMAIN gates' = Members
  BY DEF Unmount, Present
<1>2. WorldInv'
  BY <1>1 DEF WorldInv, OneWorld, NoEars
<1> QED
  BY <1>1, <1>2
  DEF FollowsOn, FoldersFollow, WorldInv, ReadingsAreFresh, RunsKeepQuiet, WakesReachAll,
      NobodyLeftBehind, Stranded

\* A folder asks, or all of them do after a wake-up.
LEMMA RequestFollow ==
  ASSUME WorldInv, UNCHANGED <<connection, hour, wishes, ears>>, NEW told \in SUBSET Present,
         DOMAIN gates' = Members, wakes' \in Nat,
         wakes' < wakes => told = Present,
         \A f \in told : gates'[f] = Requested(gates[f]),
         \A f \in Members \ told : gates'[f] = gates[f]
  PROVE  FollowsOn
<1>1. ASSUME NEW f \in told
      PROVE  LET r == gates'[f] g == gates[f] IN
             /\ DOMAIN r = GateFields
             /\ r.online = g.online /\ r.metered = g.metered /\ r.spot = g.spot
             /\ r.wishes = g.wishes /\ r.battery = g.battery
             /\ g.queue => r.queue
             /\ r.queue \/ r.dirty
             /\ g.battery \/ (g.online /\ ~Closed(g) => r.start)
  BY RequestedFields DEF WorldInv
<1>2. \A f \in Members \ Present : gates'[f] = NoGate
  BY DEF Present
<1>3. \A f \in Present : DOMAIN gates[f] = GateFields
  BY DEF WorldInv
<1>4. Present \subseteq Members
  BY DEF Present
<1> HIDE DEF WorldInv
<1> QED
  BY <1>1, <1>2, <1>3, <1>4, MovedFollow

\* An attempt starts only where the settings let it.
LEMMA StartFollow == ASSUME WorldInv, NEW f \in Members, Start(f) PROVE FollowsOn
<1> DEFINE g == gates[f]
<1>1. /\ f \in Present /\ gates' = [gates EXCEPT ![f] = Attempted(g)]
      /\ UNCHANGED <<connection, hour, wishes, ears, wakes>>
  BY DEF Start
<1>2. DOMAIN gates = Members /\ DOMAIN g = GateFields /\ wakes \in Nat
  BY <1>1 DEF WorldInv
<1>3. LET r == Attempted(g) IN
      /\ DOMAIN r = GateFields
      /\ r.online = g.online /\ r.metered = g.metered /\ r.spot = g.spot
      /\ r.wishes = g.wishes /\ r.battery = g.battery
      /\ (g.queue => r.queue) \/ (g.queue /\ ~Closed(g))
      /\ r.queue => ~g.online \/ Closed(g)
  BY <1>2 DEF Attempted, GateFields
<1>4. gates'[f] = Attempted(g) /\ \A h \in Members \ {f} : gates'[h] = gates[h]
  BY <1>1, <1>2
<1>5. \A h \in Members \ Present : gates'[h] = NoGate
  BY <1>1, <1>4 DEF Present
<1>6. \A h \in Present : DOMAIN gates[h] = GateFields /\ h \in Members
  BY DEF WorldInv, Present
<1>7. DOMAIN gates' = Members
  BY <1>1, <1>2
<1> HIDE DEF WorldInv, g
<1> QED
  BY <1>1, <1>2, <1>3, <1>4, <1>5, <1>6, <1>7, MovedFollow DEF g

\* Every step of the surroundings is followed.
LEMMA FollowStep == WorldInv /\ [SurroundingsNext]_surroundingVars => FollowsOn
<1> SUFFICES ASSUME WorldInv, [SurroundingsNext]_surroundingVars PROVE FollowsOn
  OBVIOUS
<1>1. CASE UNCHANGED surroundingVars
  BY <1>1, UntoldFollow DEF surroundingVars, WorldInv
<1>2. CASE Mount
  BY <1>2, MountFollow
<1>3. CASE Unmount
  BY <1>3, UnmountFollow
<1>4. CASE Refreshed
  BY <1>4, RefreshedFollow
<1>5. CASE Wish
  BY <1>5, UntoldFollow DEF Wish, WorldInv
<1>6. CASE ConnectionChanges
  BY <1>6, ConnectionFollow
<1>7. CASE WakesUp
  <2>1. UNCHANGED <<connection, hour, wishes, ears, gates>> /\ wakes \in Nat
        /\ wakes' = wakes + 1 /\ DOMAIN gates = Members
    BY <1>7 DEF WakesUp, WorldInv
  <2>2. wakes' \in Nat /\ ~(wakes' < wakes) /\ {} \in SUBSET Present
    BY <2>1
  <2> QED
    BY <2>1, <2>2, RequestFollow
<1>8. CASE TimerFires
  <2>1. /\ UNCHANGED <<connection, hour, wishes, ears>> /\ wakes \in Nat /\ wakes > 0
        /\ wakes' = wakes - 1 /\ gates' = EachGate([f \in Present |-> Requested(gates[f])])
    BY <1>8 DEF TimerFires, WorldInv
  <2>2. wakes' \in Nat
    BY <2>1
  <2>3. DOMAIN gates' = Members /\ Present \subseteq Members
    BY <2>1 DEF EachGate, Present
  <2>4. \A f \in Present : gates'[f] = Requested(gates[f])
    BY <2>1 DEF EachGate, Present
  <2>5. \A f \in Members \ Present : gates'[f] = gates[f]
    BY <2>1 DEF EachGate, Present
  <2> QED
    BY <2>1, <2>2, <2>3, <2>4, <2>5, RequestFollow
<1>9. CASE Tick
  <2>1. hour' \in 0 .. (Midnight - 1)
    BY <1>9, SurroundingsAssumption DEF Tick, WorldInv
  <2> QED
    BY <1>9, <2>1, UntoldFollow DEF Tick, WorldInv
<1>10. ASSUME NEW f \in Members, Change(f) PROVE FollowsOn
  <2>1. /\ f \in Present /\ UNCHANGED <<connection, hour, wishes, ears, wakes>>
        /\ gates' = [gates EXCEPT ![f] = Requested(gates[f])] /\ wakes \in Nat
        /\ DOMAIN gates = Members
    BY <1>10 DEF Change, WorldInv
  <2>2. /\ DOMAIN gates' = Members /\ gates'[f] = Requested(gates[f])
        /\ \A h \in Members \ {f} : gates'[h] = gates[h]
        /\ {f} \in SUBSET Present
    BY <2>1
  <2>3. ~(wakes' < wakes) /\ wakes' \in Nat
    BY <2>1
  <2>4. \A h \in {f} : gates'[h] = Requested(gates[h])
    BY <2>2
  <2> QED
    BY <2>1, <2>2, <2>3, <2>4, RequestFollow
<1>11. ASSUME NEW f \in Members, Start(f) PROVE FollowsOn
  BY <1>11, StartFollow
<1> QED
  BY <1>1, <1>2, <1>3, <1>4, <1>5, <1>6, <1>7, <1>8, <1>9, <1>10, <1>11 DEF SurroundingsNext

\* FoldersFollow for any number of folders, hours and networks: what the watchers
\* of an account are told, every folder is told, and none is left behind
\* (system_monitor.rs, account_runtime.rs, scheduler.rs).
THEOREM FoldersFollowTheWorld ==
  SurroundingsSpec => [][FoldersFollow]_surroundingVars
<1>1. WorldInv /\ [SurroundingsNext]_surroundingVars => WorldInv' /\ FoldersFollow
  BY FollowStep DEF FollowsOn
<1> QED
  BY <1>1, InitWorld, PTL DEF SurroundingsSpec

-----------------------------------------------------------------------------
(* Folders added and removed.                                              *)

\* The folders of a list, one after the other.
LEMMA EnsuredIn ==
  ASSUME NEW a, NEW list, NEW n \in Nat, DOMAIN list = 1..n, NEW first,
         NEW Fits, first \in Fits[{}],
         \A s \in SUBSET (1..n) : \A i \in s : \A m \in Fits[s \ {i}] :
             EnsureFolder(m, a, list[i]) \in Fits[s]
  PROVE  EnsureFolders(first, a, list) \in Fits[1..n]
<1> DEFINE S == 1..n
           Some == UNION {Fits[s] : s \in SUBSET S}
           step == [p \in S \X Some |-> EnsureFolder(p[2], a, list[p[1]])]
           pick == [s \in SUBSET S |-> Max(s)]
           Folded(h) == h = [s \in SUBSET S |->
                               IF s = {} THEN first
                               ELSE EnsureFolder(h[s \ {Max(s)}], a, list[Max(s)])]
<1>1. IsFiniteSet(S) BY FS_Interval
<1>2. \A s \in SUBSET S : s # {} => pick[s] = Max(s) /\ Max(s) \in s BY MaxIsIn
<1>3. \A s \in SUBSET S : \A i \in s : \A m \in Fits[s \ {i}] :
         step[<<i, m>>] = EnsureFolder(m, a, list[i])
  OBVIOUS
<1>4. PICK g : /\ Recursed(g, S, first, step, pick)
               /\ \A s \in SUBSET S : g[s] \in Fits[s]
  <2>1. \A s \in SUBSET S : s # {} =>
           /\ pick[s] \in s
           /\ \A m \in Fits[s \ {pick[s]}] : step[<<pick[s], m>>] \in Fits[s]
    <3> SUFFICES ASSUME NEW s \in SUBSET S, s # {}, NEW m \in Fits[s \ {Max(s)}]
                 PROVE  step[<<Max(s), m>>] \in Fits[s]
      <4> HIDE DEF step, pick
      <4> QED BY <1>2
    <3>1. Max(s) \in s BY <1>2
    <3> HIDE DEF step, pick
    <3> QED BY <1>3, <3>1
  <2> HIDE DEF step, pick, S
  <2> QED BY <1>1, <2>1, RecursedIn
<1>5. Folded(g)
  <2>1. \A s \in SUBSET S : s # {} =>
           step[<<pick[s], g[s \ {pick[s]}]>>] = EnsureFolder(g[s \ {Max(s)}], a, list[Max(s)])
    <3> HIDE DEF step, pick, S
    <3> QED BY <1>2, <1>3, <1>4
  <2> HIDE DEF step, pick, S
  <2> QED BY <2>1, <1>4 DEF Recursed
<1> DEFINE h == CHOOSE h : Folded(h)
<1>6. Folded(h)
  <2> HIDE DEF Folded
  <2> QED BY <1>5
<1> HIDE DEF h
<1>7. \A s \in SUBSET S : h[s] = IF s = {} THEN first
                                   ELSE EnsureFolder(h[s \ {Max(s)}], a, list[Max(s)])
  BY <1>6
<1> DEFINE D == {s \in SUBSET S : h[s] \in Fits[s]}
<1>8. {} \in D BY <1>7
<1>9. \A s \in SUBSET S : s # {} => \E x \in s : s \ {x} \in D => s \in D
  <2> SUFFICES ASSUME NEW s \in SUBSET S, s # {}
               PROVE  \E x \in s : s \ {x} \in D => s \in D
    OBVIOUS
  <2>1. Max(s) \in s /\ h[s] = EnsureFolder(h[s \ {Max(s)}], a, list[Max(s)])
    BY <1>2, <1>7
  <2>2. s \ {Max(s)} \in D => s \in D BY <2>1
  <2> QED BY <2>1, <2>2
<1>10. \A s \in SUBSET S : s \in D
  <2> HIDE DEF D, S
  <2> QED BY <1>1, <1>8, <1>9, AllParts
<1>11. h[S] \in Fits[S] BY <1>10
<1>12. EnsureFolders(first, a, list)
        = (CHOOSE h_1 : h_1 = [s \in SUBSET (DOMAIN list) |->
             IF s = {} THEN first
             ELSE EnsureFolder(h_1[s \ {Max(s)}], a, list[Max(s)])])[DOMAIN list]
  BY Zenon DEF EnsureFolders, FoldLeft, MapThenFoldSet
<1> QED BY <1>11, <1>12 DEF h

-----------------------------------------------------------------------------
(* Aggregates: whom they listen to and what they show.                     *)

\* What a controller may report, and the controllers there may be.
Marks == Range(Ranking)
Heard == Nat \cup Accounts

\* The types.
Aggregates ==
    [controllers : Seq(Heard), subs : Seq(Heard \X {"state", "progress"}), shown : Marks]

\* Two subscriptions for each controller, in the order of the controllers.
Paired(agg) ==
    /\ Len(agg.subs) = 2 * Len(agg.controllers)
    /\ \A k \in 1..Len(agg.controllers) :
           /\ agg.subs[2 * k - 1] = <<agg.controllers[k], "state">>
           /\ agg.subs[2 * k] = <<agg.controllers[k], "progress">>

\* An aggregate listens to these controllers, to each once.
Holds(agg, cs) ==
    /\ agg \in Aggregates /\ Range(agg.controllers) = cs /\ IsInjective(agg.controllers)
    /\ Paired(agg)

\* It shows the worst of them.
Shows(agg, cs, state) ==
    Holds(agg, cs) /\ agg.shown = Worst({state[c] : c \in cs} \cup {"unconfigured"})

\* Each mark has its place in the ranking.
LEMMA SeverityFacts ==
  /\ "unconfigured" \in Marks /\ Severity("unconfigured") = 1
  /\ \A s \in Marks : Severity(s) \in 1..13 /\ Ranking[Severity(s)] = s
<1>1. DOMAIN Ranking = 1..13 /\ Ranking[1] = "unconfigured"
      /\ \A i \in 2..13 : Ranking[i] # "unconfigured"
  BY DEF Ranking
<1>2. \A s \in Marks : \E i \in DOMAIN Ranking : Ranking[i] = s BY DEF Marks, Range
<1>3. \A s \in Marks : Severity(s) \in DOMAIN Ranking /\ Ranking[Severity(s)] = s
  <2> TAKE s \in Marks
  <2>1. \E i \in DOMAIN Ranking : Ranking[i] = s BY <1>2
  <2> HIDE DEF Ranking
  <2> QED BY <2>1 DEF Severity
<1>4. "unconfigured" \in Marks BY <1>1 DEF Marks, Range
<1>5. Severity("unconfigured") = 1
  <2>1. Severity("unconfigured") \in 1..13 /\ Ranking[Severity("unconfigured")] = "unconfigured"
    BY <1>1, <1>3, <1>4
  <2> QED BY <1>1, <2>1
<1> QED BY <1>1, <1>3, <1>4, <1>5

\* There is one worst state among some, and with "unconfigured" it is the same.
LEMMA WorstFacts ==
  ASSUME NEW S \in SUBSET Marks
  PROVE  /\ Worst({"unconfigured"}) = "unconfigured"
         /\ S # {} => Worst(S) \in S /\ Worst(S \cup {"unconfigured"}) = Worst(S)
<1>1. ASSUME NEW U \in SUBSET Marks, U # {}
      PROVE  Worst(U) \in U /\ \A t \in U : Severity(t) <= Severity(Worst(U))
  <2> DEFINE T == {13 - Severity(s) : s \in U}
  <2>1. \A s \in U : Severity(s) \in 1..13 /\ 13 - Severity(s) \in Nat BY SeverityFacts
  <2>2. PICK k \in T : \A j \in T : k <= j
    <3>1. T \subseteq Nat /\ T # {} BY <1>1, <2>1
    <3> HIDE DEF T
    <3> QED BY <3>1, LeastNatural
  <2>3. PICK s \in U : k = 13 - Severity(s) OBVIOUS
  <2>4. \A t \in U : Severity(t) <= Severity(s)
    <3> TAKE t \in U
    <3>1. 13 - Severity(t) \in T OBVIOUS
    <3>2. k <= 13 - Severity(t)
      <4> HIDE DEF T
      <4> QED BY <2>2, <3>1
    <3> QED BY <2>1, <2>3, <3>2
  <2> QED BY <2>4 DEF Worst
<1>2. ASSUME NEW s \in Marks, NEW t \in Marks, Severity(s) = Severity(t) PROVE s = t
  BY <1>2, SeverityFacts
<1>3. {"unconfigured"} \in SUBSET Marks /\ Worst({"unconfigured"}) = "unconfigured"
  BY <1>1, SeverityFacts
<1>4. ASSUME S # {} PROVE Worst(S) \in S /\ Worst(S \cup {"unconfigured"}) = Worst(S)
  <2> DEFINE U == S \cup {"unconfigured"}
             u == Worst(U)
             s == Worst(S)
  <2>1. U \in SUBSET Marks /\ U # {} BY SeverityFacts
  <2>2. s \in S /\ \A t \in S : Severity(t) <= Severity(s) BY <1>1, <1>4
  <2>3. u \in U /\ \A t \in U : Severity(t) <= Severity(u) BY <1>1, <2>1
  <2> HIDE DEF u, s
  <2>4. /\ s \in Marks /\ u \in Marks /\ Severity(s) \in 1..13 /\ Severity(u) \in 1..13
        /\ Severity(s) <= Severity(u)
    BY <2>1, <2>2, <2>3, SeverityFacts
  <2>5. Severity(u) <= Severity(s)
    <3>1. CASE u \in S BY <2>2, <3>1
    <3>2. CASE u = "unconfigured" BY <2>4, <3>2, SeverityFacts
    <3> QED BY <2>3, <3>1, <3>2
  <2>6. u = s BY <1>2, <2>4, <2>5
  <2> QED BY <2>2, <2>6 DEF u, s
<1> QED BY <1>3, <1>4

\* Who is computed again shows the worst.
LEMMA RecomputedShows ==
  ASSUME NEW agg, NEW cs, NEW D, NEW state \in [D -> Marks], cs \subseteq D, Holds(agg, cs)
  PROVE  Shows(Recomputed(agg, state), cs, state)
<1> DEFINE S == {state[c] : c \in cs}
           shown == IF agg.controllers = <<>> THEN "unconfigured" ELSE Worst(S)
<1>1. S \in SUBSET Marks /\ (S = {} <=> cs = {}) OBVIOUS
<1>2. agg.controllers = <<>> <=> cs = {}
  <2>1. agg.controllers \in Seq(Heard) /\ Range(agg.controllers) = cs BY DEF Holds, Aggregates
  <2>2. agg.controllers = <<>> <=> Len(agg.controllers) = 0 BY <2>1, EmptySeq
  <2>3. DOMAIN agg.controllers = 1..Len(agg.controllers) /\ Len(agg.controllers) \in Nat BY <2>1
  <2>4. Len(agg.controllers) = 0 => cs = {} BY <2>1, <2>3 DEF Range
  <2>5. Len(agg.controllers) # 0 => agg.controllers[1] \in cs BY <2>1, <2>3 DEF Range
  <2> QED BY <2>2, <2>4, <2>5
<1>3. shown = Worst(S \cup {"unconfigured"}) /\ shown \in Marks
  <2>1. CASE cs = {}
    <3>1. S \cup {"unconfigured"} = {"unconfigured"} /\ shown = "unconfigured" BY <1>1, <1>2, <2>1
    <3> QED BY <1>1, <3>1, WorstFacts, SeverityFacts
  <2>2. CASE cs # {}
    <3>1. shown = Worst(S) /\ S # {} BY <1>1, <1>2, <2>2
    <3> HIDE DEF S, shown
    <3> QED BY <1>1, <3>1, WorstFacts
  <2> QED BY <2>1, <2>2
<1>4. Recomputed(agg, state) = [agg EXCEPT !.shown = shown]
  BY DEF Recomputed, Holds
<1> HIDE DEF shown
<1>5. /\ [agg EXCEPT !.shown = shown] \in Aggregates
      /\ [agg EXCEPT !.shown = shown].controllers = agg.controllers
      /\ [agg EXCEPT !.shown = shown].subs = agg.subs
      /\ [agg EXCEPT !.shown = shown].shown = shown
  BY <1>3 DEF Holds, Aggregates
<1> QED BY <1>3, <1>4, <1>5 DEF Shows, Holds, Paired

\* Who listens to nothing shows nothing.
LEMMA EmptyShows == ASSUME NEW state PROVE Shows(EmptyAggregate, {}, state)
<1>1. /\ EmptyAggregate.controllers = <<>> /\ EmptyAggregate.subs = <<>>
      /\ EmptyAggregate.shown = "unconfigured" /\ EmptyAggregate \in Aggregates
  BY SeverityFacts DEF EmptyAggregate, Aggregates
<1>2. {state[c] : c \in {}} \cup {"unconfigured"} = {"unconfigured"} OBVIOUS
<1>3. Holds(EmptyAggregate, {}) BY <1>1 DEF Holds, Paired, Range, IsInjective
<1> QED BY <1>1, <1>2, <1>3, WorstFacts DEF Shows

\* add.
LEMMA AddedShows ==
  ASSUME NEW agg, NEW cs, NEW D, NEW state \in [D -> Marks], cs \subseteq D, Holds(agg, cs),
         NEW c \in D, c \in Heard, c \notin cs
  PROVE  Shows(Added(agg, c, state), cs \cup {c}, state)
<1> DEFINE pair == <<<<c, "state">>, <<c, "progress">>>>
           now == [agg EXCEPT !.controllers = Append(@, c), !.subs = @ \o pair]
<1>1. /\ agg.controllers \in Seq(Heard) /\ agg.subs \in Seq(Heard \X {"state", "progress"})
      /\ Range(agg.controllers) = cs /\ IsInjective(agg.controllers)
      /\ Len(agg.subs) = 2 * Len(agg.controllers)
  BY DEF Holds, Aggregates, Paired
<1>2. /\ now \in Aggregates /\ now.controllers = Append(agg.controllers, c)
      /\ now.subs = agg.subs \o pair
  <2>1. /\ Append(agg.controllers, c) \in Seq(Heard)
        /\ pair \in Seq(Heard \X {"state", "progress"})
        /\ agg.subs \o pair \in Seq(Heard \X {"state", "progress"})
    BY <1>1
  <2> HIDE DEF pair
  <2> QED BY <2>1 DEF Holds, Aggregates
<1> DEFINE n == Len(agg.controllers)
<1>3. /\ n \in Nat /\ Len(now.controllers) = n + 1
      /\ \A k \in 1..n : now.controllers[k] = agg.controllers[k]
      /\ now.controllers[n + 1] = c
  BY <1>1, <1>2
<1>4. /\ Len(now.subs) = 2 * n + 2 /\ \A k \in 1..(2 * n) : now.subs[k] = agg.subs[k]
      /\ now.subs[2 * n + 1] = <<c, "state">> /\ now.subs[2 * n + 2] = <<c, "progress">>
  <2>1. pair \in Seq(Heard \X {"state", "progress"}) /\ Len(pair) = 2
        /\ pair[1] = <<c, "state">> /\ pair[2] = <<c, "progress">>
    OBVIOUS
  <2> HIDE DEF pair
  <2>2. Len(agg.subs) = 2 * n /\ n \in Nat BY <1>1, <1>3
  <2> HIDE DEF n, now
  <2>3. /\ Len(now.subs) = Len(agg.subs) + 2
        /\ \A k \in 1..(Len(agg.subs) + 2) :
               now.subs[k] = IF k <= Len(agg.subs) THEN agg.subs[k] ELSE pair[k - Len(agg.subs)]
    <3> DEFINE u == agg.subs
               T == Heard \X {"state", "progress"}
    <3>1. u \in Seq(T) /\ pair \in Seq(T) /\ now.subs = u \o pair BY <1>1, <1>2, <2>1
    <3> HIDE DEF u, T
    <3>2. /\ Len(u \o pair) = Len(u) + Len(pair)
          /\ \A k \in 1..(Len(u) + Len(pair)) :
                 (u \o pair)[k] = IF k <= Len(u) THEN u[k] ELSE pair[k - Len(u)]
      BY <3>1, ConcatProperties
    <3>3. Len(now.subs) = Len(u) + 2
      BY <2>1, <3>1, <3>2
    <3>4. \A k \in 1..(Len(u) + 2) :
             now.subs[k] = IF k <= Len(u) THEN u[k] ELSE pair[k - Len(u)]
      BY <2>1, <3>1, <3>2
    <3> QED BY <3>3, <3>4 DEF u
  <2> QED BY <2>1, <2>2, <2>3
<1> HIDE DEF now
<1>5. Paired(now)
  <2>1. ASSUME NEW k \in 1..(n + 1)
        PROVE  /\ now.subs[2 * k - 1] = <<now.controllers[k], "state">>
               /\ now.subs[2 * k] = <<now.controllers[k], "progress">>
    <3>1. CASE k = n + 1 BY <1>3, <1>4, <3>1
    <3>2. CASE k \in 1..n
      <4>1. 2 * k - 1 \in 1..(2 * n) /\ 2 * k \in 1..(2 * n) BY <1>3, <3>2
      <4>2. /\ agg.subs[2 * k - 1] = <<agg.controllers[k], "state">>
            /\ agg.subs[2 * k] = <<agg.controllers[k], "progress">>
        BY <3>2 DEF Holds, Paired
      <4> QED BY <1>3, <1>4, <3>2, <4>1, <4>2
    <3> QED BY <1>3, <3>1, <3>2
  <2> QED BY <1>3, <1>4, <2>1 DEF Paired
<1>6. Range(now.controllers) = cs \cup {c} /\ IsInjective(now.controllers)
  <2>1. now.controllers \in Seq(Heard) BY <1>2 DEF Aggregates
  <2>2. DOMAIN now.controllers = 1..(n + 1) /\ DOMAIN agg.controllers = 1..n BY <1>1, <1>3, <2>1
  <2>3. \A k \in 1..n : now.controllers[k] # c BY <1>1, <1>3, <2>2 DEF Range
  <2>4. \A k, j \in 1..(n + 1) : now.controllers[k] = now.controllers[j] => k = j
    <3>1. \A k, j \in 1..n : agg.controllers[k] = agg.controllers[j] => k = j
      BY <1>1, <2>2 DEF IsInjective
    <3>2. \A k \in 1..(n + 1) : k = n + 1 \/ k \in 1..n BY <1>3
    <3> HIDE DEF n
    <3> QED BY <1>3, <2>3, <3>1, <3>2
  <2>5. Range(now.controllers) = cs \cup {c}
    <3>1. \A k \in 1..(n + 1) : now.controllers[k] \in cs \cup {c}
      <4>1. \A k \in 1..n : agg.controllers[k] \in cs BY <1>1, <2>2 DEF Range
      <4>2. \A k \in 1..(n + 1) : k = n + 1 \/ k \in 1..n BY <1>3
      <4> HIDE DEF n
      <4> QED BY <1>3, <4>1, <4>2
    <3>2. \A x \in cs : \E k \in 1..(n + 1) : now.controllers[k] = x
      BY <1>1, <1>3, <2>2 DEF Range
    <3>3. n + 1 \in 1..(n + 1) BY <1>3
    <3> QED BY <1>3, <2>2, <3>1, <3>2, <3>3 DEF Range
  <2> QED BY <2>2, <2>4, <2>5 DEF IsInjective
<1>7. Holds(now, cs \cup {c}) BY <1>2, <1>5, <1>6 DEF Holds
<1> QED BY <1>7, RecomputedShows DEF Added, now

\* What a sequence is without one of its elements.
LEMMA RemovedAt ==
  ASSUME NEW T, NEW s \in Seq(T), NEW i \in 1..Len(s)
  PROVE  /\ RemoveAt(s, i) \in Seq(T) /\ Len(RemoveAt(s, i)) = Len(s) - 1
         /\ \A j \in 1..(Len(s) - 1) : RemoveAt(s, i)[j] = IF j < i THEN s[j] ELSE s[j + 1]
<1> DEFINE u == SubSeq(s, 1, i - 1)
           v == SubSeq(s, i + 1, Len(s))
           n == Len(s)
<1>1. n \in Nat /\ i \in 1..n /\ \A j \in 1..n : s[j] \in T OBVIOUS
<1>2. u \in Seq(T) /\ Len(u) = i - 1 /\ \A j \in 1..(i - 1) : u[j] = s[j]
  BY <1>1
<1>3. v \in Seq(T) /\ Len(v) = n - i /\ \A j \in 1..(n - i) : v[j] = s[j + i]
  BY <1>1
<1>4. RemoveAt(s, i) = u \o v BY DEF RemoveAt
<1> HIDE DEF u, v
<1>5. /\ u \o v \in Seq(T) /\ Len(u \o v) = Len(u) + Len(v)
      /\ \A j \in 1..(Len(u) + Len(v)) : (u \o v)[j] = IF j <= Len(u) THEN u[j] ELSE v[j - Len(u)]
  BY <1>2, <1>3, ConcatProperties
<1>6. Len(u) + Len(v) = n - 1 BY <1>1, <1>2, <1>3
<1>7. ASSUME NEW j \in 1..(n - 1)
      PROVE  (u \o v)[j] = IF j < i THEN s[j] ELSE s[j + 1]
  <2>1. CASE j < i
    <3>1. j <= Len(u) /\ j \in 1..(i - 1) BY <1>1, <1>2, <2>1
    <3> QED BY <1>2, <1>5, <1>6, <2>1, <3>1
  <2>2. CASE ~(j < i)
    <3>1. /\ ~(j <= Len(u)) /\ j - Len(u) \in 1..(n - i) /\ (j - Len(u)) + i = j + 1
      BY <1>1, <1>2, <2>2
    <3> QED BY <1>3, <1>5, <1>6, <2>2, <3>1
  <2> QED BY <2>1, <2>2
<1> QED BY <1>4, <1>5, <1>6, <1>7

\* remove: the two subscriptions that go are those of the controller.
LEMMA RemovedShows ==
  ASSUME NEW agg, NEW cs, NEW D, NEW state \in [D -> Marks], cs \subseteq D,
         Shows(agg, cs, state), NEW c
  PROVE  Shows(Removed(agg, c, state), cs \ {c}, state)
<1> DEFINE n == Len(agg.controllers)
<1>1. /\ agg.controllers \in Seq(Heard) /\ agg.subs \in Seq(Heard \X {"state", "progress"})
      /\ Range(agg.controllers) = cs /\ IsInjective(agg.controllers)
      /\ Len(agg.subs) = 2 * n /\ n \in Nat
      /\ DOMAIN agg.controllers = 1..n /\ DOMAIN agg.subs = 1..(2 * n)
  <2>1. /\ agg.controllers \in Seq(Heard) /\ agg.subs \in Seq(Heard \X {"state", "progress"})
        /\ Range(agg.controllers) = cs /\ IsInjective(agg.controllers)
        /\ Len(agg.subs) = 2 * n
    BY DEF Shows, Holds, Aggregates, Paired
  <2> QED BY <2>1
<1>2. CASE c \notin Range(agg.controllers)
  <2>1. Removed(agg, c, state) = agg /\ cs \ {c} = cs BY <1>1, <1>2 DEF Removed
  <2> QED BY <2>1
<1>3. CASE c \in Range(agg.controllers)
  <2> DEFINE First(i) == agg.controllers[i] = c
                         /\ \A j \in 1..(i - 1) : agg.controllers[j] # c
             i == CHOOSE i \in DOMAIN agg.controllers : First(i)
             now == [agg EXCEPT !.controllers = RemoveAt(@, i), !.subs = Unsubscribed(@, i)]
  <2>1. Removed(agg, c, state) = Recomputed(now, state) BY <1>3 DEF Removed
  <2>2. i \in 1..n /\ agg.controllers[i] = c
    <3>1. PICK k \in 1..n : agg.controllers[k] = c BY <1>1, <1>3 DEF Range
    <3>2. \A j \in 1..(k - 1) : agg.controllers[j] # c
      <4> TAKE j \in 1..(k - 1)
      <4>1. j \in DOMAIN agg.controllers /\ k \in DOMAIN agg.controllers /\ j # k BY <1>1
      <4> QED BY <1>1, <3>1, <4>1 DEF IsInjective
    <3>3. First(k) BY <3>1, <3>2
    <3>4. i \in DOMAIN agg.controllers /\ First(i)
      <4> HIDE DEF First
      <4> QED BY <1>1, <3>1, <3>3
    <3> QED BY <1>1, <3>4
  <2> HIDE DEF i
  <2> DEFINE less == RemoveAt(agg.controllers, i)
             left == Unsubscribed(agg.subs, i)
  <2>3. /\ less \in Seq(Heard) /\ Len(less) = n - 1
        /\ \A j \in 1..(n - 1) :
              less[j] = IF j < i THEN agg.controllers[j] ELSE agg.controllers[j + 1]
    BY <1>1, <2>2, RemovedAt
  <2>4. /\ left \in Seq(Heard \X {"state", "progress"}) /\ Len(left) = 2 * n - 2
        /\ \A j \in 1..(2 * n - 2) :
              left[j] = IF j < 2 * i - 1 THEN agg.subs[j] ELSE agg.subs[j + 2]
    <3> DEFINE T == Heard \X {"state", "progress"}
    <3>1. left = [j \in 1..(2 * n - 2) |-> IF j < 2 * i - 1 THEN agg.subs[j] ELSE agg.subs[j + 2]]
      BY <1>1 DEF Unsubscribed
    <3>2. 2 * n - 2 \in Nat BY <1>1, <2>2
    <3>3. \A j \in 1..(2 * n) : agg.subs[j] \in T BY <1>1
    <3>4. \A j \in 1..(2 * n - 2) :
             (IF j < 2 * i - 1 THEN agg.subs[j] ELSE agg.subs[j + 2]) \in T
      <4> TAKE j \in 1..(2 * n - 2)
      <4>1. j \in 1..(2 * n) /\ j + 2 \in 1..(2 * n) BY <1>1
      <4> HIDE DEF T, n
      <4> QED BY <3>3, <4>1
    <3> HIDE DEF T, left, n
    <3>5. left \in [1..(2 * n - 2) -> T] BY <3>1, <3>4
    <3>6. left \in Seq(T) /\ DOMAIN left = 1..(2 * n - 2)
      BY <3>2, <3>5, SeqDef
    <3>7. Len(left) = 2 * n - 2 BY <3>2, <3>6
    <3> QED BY <3>1, <3>6, <3>7 DEF T
  <2>5. /\ now \in Aggregates /\ now.controllers = less /\ now.subs = left
    <3> HIDE DEF less, left
    <3>1. now = [[agg EXCEPT !.controllers = less] EXCEPT !.subs = left]
      BY DEF Shows, Holds, Aggregates, less, left
    <3> HIDE DEF now
    <3> QED BY <2>3, <2>4, <3>1 DEF Shows, Holds, Aggregates
  <2> HIDE DEF less, left, now
  <2>6. Paired(now)
    <3>1. ASSUME NEW k \in 1..(n - 1)
          PROVE  /\ left[2 * k - 1] = <<less[k], "state">>
                 /\ left[2 * k] = <<less[k], "progress">>
      <4>0. \A j \in 1..n : /\ agg.subs[2 * j - 1] = <<agg.controllers[j], "state">>
                            /\ agg.subs[2 * j] = <<agg.controllers[j], "progress">>
        BY DEF Shows, Holds, Paired
      <4>1. 2 * k - 1 \in 1..(2 * n - 2) /\ 2 * k \in 1..(2 * n - 2) BY <1>1
      <4>2. CASE k < i
        <5>1. 2 * k - 1 < 2 * i - 1 /\ 2 * k < 2 * i - 1 /\ k \in 1..n BY <1>1, <2>2, <4>2
        <5> QED BY <2>3, <2>4, <4>0, <4>1, <4>2, <5>1
      <4>3. CASE ~(k < i)
        <5>1. /\ ~(2 * k - 1 < 2 * i - 1) /\ ~(2 * k < 2 * i - 1) /\ k + 1 \in 1..n
              /\ (2 * k - 1) + 2 = 2 * (k + 1) - 1 /\ 2 * k + 2 = 2 * (k + 1)
          BY <1>1, <2>2, <4>3
        <5> QED BY <2>3, <2>4, <4>0, <4>1, <4>3, <5>1
      <4> QED BY <4>2, <4>3
    <3>2. Len(now.controllers) = n - 1 /\ Len(now.subs) = 2 * (n - 1)
      BY <1>1, <2>3, <2>4, <2>5
    <3> HIDE DEF n
    <3> QED BY <2>5, <3>1, <3>2 DEF Paired
  <2>7. Range(now.controllers) = cs \ {c} /\ IsInjective(now.controllers)
    <3>1. DOMAIN less = 1..(n - 1) BY <1>1, <2>2, <2>3
    <3> DEFINE Skip(j) == IF j < i THEN j ELSE j + 1
    <3>2. \A j \in 1..(n - 1) : Skip(j) \in 1..n /\ Skip(j) # i /\ less[j] = agg.controllers[Skip(j)]
      BY <1>1, <2>2, <2>3
    <3>3. \A j, k \in 1..(n - 1) : Skip(j) = Skip(k) => j = k BY <1>1, <2>2
    <3>4. \A k \in 1..n : k # i => \E j \in 1..(n - 1) : Skip(j) = k
      <4> TAKE k \in 1..n
      <4> HAVE k # i
      <4>1. CASE k < i
        <5>1. k \in 1..(n - 1) /\ Skip(k) = k BY <1>1, <2>2, <4>1
        <5> QED BY <5>1
      <4>2. CASE ~(k < i)
        <5>1. k - 1 \in 1..(n - 1) /\ Skip(k - 1) = k BY <1>1, <2>2, <4>2
        <5> QED BY <5>1
      <4> QED BY <4>1, <4>2
    <3> HIDE DEF Skip, n
    <3>5. \A j, k \in 1..n : agg.controllers[j] = agg.controllers[k] => j = k
      BY <1>1 DEF IsInjective
    <3>6. \A j, k \in 1..(n - 1) : less[j] = less[k] => j = k BY <3>2, <3>3, <3>5
    <3>7. \A j \in 1..(n - 1) : less[j] \in cs \ {c}
      <4>1. \A j \in 1..n : agg.controllers[j] \in cs BY <1>1 DEF Range
      <4> QED BY <2>2, <3>2, <3>5, <4>1
    <3>8. \A x \in cs \ {c} : \E j \in 1..(n - 1) : less[j] = x
      <4> TAKE x \in cs \ {c}
      <4>1. PICK k \in 1..n : agg.controllers[k] = x BY <1>1 DEF Range
      <4>2. k # i BY <2>2, <4>1
      <4>3. PICK j \in 1..(n - 1) : Skip(j) = k BY <3>4, <4>2
      <4> QED BY <3>2, <4>1, <4>3
    <3> QED BY <2>5, <3>1, <3>6, <3>7, <3>8 DEF Range, IsInjective
  <2>8. Holds(now, cs \ {c}) BY <2>5, <2>6, <2>7 DEF Holds
  <2>9. cs \ {c} \subseteq D OBVIOUS
  <2> QED BY <2>1, <2>8, <2>9, RecomputedShows
<1> QED BY <1>2, <1>3

\* A controller that reports is heard where it is subscribed to, and only there
\* it matters.
LEMMA ToldShows ==
  ASSUME NEW agg, NEW cs, NEW D, NEW state \in [D -> Marks], cs \subseteq D,
         Shows(agg, cs, state), NEW c \in D, NEW mark \in Marks,
         NEW new, new = [state EXCEPT ![c] = mark]
  PROVE  Shows(Told(agg, c, new), cs, new)
<1> DEFINE n == Len(agg.controllers)
<1>1. new \in [D -> Marks] /\ Holds(agg, cs) BY DEF Shows
<1>2. CASE <<c, "state">> \in Range(agg.subs)
  <2>1. Told(agg, c, new) = Recomputed(agg, new) BY <1>2 DEF Told
  <2>2. Shows(Recomputed(agg, new), cs, new) BY <1>1, RecomputedShows
  <2> QED BY <2>1, <2>2
<1>3. CASE <<c, "state">> \notin Range(agg.subs)
  <2>1. c \notin cs
    <3> SUFFICES ASSUME c \in cs PROVE FALSE OBVIOUS
    <3>1. /\ agg.controllers \in Seq(Heard) /\ agg.subs \in Seq(Heard \X {"state", "progress"})
          /\ Range(agg.controllers) = cs /\ Len(agg.subs) = 2 * n
          /\ \A j \in 1..n : agg.subs[2 * j - 1] = <<agg.controllers[j], "state">>
      BY <1>1 DEF Holds, Aggregates, Paired
    <3>2. n \in Nat /\ DOMAIN agg.controllers = 1..n /\ DOMAIN agg.subs = 1..(2 * n) BY <3>1
    <3>3. PICK k \in 1..n : agg.controllers[k] = c BY <3>1, <3>2 DEF Range
    <3>4. 2 * k - 1 \in DOMAIN agg.subs /\ agg.subs[2 * k - 1] = <<c, "state">>
      BY <3>1, <3>2, <3>3
    <3> QED BY <1>3, <3>4 DEF Range
  <2>2. {new[d] : d \in cs} = {state[d] : d \in cs} BY <2>1
  <2>3. Told(agg, c, new) = agg BY <1>3 DEF Told
  <2> QED BY <2>2, <2>3 DEF Shows
<1> QED BY <1>2, <1>3

\* New controllers change nothing for who does not listen to them.
LEMMA ShowsLater ==
  ASSUME NEW agg, NEW cs, NEW state, NEW later, Shows(agg, cs, state),
         \A c \in cs : later[c] = state[c]
  PROVE  Shows(agg, cs, later)
<1>1. {later[c] : c \in cs} = {state[c] : c \in cs} OBVIOUS
<1> QED BY <1>1 DEF Shows

\* The controllers that leave an aggregate, one after the other.
LEMMA RemovedIn ==
  ASSUME NEW S, IsFiniteSet(S), NEW first, NEW state, NEW Fits, first \in Fits[{}],
         \A s \in SUBSET S : \A x \in s : \A m \in Fits[s \ {x}] :
             Removed(m, x, state) \in Fits[s]
  PROVE  AllRemoved(first, S, state) \in Fits[S]
<1> DEFINE One(s) == CHOOSE x \in s : TRUE
           Some == UNION {Fits[s] : s \in SUBSET S}
           Step(x, m) == Removed(m, x, state)
           step == [p \in S \X Some |-> Step(p[1], p[2])]
           pick == [s \in SUBSET S |-> One(s)]
           Folded(h) == h = [s \in SUBSET S |->
                               IF s = {} THEN first ELSE Step(One(s), h[s \ {One(s)}])]
<1>1. \A s \in SUBSET S : s # {} => pick[s] = One(s) /\ One(s) \in s OBVIOUS
<1>2. \A s \in SUBSET S : \A x \in s : \A m \in Fits[s \ {x}] :
         step[<<x, m>>] = Step(x, m) /\ Step(x, m) \in Fits[s]
  <2> HIDE DEF One
  <2> QED OBVIOUS
<1>3. PICK g : Recursed(g, S, first, step, pick) /\ \A s \in SUBSET S : g[s] \in Fits[s]
  <2> HIDE DEF step, pick, One, Step
  <2>1. \A s \in SUBSET S : s # {} =>
           /\ pick[s] \in s
           /\ \A m \in Fits[s \ {pick[s]}] : step[<<pick[s], m>>] \in Fits[s]
    <3> SUFFICES ASSUME NEW s \in SUBSET S, s # {}, NEW m \in Fits[s \ {One(s)}]
                 PROVE  step[<<One(s), m>>] \in Fits[s]
      BY <1>1
    <3>1. One(s) \in s BY <1>1
    <3> QED BY <1>2, <3>1
  <2> QED BY <2>1, RecursedIn
<1>4. Folded(g)
  <2> HIDE DEF step, pick, One, Step
  <2>1. \A s \in SUBSET S : s # {} =>
           step[<<pick[s], g[s \ {pick[s]}]>>] = Step(One(s), g[s \ {One(s)}])
    <3> SUFFICES ASSUME NEW s \in SUBSET S, s # {}
                 PROVE  step[<<One(s), g[s \ {One(s)}]>>] = Step(One(s), g[s \ {One(s)}])
      BY <1>1
    <3>1. One(s) \in s /\ g[s \ {One(s)}] \in Fits[s \ {One(s)}] BY <1>1, <1>3
    <3> QED BY <1>2, <3>1
  <2> QED BY <2>1, <1>3 DEF Recursed
<1> DEFINE h == CHOOSE h : Folded(h)
<1>5. Folded(h)
  <2> HIDE DEF Folded
  <2> QED BY <1>4
<1> HIDE DEF h
<1> DEFINE D == {s \in SUBSET S : h[s] \in Fits[s]}
<1>6. \A s \in SUBSET S : h[s] = IF s = {} THEN first ELSE Step(One(s), h[s \ {One(s)}])
  <2> HIDE DEF One, Step
  <2> QED BY <1>5
<1>7. \A s \in SUBSET S : s # {} => \E x \in s : s \ {x} \in D => s \in D
  <2> HIDE DEF One, Step
  <2> SUFFICES ASSUME NEW s \in SUBSET S, s # {}
               PROVE  \E x \in s : s \ {x} \in D => s \in D
    OBVIOUS
  <2>1. One(s) \in s /\ h[s] = Step(One(s), h[s \ {One(s)}]) BY <1>1, <1>6
  <2>2. ASSUME s \ {One(s)} \in D PROVE s \in D
    <3>1. h[s \ {One(s)}] \in Fits[s \ {One(s)}] BY <2>2
    <3>2. Step(One(s), h[s \ {One(s)}]) \in Fits[s] BY <1>2, <2>1, <3>1
    <3> QED BY <2>1, <3>2
  <2> QED BY <2>1, <2>2
<1>8. {} \in D
  <2> HIDE DEF One, Step
  <2> QED BY <1>6
<1>9. h[S] \in Fits[S]
  <2>1. S \in D
    <3> HIDE DEF D
    <3> QED BY <1>7, <1>8, AllParts
  <2> QED BY <2>1
<1>10. AllRemoved(first, S, state)
       = (CHOOSE h_1 : h_1 = [s \in SUBSET S |->
            IF s = {} THEN first ELSE Step(One(s), h_1[s \ {One(s)}])])[S]
  BY Zenon DEF AllRemoved, FoldSet, MapThenFoldSet
<1> QED BY <1>9, <1>10, Zenon DEF h

\* The controllers that the tray is given, one after the other.
LEMMA AddedIn ==
  ASSUME NEW S, IsFiniteSet(S), NEW first, NEW state, NEW Fits, first \in Fits[{}],
         \A s \in SUBSET S : \A x \in s : \A m \in Fits[s \ {x}] :
             Added(m, x, state) \in Fits[s]
  PROVE  AllAdded(first, S, state) \in Fits[S]
<1> DEFINE One(s) == CHOOSE x \in s : TRUE
           Some == UNION {Fits[s] : s \in SUBSET S}
           Step(x, m) == Added(m, x, state)
           step == [p \in S \X Some |-> Step(p[1], p[2])]
           pick == [s \in SUBSET S |-> One(s)]
           Folded(h) == h = [s \in SUBSET S |->
                               IF s = {} THEN first ELSE Step(One(s), h[s \ {One(s)}])]
<1>1. \A s \in SUBSET S : s # {} => pick[s] = One(s) /\ One(s) \in s OBVIOUS
<1>2. \A s \in SUBSET S : \A x \in s : \A m \in Fits[s \ {x}] :
         step[<<x, m>>] = Step(x, m) /\ Step(x, m) \in Fits[s]
  <2> HIDE DEF One
  <2> QED OBVIOUS
<1>3. PICK g : Recursed(g, S, first, step, pick) /\ \A s \in SUBSET S : g[s] \in Fits[s]
  <2> HIDE DEF step, pick, One, Step
  <2>1. \A s \in SUBSET S : s # {} =>
           /\ pick[s] \in s
           /\ \A m \in Fits[s \ {pick[s]}] : step[<<pick[s], m>>] \in Fits[s]
    <3> SUFFICES ASSUME NEW s \in SUBSET S, s # {}, NEW m \in Fits[s \ {One(s)}]
                 PROVE  step[<<One(s), m>>] \in Fits[s]
      BY <1>1
    <3>1. One(s) \in s BY <1>1
    <3> QED BY <1>2, <3>1
  <2> QED BY <2>1, RecursedIn
<1>4. Folded(g)
  <2> HIDE DEF step, pick, One, Step
  <2>1. \A s \in SUBSET S : s # {} =>
           step[<<pick[s], g[s \ {pick[s]}]>>] = Step(One(s), g[s \ {One(s)}])
    <3> SUFFICES ASSUME NEW s \in SUBSET S, s # {}
                 PROVE  step[<<One(s), g[s \ {One(s)}]>>] = Step(One(s), g[s \ {One(s)}])
      BY <1>1
    <3>1. One(s) \in s /\ g[s \ {One(s)}] \in Fits[s \ {One(s)}] BY <1>1, <1>3
    <3> QED BY <1>2, <3>1
  <2> QED BY <2>1, <1>3 DEF Recursed
<1> DEFINE h == CHOOSE h : Folded(h)
<1>5. Folded(h)
  <2> HIDE DEF Folded
  <2> QED BY <1>4
<1> HIDE DEF h
<1> DEFINE D == {s \in SUBSET S : h[s] \in Fits[s]}
<1>6. \A s \in SUBSET S : h[s] = IF s = {} THEN first ELSE Step(One(s), h[s \ {One(s)}])
  <2> HIDE DEF One, Step
  <2> QED BY <1>5
<1>7. \A s \in SUBSET S : s # {} => \E x \in s : s \ {x} \in D => s \in D
  <2> HIDE DEF One, Step
  <2> SUFFICES ASSUME NEW s \in SUBSET S, s # {}
               PROVE  \E x \in s : s \ {x} \in D => s \in D
    OBVIOUS
  <2>1. One(s) \in s /\ h[s] = Step(One(s), h[s \ {One(s)}]) BY <1>1, <1>6
  <2>2. ASSUME s \ {One(s)} \in D PROVE s \in D
    <3>1. h[s \ {One(s)}] \in Fits[s \ {One(s)}] BY <2>2
    <3>2. Step(One(s), h[s \ {One(s)}]) \in Fits[s] BY <1>2, <2>1, <3>1
    <3> QED BY <2>1, <3>2
  <2> QED BY <2>1, <2>2
<1>8. {} \in D
  <2> HIDE DEF One, Step
  <2> QED BY <1>6
<1>9. h[S] \in Fits[S]
  <2>1. S \in D
    <3> HIDE DEF D
    <3> QED BY <1>7, <1>8, AllParts
  <2> QED BY <2>1
<1>10. AllAdded(first, S, state)
       = (CHOOSE h_1 : h_1 = [s \in SUBSET S |->
            IF s = {} THEN first ELSE Step(One(s), h_1[s \ {One(s)}])])[S]
  BY Zenon DEF AllAdded, FoldSet, MapThenFoldSet
<1> QED BY <1>9, <1>10, Zenon DEF h

\* The accounts whose folders are looked at, one after the other.
LEMMA SyncedIn ==
  ASSUME NEW S, IsFiniteSet(S), NEW first, NEW lists, NEW Fits, first \in Fits[{}],
         \A s \in SUBSET S : \A x \in s : \A m \in Fits[s \ {x}] :
             SyncFolders(m, x, lists[x]) \in Fits[s]
  PROVE  SyncAccounts(first, S, lists) \in Fits[S]
<1> DEFINE One(s) == CHOOSE x \in s : TRUE
           Some == UNION {Fits[s] : s \in SUBSET S}
           Step(x, m) == SyncFolders(m, x, lists[x])
           step == [p \in S \X Some |-> Step(p[1], p[2])]
           pick == [s \in SUBSET S |-> One(s)]
           Folded(h) == h = [s \in SUBSET S |->
                               IF s = {} THEN first ELSE Step(One(s), h[s \ {One(s)}])]
<1>1. \A s \in SUBSET S : s # {} => pick[s] = One(s) /\ One(s) \in s OBVIOUS
<1>2. \A s \in SUBSET S : \A x \in s : \A m \in Fits[s \ {x}] :
         step[<<x, m>>] = Step(x, m) /\ Step(x, m) \in Fits[s]
  <2> HIDE DEF One
  <2> QED OBVIOUS
<1>3. PICK g : Recursed(g, S, first, step, pick) /\ \A s \in SUBSET S : g[s] \in Fits[s]
  <2> HIDE DEF step, pick, One, Step
  <2>1. \A s \in SUBSET S : s # {} =>
           /\ pick[s] \in s
           /\ \A m \in Fits[s \ {pick[s]}] : step[<<pick[s], m>>] \in Fits[s]
    <3> SUFFICES ASSUME NEW s \in SUBSET S, s # {}, NEW m \in Fits[s \ {One(s)}]
                 PROVE  step[<<One(s), m>>] \in Fits[s]
      BY <1>1
    <3>1. One(s) \in s BY <1>1
    <3> QED BY <1>2, <3>1
  <2> QED BY <2>1, RecursedIn
<1>4. Folded(g)
  <2> HIDE DEF step, pick, One, Step
  <2>1. \A s \in SUBSET S : s # {} =>
           step[<<pick[s], g[s \ {pick[s]}]>>] = Step(One(s), g[s \ {One(s)}])
    <3> SUFFICES ASSUME NEW s \in SUBSET S, s # {}
                 PROVE  step[<<One(s), g[s \ {One(s)}]>>] = Step(One(s), g[s \ {One(s)}])
      BY <1>1
    <3>1. One(s) \in s /\ g[s \ {One(s)}] \in Fits[s \ {One(s)}] BY <1>1, <1>3
    <3> QED BY <1>2, <3>1
  <2> QED BY <2>1, <1>3 DEF Recursed
<1> DEFINE h == CHOOSE h : Folded(h)
<1>5. Folded(h)
  <2> HIDE DEF Folded
  <2> QED BY <1>4
<1> HIDE DEF h
<1> DEFINE D == {s \in SUBSET S : h[s] \in Fits[s]}
<1>6. \A s \in SUBSET S : h[s] = IF s = {} THEN first ELSE Step(One(s), h[s \ {One(s)}])
  <2> HIDE DEF One, Step
  <2> QED BY <1>5
<1>7. \A s \in SUBSET S : s # {} => \E x \in s : s \ {x} \in D => s \in D
  <2> HIDE DEF One, Step
  <2> SUFFICES ASSUME NEW s \in SUBSET S, s # {}
               PROVE  \E x \in s : s \ {x} \in D => s \in D
    OBVIOUS
  <2>1. One(s) \in s /\ h[s] = Step(One(s), h[s \ {One(s)}]) BY <1>1, <1>6
  <2>2. ASSUME s \ {One(s)} \in D PROVE s \in D
    <3>1. h[s \ {One(s)}] \in Fits[s \ {One(s)}] BY <2>2
    <3>2. Step(One(s), h[s \ {One(s)}]) \in Fits[s] BY <1>2, <2>1, <3>1
    <3> QED BY <2>1, <3>2
  <2> QED BY <2>1, <2>2
<1>8. {} \in D
  <2> HIDE DEF One, Step
  <2> QED BY <1>6
<1>9. h[S] \in Fits[S]
  <2>1. S \in D
    <3> HIDE DEF D
    <3> QED BY <1>7, <1>8, AllParts
  <2> QED BY <2>1
<1>10. SyncAccounts(first, S, lists)
       = (CHOOSE h_1 : h_1 = [s \in SUBSET S |->
            IF s = {} THEN first ELSE Step(One(s), h_1[s \ {One(s)}])])[S]
  BY Zenon DEF SyncAccounts, FoldSet, MapThenFoldSet
<1> QED BY <1>9, <1>10, Zenon DEF h

\* The accounts that start, one after the other.
LEMMA StartedIn ==
  ASSUME NEW S, IsFiniteSet(S), NEW first, NEW lists, NEW Fits, first \in Fits[{}],
         \A s \in SUBSET S : \A x \in s : \A m \in Fits[s \ {x}] :
             EnsureRuntime(m, x, lists[x]) \in Fits[s]
  PROVE  EnsureRuntimes(first, S, lists) \in Fits[S]
<1> DEFINE One(s) == CHOOSE x \in s : TRUE
           Some == UNION {Fits[s] : s \in SUBSET S}
           Step(x, m) == EnsureRuntime(m, x, lists[x])
           step == [p \in S \X Some |-> Step(p[1], p[2])]
           pick == [s \in SUBSET S |-> One(s)]
           Folded(h) == h = [s \in SUBSET S |->
                               IF s = {} THEN first ELSE Step(One(s), h[s \ {One(s)}])]
<1>1. \A s \in SUBSET S : s # {} => pick[s] = One(s) /\ One(s) \in s OBVIOUS
<1>2. \A s \in SUBSET S : \A x \in s : \A m \in Fits[s \ {x}] :
         step[<<x, m>>] = Step(x, m) /\ Step(x, m) \in Fits[s]
  <2> HIDE DEF One
  <2> QED OBVIOUS
<1>3. PICK g : Recursed(g, S, first, step, pick) /\ \A s \in SUBSET S : g[s] \in Fits[s]
  <2> HIDE DEF step, pick, One, Step
  <2>1. \A s \in SUBSET S : s # {} =>
           /\ pick[s] \in s
           /\ \A m \in Fits[s \ {pick[s]}] : step[<<pick[s], m>>] \in Fits[s]
    <3> SUFFICES ASSUME NEW s \in SUBSET S, s # {}, NEW m \in Fits[s \ {One(s)}]
                 PROVE  step[<<One(s), m>>] \in Fits[s]
      BY <1>1
    <3>1. One(s) \in s BY <1>1
    <3> QED BY <1>2, <3>1
  <2> QED BY <2>1, RecursedIn
<1>4. Folded(g)
  <2> HIDE DEF step, pick, One, Step
  <2>1. \A s \in SUBSET S : s # {} =>
           step[<<pick[s], g[s \ {pick[s]}]>>] = Step(One(s), g[s \ {One(s)}])
    <3> SUFFICES ASSUME NEW s \in SUBSET S, s # {}
                 PROVE  step[<<One(s), g[s \ {One(s)}]>>] = Step(One(s), g[s \ {One(s)}])
      BY <1>1
    <3>1. One(s) \in s /\ g[s \ {One(s)}] \in Fits[s \ {One(s)}] BY <1>1, <1>3
    <3> QED BY <1>2, <3>1
  <2> QED BY <2>1, <1>3 DEF Recursed
<1> DEFINE h == CHOOSE h : Folded(h)
<1>5. Folded(h)
  <2> HIDE DEF Folded
  <2> QED BY <1>4
<1> HIDE DEF h
<1> DEFINE D == {s \in SUBSET S : h[s] \in Fits[s]}
<1>6. \A s \in SUBSET S : h[s] = IF s = {} THEN first ELSE Step(One(s), h[s \ {One(s)}])
  <2> HIDE DEF One, Step
  <2> QED BY <1>5
<1>7. \A s \in SUBSET S : s # {} => \E x \in s : s \ {x} \in D => s \in D
  <2> HIDE DEF One, Step
  <2> SUFFICES ASSUME NEW s \in SUBSET S, s # {}
               PROVE  \E x \in s : s \ {x} \in D => s \in D
    OBVIOUS
  <2>1. One(s) \in s /\ h[s] = Step(One(s), h[s \ {One(s)}]) BY <1>1, <1>6
  <2>2. ASSUME s \ {One(s)} \in D PROVE s \in D
    <3>1. h[s \ {One(s)}] \in Fits[s \ {One(s)}] BY <2>2
    <3>2. Step(One(s), h[s \ {One(s)}]) \in Fits[s] BY <1>2, <2>1, <3>1
    <3> QED BY <2>1, <3>2
  <2> QED BY <2>1, <2>2
<1>8. {} \in D
  <2> HIDE DEF One, Step
  <2> QED BY <1>6
<1>9. h[S] \in Fits[S]
  <2>1. S \in D
    <3> HIDE DEF D
    <3> QED BY <1>7, <1>8, AllParts
  <2> QED BY <2>1
<1>10. EnsureRuntimes(first, S, lists)
       = (CHOOSE h_1 : h_1 = [s \in SUBSET S |->
            IF s = {} THEN first ELSE Step(One(s), h_1[s \ {One(s)}])])[S]
  BY Zenon DEF EnsureRuntimes, FoldSet, MapThenFoldSet
<1> QED BY <1>9, <1>10, Zenon DEF h

\* The accounts whose environment is set, one after the other.
LEMMA SetIn ==
  ASSUME NEW S, IsFiniteSet(S), NEW first, NEW values, NEW Fits, first \in Fits[{}],
         \A s \in SUBSET S : \A x \in s : \A m \in Fits[s \ {x}] :
             SetEnvironment(m, x, values) \in Fits[s]
  PROVE  S = Running(first) => EnvironmentEverywhere(first, values) \in Fits[S]
<1> DEFINE One(s) == CHOOSE x \in s : TRUE
           Some == UNION {Fits[s] : s \in SUBSET S}
           Step(x, m) == SetEnvironment(m, x, values)
           step == [p \in S \X Some |-> Step(p[1], p[2])]
           pick == [s \in SUBSET S |-> One(s)]
           Folded(h) == h = [s \in SUBSET S |->
                               IF s = {} THEN first ELSE Step(One(s), h[s \ {One(s)}])]
<1>1. \A s \in SUBSET S : s # {} => pick[s] = One(s) /\ One(s) \in s OBVIOUS
<1>2. \A s \in SUBSET S : \A x \in s : \A m \in Fits[s \ {x}] :
         step[<<x, m>>] = Step(x, m) /\ Step(x, m) \in Fits[s]
  <2> HIDE DEF One
  <2> QED OBVIOUS
<1>3. PICK g : Recursed(g, S, first, step, pick) /\ \A s \in SUBSET S : g[s] \in Fits[s]
  <2> HIDE DEF step, pick, One, Step
  <2>1. \A s \in SUBSET S : s # {} =>
           /\ pick[s] \in s
           /\ \A m \in Fits[s \ {pick[s]}] : step[<<pick[s], m>>] \in Fits[s]
    <3> SUFFICES ASSUME NEW s \in SUBSET S, s # {}, NEW m \in Fits[s \ {One(s)}]
                 PROVE  step[<<One(s), m>>] \in Fits[s]
      BY <1>1
    <3>1. One(s) \in s BY <1>1
    <3> QED BY <1>2, <3>1
  <2> QED BY <2>1, RecursedIn
<1>4. Folded(g)
  <2> HIDE DEF step, pick, One, Step
  <2>1. \A s \in SUBSET S : s # {} =>
           step[<<pick[s], g[s \ {pick[s]}]>>] = Step(One(s), g[s \ {One(s)}])
    <3> SUFFICES ASSUME NEW s \in SUBSET S, s # {}
                 PROVE  step[<<One(s), g[s \ {One(s)}]>>] = Step(One(s), g[s \ {One(s)}])
      BY <1>1
    <3>1. One(s) \in s /\ g[s \ {One(s)}] \in Fits[s \ {One(s)}] BY <1>1, <1>3
    <3> QED BY <1>2, <3>1
  <2> QED BY <2>1, <1>3 DEF Recursed
<1> DEFINE h == CHOOSE h : Folded(h)
<1>5. Folded(h)
  <2> HIDE DEF Folded
  <2> QED BY <1>4
<1> HIDE DEF h
<1> DEFINE D == {s \in SUBSET S : h[s] \in Fits[s]}
<1>6. \A s \in SUBSET S : h[s] = IF s = {} THEN first ELSE Step(One(s), h[s \ {One(s)}])
  <2> HIDE DEF One, Step
  <2> QED BY <1>5
<1>7. \A s \in SUBSET S : s # {} => \E x \in s : s \ {x} \in D => s \in D
  <2> HIDE DEF One, Step
  <2> SUFFICES ASSUME NEW s \in SUBSET S, s # {}
               PROVE  \E x \in s : s \ {x} \in D => s \in D
    OBVIOUS
  <2>1. One(s) \in s /\ h[s] = Step(One(s), h[s \ {One(s)}]) BY <1>1, <1>6
  <2>2. ASSUME s \ {One(s)} \in D PROVE s \in D
    <3>1. h[s \ {One(s)}] \in Fits[s \ {One(s)}] BY <2>2
    <3>2. Step(One(s), h[s \ {One(s)}]) \in Fits[s] BY <1>2, <2>1, <3>1
    <3> QED BY <2>1, <3>2
  <2> QED BY <2>1, <2>2
<1>8. {} \in D
  <2> HIDE DEF One, Step
  <2> QED BY <1>6
<1>9. h[S] \in Fits[S]
  <2>1. S \in D
    <3> HIDE DEF D
    <3> QED BY <1>7, <1>8, AllParts
  <2> QED BY <2>1
<1>10. S = Running(first) => EnvironmentEverywhere(first, values)
       = (CHOOSE h_1 : h_1 = [s \in SUBSET S |->
            IF s = {} THEN first ELSE Step(One(s), h_1[s \ {One(s)}])])[S]
  BY Zenon DEF EnvironmentEverywhere, FoldSet, MapThenFoldSet
<1> QED BY <1>9, <1>10, Zenon DEF h

\* The accounts whose watchers hear of the network, one after the other.
LEMMA OnlineIn ==
  ASSUME NEW S, IsFiniteSet(S), NEW first, NEW online, NEW Fits, first \in Fits[{}],
         \A s \in SUBSET S : \A x \in s : \A m \in Fits[s \ {x}] :
             ApplyOnline(m, x, online) \in Fits[s]
  PROVE  S = Running(first) => OnlineEverywhere(first, online) \in Fits[S]
<1> DEFINE One(s) == CHOOSE x \in s : TRUE
           Some == UNION {Fits[s] : s \in SUBSET S}
           Step(x, m) == ApplyOnline(m, x, online)
           step == [p \in S \X Some |-> Step(p[1], p[2])]
           pick == [s \in SUBSET S |-> One(s)]
           Folded(h) == h = [s \in SUBSET S |->
                               IF s = {} THEN first ELSE Step(One(s), h[s \ {One(s)}])]
<1>1. \A s \in SUBSET S : s # {} => pick[s] = One(s) /\ One(s) \in s OBVIOUS
<1>2. \A s \in SUBSET S : \A x \in s : \A m \in Fits[s \ {x}] :
         step[<<x, m>>] = Step(x, m) /\ Step(x, m) \in Fits[s]
  <2> HIDE DEF One
  <2> QED OBVIOUS
<1>3. PICK g : Recursed(g, S, first, step, pick) /\ \A s \in SUBSET S : g[s] \in Fits[s]
  <2> HIDE DEF step, pick, One, Step
  <2>1. \A s \in SUBSET S : s # {} =>
           /\ pick[s] \in s
           /\ \A m \in Fits[s \ {pick[s]}] : step[<<pick[s], m>>] \in Fits[s]
    <3> SUFFICES ASSUME NEW s \in SUBSET S, s # {}, NEW m \in Fits[s \ {One(s)}]
                 PROVE  step[<<One(s), m>>] \in Fits[s]
      BY <1>1
    <3>1. One(s) \in s BY <1>1
    <3> QED BY <1>2, <3>1
  <2> QED BY <2>1, RecursedIn
<1>4. Folded(g)
  <2> HIDE DEF step, pick, One, Step
  <2>1. \A s \in SUBSET S : s # {} =>
           step[<<pick[s], g[s \ {pick[s]}]>>] = Step(One(s), g[s \ {One(s)}])
    <3> SUFFICES ASSUME NEW s \in SUBSET S, s # {}
                 PROVE  step[<<One(s), g[s \ {One(s)}]>>] = Step(One(s), g[s \ {One(s)}])
      BY <1>1
    <3>1. One(s) \in s /\ g[s \ {One(s)}] \in Fits[s \ {One(s)}] BY <1>1, <1>3
    <3> QED BY <1>2, <3>1
  <2> QED BY <2>1, <1>3 DEF Recursed
<1> DEFINE h == CHOOSE h : Folded(h)
<1>5. Folded(h)
  <2> HIDE DEF Folded
  <2> QED BY <1>4
<1> HIDE DEF h
<1> DEFINE D == {s \in SUBSET S : h[s] \in Fits[s]}
<1>6. \A s \in SUBSET S : h[s] = IF s = {} THEN first ELSE Step(One(s), h[s \ {One(s)}])
  <2> HIDE DEF One, Step
  <2> QED BY <1>5
<1>7. \A s \in SUBSET S : s # {} => \E x \in s : s \ {x} \in D => s \in D
  <2> HIDE DEF One, Step
  <2> SUFFICES ASSUME NEW s \in SUBSET S, s # {}
               PROVE  \E x \in s : s \ {x} \in D => s \in D
    OBVIOUS
  <2>1. One(s) \in s /\ h[s] = Step(One(s), h[s \ {One(s)}]) BY <1>1, <1>6
  <2>2. ASSUME s \ {One(s)} \in D PROVE s \in D
    <3>1. h[s \ {One(s)}] \in Fits[s \ {One(s)}] BY <2>2
    <3>2. Step(One(s), h[s \ {One(s)}]) \in Fits[s] BY <1>2, <2>1, <3>1
    <3> QED BY <2>1, <3>2
  <2> QED BY <2>1, <2>2
<1>8. {} \in D
  <2> HIDE DEF One, Step
  <2> QED BY <1>6
<1>9. h[S] \in Fits[S]
  <2>1. S \in D
    <3> HIDE DEF D
    <3> QED BY <1>7, <1>8, AllParts
  <2> QED BY <2>1
<1>10. S = Running(first) => OnlineEverywhere(first, online)
       = (CHOOSE h_1 : h_1 = [s \in SUBSET S |->
            IF s = {} THEN first ELSE Step(One(s), h_1[s \ {One(s)}])])[S]
  BY Zenon DEF OnlineEverywhere, FoldSet, MapThenFoldSet
<1> QED BY <1>9, <1>10, Zenon DEF h

-----------------------------------------------------------------------------
(* Accounts: any number of them, of folders and of edits.                  *)

\* What the gates may hold of the environment.
Values == Environments \cup {"unset"}

\* The types.
Gated == [online : BOOLEAN, environment : Values]
Runtimes ==
    [folders : [Folders -> Nat], idle : BOOLEAN, aggregate : Aggregates, targets : SUBSET Nat,
     environment : Values]
Managers ==
    [runtimes : [Accounts -> Runtimes \cup {Down}], sources : [Accounts -> SUBSET Heard],
     tray : Aggregates, state : UNION {[(1..n) \cup Accounts -> Marks] : n \in Nat},
     gate : Seq(Gated)]

\* The numbers that were given out.
Born(m) == 1..Len(m.gate)

\* A runtime has folders that were born, each its own, and shows the worst of them.
RuntimeIsWell(m, a) ==
    /\ \A f \in Folders : m.runtimes[a].folders[f] \in Born(m) \cup {0}
    /\ \A f, g \in Folders :
           m.runtimes[a].folders[f] = m.runtimes[a].folders[g]
               => f = g \/ m.runtimes[a].folders[f] = 0
    /\ Shows(m.runtimes[a].aggregate, Sources(m.runtimes[a], a), m.state)

\* The watchers of an account reach its folders.
TargetsAreLive(m, a) == m.runtimes[a].targets = Live(m.runtimes[a])

\* The tray was given the controllers of the accounts that run, no two the same.
TrayIsWell(m) ==
    /\ \A a \in Accounts : m.sources[a] \subseteq Born(m) \cup {a}
    /\ \A a \in Accounts : a \notin Running(m) => m.sources[a] = {}
    /\ \A a, b \in Accounts : a # b => m.sources[a] \cap m.sources[b] = {}
    /\ Shows(m.tray, UNION {m.sources[a] : a \in Accounts}, m.state)

\* What every callback leaves behind.
IsWell(m) ==
    /\ m \in Managers /\ m.state \in [Born(m) \cup Accounts -> Marks]
    /\ \A a \in Running(m) : RuntimeIsWell(m, a) /\ TargetsAreLive(m, a)
    /\ TrayIsWell(m)

\* An account that runs has a runtime of its type.
LEMMA RunningFacts ==
  ASSUME NEW m \in Managers, NEW a \in Accounts
  PROVE  /\ a \in Running(m) <=> m.runtimes[a] \in Runtimes
         /\ a \notin Running(m) <=> m.runtimes[a] = Down
<1>1. \A r \in Runtimes : r # Down
  <2> TAKE r \in Runtimes
  <2>1. DOMAIN r = {"folders", "idle", "aggregate", "targets", "environment"} BY DEF Runtimes
  <2>2. DOMAIN Down = {"folders"} BY DEF Down
  <2> QED BY <2>1, <2>2
<1>2. m.runtimes[a] \in Runtimes \cup {Down} BY DEF Managers
<1> QED BY <1>1, <1>2 DEF Running

\* What a runtime listens to.
LEMMA SourcesFacts ==
  ASSUME NEW r \in Runtimes, NEW a \in Accounts
  PROVE  /\ Live(r) \subseteq Nat \ {0} /\ Sources(r, a) \subseteq Heard
         /\ Sources(r, a) \ {a} = Live(r) /\ (a \in Sources(r, a) <=> r.idle)
<1>1. \A f \in Folders : r.folders[f] \in Nat BY DEF Runtimes
<1>2. Live(r) \subseteq Nat \ {0} BY <1>1 DEF Live
<1>3. a \notin Nat BY AccountsAssumption
<1> QED BY <1>2, <1>3 DEF Sources, IdleController, Heard

\* What making folders for an account leaves as it was.
Grown(m, n, a) ==
    /\ n \in Managers /\ n.state \in [Born(n) \cup Accounts -> Marks]
    /\ Len(m.gate) <= Len(n.gate)
    /\ n.sources = m.sources /\ n.tray = m.tray
    /\ \A c \in Born(m) \cup Accounts : n.state[c] = m.state[c]
    /\ \A b \in Accounts \ {a} : n.runtimes[b] = m.runtimes[b]
    /\ n.runtimes[a] \in Runtimes
    /\ n.runtimes[a].idle = m.runtimes[a].idle
    /\ \A f \in Folders : n.runtimes[a].folders[f] \in {m.runtimes[a].folders[f], 0}
                          \/ n.runtimes[a].folders[f] > Len(m.gate)
    /\ RuntimeIsWell(n, a)

\* ensure_folder: the new controller is nobody else's.
LEMMA EnsureStep ==
  ASSUME NEW m \in Managers, NEW n, NEW a \in Accounts, NEW f \in Folders, Grown(m, n, a)
  PROVE  LET o == EnsureFolder(n, a, f) IN
         /\ Grown(m, o, a) /\ o.runtimes[a].folders[f] # 0
         /\ \A g \in Folders \ {f} : o.runtimes[a].folders[g] = n.runtimes[a].folders[g]
<1> DEFINE r == n.runtimes[a]
           o == EnsureFolder(n, a, f)
<1>1. CASE r.folders[f] # 0
  <2>1. o = n BY <1>1 DEF EnsureFolder
  <2> QED BY <1>1, <2>1
<1>2. CASE r.folders[f] = 0
  <2> DEFINE c == Len(n.gate) + 1
             gate == Append(n.gate, FreshGate)
             state == [d \in DOMAIN n.state \cup {c} |->
                          IF d = c THEN "idle_not_synced" ELSE n.state[d]]
             agg == Added(r.aggregate, c, state)
             new == [[r EXCEPT !.folders = [@ EXCEPT ![f] = c]] EXCEPT !.aggregate = agg]
  <2>1. /\ n \in Managers /\ n.state \in [Born(n) \cup Accounts -> Marks] /\ r \in Runtimes
        /\ n.gate \in Seq(Gated) /\ Len(n.gate) \in Nat /\ Len(m.gate) \in Nat /\ c \in Nat
        /\ Len(m.gate) < c /\ c \notin Born(n) /\ c \notin Accounts
    <3>1. n \in Managers /\ n.gate \in Seq(Gated) /\ m.gate \in Seq(Gated) BY DEF Grown, Managers
    <3>2. Len(n.gate) \in Nat /\ Len(m.gate) \in Nat BY <3>1
    <3>3. Len(m.gate) <= Len(n.gate) BY DEF Grown
    <3>4. c \in Nat /\ Len(m.gate) < c /\ c \notin 1..Len(n.gate) BY <3>2, <3>3
    <3>5. c \notin Accounts BY <3>4, AccountsAssumption
    <3> QED BY <3>1, <3>2, <3>4, <3>5 DEF Grown, Born
  <2>2. o = [[[n EXCEPT !.gate = gate] EXCEPT !.state = state]
               EXCEPT !.runtimes = [@ EXCEPT ![a] = new]]
    <3>1. DOMAIN n.runtimes = Accounts /\ DOMAIN n = {"runtimes", "sources", "tray", "state", "gate"}
      BY <2>1 DEF Managers
    <3>2. DOMAIN r = {"folders", "idle", "aggregate", "targets", "environment"}
      BY <2>1 DEF Runtimes
    <3> DEFINE fresh == [n EXCEPT !.gate = gate, !.state = state]
               runs == n.runtimes
    <3>3. o = [fresh EXCEPT !.runtimes[a].folders[f] = c,
                            !.runtimes[a].aggregate = Added(@, c, fresh.state)]
      BY <1>2 DEF EnsureFolder, NewFolder
    <3> HIDE DEF c, gate, state, o
    <3>4. /\ fresh = [[n EXCEPT !.gate = gate] EXCEPT !.state = state]
          /\ fresh.runtimes = runs /\ fresh.state = state
          /\ DOMAIN fresh = {"runtimes", "sources", "tray", "state", "gate"}
      BY <3>1
    <3> HIDE DEF fresh
    <3>5. o = [fresh EXCEPT !.runtimes = [[runs EXCEPT ![a].folders[f] = c]
                                             EXCEPT ![a].aggregate = Added(@, c, state)]]
      <4> DEFINE p == [fresh EXCEPT !.runtimes[a].folders[f] = c]
                 q == [runs EXCEPT ![a].folders[f] = c]
                 z == [q EXCEPT ![a].aggregate = Added(@, c, state)]
      <4>1. p = [fresh EXCEPT !.runtimes = q] BY <3>4
      <4>2. o = [p EXCEPT !.runtimes[a].aggregate = Added(@, c, state)] BY <3>3, <3>4
      <4>3. p.runtimes = q /\ DOMAIN p = DOMAIN fresh BY <3>4, <4>1
      <4> HIDE DEF p, q
      <4>4. o = [p EXCEPT !.runtimes = [q EXCEPT ![a].aggregate = Added(@, c, state)]]
        BY <4>2, <4>3
      <4>5. o = [fresh EXCEPT !.runtimes = z]
        <5>1. o = [p EXCEPT !.runtimes = z] BY <4>4
        <5> HIDE DEF z
        <5> QED BY <3>4, <4>1, <5>1
      <4> QED BY <4>5 DEF q
    <3>6. [[runs EXCEPT ![a].folders[f] = c] EXCEPT ![a].aggregate = Added(@, c, state)]
            = [runs EXCEPT ![a] = [[r EXCEPT !.folders = [@ EXCEPT ![f] = c]]
                                       EXCEPT !.aggregate = Added(@, c, state)]]
      BY <3>1, <3>2
    <3>7. new = [[r EXCEPT !.folders = [@ EXCEPT ![f] = c]] EXCEPT !.aggregate = Added(@, c, state)]
      BY <3>2
    <3> HIDE DEF new, agg
    <3> QED BY <3>4, <3>5, <3>6, <3>7
  <2> HIDE DEF c, gate, state, agg, new, o
  <2>3. /\ gate \in Seq(Gated) /\ Len(gate) = c
    <3>1. FreshGate \in Gated BY DEF FreshGate, Gated, Values
    <3> QED BY <2>1, <3>1 DEF gate, c
  <2>4. /\ state \in [(1..c) \cup Accounts -> Marks]
        /\ \A d \in Born(n) \cup Accounts : state[d] = n.state[d]
    <3>1. "idle_not_synced" \in Marks
      <4>1. DOMAIN Ranking = 1..13 /\ Ranking[3] = "idle_not_synced" BY DEF Ranking
      <4> QED BY <4>1 DEF Marks, Range
    <3>2. DOMAIN n.state \cup {c} = (1..c) \cup Accounts
      <4>1. (1..Len(n.gate)) \cup {c} = 1..c BY <2>1 DEF c
      <4>2. DOMAIN n.state = Born(n) \cup Accounts BY <2>1
      <4> QED BY <4>1, <4>2 DEF Born
    <3>3. \A d \in ((1..c) \cup Accounts) \ {c} : d \in Born(n) \cup Accounts /\ n.state[d] \in Marks
      BY <2>1, <3>2
    <3> QED BY <2>1, <3>1, <3>2, <3>3 DEF state
  <2>5. /\ new.folders = [r.folders EXCEPT ![f] = c] /\ new.aggregate = agg
        /\ new.idle = r.idle /\ new.targets = r.targets /\ new.environment = r.environment
    BY <2>1 DEF new, Runtimes
  <2>6. Live(new) = Live(r) \cup {c} /\ Sources(new, a) = Sources(r, a) \cup {c}
    <3>1. \A g \in Folders : new.folders[g] = IF g = f THEN c ELSE r.folders[g]
      BY <2>1, <2>5 DEF Runtimes
    <3>2. c # 0 BY <2>1
    <3>3. Live(new) = Live(r) \cup {c} BY <1>2, <3>1, <3>2 DEF Live
    <3> QED BY <2>5, <3>3 DEF Sources
  <2>7. Sources(r, a) \subseteq Born(n) \cup {a} /\ c \notin Sources(r, a)
    <3>1. Live(r) \subseteq Born(n) BY DEF Grown, RuntimeIsWell, Live
    <3> QED BY <2>1, <3>1 DEF Sources, IdleController
  <2>8. Shows(agg, Sources(new, a), state)
    <3>1. Holds(r.aggregate, Sources(r, a)) BY DEF Grown, RuntimeIsWell, Shows
    <3>2. Sources(r, a) \subseteq (1..c) \cup Accounts /\ c \in 1..c
      BY <2>1, <2>7 DEF Born, c
    <3>3. c \in Heard BY <2>1 DEF Heard
    <3>4. Shows(Added(r.aggregate, c, state), Sources(r, a) \cup {c}, state)
      BY <2>4, <2>7, <3>1, <3>2, <3>3, AddedShows
    <3> QED BY <2>6, <3>4 DEF agg
  <2>9. agg \in Aggregates BY <2>8 DEF Shows, Holds
  <2>10. new \in Runtimes BY <2>1, <2>5, <2>9 DEF new, Runtimes
  <2>11. /\ o \in Managers /\ o.gate = gate /\ o.state = state /\ o.sources = n.sources
         /\ o.tray = n.tray /\ o.runtimes = [n.runtimes EXCEPT ![a] = new]
    <3>1. state \in UNION {[(1..k) \cup Accounts -> Marks] : k \in Nat} BY <2>1, <2>4
    <3>2. [n.runtimes EXCEPT ![a] = new] \in [Accounts -> Runtimes \cup {Down}]
      BY <2>1, <2>10 DEF Managers
    <3> QED BY <2>1, <2>2, <2>3, <3>1, <3>2 DEF Managers
  <2>12. /\ o.runtimes[a] = new /\ \A b \in Accounts \ {a} : o.runtimes[b] = n.runtimes[b]
    BY <2>1, <2>11 DEF Managers
  <2>13. \A g \in Folders : o.runtimes[a].folders[g] = IF g = f THEN c ELSE r.folders[g]
    BY <2>1, <2>5, <2>12 DEF Runtimes
  <2>14. RuntimeIsWell(o, a)
    <3>1. Born(o) = 1..c BY <2>3, <2>11 DEF Born
    <3>2. Born(n) \subseteq 1..c /\ c \in 1..c BY <2>1 DEF Born, c
    <3>3. \A g \in Folders : r.folders[g] \in Born(n) \cup {0} BY DEF Grown, RuntimeIsWell
    <3>4. \A g \in Folders : o.runtimes[a].folders[g] \in Born(o) \cup {0}
      BY <2>13, <3>1, <3>2, <3>3
    <3>5. \A g, h \in Folders : r.folders[g] = r.folders[h] => g = h \/ r.folders[g] = 0
      BY DEF Grown, RuntimeIsWell
    <3>6. \A g \in Folders : r.folders[g] # c BY <2>1, <3>3
    <3>7. \A g, h \in Folders : o.runtimes[a].folders[g] = o.runtimes[a].folders[h]
                                   => g = h \/ o.runtimes[a].folders[g] = 0
      BY <2>13, <3>5, <3>6
    <3>8. Shows(o.runtimes[a].aggregate, Sources(o.runtimes[a], a), o.state)
      BY <2>5, <2>8, <2>11, <2>12
    <3> QED BY <3>4, <3>7, <3>8 DEF RuntimeIsWell
  <2>15. Grown(m, o, a)
    <3>1. Born(o) = 1..c /\ Len(o.gate) = c BY <2>3, <2>11 DEF Born
    <3>2. Born(m) \cup Accounts \subseteq Born(n) \cup Accounts BY <2>1 DEF Grown, Born
    <3>3. \A d \in Born(m) \cup Accounts : o.state[d] = m.state[d]
      BY <2>4, <2>11, <3>2 DEF Grown
    <3>4. \A g \in Folders : o.runtimes[a].folders[g] \in {m.runtimes[a].folders[g], 0}
                             \/ o.runtimes[a].folders[g] > Len(m.gate)
      BY <2>1, <2>13 DEF Grown
    <3> QED BY <2>1, <2>4, <2>5, <2>10, <2>11, <2>12, <2>14, <3>1, <3>3, <3>4 DEF Grown
  <2>16. o.runtimes[a].folders[f] # 0 BY <2>1, <2>13
  <2> QED BY <2>13, <2>15, <2>16 DEF o
<1> QED BY <1>1, <1>2

\* Some controllers leave an aggregate.
LEMMA AllRemovedShows ==
  ASSUME NEW agg, NEW cs, NEW D, NEW state \in [D -> Marks], cs \subseteq D,
         Shows(agg, cs, state), NEW ds, IsFiniteSet(ds)
  PROVE  Shows(AllRemoved(agg, ds, state), cs \ ds, state)
<1> DEFINE Fits == [s \in SUBSET ds |-> {x \in Aggregates : Shows(x, cs \ s, state)}]
<1>1. agg \in Fits[{}] BY DEF Shows, Holds
<1>2. \A s \in SUBSET ds : \A c \in s : \A x \in Fits[s \ {c}] : Removed(x, c, state) \in Fits[s]
  <2> TAKE s \in SUBSET ds
  <2> TAKE c \in s
  <2> TAKE x \in Fits[s \ {c}]
  <2>1. Shows(x, cs \ (s \ {c}), state) OBVIOUS
  <2>2. (cs \ (s \ {c})) \ {c} = cs \ s /\ cs \ (s \ {c}) \subseteq D OBVIOUS
  <2>3. Shows(Removed(x, c, state), (cs \ (s \ {c})) \ {c}, state) BY <2>1, <2>2, RemovedShows
  <2>4. Shows(Removed(x, c, state), cs \ s, state) BY <2>2, <2>3
  <2> QED BY <2>4 DEF Shows, Holds
<1>3. AllRemoved(agg, ds, state) \in Fits[ds]
  <2> HIDE DEF Fits
  <2> QED BY <1>1, <1>2, RemovedIn, Zenon
<1> QED BY <1>3

\* The tray is given some controllers.
LEMMA AllAddedShows ==
  ASSUME NEW agg, NEW cs, NEW D, NEW state \in [D -> Marks], cs \subseteq D,
         Shows(agg, cs, state), NEW ds, IsFiniteSet(ds), ds \subseteq D, ds \subseteq Heard,
         ds \cap cs = {}
  PROVE  Shows(AllAdded(agg, ds, state), cs \cup ds, state)
<1> DEFINE Fits == [s \in SUBSET ds |-> {x \in Aggregates : Shows(x, cs \cup s, state)}]
<1>1. agg \in Fits[{}] BY DEF Shows, Holds
<1>2. \A s \in SUBSET ds : \A c \in s : \A x \in Fits[s \ {c}] : Added(x, c, state) \in Fits[s]
  <2> TAKE s \in SUBSET ds
  <2> TAKE c \in s
  <2> TAKE x \in Fits[s \ {c}]
  <2> DEFINE es == cs \cup (s \ {c})
  <2>1. Holds(x, es) BY DEF Shows
  <2>2. es \cup {c} = cs \cup s /\ es \subseteq D /\ c \in D /\ c \in Heard /\ c \notin es OBVIOUS
  <2> HIDE DEF es
  <2>3. Shows(Added(x, c, state), es \cup {c}, state) BY <2>1, <2>2, AddedShows
  <2>4. Shows(Added(x, c, state), cs \cup s, state) BY <2>2, <2>3
  <2> QED BY <2>4 DEF Shows, Holds
<1>3. AllAdded(agg, ds, state) \in Fits[ds]
  <2> HIDE DEF Fits
  <2> QED BY <1>1, <1>2, AddedIn, Zenon
<1> QED BY <1>3

\* The folders that were stopped are heard no more.
LEMMA DropFacts ==
  ASSUME NEW m, IsWell(m), NEW a \in Running(m), NEW list
  PROVE  LET o == DropFolders(m, a, list) IN
         /\ Grown(m, o, a) /\ o.gate = m.gate
         /\ \A f \in Folders \ Range(list) : o.runtimes[a].folders[f] = 0
<1> DEFINE r == m.runtimes[a]
           gone == {f \in Folders \ Range(list) : r.folders[f] # 0}
           stopped == {r.folders[f] : f \in gone}
           folders == [f \in Folders |-> IF f \in gone THEN 0 ELSE r.folders[f]]
           agg == AllRemoved(r.aggregate, stopped, m.state)
           new == [[r EXCEPT !.folders = folders] EXCEPT !.aggregate = agg]
           o == DropFolders(m, a, list)
<1>1. /\ m \in Managers /\ a \in Accounts /\ r \in Runtimes /\ RuntimeIsWell(m, a)
      /\ m.state \in [Born(m) \cup Accounts -> Marks]
  BY RunningFacts DEF IsWell, Running
<1>2. /\ stopped \subseteq Born(m) /\ IsFiniteSet(stopped)
  <2>1. stopped \subseteq Born(m) BY <1>1 DEF RuntimeIsWell
  <2>2. m.gate \in Seq(Gated) /\ Len(m.gate) \in Nat BY <1>1 DEF Managers
  <2>3. IsFiniteSet(Born(m)) BY <2>2, FS_Interval DEF Born
  <2> HIDE DEF stopped
  <2> QED BY <2>1, <2>3, FS_Subset
<1>3. Shows(agg, Sources(r, a) \ stopped, m.state)
  <2>1. Shows(r.aggregate, Sources(r, a), m.state) BY <1>1 DEF RuntimeIsWell
  <2>2. Sources(r, a) \subseteq Born(m) \cup Accounts
    BY <1>1 DEF RuntimeIsWell, Sources, Live, IdleController
  <2> HIDE DEF stopped, r
  <2> QED BY <1>1, <1>2, <2>1, <2>2, AllRemovedShows DEF agg
<1>4. o = [m EXCEPT !.runtimes = [@ EXCEPT ![a] = new]]
  <2> DEFINE runs == m.runtimes
             p == [m EXCEPT !.runtimes[a].folders = folders]
             q == [runs EXCEPT ![a].folders = folders]
             z == [q EXCEPT ![a].aggregate = AllRemoved(@, stopped, m.state)]
  <2>1. /\ DOMAIN runs = Accounts /\ DOMAIN m = {"runtimes", "sources", "tray", "state", "gate"}
        /\ DOMAIN r = {"folders", "idle", "aggregate", "targets", "environment"}
    BY <1>1 DEF Managers, Runtimes
  <2>2. o = [m EXCEPT !.runtimes[a].folders = [f \in Folders |-> IF f \in gone THEN 0 ELSE @[f]],
                      !.runtimes[a].aggregate = AllRemoved(@, stopped, m.state)]
    BY DEF DropFolders
  <2>3. [f \in Folders |-> IF f \in gone THEN 0 ELSE m.runtimes[a].folders[f]] = folders OBVIOUS
  <2> HIDE DEF gone, stopped, folders, o, agg
  <2>4. p = [m EXCEPT !.runtimes = q] BY <2>1
  <2>5. o = [p EXCEPT !.runtimes[a].aggregate = AllRemoved(@, stopped, m.state)] BY <2>2, <2>3
  <2>6. p.runtimes = q /\ DOMAIN p = DOMAIN m BY <2>1, <2>4
  <2> HIDE DEF p, q
  <2>7. o = [p EXCEPT !.runtimes = z] BY <2>5, <2>6
  <2>8. o = [m EXCEPT !.runtimes = z]
    <3> HIDE DEF z
    <3> QED BY <2>1, <2>4, <2>7
  <2>9. z = [runs EXCEPT ![a] = new] BY <1>1, <2>1 DEF q, agg
  <2> QED BY <2>8, <2>9
<1> HIDE DEF folders, agg, o
<1>5. /\ new.folders = folders /\ new.aggregate = agg /\ new.idle = r.idle
      /\ folders \in [Folders -> Nat] /\ new \in Runtimes
  <2>1. folders \in [Folders -> Nat] BY <1>1 DEF folders, Runtimes
  <2>2. agg \in Aggregates BY <1>3 DEF Shows, Holds
  <2> QED BY <1>1, <2>1, <2>2 DEF Runtimes
<1> HIDE DEF new
<1>6. /\ o \in Managers /\ o.gate = m.gate /\ o.state = m.state /\ o.sources = m.sources
      /\ o.tray = m.tray /\ o.runtimes[a] = new
      /\ \A b \in Accounts \ {a} : o.runtimes[b] = m.runtimes[b]
  <2>1. [m.runtimes EXCEPT ![a] = new] \in [Accounts -> Runtimes \cup {Down}]
    BY <1>1, <1>5 DEF Managers
  <2> QED BY <1>1, <1>4, <2>1 DEF Managers
<1>7. Sources(new, a) = Sources(r, a) \ stopped
  <2>1. Live(new) = Live(r) \ stopped
    <3>1. \A f \in Folders : folders[f] = IF f \in gone THEN 0 ELSE r.folders[f] BY DEF folders
    <3>2. \A f, g \in Folders : r.folders[f] = r.folders[g] => f = g \/ r.folders[f] = 0
      BY <1>1 DEF RuntimeIsWell
    <3>3. \A f \in Folders : r.folders[f] # 0 => (f \in gone <=> r.folders[f] \in stopped)
      BY <3>2
    <3>4. \A x \in Live(new) : x \in Live(r) \ stopped BY <1>5, <3>1, <3>3 DEF Live
    <3>5. \A x \in Live(r) \ stopped : x \in Live(new)
      <4> TAKE x \in Live(r) \ stopped
      <4>1. PICK f \in Folders : x = r.folders[f] /\ x # 0 BY DEF Live
      <4>2. new.folders[f] = x BY <1>5, <3>1, <3>3, <4>1
      <4> QED BY <4>1, <4>2 DEF Live
    <3> QED BY <3>4, <3>5
  <2>2. a \notin stopped
    <3>1. stopped \subseteq Nat BY <1>2 DEF Born
    <3> QED BY <1>1, <3>1, AccountsAssumption
  <2> QED BY <1>5, <2>1, <2>2 DEF Sources, IdleController
<1>8. \A f \in Folders : new.folders[f] \in {r.folders[f], 0} BY <1>5 DEF folders
<1>9. RuntimeIsWell(o, a)
  <2>1. Born(o) = Born(m) BY <1>6 DEF Born
  <2>2. \A f \in Folders : new.folders[f] \in Born(m) \cup {0} BY <1>1, <1>8 DEF RuntimeIsWell
  <2>3. \A f, g \in Folders : new.folders[f] = new.folders[g] => f = g \/ new.folders[f] = 0
    BY <1>1, <1>8 DEF RuntimeIsWell
  <2>4. Shows(new.aggregate, Sources(new, a), m.state) BY <1>3, <1>5, <1>7
  <2> QED BY <1>6, <2>1, <2>2, <2>3, <2>4 DEF RuntimeIsWell
<1>10. Grown(m, o, a)
  <2>1. Born(o) = Born(m) /\ Len(m.gate) <= Len(o.gate)
    <3>1. m.gate \in Seq(Gated) BY <1>1 DEF Managers
    <3>2. Len(m.gate) \in Nat BY <3>1
    <3> QED BY <1>6, <3>2 DEF Born
  <2> QED BY <1>1, <1>5, <1>6, <1>8, <1>9, <2>1 DEF Grown
<1>11. \A f \in Folders \ Range(list) : new.folders[f] = 0 BY <1>5 DEF folders
<1> QED BY <1>6, <1>10, <1>11 DEF o

\* Whoever grew from what grew has grown: sync_folders as a whole.
LEMMA EnsureFoldersFacts ==
  ASSUME NEW m \in Managers, NEW d, NEW a \in Accounts, NEW list \in Seq(Folders), Grown(m, d, a),
         \A f \in Folders \ Range(list) : d.runtimes[a].folders[f] = 0
  PROVE  LET o == EnsureFolders(d, a, list) IN
         /\ Grown(m, o, a)
         /\ \A f \in Range(list) : o.runtimes[a].folders[f] # 0
         /\ \A f \in Folders \ Range(list) : o.runtimes[a].folders[f] = 0
<1> DEFINE n == Len(list)
           Fine(x, s) == /\ Grown(m, x, a)
                         /\ \A i \in s : x.runtimes[a].folders[list[i]] # 0
                         /\ \A f \in Folders \ Range(list) : x.runtimes[a].folders[f] = 0
           Fits == [s \in SUBSET (1..n) |-> {x \in Managers : Fine(x, s)}]
<1>1. /\ n \in Nat /\ DOMAIN list = 1..n
      /\ \A i \in 1..n : list[i] \in Folders /\ list[i] \in Range(list)
  BY DEF Range
<1>2. d \in Fits[{}] BY DEF Grown
<1>3. \A s \in SUBSET (1..n) : \A i \in s : \A x \in Fits[s \ {i}] :
         EnsureFolder(x, a, list[i]) \in Fits[s]
  <2> TAKE s \in SUBSET (1..n)
  <2> TAKE i \in s
  <2> TAKE x \in Fits[s \ {i}]
  <2> DEFINE o == EnsureFolder(x, a, list[i])
  <2>1. Fine(x, s \ {i}) OBVIOUS
  <2>2. list[i] \in Folders /\ list[i] \in Range(list) BY <1>1
  <2>3. /\ Grown(m, o, a) /\ o.runtimes[a].folders[list[i]] # 0
        /\ \A g \in Folders \ {list[i]} : o.runtimes[a].folders[g] = x.runtimes[a].folders[g]
    <3>1. Grown(m, x, a) BY <2>1
    <3> HIDE DEF Fits, Fine, n
    <3> QED BY <2>2, <3>1, EnsureStep
  <2> HIDE DEF o
  <2>4. \A j \in s : o.runtimes[a].folders[list[j]] # 0
    <3> TAKE j \in s
    <3>1. list[j] \in Folders BY <1>1
    <3>2. CASE list[j] = list[i] BY <2>3, <3>2
    <3>3. CASE list[j] # list[i] BY <2>1, <2>3, <3>1, <3>3
    <3> QED BY <3>2, <3>3
  <2>5. \A f \in Folders \ Range(list) : o.runtimes[a].folders[f] = 0 BY <2>1, <2>2, <2>3
  <2>6. o \in Managers BY <2>3 DEF Grown
  <2> HIDE DEF n
  <2> QED BY <2>3, <2>4, <2>5, <2>6 DEF o
<1>4. EnsureFolders(d, a, list) \in Fits[1..n]
  <2> HIDE DEF Fits, n
  <2> QED BY <1>1, <1>2, <1>3, EnsuredIn
<1> DEFINE o == EnsureFolders(d, a, list)
<1> HIDE DEF o
<1>5. Fine(o, 1..n) BY <1>4 DEF o
<1>6. \A f \in Range(list) : o.runtimes[a].folders[f] # 0 BY <1>1, <1>5 DEF Range
<1> QED BY <1>5, <1>6 DEF o

\* sync_folders: the account's folders are those it was told, each with a live
\* scheduler, and the watchers know them all.
LEMMA SyncFoldersFacts ==
  ASSUME NEW m, IsWell(m), NEW a \in Running(m), NEW list \in Seq(Folders)
  PROVE  LET o == SyncFolders(m, a, list) IN Grown(m, o, a) /\ TargetsAreLive(o, a)
<1> DEFINE d == DropFolders(m, a, list)
           e == EnsureFolders(d, a, list)
           targets == {e.runtimes[a].folders[f] : f \in Range(list)}
           o == SyncFolders(m, a, list)
<1>1. m \in Managers /\ a \in Accounts BY DEF IsWell, Running
<1>2. Grown(m, d, a) /\ \A f \in Folders \ Range(list) : d.runtimes[a].folders[f] = 0 BY DropFacts
<1> HIDE DEF d
<1>3. /\ Grown(m, e, a)
      /\ \A f \in Range(list) : e.runtimes[a].folders[f] # 0
      /\ \A f \in Folders \ Range(list) : e.runtimes[a].folders[f] = 0
  BY <1>1, <1>2, EnsureFoldersFacts
<1> HIDE DEF e
<1> DEFINE r == e.runtimes[a]
           new == [r EXCEPT !.targets = targets]
<1>4. Range(list) \subseteq Folders BY DEF Range
<1>5. Live(r) = targets BY <1>3, <1>4 DEF Live
<1>6. e \in Managers /\ r \in Runtimes BY <1>3 DEF Grown
<1>7. targets \in SUBSET Nat
  <2> HIDE DEF r, targets
  <2>1. Live(r) \subseteq Nat BY <1>1, <1>6, SourcesFacts
  <2> QED BY <1>5, <2>1
<1>8. o = [e EXCEPT !.runtimes = [@ EXCEPT ![a] = new]]
  <2>1. o = SyncTargets(e, a, list) BY DEF SyncFolders, e, d
  <2>2. o = [e EXCEPT !.runtimes[a].targets = targets] BY <2>1 DEF SyncTargets
  <2>3. DOMAIN e.runtimes = Accounts /\ DOMAIN e = {"runtimes", "sources", "tray", "state", "gate"}
    BY <1>6 DEF Managers
  <2> HIDE DEF targets, o
  <2> QED BY <1>1, <2>2, <2>3
<1> HIDE DEF o, targets
<1>9. /\ new \in Runtimes /\ new.folders = r.folders /\ new.aggregate = r.aggregate
      /\ new.idle = r.idle /\ new.targets = targets
  BY <1>6, <1>7 DEF Runtimes
<1> HIDE DEF new
<1>10. /\ o \in Managers /\ o.gate = e.gate /\ o.state = e.state /\ o.sources = e.sources
       /\ o.tray = e.tray /\ o.runtimes[a] = new
       /\ \A b \in Accounts \ {a} : o.runtimes[b] = e.runtimes[b]
  <2>1. [e.runtimes EXCEPT ![a] = new] \in [Accounts -> Runtimes \cup {Down}]
    BY <1>6, <1>9 DEF Managers
  <2> QED BY <1>1, <1>6, <1>8, <2>1 DEF Managers
<1>11. Live(new) = Live(r) /\ Sources(new, a) = Sources(r, a) BY <1>9 DEF Live, Sources
<1>12. RuntimeIsWell(o, a)
  <2>1. RuntimeIsWell(e, a) BY <1>3 DEF Grown
  <2> QED BY <1>9, <1>10, <1>11, <2>1 DEF RuntimeIsWell, Born
<1>13. Grown(m, o, a)
  <2>1. Born(o) = Born(e) BY <1>10 DEF Born
  <2> QED BY <1>3, <1>9, <1>10, <1>12, <2>1 DEF Grown
<1>14. TargetsAreLive(o, a) BY <1>5, <1>9, <1>10, <1>11 DEF TargetsAreLive
<1> QED BY <1>13, <1>14 DEF o

\* What an account listens to is born, or is its own idle controller.
LEMMA SourcesAreBorn ==
  ASSUME NEW m \in Managers, NEW a \in Accounts, RuntimeIsWell(m, a)
  PROVE  Sources(m.runtimes[a], a) \subseteq Born(m) \cup {a}
BY DEF RuntimeIsWell, Sources, Live, IdleController

\* What the tray listens to is known.
LEMMA HeardIsKnown ==
  ASSUME NEW m, IsWell(m)
  PROVE  UNION {m.sources[a] : a \in Accounts} \subseteq Born(m) \cup Accounts
BY DEF IsWell, TrayIsWell

\* An account whose folders grew leaves everything well.
LEMMA GrownIsWell ==
  ASSUME NEW m, IsWell(m), NEW a \in Running(m), NEW o, Grown(m, o, a), TargetsAreLive(o, a)
  PROVE  IsWell(o) /\ Running(o) = Running(m)
<1>1. /\ m \in Managers /\ o \in Managers /\ a \in Accounts
      /\ o.state \in [Born(o) \cup Accounts -> Marks]
  BY DEF IsWell, Grown, Running
<1>2. Born(m) \subseteq Born(o)
  <2>1. m.gate \in Seq(Gated) /\ o.gate \in Seq(Gated) BY <1>1 DEF Managers
  <2>2. Len(m.gate) \in Nat /\ Len(o.gate) \in Nat BY <2>1
  <2>3. Len(m.gate) <= Len(o.gate) BY DEF Grown
  <2> QED BY <2>2, <2>3 DEF Born
<1>3. \A c \in Born(m) \cup Accounts : o.state[c] = m.state[c] BY DEF Grown
<1>4. \A b \in Accounts \ {a} : o.runtimes[b] = m.runtimes[b] BY DEF Grown
<1>5. Running(o) = Running(m)
  <2>1. a \in Running(o) BY <1>1, RunningFacts DEF Grown
  <2>2. \A b \in Accounts \ {a} : b \in Running(o) <=> b \in Running(m) BY <1>4 DEF Running
  <2> QED BY <2>1, <2>2 DEF Running
<1>6. ASSUME NEW b \in Running(o) PROVE RuntimeIsWell(o, b) /\ TargetsAreLive(o, b)
  <2>1. CASE b = a BY <2>1 DEF Grown
  <2>2. CASE b # a
    <3>1. b \in Accounts /\ o.runtimes[b] = m.runtimes[b] BY <1>4, <2>2 DEF Running
    <3>2. RuntimeIsWell(m, b) /\ TargetsAreLive(m, b) BY <1>5, <1>6 DEF IsWell
    <3> DEFINE r == m.runtimes[b]
               cs == Sources(r, b)
    <3>3. cs \subseteq Born(m) \cup {b} BY <1>1, <3>1, <3>2, SourcesAreBorn
    <3>4. Shows(r.aggregate, cs, m.state) BY <3>2 DEF RuntimeIsWell
    <3> HIDE DEF cs
    <3>5. \A c \in cs : o.state[c] = m.state[c] BY <1>3, <3>1, <3>3
    <3>6. Shows(r.aggregate, cs, o.state) BY <3>4, <3>5, ShowsLater
    <3>7. RuntimeIsWell(o, b) BY <1>2, <3>1, <3>2, <3>6 DEF RuntimeIsWell, cs
    <3>8. TargetsAreLive(o, b) BY <3>1, <3>2 DEF TargetsAreLive
    <3> QED BY <3>7, <3>8
  <2> QED BY <2>1, <2>2
<1>7. TrayIsWell(o)
  <2> DEFINE cs == UNION {m.sources[b] : b \in Accounts}
  <2>1. cs \subseteq Born(m) \cup Accounts BY HeardIsKnown
  <2>2. o.sources = m.sources /\ o.tray = m.tray /\ TrayIsWell(m) BY DEF Grown, IsWell
  <2>3. Shows(m.tray, cs, m.state) BY <2>2 DEF TrayIsWell
  <2>4. \A b \in Accounts : o.sources[b] \subseteq Born(o) \cup {b}
    BY <1>2, <2>2 DEF TrayIsWell
  <2> HIDE DEF cs
  <2>5. \A c \in cs : o.state[c] = m.state[c] BY <1>3, <2>1
  <2>6. Shows(m.tray, cs, o.state) BY <2>3, <2>5, ShowsLater
  <2> QED BY <1>5, <2>2, <2>4, <2>6 DEF TrayIsWell, cs
<1> QED BY <1>1, <1>5, <1>6, <1>7 DEF IsWell

\* The same folders run and are listened to: only what their gates hold may differ.
SameFolders(m, o) ==
    /\ Running(o) = Running(m)
    /\ \A a \in Running(m) : /\ o.runtimes[a].folders = m.runtimes[a].folders
                             /\ o.runtimes[a].idle = m.runtimes[a].idle

\* The gates of the accounts say something else.
LEMMA GateIsWell ==
  ASSUME NEW m, IsWell(m), NEW gate \in Seq(Gated), Len(gate) = Len(m.gate),
         NEW o, o = [m EXCEPT !.gate = gate]
  PROVE  /\ IsWell(o) /\ o.gate = gate /\ o.runtimes = m.runtimes /\ o.state = m.state
         /\ o.sources = m.sources /\ o.tray = m.tray /\ SameFolders(m, o)
<1>1. m \in Managers BY DEF IsWell
<1>2. /\ o \in Managers /\ o.gate = gate /\ o.runtimes = m.runtimes /\ o.state = m.state
      /\ o.sources = m.sources /\ o.tray = m.tray
  BY <1>1 DEF Managers
<1>3. Born(o) = Born(m) /\ Running(o) = Running(m) BY <1>2 DEF Born, Running
<1>4. \A a \in Running(m) : RuntimeIsWell(o, a) /\ TargetsAreLive(o, a)
  BY <1>2, <1>3 DEF IsWell, RuntimeIsWell, TargetsAreLive
<1>5. TrayIsWell(o) BY <1>2, <1>3 DEF IsWell, TrayIsWell
<1>6. SameFolders(m, o) BY <1>2, <1>3 DEF SameFolders
<1> QED BY <1>2, <1>3, <1>4, <1>5, <1>6 DEF IsWell

\* Every gate holds on, but the account's folders hear of the environment.
LEMMA ApplyEnvironmentFacts ==
  ASSUME NEW m, IsWell(m), NEW a \in Running(m)
  PROVE  LET o == ApplyEnvironment(m, a) IN
         /\ IsWell(o) /\ SameFolders(m, o) /\ o.runtimes = m.runtimes /\ o.state = m.state
         /\ o.sources = m.sources /\ o.tray = m.tray /\ Len(o.gate) = Len(m.gate)
         /\ \A c \in Born(m) : o.gate[c].environment =
                IF c \in Live(m.runtimes[a]) THEN m.runtimes[a].environment
                ELSE m.gate[c].environment
         /\ \A c \in Born(m) : o.gate[c].online = m.gate[c].online
<1> DEFINE v == m.runtimes[a].environment
           live == Live(m.runtimes[a])
           gate == [c \in DOMAIN m.gate |->
                       IF c \notin live THEN m.gate[c] ELSE [m.gate[c] EXCEPT !.environment = v]]
           o == ApplyEnvironment(m, a)
<1>1. m \in Managers /\ a \in Accounts /\ m.runtimes[a] \in Runtimes /\ v \in Values
  <2>1. m \in Managers /\ a \in Accounts BY DEF IsWell, Running
  <2>2. m.runtimes[a] \in Runtimes BY <2>1, RunningFacts
  <2> QED BY <2>1, <2>2 DEF Runtimes
<1>2. Targets(m, a) = live BY DEF IsWell, TargetsAreLive, Targets
<1>3. o = [m EXCEPT !.gate = gate]
  <2> HIDE DEF live, v
  <2> QED BY <1>1, <1>2 DEF ApplyEnvironment, Managers, v
<1>4. m.gate \in Seq(Gated) /\ DOMAIN m.gate = Born(m) BY <1>1 DEF Managers, Born
<1> HIDE DEF live, v
<1>5. \A c \in Born(m) : /\ gate[c] \in Gated /\ gate[c].online = m.gate[c].online
                         /\ gate[c].environment = IF c \in live THEN v ELSE m.gate[c].environment
  <2> TAKE c \in Born(m)
  <2>1. m.gate[c] \in Gated BY <1>4
  <2>2. gate[c] = IF c \notin live THEN m.gate[c] ELSE [m.gate[c] EXCEPT !.environment = v]
    BY <1>4
  <2> HIDE DEF gate
  <2> QED BY <1>1, <2>1, <2>2 DEF Gated
<1>6. gate \in Seq(Gated) /\ Len(gate) = Len(m.gate)
  <2>1. Len(m.gate) \in Nat BY <1>4
  <2>2. DOMAIN gate = 1..Len(m.gate) BY <1>4 DEF Born
  <2> HIDE DEF gate
  <2>3. gate = [c \in 1..Len(m.gate) |-> gate[c]]
    <3>1. gate = [c \in DOMAIN gate |-> gate[c]] BY DEF gate
    <3> QED BY <2>2, <3>1
  <2>4. gate \in [1..Len(m.gate) -> Gated] BY <1>5, <2>3 DEF Born
  <2> QED BY <2>1, <2>4
<1> HIDE DEF gate, o
<1>7. /\ IsWell(o) /\ o.gate = gate /\ o.runtimes = m.runtimes /\ o.state = m.state
      /\ o.sources = m.sources /\ o.tray = m.tray /\ SameFolders(m, o)
  BY <1>3, <1>6, GateIsWell
<1> QED BY <1>5, <1>6, <1>7 DEF o, v, live

\* And of the network.
LEMMA ApplyOnlineFacts ==
  ASSUME NEW m, IsWell(m), NEW a \in Running(m), NEW online \in BOOLEAN
  PROVE  LET o == ApplyOnline(m, a, online) IN
         /\ IsWell(o) /\ SameFolders(m, o) /\ o.runtimes = m.runtimes /\ o.state = m.state
         /\ o.sources = m.sources /\ o.tray = m.tray /\ Len(o.gate) = Len(m.gate)
         /\ \A c \in Born(m) : o.gate[c].online =
                IF c \in Live(m.runtimes[a]) THEN online ELSE m.gate[c].online
<1> DEFINE live == Live(m.runtimes[a])
           gate == [c \in DOMAIN m.gate |->
                       IF c \notin live THEN m.gate[c] ELSE [m.gate[c] EXCEPT !.online = online]]
           n == [m EXCEPT !.gate = gate]
           o == ApplyOnline(m, a, online)
<1>1. m \in Managers /\ a \in Accounts BY DEF IsWell, Running
<1>2. Targets(m, a) = live BY DEF IsWell, TargetsAreLive, Targets
<1>3. o = ApplyEnvironment(n, a)
  <2> HIDE DEF live
  <2> QED BY <1>1, <1>2 DEF ApplyOnline, Managers
<1>4. m.gate \in Seq(Gated) /\ DOMAIN m.gate = Born(m) BY <1>1 DEF Managers, Born
<1> HIDE DEF live
<1>5. \A c \in Born(m) : /\ gate[c] \in Gated
                         /\ gate[c].online = IF c \in live THEN online ELSE m.gate[c].online
  <2> TAKE c \in Born(m)
  <2>1. m.gate[c] \in Gated BY <1>4
  <2>2. gate[c] = IF c \notin live THEN m.gate[c] ELSE [m.gate[c] EXCEPT !.online = online]
    BY <1>4
  <2> HIDE DEF gate
  <2> QED BY <2>1, <2>2 DEF Gated
<1>6. gate \in Seq(Gated) /\ Len(gate) = Len(m.gate)
  <2>1. Len(m.gate) \in Nat BY <1>4
  <2>2. DOMAIN gate = 1..Len(m.gate) BY <1>4 DEF Born
  <2> HIDE DEF gate
  <2>3. gate = [c \in 1..Len(m.gate) |-> gate[c]]
    <3>1. gate = [c \in DOMAIN gate |-> gate[c]] BY DEF gate
    <3> QED BY <2>2, <3>1
  <2>4. gate \in [1..Len(m.gate) -> Gated] BY <1>5, <2>3 DEF Born
  <2> QED BY <2>1, <2>4
<1> HIDE DEF gate
<1>7. /\ IsWell(n) /\ n.gate = gate /\ n.runtimes = m.runtimes /\ n.state = m.state
      /\ n.sources = m.sources /\ n.tray = m.tray /\ SameFolders(m, n)
  BY <1>6, GateIsWell
<1> HIDE DEF n, o
<1>8. Born(n) = Born(m) /\ a \in Running(n) BY <1>6, <1>7 DEF Born, SameFolders
<1>9. /\ IsWell(o) /\ SameFolders(n, o) /\ o.runtimes = n.runtimes /\ o.state = n.state
      /\ o.sources = n.sources /\ o.tray = n.tray /\ Len(o.gate) = Len(n.gate)
      /\ \A c \in Born(n) : o.gate[c].online = n.gate[c].online
  BY <1>3, <1>7, <1>8, ApplyEnvironmentFacts
<1>10. SameFolders(m, o) BY <1>7, <1>9 DEF SameFolders
<1> QED BY <1>5, <1>6, <1>7, <1>8, <1>9, <1>10 DEF o, live

\* What runs is a finite number of accounts, each listening to what was born.
LEMMA RunningIsFinite ==
  ASSUME NEW m, IsWell(m)
  PROVE  /\ IsFiniteSet(Running(m)) /\ Running(m) \subseteq Accounts
         /\ \A a \in Running(m) : Live(m.runtimes[a]) \subseteq Born(m)
<1>1. IsFiniteSet(Running(m)) /\ Running(m) \subseteq Accounts
  <2>1. Running(m) \subseteq Accounts BY DEF Running
  <2> QED BY <2>1, AccountsAssumption, FS_Subset
<1>2. \A a \in Running(m) : Live(m.runtimes[a]) \subseteq Born(m)
  BY DEF IsWell, RuntimeIsWell, Live
<1> QED BY <1>1, <1>2

\* The environment that an account is given reaches the gates of its folders.
LEMMA SetEnvironmentFacts ==
  ASSUME NEW m, IsWell(m), NEW a \in Running(m), NEW values \in Environments
  PROVE  LET o == SetEnvironment(m, a, values) IN
         /\ IsWell(o) /\ SameFolders(m, o) /\ Len(o.gate) = Len(m.gate)
         /\ \A c \in Born(m) : o.gate[c].environment =
                IF c \in Live(m.runtimes[a]) THEN values ELSE m.gate[c].environment
<1> DEFINE r == m.runtimes[a]
           new == [r EXCEPT !.environment = values]
           n == [m EXCEPT !.runtimes = [@ EXCEPT ![a] = new]]
           o == SetEnvironment(m, a, values)
<1>1. m \in Managers /\ a \in Accounts /\ r \in Runtimes
  <2>1. m \in Managers /\ a \in Accounts BY DEF IsWell, Running
  <2> QED BY <2>1, RunningFacts
<1>2. o = ApplyEnvironment(n, a)
  <2>1. DOMAIN m.runtimes = Accounts /\ DOMAIN m = {"runtimes", "sources", "tray", "state", "gate"}
    BY <1>1 DEF Managers
  <2>2. [m EXCEPT !.runtimes[a].environment = values] = n BY <1>1, <2>1
  <2> HIDE DEF n
  <2> QED BY <2>2 DEF SetEnvironment
<1>3. /\ new \in Runtimes /\ new.folders = r.folders /\ new.aggregate = r.aggregate
      /\ new.idle = r.idle /\ new.targets = r.targets /\ new.environment = values
  BY <1>1 DEF Runtimes, Values
<1> HIDE DEF new
<1>4. /\ n \in Managers /\ n.gate = m.gate /\ n.state = m.state /\ n.sources = m.sources
      /\ n.tray = m.tray /\ n.runtimes[a] = new
      /\ \A b \in Accounts \ {a} : n.runtimes[b] = m.runtimes[b]
  <2>1. [m.runtimes EXCEPT ![a] = new] \in [Accounts -> Runtimes \cup {Down}]
    BY <1>1, <1>3 DEF Managers
  <2> QED BY <1>1, <2>1 DEF Managers
<1> HIDE DEF n
<1>5. Running(n) = Running(m)
  <2>1. a \in Running(n) BY <1>1, <1>3, <1>4, RunningFacts
  <2>2. \A b \in Accounts \ {a} : b \in Running(n) <=> b \in Running(m) BY <1>4 DEF Running
  <2> QED BY <2>1, <2>2 DEF Running
<1>6. SameFolders(m, n)
  <2> SUFFICES ASSUME NEW b \in Running(m)
               PROVE  n.runtimes[b].folders = m.runtimes[b].folders
                      /\ n.runtimes[b].idle = m.runtimes[b].idle
    BY <1>5 DEF SameFolders
  <2>1. CASE b = a BY <1>3, <1>4, <2>1
  <2>2. CASE b # a BY <1>4, <2>2 DEF Running
  <2> QED BY <2>1, <2>2
<1>7. Born(n) = Born(m) BY <1>4 DEF Born
<1>8. Live(new) = Live(r) /\ Sources(new, a) = Sources(r, a) BY <1>3 DEF Live, Sources
<1>9. RuntimeIsWell(n, a) /\ TargetsAreLive(n, a)
  <2>1. RuntimeIsWell(m, a) /\ TargetsAreLive(m, a) BY DEF IsWell
  <2>2. RuntimeIsWell(n, a) BY <1>3, <1>4, <1>7, <1>8, <2>1 DEF RuntimeIsWell
  <2> QED BY <1>3, <1>4, <1>8, <2>1, <2>2 DEF TargetsAreLive
<1>10. ASSUME NEW b \in Running(n) \ {a} PROVE RuntimeIsWell(n, b) /\ TargetsAreLive(n, b)
  <2>1. b \in Running(m) /\ n.runtimes[b] = m.runtimes[b] BY <1>4, <1>5 DEF Running
  <2>2. RuntimeIsWell(m, b) /\ TargetsAreLive(m, b) BY <2>1 DEF IsWell
  <2>3. RuntimeIsWell(n, b) BY <1>4, <1>7, <2>1, <2>2 DEF RuntimeIsWell
  <2> QED BY <2>1, <2>2, <2>3 DEF TargetsAreLive
<1>11. IsWell(n)
  <2>1. TrayIsWell(n) BY <1>4, <1>5, <1>7 DEF IsWell, TrayIsWell
  <2>2. n.state \in [Born(n) \cup Accounts -> Marks] BY <1>4, <1>7 DEF IsWell
  <2> QED BY <1>4, <1>9, <1>10, <2>1, <2>2 DEF IsWell
<1> HIDE DEF o
<1>12. /\ IsWell(o) /\ SameFolders(n, o) /\ Len(o.gate) = Len(n.gate)
       /\ \A c \in Born(n) : o.gate[c].environment =
                IF c \in Live(n.runtimes[a]) THEN n.runtimes[a].environment
                ELSE n.gate[c].environment
  BY <1>2, <1>5, <1>11, ApplyEnvironmentFacts
<1>13. SameFolders(m, o) BY <1>6, <1>12 DEF SameFolders
<1> QED BY <1>3, <1>4, <1>7, <1>8, <1>12, <1>13 DEF o

\* The same folders, the same numbers.
LEMMA SameIsTransitive ==
  ASSUME NEW m, NEW n, NEW o, SameFolders(m, n), SameFolders(n, o)
  PROVE  SameFolders(m, o)
BY DEF SameFolders

\* They live under the same numbers.
LEMMA SameLive ==
  ASSUME NEW m, NEW n, SameFolders(m, n), NEW a \in Running(m)
  PROVE  /\ a \in Running(n) /\ Live(n.runtimes[a]) = Live(m.runtimes[a])
         /\ Sources(n.runtimes[a], a) = Sources(m.runtimes[a], a)
BY DEF SameFolders, Live, Sources

\* AccountManager::apply_environment reaches every folder.
LEMMA EnvironmentReaches ==
  ASSUME NEW m, IsWell(m), NEW values \in Environments
  PROVE  LET o == EnvironmentEverywhere(m, values) IN
         /\ IsWell(o) /\ SameFolders(m, o)
         /\ \A a \in Running(m) : \A c \in Live(m.runtimes[a]) : o.gate[c].environment = values
<1> DEFINE S == Running(m)
           Fine(x, s) == /\ IsWell(x) /\ SameFolders(m, x) /\ Len(x.gate) = Len(m.gate)
                         /\ \A a \in s : \A c \in Live(m.runtimes[a]) :
                                x.gate[c].environment = values
           Fits == [s \in SUBSET S |-> {x \in Managers : Fine(x, s)}]
<1>1. m \in Fits[{}] BY DEF IsWell, SameFolders
<1>2. \A s \in SUBSET S : \A a \in s : \A x \in Fits[s \ {a}] :
         SetEnvironment(x, a, values) \in Fits[s]
  <2> TAKE s \in SUBSET S
  <2> TAKE a \in s
  <2> TAKE x \in Fits[s \ {a}]
  <2> DEFINE o == SetEnvironment(x, a, values)
  <2>1. Fine(x, s \ {a}) OBVIOUS
  <2>2. /\ IsWell(x) /\ SameFolders(m, x) /\ Len(x.gate) = Len(m.gate) /\ a \in Running(x)
        /\ Live(x.runtimes[a]) = Live(m.runtimes[a])
    <3>1. a \in Running(m) OBVIOUS
    <3> QED BY <2>1, <3>1, SameLive
  <2>3. /\ IsWell(o) /\ SameFolders(x, o) /\ Len(o.gate) = Len(x.gate)
        /\ \A c \in Born(x) : o.gate[c].environment =
               IF c \in Live(x.runtimes[a]) THEN values ELSE x.gate[c].environment
    <3> HIDE DEF Fits, S, Fine
    <3> QED BY <2>2, SetEnvironmentFacts
  <2> HIDE DEF o
  <2>4. SameFolders(m, o) BY <2>2, <2>3, SameIsTransitive
  <2>5. Born(x) = Born(m) BY <2>2 DEF Born
  <2>6. \A b \in s : \A c \in Live(m.runtimes[b]) : o.gate[c].environment = values
    <3> TAKE b \in s
    <3> TAKE c \in Live(m.runtimes[b])
    <3>1. c \in Born(x) BY <2>5, RunningIsFinite
    <3>2. b = a \/ x.gate[c].environment = values BY <2>1
    <3> QED BY <2>2, <2>3, <3>1, <3>2
  <2>7. o \in Managers BY <2>3 DEF IsWell
  <2>8. Len(o.gate) = Len(m.gate) BY <2>2, <2>3
  <2> QED BY <2>3, <2>4, <2>6, <2>7, <2>8 DEF o
<1>3. EnvironmentEverywhere(m, values) \in Fits[S]
  <2>1. IsFiniteSet(S) /\ S = Running(m) BY RunningIsFinite
  <2> HIDE DEF Fits, S
  <2> QED BY <1>1, <1>2, <2>1, SetIn
<1>4. Fine(EnvironmentEverywhere(m, values), S) BY <1>3
<1> QED BY <1>4

\* The network monitor reaches every folder.
LEMMA OnlineReaches ==
  ASSUME NEW m, IsWell(m), NEW online \in BOOLEAN
  PROVE  LET o == OnlineEverywhere(m, online) IN
         /\ IsWell(o) /\ SameFolders(m, o)
         /\ \A a \in Running(m) : \A c \in Live(m.runtimes[a]) : o.gate[c].online = online
<1> DEFINE S == Running(m)
           Fine(x, s) == /\ IsWell(x) /\ SameFolders(m, x) /\ Len(x.gate) = Len(m.gate)
                         /\ \A a \in s : \A c \in Live(m.runtimes[a]) :
                                x.gate[c].online = online
           Fits == [s \in SUBSET S |-> {x \in Managers : Fine(x, s)}]
<1>1. m \in Fits[{}] BY DEF IsWell, SameFolders
<1>2. \A s \in SUBSET S : \A a \in s : \A x \in Fits[s \ {a}] :
         ApplyOnline(x, a, online) \in Fits[s]
  <2> TAKE s \in SUBSET S
  <2> TAKE a \in s
  <2> TAKE x \in Fits[s \ {a}]
  <2> DEFINE o == ApplyOnline(x, a, online)
  <2>1. Fine(x, s \ {a}) OBVIOUS
  <2>2. /\ IsWell(x) /\ SameFolders(m, x) /\ Len(x.gate) = Len(m.gate) /\ a \in Running(x)
        /\ Live(x.runtimes[a]) = Live(m.runtimes[a])
    <3>1. a \in Running(m) OBVIOUS
    <3> QED BY <2>1, <3>1, SameLive
  <2>3. /\ IsWell(o) /\ SameFolders(x, o) /\ Len(o.gate) = Len(x.gate)
        /\ \A c \in Born(x) : o.gate[c].online =
               IF c \in Live(x.runtimes[a]) THEN online ELSE x.gate[c].online
    <3> HIDE DEF Fits, S, Fine
    <3> QED BY <2>2, ApplyOnlineFacts
  <2> HIDE DEF o
  <2>4. SameFolders(m, o) BY <2>2, <2>3, SameIsTransitive
  <2>5. Born(x) = Born(m) BY <2>2 DEF Born
  <2>6. \A b \in s : \A c \in Live(m.runtimes[b]) : o.gate[c].online = online
    <3> TAKE b \in s
    <3> TAKE c \in Live(m.runtimes[b])
    <3>1. c \in Born(x) BY <2>5, RunningIsFinite
    <3>2. b = a \/ x.gate[c].online = online BY <2>1
    <3> QED BY <2>2, <2>3, <3>1, <3>2
  <2>7. o \in Managers BY <2>3 DEF IsWell
  <2>8. Len(o.gate) = Len(m.gate) BY <2>2, <2>3
  <2> QED BY <2>3, <2>4, <2>6, <2>7, <2>8 DEF o
<1>3. OnlineEverywhere(m, online) \in Fits[S]
  <2>1. IsFiniteSet(S) /\ S = Running(m) BY RunningIsFinite
  <2> HIDE DEF Fits, S
  <2> QED BY <1>1, <1>2, <2>1, OnlineIn
<1>4. Fine(OnlineEverywhere(m, online), S) BY <1>3
<1> QED BY <1>4

\* A runtime that was just created.
LEMMA NewIsWell ==
  ASSUME NEW m, IsWell(m), NEW a \in Accounts \ Running(m),
         NEW o, o = [m EXCEPT !.runtimes[a] = NewRuntime]
  PROVE  /\ IsWell(o) /\ Running(o) = Running(m) \cup {a}
         /\ o.runtimes[a].idle = FALSE /\ \A f \in Folders : o.runtimes[a].folders[f] = 0
         /\ o.sources = m.sources /\ o.tray = m.tray /\ o.gate = m.gate
<1> DEFINE r == NewRuntime
<1>1. m \in Managers /\ a \in Accounts BY DEF IsWell
<1>2. /\ r \in Runtimes /\ r.folders = [f \in Folders |-> 0] /\ r.idle = FALSE
      /\ r.aggregate = EmptyAggregate /\ r.targets = {}
  <2>1. EmptyAggregate \in Aggregates
    <3>1. Shows(EmptyAggregate, {}, m.state) BY EmptyShows
    <3> QED BY <3>1 DEF Shows, Holds
  <2>2. /\ r.folders = [f \in Folders |-> 0] /\ r.idle = FALSE /\ r.targets = {}
        /\ r.aggregate = EmptyAggregate
    BY DEF NewRuntime
  <2>3. r \in Runtimes BY <2>1 DEF NewRuntime, Runtimes, Values
  <2> QED BY <2>2, <2>3
<1>3. /\ o \in Managers /\ o.gate = m.gate /\ o.state = m.state /\ o.sources = m.sources
      /\ o.tray = m.tray /\ o.runtimes[a] = r
      /\ \A b \in Accounts \ {a} : o.runtimes[b] = m.runtimes[b]
  <2>1. [m.runtimes EXCEPT ![a] = r] \in [Accounts -> Runtimes \cup {Down}]
    BY <1>1, <1>2 DEF Managers
  <2>2. o = [m EXCEPT !.runtimes = [m.runtimes EXCEPT ![a] = r]] BY <1>1
  <2> QED BY <1>1, <2>1, <2>2 DEF Managers
<1> HIDE DEF r
<1>4. Running(o) = Running(m) \cup {a}
  <2>1. a \in Running(o) BY <1>1, <1>2, <1>3, RunningFacts
  <2>2. \A b \in Accounts \ {a} : b \in Running(o) <=> b \in Running(m) BY <1>3 DEF Running
  <2> QED BY <2>1, <2>2 DEF Running
<1>5. Born(o) = Born(m) BY <1>3 DEF Born
<1>6. \A f \in Folders : r.folders[f] = 0 BY <1>2
<1>7. Live(r) = {} /\ Sources(r, a) = {} BY <1>2, <1>6 DEF Live, Sources
<1>8. RuntimeIsWell(o, a) /\ TargetsAreLive(o, a)
  <2>1. Shows(r.aggregate, Sources(r, a), o.state) BY <1>2, <1>7, EmptyShows
  <2> QED BY <1>2, <1>3, <1>6, <1>7, <2>1 DEF RuntimeIsWell, TargetsAreLive
<1>9. ASSUME NEW b \in Running(o) \ {a} PROVE RuntimeIsWell(o, b) /\ TargetsAreLive(o, b)
  <2>1. b \in Running(m) /\ o.runtimes[b] = m.runtimes[b] BY <1>3, <1>4 DEF Running
  <2>2. RuntimeIsWell(m, b) /\ TargetsAreLive(m, b) BY <2>1 DEF IsWell
  <2>3. RuntimeIsWell(o, b) BY <1>3, <1>5, <2>1, <2>2 DEF RuntimeIsWell
  <2> QED BY <2>1, <2>2, <2>3 DEF TargetsAreLive
<1>10. IsWell(o)
  <2>1. TrayIsWell(o) BY <1>3, <1>4, <1>5 DEF IsWell, TrayIsWell
  <2>2. o.state \in [Born(o) \cup Accounts -> Marks] BY <1>3, <1>5 DEF IsWell
  <2> QED BY <1>3, <1>8, <1>9, <2>1, <2>2 DEF IsWell
<1> QED BY <1>2, <1>3, <1>4, <1>6, <1>10

\* It is given its folders, or the controller that stands for them.
LEMMA PrimeFacts ==
  ASSUME NEW m, IsWell(m), NEW a \in Running(m), NEW list \in Seq(Folders),
         m.runtimes[a].idle = FALSE, \A f \in Folders : m.runtimes[a].folders[f] = 0
  PROVE  LET o == Prime(m, a, list) IN
         /\ IsWell(o) /\ Running(o) = Running(m)
         /\ o.sources = m.sources /\ o.tray = m.tray /\ Len(m.gate) <= Len(o.gate)
         /\ Live(o.runtimes[a]) \cap Born(m) = {}
<1> DEFINE n == SyncFolders(m, a, list)
           r == n.runtimes[a]
           agg == Added(r.aggregate, a, n.state)
           new == [[r EXCEPT !.idle = TRUE] EXCEPT !.aggregate = agg]
           o == Prime(m, a, list)
<1>1. m \in Managers /\ a \in Accounts BY DEF IsWell, Running
<1>2. Grown(m, n, a) /\ TargetsAreLive(n, a) BY SyncFoldersFacts
<1> HIDE DEF n
<1>3. IsWell(n) /\ Running(n) = Running(m) BY <1>2, GrownIsWell
<1>4. n \in Managers /\ n.state \in [Born(n) \cup Accounts -> Marks] /\ r \in Runtimes
  BY <1>2 DEF Grown
<1>5. n.sources = m.sources /\ n.tray = m.tray /\ Len(m.gate) <= Len(n.gate) /\ r.idle = FALSE
  BY <1>2 DEF Grown
<1>6. Live(r) \cap Born(m) = {}
  <2>1. m.gate \in Seq(Gated) BY <1>1 DEF Managers
  <2>2. Len(m.gate) \in Nat BY <2>1
  <2>3. \A f \in Folders : r.folders[f] = 0 \/ r.folders[f] > Len(m.gate) BY <1>2 DEF Grown
  <2>4. \A f \in Folders : r.folders[f] \in Nat BY <1>4 DEF Runtimes
  <2> HIDE DEF r
  <2> QED BY <2>2, <2>3, <2>4 DEF Live, Born
<1>7. CASE list # <<>>
  <2>1. o = n BY <1>7 DEF Prime, n
  <2> HIDE DEF o
  <2> QED BY <1>3, <1>5, <1>6, <2>1 DEF o
<1>8. CASE list = <<>>
  <2>1. o = [n EXCEPT !.runtimes = [@ EXCEPT ![a] = new]]
    <3>1. DOMAIN n.runtimes = Accounts /\ DOMAIN n = {"runtimes", "sources", "tray", "state", "gate"}
      BY <1>4 DEF Managers
    <3>2. DOMAIN r = {"folders", "idle", "aggregate", "targets", "environment"}
      BY <1>4 DEF Runtimes
    <3> DEFINE runs == n.runtimes
               p == [n EXCEPT !.runtimes[a].idle = TRUE]
               q == [runs EXCEPT ![a].idle = TRUE]
               z == [q EXCEPT ![a].aggregate = Added(@, a, n.state)]
    <3>3. o = [n EXCEPT !.runtimes[a].idle = TRUE, !.runtimes[a].aggregate = Added(@, a, n.state)]
      BY <1>8 DEF Prime, n, IdleController
    <3> HIDE DEF o
    <3>4. p = [n EXCEPT !.runtimes = q] BY <3>1
    <3>5. o = [p EXCEPT !.runtimes[a].aggregate = Added(@, a, n.state)] BY <3>3
    <3>6. p.runtimes = q /\ DOMAIN p = DOMAIN n BY <3>1, <3>4
    <3> HIDE DEF p, q
    <3>7. o = [p EXCEPT !.runtimes = z] BY <3>5, <3>6
    <3>8. o = [n EXCEPT !.runtimes = z]
      <4> HIDE DEF z
      <4> QED BY <3>1, <3>4, <3>7
    <3>9. z = [runs EXCEPT ![a] = new] BY <1>1, <3>1, <3>2 DEF q
    <3> QED BY <3>8, <3>9
  <2> HIDE DEF o
  <2>2. a \notin Nat BY <1>1, AccountsAssumption
  <2>3. Sources(r, a) = Live(r) BY <1>5 DEF Sources
  <2>4. Live(r) \subseteq Born(n)
    <3>1. a \in Running(n) BY <1>3
    <3> QED BY <1>3, <3>1, RunningIsFinite
  <2>5. Shows(agg, Live(r) \cup {a}, n.state)
    <3>1. Holds(r.aggregate, Live(r)) BY <1>2, <2>3 DEF Grown, RuntimeIsWell, Shows
    <3>2. a \in Heard /\ a \notin Live(r) /\ Live(r) \subseteq Born(n) \cup Accounts
          /\ a \in Born(n) \cup Accounts
      BY <1>1, <2>2, <2>4 DEF Heard, Born
    <3> HIDE DEF r
    <3> QED BY <1>4, <3>1, <3>2, AddedShows DEF agg
  <2> HIDE DEF agg
  <2>6. agg \in Aggregates BY <2>5 DEF Shows, Holds
  <2>7. /\ new \in Runtimes /\ new.folders = r.folders /\ new.aggregate = agg
        /\ new.idle = TRUE /\ new.targets = r.targets
    BY <1>4, <2>6 DEF Runtimes
  <2> HIDE DEF new
  <2>8. Live(new) = Live(r) /\ Sources(new, a) = Live(r) \cup {a}
    BY <2>7 DEF Live, Sources, IdleController
  <2>9. /\ o \in Managers /\ o.gate = n.gate /\ o.state = n.state /\ o.sources = n.sources
        /\ o.tray = n.tray /\ o.runtimes[a] = new
        /\ \A b \in Accounts \ {a} : o.runtimes[b] = n.runtimes[b]
    <3>1. [n.runtimes EXCEPT ![a] = new] \in [Accounts -> Runtimes \cup {Down}]
      BY <1>4, <2>7 DEF Managers
    <3> QED BY <1>1, <1>4, <2>1, <3>1 DEF Managers
  <2>10. Born(o) = Born(n) BY <2>9 DEF Born
  <2>11. Running(o) = Running(n)
    <3>1. a \in Running(o) BY <1>1, <2>7, <2>9, RunningFacts
    <3>2. \A b \in Accounts \ {a} : b \in Running(o) <=> b \in Running(n) BY <2>9 DEF Running
    <3> QED BY <1>3, <3>1, <3>2 DEF Running
  <2>12. RuntimeIsWell(o, a) /\ TargetsAreLive(o, a)
    <3>1. Shows(new.aggregate, Sources(new, a), o.state) BY <2>5, <2>7, <2>8, <2>9
    <3>2. RuntimeIsWell(n, a) BY <1>2 DEF Grown
    <3>3. RuntimeIsWell(o, a) BY <2>7, <2>9, <2>10, <3>1, <3>2 DEF RuntimeIsWell
    <3>4. TargetsAreLive(o, a) BY <1>2, <2>7, <2>8, <2>9 DEF TargetsAreLive
    <3> QED BY <3>3, <3>4
  <2>13. ASSUME NEW b \in Running(o) \ {a} PROVE RuntimeIsWell(o, b) /\ TargetsAreLive(o, b)
    <3>1. b \in Running(n) /\ o.runtimes[b] = n.runtimes[b] BY <2>9, <2>11 DEF Running
    <3>2. RuntimeIsWell(n, b) /\ TargetsAreLive(n, b) BY <1>3, <3>1 DEF IsWell
    <3>3. RuntimeIsWell(o, b) BY <2>9, <2>10, <3>1, <3>2 DEF RuntimeIsWell
    <3> QED BY <3>1, <3>2, <3>3 DEF TargetsAreLive
  <2>14. IsWell(o)
    <3>1. TrayIsWell(o) BY <1>3, <2>9, <2>10, <2>11 DEF IsWell, TrayIsWell
    <3>2. o.state \in [Born(o) \cup Accounts -> Marks] BY <1>4, <2>9, <2>10
    <3> QED BY <2>9, <2>12, <2>13, <3>1, <3>2 DEF IsWell
  <2> QED BY <1>3, <1>5, <1>6, <2>8, <2>9, <2>11, <2>14 DEF o
<1> QED BY <1>7, <1>8

\* What one account was heard by is what all were heard by, but the others.
LEMMA OthersHeard ==
  ASSUME NEW old, NEW new, NEW a \in Accounts,
         \A b \in Accounts \ {a} : new[b] = old[b] /\ old[b] \cap old[a] = {}
  PROVE  /\ old[a] = {} => UNION {new[b] : b \in Accounts}
                             = (UNION {old[b] : b \in Accounts}) \cup new[a]
         /\ new[a] = {} => UNION {new[b] : b \in Accounts}
                             = (UNION {old[b] : b \in Accounts}) \ old[a]
<1> DEFINE N == UNION {new[b] : b \in Accounts}
           O == UNION {old[b] : b \in Accounts}
<1>1. \A c : c \in N <=> \E b \in Accounts : c \in new[b] OBVIOUS
<1>2. \A c : c \in O <=> \E b \in Accounts : c \in old[b] OBVIOUS
<1> HIDE DEF N, O
<1>3. ASSUME old[a] = {} PROVE N = O \cup new[a]
  <2>1. \A c \in N : c \in O \cup new[a] BY <1>1, <1>2
  <2>2. \A c \in O \cup new[a] : c \in N BY <1>1, <1>2, <1>3
  <2> QED BY <2>1, <2>2
<1>4. ASSUME new[a] = {} PROVE N = O \ old[a]
  <2>1. \A c \in N : c \in O \ old[a] BY <1>1, <1>2, <1>4
  <2>2. \A c \in O \ old[a] : c \in N BY <1>1, <1>2
  <2> QED BY <2>1, <2>2
<1> QED BY <1>3, <1>4 DEF N, O

\* ensure_runtime: the account starts, and the tray is given what it listens to.
LEMMA EnsureRuntimeFacts ==
  ASSUME NEW m, IsWell(m), NEW a \in Accounts, NEW list \in Seq(Folders), network \in BOOLEAN
  PROVE  IsWell(EnsureRuntime(m, a, list))
<1> DEFINE begun == [m EXCEPT !.runtimes[a] = NewRuntime]
           primed == Prime(begun, a, list)
           ready == ApplyOnline(primed, a, network)
           src == Sources(ready.runtimes[a], a)
           agg == AllAdded(ready.tray, src, ready.state)
           new == [ready.sources EXCEPT ![a] = src]
           o == EnsureRuntime(m, a, list)
<1>1. CASE a \in Running(m) BY <1>1 DEF EnsureRuntime
<1>2. CASE a \notin Running(m)
  <2>1. m \in Managers BY DEF IsWell
  <2>2. /\ IsWell(begun) /\ Running(begun) = Running(m) \cup {a}
        /\ begun.runtimes[a].idle = FALSE /\ \A f \in Folders : begun.runtimes[a].folders[f] = 0
        /\ begun.sources = m.sources /\ begun.tray = m.tray /\ begun.gate = m.gate
    BY <1>2, NewIsWell
  <2> HIDE DEF begun
  <2>3. /\ IsWell(primed) /\ Running(primed) = Running(begun)
        /\ primed.sources = begun.sources /\ primed.tray = begun.tray
        /\ Live(primed.runtimes[a]) \cap Born(begun) = {}
    BY <2>2, PrimeFacts
  <2> HIDE DEF primed
  <2>4. /\ IsWell(ready) /\ SameFolders(primed, ready) /\ ready.runtimes = primed.runtimes
        /\ ready.sources = primed.sources /\ ready.tray = primed.tray
    BY <2>2, <2>3, ApplyOnlineFacts
  <2>5. o = [[ready EXCEPT !.sources = new] EXCEPT !.tray = agg]
    <3>1. ready = Started(m, a, list) BY DEF Started, ready, primed, begun
    <3>2. ready \in Managers BY <2>4 DEF IsWell
    <3>3. DOMAIN ready = {"runtimes", "sources", "tray", "state", "gate"} BY <3>2 DEF Managers
    <3>4. o = [ready EXCEPT !.sources[a] = src, !.tray = AllAdded(@, src, ready.state)]
      BY <1>2, <3>1 DEF EnsureRuntime
    <3> HIDE DEF o, ready, src
    <3>5. [ready EXCEPT !.sources[a] = src] = [ready EXCEPT !.sources = new] BY <3>3
    <3> QED BY <3>3, <3>4, <3>5
  <2> HIDE DEF ready
  <2>6. /\ ready \in Managers /\ ready.state \in [Born(ready) \cup Accounts -> Marks]
        /\ Running(ready) = Running(m) \cup {a} /\ a \in Running(ready)
        /\ ready.sources = m.sources /\ ready.tray = m.tray
        /\ Live(ready.runtimes[a]) \cap Born(m) = {}
    <3>1. Born(begun) = Born(m) BY <2>2 DEF Born
    <3> QED BY <2>2, <2>3, <2>4, <3>1 DEF IsWell, SameFolders
  <2>7. /\ ready.runtimes[a] \in Runtimes /\ RuntimeIsWell(ready, a) /\ TargetsAreLive(ready, a)
    BY <2>4, <2>6, RunningFacts DEF IsWell
  <2>8. /\ src \subseteq Born(ready) \cup {a} /\ src \subseteq Heard /\ src \cap Born(m) = {}
        /\ IsFiniteSet(src)
    <3>1. src \subseteq Born(ready) \cup {a} /\ src \subseteq Heard
      BY <2>6, <2>7, SourcesAreBorn, SourcesFacts
    <3>2. src \ {a} = Live(ready.runtimes[a]) BY <2>7, SourcesFacts
    <3>3. a \notin Born(m)
      <4>1. a \notin Nat BY AccountsAssumption
      <4> QED BY <4>1 DEF Born
    <3>4. IsFiniteSet(Born(ready) \cup {a})
      <4>1. ready.gate \in Seq(Gated) BY <2>6 DEF Managers
      <4>2. Len(ready.gate) \in Nat BY <4>1
      <4>3. IsFiniteSet(Born(ready)) BY <4>2, FS_Interval DEF Born
      <4> QED BY <4>3, FS_AddElement
    <3> HIDE DEF src
    <3>5. IsFiniteSet(src) BY <3>1, <3>4, FS_Subset
    <3> QED BY <2>6, <3>1, <3>2, <3>3, <3>5
  <2> HIDE DEF src
  <2>9. /\ DOMAIN ready.sources = Accounts /\ new \in [Accounts -> SUBSET Heard] /\ new[a] = src
        /\ \A b \in Accounts \ {a} : new[b] = ready.sources[b]
    BY <2>6, <2>8 DEF Managers
  <2> HIDE DEF new
  <2>10. /\ ready.sources[a] = {}
         /\ \A b \in Accounts : b # a => ready.sources[b] \cap src = {}
    <3>1. ready.sources[a] = {} BY <1>2, <2>6 DEF IsWell, TrayIsWell
    <3>2. ASSUME NEW b \in Accounts, b # a PROVE ready.sources[b] \cap src = {}
      <4>1. ready.sources[b] \subseteq Born(m) \cup {b} BY <2>6 DEF IsWell, TrayIsWell
      <4>2. b \notin src
        <5>1. b \notin Nat BY AccountsAssumption
        <5>2. Born(ready) \subseteq Nat
          <6>1. ready.gate \in Seq(Gated) BY <2>6 DEF Managers
          <6>2. Len(ready.gate) \in Nat BY <6>1
          <6> QED BY <6>2 DEF Born
        <5> QED BY <2>8, <3>2, <5>1, <5>2
      <4> QED BY <2>8, <4>1, <4>2
    <3> QED BY <3>1, <3>2
  <2> DEFINE cs == UNION {ready.sources[b] : b \in Accounts}
  <2>11. UNION {new[b] : b \in Accounts} = cs \cup src BY <2>9, <2>10, OthersHeard
  <2>12. src \cap cs = {} BY <2>10
  <2>13. cs \subseteq Born(ready) \cup Accounts /\ Shows(ready.tray, cs, ready.state)
    BY <2>4, HeardIsKnown DEF IsWell, TrayIsWell
  <2> HIDE DEF cs
  <2>14. Shows(agg, cs \cup src, ready.state)
    <3>1. src \subseteq Born(ready) \cup Accounts BY <2>8
    <3> QED BY <2>6, <2>8, <2>12, <2>13, <3>1, AllAddedShows DEF agg
  <2> HIDE DEF agg
  <2>15. agg \in Aggregates BY <2>14 DEF Shows, Holds
  <2> HIDE DEF o
  <2>16. /\ o \in Managers /\ o.runtimes = ready.runtimes /\ o.sources = new /\ o.tray = agg
         /\ o.state = ready.state /\ o.gate = ready.gate
    BY <2>5, <2>6, <2>9, <2>15 DEF Managers
  <2>17. Born(o) = Born(ready) /\ Running(o) = Running(ready) BY <2>16 DEF Born, Running
  <2>18. \A b \in Running(o) : RuntimeIsWell(o, b) /\ TargetsAreLive(o, b)
    BY <2>4, <2>16, <2>17 DEF IsWell, RuntimeIsWell, TargetsAreLive
  <2>19. TrayIsWell(o)
    <3>1. \A b \in Accounts : new[b] \subseteq Born(ready) \cup {b}
      BY <2>4, <2>8, <2>9 DEF IsWell, TrayIsWell
    <3>2. \A b \in Accounts : b \notin Running(o) => new[b] = {}
      BY <2>4, <2>6, <2>9, <2>17 DEF IsWell, TrayIsWell
    <3>3. ASSUME NEW b \in Accounts, NEW c \in Accounts, b # c PROVE new[b] \cap new[c] = {}
      <4>1. ready.sources[b] \cap ready.sources[c] = {} BY <2>4, <3>3 DEF IsWell, TrayIsWell
      <4> QED BY <2>9, <2>10, <3>3, <4>1
    <3>4. Shows(o.tray, UNION {o.sources[b] : b \in Accounts}, o.state)
      BY <2>11, <2>14, <2>16
    <3> QED BY <2>16, <2>17, <3>1, <3>2, <3>3, <3>4 DEF TrayIsWell
  <2>20. IsWell(o) BY <2>6, <2>16, <2>17, <2>18, <2>19 DEF IsWell
  <2> QED BY <2>20 DEF o
<1> QED BY <1>1, <1>2

\* remove: the tray forgets what it was given, then the account stops.
LEMMA RemoveRuntimeFacts ==
  ASSUME NEW m, IsWell(m), NEW a \in Accounts
  PROVE  IsWell(RemoveRuntime(m, a)) /\ Running(RemoveRuntime(m, a)) = Running(m) \ {a}
<1> DEFINE agg == AllRemoved(m.tray, m.sources[a], m.state)
           runs == [m.runtimes EXCEPT ![a] = Down]
           new == [m.sources EXCEPT ![a] = {}]
           o == RemoveRuntime(m, a)
           cs == UNION {m.sources[b] : b \in Accounts}
<1>1. m \in Managers /\ m.state \in [Born(m) \cup Accounts -> Marks] /\ TrayIsWell(m)
  BY DEF IsWell
<1>2. o = [[[m EXCEPT !.tray = agg] EXCEPT !.runtimes = runs] EXCEPT !.sources = new]
  <2>1. DOMAIN m = {"runtimes", "sources", "tray", "state", "gate"} BY <1>1 DEF Managers
  <2>2. o = [m EXCEPT !.tray = AllRemoved(@, m.sources[a], m.state),
                      !.runtimes[a] = Down, !.sources[a] = {}]
    BY DEF RemoveRuntime
  <2> HIDE DEF o
  <2> QED BY <2>1, <2>2
<1> HIDE DEF o
<1>3. /\ runs \in [Accounts -> Runtimes \cup {Down}] /\ runs[a] = Down
      /\ \A b \in Accounts \ {a} : runs[b] = m.runtimes[b]
  BY <1>1 DEF Managers
<1>4. /\ new \in [Accounts -> SUBSET Heard] /\ new[a] = {}
      /\ \A b \in Accounts \ {a} : new[b] = m.sources[b]
  BY <1>1 DEF Managers
<1>5. cs \subseteq Born(m) \cup Accounts /\ Shows(m.tray, cs, m.state)
  BY <1>1, HeardIsKnown DEF TrayIsWell
<1>6. IsFiniteSet(m.sources[a])
  <2>1. m.gate \in Seq(Gated) BY <1>1 DEF Managers
  <2>2. Len(m.gate) \in Nat BY <2>1
  <2>3. IsFiniteSet(Born(m)) BY <2>2, FS_Interval DEF Born
  <2>4. IsFiniteSet(Born(m) \cup {a}) BY <2>3, FS_AddElement
  <2>5. m.sources[a] \subseteq Born(m) \cup {a} BY <1>1 DEF TrayIsWell
  <2> QED BY <2>4, <2>5, FS_Subset
<1>7. UNION {new[b] : b \in Accounts} = cs \ m.sources[a]
  <2>1. \A b \in Accounts \ {a} : m.sources[b] \cap m.sources[a] = {} BY <1>1 DEF TrayIsWell
  <2> HIDE DEF new
  <2> QED BY <1>4, <2>1, OthersHeard
<1> HIDE DEF cs, new, runs
<1>8. Shows(agg, cs \ m.sources[a], m.state)
  <2> DEFINE ds == m.sources[a]
  <2>1. IsFiniteSet(ds) BY <1>6
  <2>2. agg = AllRemoved(m.tray, ds, m.state) OBVIOUS
  <2> HIDE DEF ds, agg
  <2>3. Shows(agg, cs \ ds, m.state) BY <1>1, <1>5, <2>1, <2>2, AllRemovedShows
  <2> QED BY <2>3 DEF ds
<1> HIDE DEF agg
<1>9. agg \in Aggregates BY <1>8 DEF Shows, Holds
<1>10. /\ o \in Managers /\ o.runtimes = runs /\ o.sources = new /\ o.tray = agg
       /\ o.state = m.state /\ o.gate = m.gate
  BY <1>1, <1>2, <1>3, <1>4, <1>9 DEF Managers
<1>11. Born(o) = Born(m) /\ Running(o) = Running(m) \ {a}
  BY <1>3, <1>10 DEF Born, Running
<1>12. ASSUME NEW b \in Running(o) PROVE RuntimeIsWell(o, b) /\ TargetsAreLive(o, b)
  <2>1. b \in Running(m) /\ o.runtimes[b] = m.runtimes[b] BY <1>3, <1>10, <1>11 DEF Running
  <2>2. RuntimeIsWell(m, b) /\ TargetsAreLive(m, b) BY <2>1 DEF IsWell
  <2>3. RuntimeIsWell(o, b) BY <1>10, <1>11, <2>1, <2>2 DEF RuntimeIsWell
  <2> QED BY <2>1, <2>2, <2>3 DEF TargetsAreLive
<1>13. TrayIsWell(o)
  <2>1. \A b \in Accounts : new[b] \subseteq Born(m) \cup {b} BY <1>1, <1>4 DEF TrayIsWell
  <2>2. \A b \in Accounts : b \notin Running(o) => new[b] = {}
    BY <1>1, <1>4, <1>11 DEF TrayIsWell
  <2>3. \A b, c \in Accounts : b # c => new[b] \cap new[c] = {} BY <1>1, <1>4 DEF TrayIsWell
  <2>4. Shows(o.tray, UNION {o.sources[b] : b \in Accounts}, o.state) BY <1>7, <1>8, <1>10
  <2> QED BY <1>10, <1>11, <2>1, <2>2, <2>3, <2>4 DEF TrayIsWell
<1>14. IsWell(o)
  <2>1. o.state \in [Born(o) \cup Accounts -> Marks] BY <1>1, <1>10, <1>11
  <2> QED BY <1>10, <1>12, <1>13, <2>1 DEF IsWell
<1> QED BY <1>11, <1>14 DEF o

\* The accounts that a new configuration names are looked at, one by one.
LEMMA SyncAccountsFacts ==
  ASSUME NEW m, IsWell(m), NEW S \in SUBSET Running(m), NEW lists,
         \A a \in S : lists[a] \in Seq(Folders)
  PROVE  LET o == SyncAccounts(m, S, lists) IN IsWell(o) /\ Running(o) = Running(m)
<1> DEFINE Fine(x) == IsWell(x) /\ Running(x) = Running(m)
           Fits == [s \in SUBSET S |-> {x \in Managers : Fine(x)}]
<1>1. m \in Fits[{}] BY DEF IsWell
<1>2. \A s \in SUBSET S : \A a \in s : \A x \in Fits[s \ {a}] :
         SyncFolders(x, a, lists[a]) \in Fits[s]
  <2> TAKE s \in SUBSET S
  <2> TAKE a \in s
  <2> TAKE x \in Fits[s \ {a}]
  <2> DEFINE o == SyncFolders(x, a, lists[a])
  <2>1. IsWell(x) /\ Running(x) = Running(m) /\ a \in Running(x) /\ lists[a] \in Seq(Folders)
    OBVIOUS
  <2>2. Grown(x, o, a) /\ TargetsAreLive(o, a)
    <3> HIDE DEF Fits, Fine
    <3> QED BY <2>1, SyncFoldersFacts
  <2> HIDE DEF o
  <2>3. IsWell(o) /\ Running(o) = Running(x)
    <3> HIDE DEF Fits, Fine
    <3> QED BY <2>1, <2>2, GrownIsWell
  <2>4. o \in Managers BY <2>3 DEF IsWell
  <2> QED BY <2>1, <2>3, <2>4 DEF o
<1>3. SyncAccounts(m, S, lists) \in Fits[S]
  <2>1. IsFiniteSet(S) BY RunningIsFinite, FS_Subset
  <2> HIDE DEF Fits
  <2> QED BY <1>1, <1>2, <2>1, SyncedIn
<1>4. Fine(SyncAccounts(m, S, lists)) BY <1>3
<1> QED BY <1>4

\* The accounts that are configured start, one by one.
LEMMA EnsureRuntimesFacts ==
  ASSUME NEW m, IsWell(m), NEW S \in SUBSET Accounts, NEW lists, network \in BOOLEAN,
         \A a \in S : lists[a] \in Seq(Folders)
  PROVE  IsWell(EnsureRuntimes(m, S, lists))
<1> DEFINE Fits == [s \in SUBSET S |-> {x \in Managers : IsWell(x)}]
<1>1. m \in Fits[{}] BY DEF IsWell
<1>2. \A s \in SUBSET S : \A a \in s : \A x \in Fits[s \ {a}] :
         EnsureRuntime(x, a, lists[a]) \in Fits[s]
  <2> TAKE s \in SUBSET S
  <2> TAKE a \in s
  <2> TAKE x \in Fits[s \ {a}]
  <2> DEFINE o == EnsureRuntime(x, a, lists[a])
  <2>1. IsWell(x) /\ a \in Accounts /\ lists[a] \in Seq(Folders) OBVIOUS
  <2>2. IsWell(o)
    <3> HIDE DEF Fits
    <3> QED BY <2>1, EnsureRuntimeFacts
  <2> HIDE DEF o
  <2>3. o \in Managers BY <2>2 DEF IsWell
  <2> QED BY <2>2, <2>3 DEF o
<1>3. EnsureRuntimes(m, S, lists) \in Fits[S]
  <2>1. IsFiniteSet(S) BY AccountsAssumption, FS_Subset
  <2> HIDE DEF Fits
  <2> QED BY <1>1, <1>2, <2>1, StartedIn
<1> QED BY <1>3

\* Before anything starts.
LEMMA NewManagerIsWell == IsWell(NewManager)
<1> DEFINE m == NewManager
<1>1. /\ m.runtimes = [a \in Accounts |-> Down] /\ m.sources = [a \in Accounts |-> {}]
      /\ m.tray = EmptyAggregate /\ m.state = [c \in Accounts |-> "idle_ok"] /\ m.gate = <<>>
  BY DEF NewManager
<1>2. Shows(EmptyAggregate, {}, m.state) BY EmptyShows
<1>3. EmptyAggregate \in Aggregates BY <1>2 DEF Shows, Holds
<1>4. Born(m) = {} BY <1>1 DEF Born
<1>5. "idle_ok" \in Marks
  <2>1. DOMAIN Ranking = 1..13 /\ Ranking[2] = "idle_ok" BY DEF Ranking
  <2> QED BY <2>1 DEF Marks, Range
<1>6. /\ m.state \in [Born(m) \cup Accounts -> Marks]
      /\ m.state \in UNION {[(1..n) \cup Accounts -> Marks] : n \in Nat}
  <2>1. m.state \in [Accounts -> Marks] BY <1>1, <1>5
  <2>2. (1..0) \cup Accounts = Accounts /\ 0 \in Nat OBVIOUS
  <2>3. [(1..0) \cup Accounts -> Marks] = [Accounts -> Marks] BY <2>2
  <2>4. Born(m) \cup Accounts = Accounts BY <1>4
  <2> HIDE DEF m
  <2> QED BY <2>1, <2>2, <2>3, <2>4
<1>7. m \in Managers
  <2> DEFINE states == UNION {[(1..n) \cup Accounts -> Marks] : n \in Nat}
  <2>1. m.state \in states BY <1>6
  <2>2. DOMAIN m = {"runtimes", "sources", "tray", "state", "gate"}
        /\ m = [runtimes |-> m.runtimes, sources |-> m.sources, tray |-> m.tray,
                state |-> m.state, gate |-> m.gate]
    BY DEF NewManager
  <2>3. /\ m.runtimes \in [Accounts -> Runtimes \cup {Down}]
        /\ m.sources \in [Accounts -> SUBSET Heard] /\ m.gate \in Seq(Gated)
    BY <1>1
  <2> HIDE DEF states, m
  <2> QED BY <1>1, <1>3, <2>1, <2>2, <2>3 DEF Managers, states
<1>8. Running(m) = {} BY <1>1 DEF Running
<1>9. TrayIsWell(m)
  <2>1. UNION {m.sources[a] : a \in Accounts} = {} BY <1>1
  <2> HIDE DEF m
  <2> QED BY <1>1, <1>2, <2>1 DEF TrayIsWell
<1> HIDE DEF m
<1>10. IsWell(m) BY <1>6, <1>7, <1>8, <1>9 DEF IsWell
<1> QED BY <1>10 DEF m

\* What the configuration may say of the accounts.
AreLists(lists) ==
    /\ DOMAIN lists = Accounts
    /\ \A a \in Accounts : lists[a] = NoAccount \/ lists[a] \in FolderLists[a]

\* What every callback leaves behind, and what the settings may say.
AccountsInv ==
    /\ AreLists(config) /\ environment \in Environments /\ network \in BOOLEAN /\ IsWell(app)

\* The window refreshes: everything stays well, and every folder has heard.
LEMMA RefreshFacts ==
  ASSUME NEW m, IsWell(m), NEW lists, AreLists(lists), NEW values \in Environments
  PROVE  LET o == Refresh(m, lists, values) IN
         /\ IsWell(o)
         /\ \A a \in Running(o) : \A c \in Live(o.runtimes[a]) : o.gate[c].environment = values
<1> DEFINE S == {a \in Running(m) : lists[a] # NoAccount}
           n == SyncAccounts(m, S, lists)
           o == Refresh(m, lists, values)
<1>1. S \in SUBSET Running(m) /\ \A a \in S : lists[a] \in Seq(Folders)
  <2>1. Running(m) \subseteq Accounts BY DEF Running
  <2> QED BY <2>1, AccountsAssumption DEF AreLists
<1>2. o = EnvironmentEverywhere(n, values) BY DEF Refresh
<1> HIDE DEF S
<1>3. IsWell(n) BY <1>1, SyncAccountsFacts
<1> HIDE DEF n, o
<1>4. /\ IsWell(o) /\ SameFolders(n, o)
      /\ \A a \in Running(n) : \A c \in Live(n.runtimes[a]) : o.gate[c].environment = values
  BY <1>2, <1>3, EnvironmentReaches
<1>5. \A a \in Running(o) : a \in Running(n) /\ Live(o.runtimes[a]) = Live(n.runtimes[a])
  BY <1>4, SameLive DEF SameFolders
<1> QED BY <1>4, <1>5 DEF o

\* A folder changes its state: every aggregate that listens computes again.
LEMMA FolderWorksWell ==
  ASSUME AccountsInv, NEW a \in Running(app), NEW c \in Live(app.runtimes[a]), FolderWorks(c)
  PROVE  IsWell(app')
<1>1. PICK label \in Labels \ {app.state[c]} :
         app' = [app EXCEPT
            !.state = [app.state EXCEPT ![c] = label],
            !.tray = Told(@, c, [app.state EXCEPT ![c] = label]),
            !.runtimes = [b \in Accounts |->
                IF b \notin Running(app) THEN Down
                ELSE [app.runtimes[b] EXCEPT
                         !.aggregate = Told(@, c, [app.state EXCEPT ![c] = label])]]]
  BY DEF FolderWorks
<1> DEFINE D == Born(app) \cup Accounts
           state == [app.state EXCEPT ![c] = label]
           tray == Told(app.tray, c, state)
           new(b) == [app.runtimes[b] EXCEPT !.aggregate = Told(@, c, state)]
           runs == [b \in Accounts |-> IF b \notin Running(app) THEN Down ELSE new(b)]
           cs == UNION {app.sources[b] : b \in Accounts}
<1>2. /\ IsWell(app) /\ app \in Managers /\ app.state \in [D -> Marks] /\ TrayIsWell(app)
  BY DEF AccountsInv, IsWell
<1>3. c \in D
  <2>1. Live(app.runtimes[a]) \subseteq Born(app) BY <1>2, RunningIsFinite
  <2> QED BY <2>1
<1>4. label \in Marks BY LabelsAssumption DEF Marks
<1>5. app' = [[[app EXCEPT !.state = state] EXCEPT !.tray = tray] EXCEPT !.runtimes = runs]
  <2>1. DOMAIN app = {"runtimes", "sources", "tray", "state", "gate"} BY <1>2 DEF Managers
  <2>2. app' = [app EXCEPT !.state = state, !.tray = Told(@, c, state), !.runtimes = runs]
    BY <1>1
  <2> HIDE DEF state, runs
  <2> QED BY <2>1, <2>2
<1>6. state \in [D -> Marks] /\ state = [app.state EXCEPT ![c] = label] BY <1>2, <1>3, <1>4
<1>7. Shows(tray, cs, state)
  <2>1. cs \subseteq D /\ Shows(app.tray, cs, app.state)
    BY <1>2, HeardIsKnown DEF TrayIsWell
  <2> HIDE DEF cs, D, state
  <2> QED BY <1>2, <1>3, <1>4, <1>6, <2>1, ToldShows
<1>8. ASSUME NEW b \in Running(app)
      PROVE  /\ new(b) \in Runtimes
             /\ new(b).folders = app.runtimes[b].folders /\ new(b).idle = app.runtimes[b].idle
             /\ new(b).targets = app.runtimes[b].targets
             /\ Shows(new(b).aggregate, Sources(app.runtimes[b], b), state)
  <2> DEFINE r == app.runtimes[b]
             agg == Told(r.aggregate, c, state)
             es == Sources(r, b)
  <2>1. b \in Accounts /\ r \in Runtimes /\ RuntimeIsWell(app, b)
    <3>1. b \in Accounts BY DEF Running
    <3> QED BY <1>2, <3>1, RunningFacts DEF IsWell
  <2>2. Shows(r.aggregate, es, app.state) /\ es \subseteq D
    <3>1. es \subseteq Born(app) \cup {b} BY <1>2, <2>1, SourcesAreBorn
    <3> QED BY <2>1, <3>1 DEF RuntimeIsWell
  <2> HIDE DEF es, D, state
  <2>3. Shows(agg, es, state) BY <1>2, <1>3, <1>4, <1>6, <2>2, ToldShows
  <2> HIDE DEF agg
  <2>4. agg \in Aggregates BY <2>3 DEF Shows, Holds
  <2>5. new(b) = [r EXCEPT !.aggregate = agg] BY DEF agg
  <2> HIDE DEF r
  <2> QED BY <2>1, <2>3, <2>4, <2>5 DEF Runtimes, es, r
<1> HIDE DEF new
<1>9. /\ runs \in [Accounts -> Runtimes \cup {Down}]
      /\ \A b \in Running(app) : runs[b] = new(b)
      /\ \A b \in Accounts \ Running(app) : runs[b] = Down
  BY <1>8 DEF Running
<1> HIDE DEF runs, state, tray
<1>10. /\ app' \in Managers /\ app'.runtimes = runs /\ app'.state = state /\ app'.tray = tray
       /\ app'.sources = app.sources /\ app'.gate = app.gate
  <2>1. tray \in Aggregates BY <1>7 DEF Shows, Holds
  <2>2. state \in UNION {[(1..n) \cup Accounts -> Marks] : n \in Nat}
    <3>1. app.gate \in Seq(Gated) BY <1>2 DEF Managers
    <3>2. Len(app.gate) \in Nat BY <3>1
    <3> QED BY <1>6, <3>2 DEF Born
  <2> HIDE DEF D
  <2> QED BY <1>2, <1>5, <1>9, <2>1, <2>2 DEF Managers
<1>11. Born(app') = Born(app) BY <1>10 DEF Born
<1>12. Running(app') = Running(app)
  <2>1. \A b \in Running(app) : b \in Accounts /\ app'.runtimes[b] \in Runtimes
    BY <1>8, <1>9, <1>10 DEF Running
  <2>2. \A b \in Running(app) : b \in Running(app') BY <1>10, <2>1, RunningFacts
  <2>3. \A b \in Accounts \ Running(app) : b \notin Running(app') BY <1>9, <1>10 DEF Running
  <2> QED BY <2>2, <2>3 DEF Running
<1>13. ASSUME NEW b \in Running(app') PROVE RuntimeIsWell(app', b) /\ TargetsAreLive(app', b)
  <2>1. b \in Running(app) /\ app'.runtimes[b] = new(b) BY <1>9, <1>10, <1>12
  <2>2. RuntimeIsWell(app, b) /\ TargetsAreLive(app, b) BY <1>2, <2>1 DEF IsWell
  <2>3. /\ new(b).folders = app.runtimes[b].folders /\ new(b).idle = app.runtimes[b].idle
        /\ new(b).targets = app.runtimes[b].targets
        /\ Shows(new(b).aggregate, Sources(app.runtimes[b], b), state)
    BY <1>8, <2>1
  <2>4. /\ Sources(new(b), b) = Sources(app.runtimes[b], b)
        /\ Live(new(b)) = Live(app.runtimes[b])
    BY <2>3 DEF Sources, Live
  <2>5. RuntimeIsWell(app', b) BY <1>10, <1>11, <2>1, <2>2, <2>3, <2>4 DEF RuntimeIsWell
  <2>6. TargetsAreLive(app', b) BY <2>1, <2>2, <2>3, <2>4 DEF TargetsAreLive
  <2> QED BY <2>5, <2>6
<1>14. TrayIsWell(app') BY <1>2, <1>7, <1>10, <1>11, <1>12 DEF TrayIsWell
<1>15. app'.state \in [Born(app') \cup Accounts -> Marks] BY <1>6, <1>10, <1>11
<1> QED BY <1>10, <1>13, <1>14, <1>15 DEF IsWell

\* AccountManager::start.
LEMMA InitAccounts == AccountsInit => AccountsInv
<1> SUFFICES ASSUME AccountsInit PROVE AccountsInv OBVIOUS
<1>1. AreLists(config) /\ environment \in Environments /\ network \in BOOLEAN
  BY DEF AccountsInit, AreLists
<1> DEFINE m == EnsureRuntimes(NewManager, Configured, config)
<1>2. IsWell(m)
  <2>1. Configured \in SUBSET Accounts /\ \A a \in Configured : config[a] \in Seq(Folders)
    BY <1>1, AccountsAssumption DEF Configured, AreLists
  <2> QED BY <1>1, <2>1, NewManagerIsWell, EnsureRuntimesFacts
<1>3. app = EnvironmentEverywhere(m, environment) BY DEF AccountsInit, Launched
<1> HIDE DEF m
<1>4. IsWell(app) BY <1>1, <1>2, <1>3, EnvironmentReaches
<1> QED BY <1>1, <1>4 DEF AccountsInv

\* The account's list becomes another one, or goes.
LEMMA ListsStay ==
  ASSUME AreLists(config), NEW a \in Accounts, NEW list \in FolderLists[a] \cup {NoAccount}
  PROVE  AreLists([config EXCEPT ![a] = list])
BY DEF AreLists

\* What a step keeps, and whom it reaches.
AccountsOn == AccountsInv' /\ AccountsHear

\* A configuration that changed was refreshed from.
LEMMA RefreshedOn ==
  ASSUME AccountsInv, NEW m, IsWell(m), AreLists(config'), app' = Refresh(m, config', environment),
         UNCHANGED <<environment, network>>
  PROVE  AccountsOn
<1>1. /\ IsWell(app')
      /\ \A a \in Running(app') : \A c \in Live(app'.runtimes[a]) :
             app'.gate[c].environment = environment
  BY RefreshFacts DEF AccountsInv
<1>2. AccountsInv' BY <1>1 DEF AccountsInv
<1>3. AccountsHear BY <1>1 DEF AccountsHear
<1> QED BY <1>2, <1>3 DEF AccountsOn

\* Whatever happens.
LEMMA AccountsStep == AccountsInv /\ [AccountsNext]_accountVars => AccountsOn
<1> SUFFICES ASSUME AccountsInv, [AccountsNext]_accountVars PROVE AccountsOn OBVIOUS
<1>1. CASE UNCHANGED accountVars
  <2>1. app' = app /\ config' = config /\ environment' = environment /\ network' = network
    BY <1>1 DEF accountVars
  <2>2. AccountsInv' BY <2>1 DEF AccountsInv
  <2> QED BY <2>1, <2>2 DEF AccountsOn, AccountsHear
<1>2. ASSUME NEW a \in Running(app), NEW c \in Live(app.runtimes[a]), FolderWorks(c)
      PROVE  AccountsOn
  <2>1. UNCHANGED <<config, environment, network>> BY <1>2 DEF FolderWorks
  <2>2. IsWell(app') BY <1>2, FolderWorksWell
  <2>3. AccountsInv' BY <2>1, <2>2 DEF AccountsInv
  <2> QED BY <2>1, <2>3 DEF AccountsOn, AccountsHear
<1>3. ASSUME NEW a \in Configured, EditFolders(a) PROVE AccountsOn
  <2>1. PICK list \in FolderLists[a] :
           /\ config' = [config EXCEPT ![a] = list] /\ app' = Refresh(app, config', environment)
           /\ UNCHANGED <<environment, network>>
    BY <1>3 DEF EditFolders
  <2>2. AreLists(config') BY <2>1, ListsStay DEF AccountsInv, Configured
  <2>3. IsWell(app) BY DEF AccountsInv
  <2> QED BY <2>1, <2>2, <2>3, RefreshedOn
<1>4. ASSUME NEW a \in Configured, RemoveAccount(a) PROVE AccountsOn
  <2>1. /\ config' = [config EXCEPT ![a] = NoAccount]
        /\ app' = Refresh(RemoveRuntime(app, a), config', environment)
        /\ UNCHANGED <<environment, network>>
    BY <1>4 DEF RemoveAccount
  <2>2. AreLists(config') BY <2>1, ListsStay DEF AccountsInv, Configured
  <2>3. IsWell(RemoveRuntime(app, a)) BY RemoveRuntimeFacts DEF AccountsInv, Configured
  <2> QED BY <2>1, <2>2, <2>3, RefreshedOn
<1>5. ASSUME NEW a \in Accounts \ Configured, AddAccount(a) PROVE AccountsOn
  <2>1. PICK list \in FolderLists[a] :
           /\ config' = [config EXCEPT ![a] = list]
           /\ app' = Refresh(EnsureRuntime(app, a, list), config', environment)
           /\ UNCHANGED <<environment, network>>
    BY <1>5 DEF AddAccount
  <2>2. AreLists(config') BY <2>1, ListsStay DEF AccountsInv
  <2>3. list \in Seq(Folders) BY AccountsAssumption
  <2>4. IsWell(EnsureRuntime(app, a, list)) BY <2>3, EnsureRuntimeFacts DEF AccountsInv
  <2> QED BY <2>1, <2>2, <2>4, RefreshedOn
<1>6. CASE EditEnvironment
  <2>1. environment' \in Environments /\ UNCHANGED <<app, config, network>>
    BY <1>6 DEF EditEnvironment
  <2>2. AccountsInv' BY <2>1 DEF AccountsInv
  <2> QED BY <2>1, <2>2 DEF AccountsOn, AccountsHear
<1>7. CASE NetworkChanges
  <2>1. /\ network' \in BOOLEAN /\ app' = OnlineEverywhere(app, network')
        /\ UNCHANGED <<config, environment>>
    BY <1>7 DEF NetworkChanges
  <2>2. /\ IsWell(app')
        /\ \A a \in Running(app) : \A c \in Live(app.runtimes[a]) : app'.gate[c].online = network'
    BY <2>1, OnlineReaches DEF AccountsInv
  <2>3. AccountsInv' BY <2>1, <2>2 DEF AccountsInv
  <2>4. AccountsHear BY <2>1, <2>2 DEF AccountsHear
  <2> QED BY <2>3, <2>4 DEF AccountsOn
<1> QED BY <1>1, <1>2, <1>3, <1>4, <1>5, <1>6, <1>7 DEF AccountsNext

\* What the invariant says of the aggregates.
LEMMA WellIsWorst == AccountsInv => AggregateIsWorst
<1> SUFFICES ASSUME AccountsInv PROVE AggregateIsWorst OBVIOUS
<1> DEFINE heard == UNION {app.sources[a] : a \in Running(app)}
           worst(cs) == Worst(States(app, cs) \cup {"unconfigured"})
<1>1. IsWell(app) BY DEF AccountsInv
<1>2. ASSUME NEW a \in Running(app)
      PROVE  app.runtimes[a].aggregate.shown = worst(Sources(app.runtimes[a], a))
  BY <1>1 DEF IsWell, RuntimeIsWell, Shows, States
<1>3. heard = UNION {app.sources[a] : a \in Accounts}
  BY <1>1 DEF IsWell, TrayIsWell, Running
<1>4. Shows(app.tray, heard, app.state) BY <1>1, <1>3 DEF IsWell, TrayIsWell
<1> HIDE DEF heard
<1>5. Range(app.tray.controllers) = heard /\ app.tray.shown = worst(heard)
  BY <1>4 DEF Shows, Holds, States
<1> QED BY <1>2, <1>5 DEF AggregateIsWorst, heard

\* However folders and accounts come and go, each account shows the worst of its own
\* folders and the tray the worst it was given (src/state.rs), for any accounts,
\* folders and lists of them.
THEOREM AggregatesShowTheWorst == AccountsSpec => []AggregateIsWorst
<1>1. AccountsInv /\ [AccountsNext]_accountVars => AccountsInv'
  BY AccountsStep DEF AccountsOn
<1> QED BY InitAccounts, <1>1, WellIsWorst, PTL DEF AccountsSpec

\* A refresh reaches the gates of every folder that then runs, and a network change
\* those of every folder that was there (account_runtime.rs), for any accounts,
\* folders and lists of them.
THEOREM AccountsAreHeard == AccountsSpec => [][AccountsHear]_accountVars
<1>1. AccountsInv /\ [AccountsNext]_accountVars => AccountsInv' /\ AccountsHear
  BY AccountsStep DEF AccountsOn
<1> QED BY InitAccounts, <1>1, PTL DEF AccountsSpec

-----------------------------------------------------------------------------
(* The parts of MCDesktop.                                                 *)

\* A behaviour of the desktop is one of each part: one lives, the others rest.
LEMMA PartsAreLived ==
  Spec => /\ ConflictsSpec /\ PushSpec /\ CredentialsSpec /\ WizardSpec
          /\ AccountsSpec /\ SurroundingsSpec
<1>1. Init => /\ ConflictsInit /\ PushInit /\ CredentialsInit /\ WizardInit
              /\ AccountsInit /\ SurroundingsInit
  BY DEF Init
<1>2. [Next]_vars => /\ [ConflictsNext]_conflictVars /\ [PushNext]_pushVars
                     /\ [CredentialsNext]_credentialVars /\ [WizardNext]_wizardVars
                     /\ [AccountsNext]_accountVars /\ [SurroundingsNext]_surroundingVars
  BY DEF Next, vars, InAccounts, InSurroundings, InPush, InPassword, InWizard, InConflicts
<1> QED
  BY <1>1, <1>2, PTL DEF Spec, ConflictsSpec, PushSpec, CredentialsSpec, WizardSpec,
                     AccountsSpec, SurroundingsSpec

\* What the run checks of the secrets, for any constants, while nobody signs in again
\* under another name: the account keeps the identity it was added with then,
\* and its runs look the password up under it (account_runtime.rs).
THEOREM SecretsStayKept ==
  ASSUME "rename" \notin Events PROVE Spec => []SecretsAreKept
<1>1. CredentialsSpec => []SignInSticks
  BY InitSecrets, SecretsStep, SecretsStick, PTL DEF CredentialsSpec
<1>2. SecretsAreKept <=> SignInSticks /\ AddedHasSecret
  BY DEF SecretsAreKept
<1> QED
  BY <1>1, <1>2, AddedAccountsHaveSecrets, PartsAreLived, PTL

\* FoldersHearAll: what the system reports and what the settings say reaches every
\* folder that then runs (account_runtime.rs, system_monitor.rs, scheduler.rs), for any
\* accounts, folders and networks, and any number of changes.
THEOREM EveryFolderHears == Spec => FoldersHearAll
<1>1. AccountsInv /\ [AccountsNext]_accountVars => AccountsInv' /\ AccountsHear
  BY AccountsStep DEF AccountsOn
<1>2. WorldInv /\ [SurroundingsNext]_surroundingVars => WorldInv' /\ FoldersFollow
  BY FollowStep DEF FollowsOn
<1>3. [Next]_vars => [AccountsNext]_accountVars /\ [SurroundingsNext]_surroundingVars
  BY DEF Next, vars, InAccounts, InSurroundings, InPush, InPassword, InWizard, InConflicts
<1>4. /\ AccountsInv /\ WorldInv /\ [Next]_vars
      => AccountsInv' /\ WorldInv' /\ AccountsHear /\ FoldersFollow
  BY <1>1, <1>2, <1>3
<1>5. Init => AccountsInv /\ WorldInv BY InitAccounts, InitWorld DEF Init
<1> QED BY <1>4, <1>5, PTL DEF Spec, FoldersHearAll
=============================================================================
