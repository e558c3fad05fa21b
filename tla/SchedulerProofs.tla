--------------------------- MODULE SchedulerProofs ---------------------------
(***************************************************************************)
(* Proofs about the schedulers and the permit they share, for any number   *)
(* of folders, batches and callbacks.                                      *)
(*                                                                         *)
(* First what the methods of a scheduler preserve, then the permit's       *)
(* operations, then the invariant of the whole system.  Then what becomes  *)
(* of the work a scheduler is asked to do: no request is forgotten or      *)
(* stranded, the label tells the truth about runs, and no mass deletion    *)
(* goes out before its review.                                             *)
(***************************************************************************)
EXTENDS SchedulerProps, SequenceTheorems, TLAPS

-----------------------------------------------------------------------------
(* The methods of one scheduler.                                           *)

\* t is a scheduler that runs just when s does, and lives just when s does.
Keeps(s, t) ==
    t \in SchedulerType /\ t.running = s.running /\ t.phase = s.phase

\* Telling a scheduler something only flips a flag.
LEMMA ToggleKeeps ==
    ASSUME NEW s \in SchedulerType
    PROVE  /\ Keeps(s, [s EXCEPT !.userPaused = ~@])
           /\ Keeps(s, [s EXCEPT !.batteryPaused = ~@])
           /\ Keeps(s, [s EXCEPT !.online = ~@])
           /\ Keeps(s, [s EXCEPT !.metered = ~@])
           /\ Keeps(s, [s EXCEPT !.hushed = ~@])
           /\ Keeps(s, [s EXCEPT !.pushReady = ~@])
           /\ Keeps(s, [s EXCEPT !.manualOnly = ~@])
           /\ Keeps(s, [s EXCEPT !.guarded = ~@])
<1>1. \A b : (~b) \in BOOLEAN
  OBVIOUS
<1>2. \A v \in BOOLEAN : Keeps(s, [s EXCEPT !.userPaused = v])
  BY DEF Keeps, SchedulerType, SchedulerRecord
<1>3. \A v \in BOOLEAN : Keeps(s, [s EXCEPT !.batteryPaused = v])
  BY DEF Keeps, SchedulerType, SchedulerRecord
<1>4. \A v \in BOOLEAN : Keeps(s, [s EXCEPT !.online = v])
  BY DEF Keeps, SchedulerType, SchedulerRecord
<1>5. \A v \in BOOLEAN : Keeps(s, [s EXCEPT !.metered = v])
  BY DEF Keeps, SchedulerType, SchedulerRecord
<1>6. \A v \in BOOLEAN : Keeps(s, [s EXCEPT !.hushed = v])
  BY DEF Keeps, SchedulerType, SchedulerRecord
<1>7. \A v \in BOOLEAN : Keeps(s, [s EXCEPT !.pushReady = v])
  BY DEF Keeps, SchedulerType, SchedulerRecord
<1>8. \A v \in BOOLEAN : Keeps(s, [s EXCEPT !.manualOnly = v])
  BY DEF Keeps, SchedulerType, SchedulerRecord
<1>9. \A v \in BOOLEAN : Keeps(s, [s EXCEPT !.guarded = v])
  BY DEF Keeps, SchedulerType, SchedulerRecord
<1> QED
  BY <1>1, <1>2, <1>3, <1>4, <1>5, <1>6, <1>7, <1>8, <1>9

\* set_idle_state only repaints the label.
LEMMA IdleKeeps ==
    ASSUME NEW s \in SchedulerType
    PROVE  Keeps(s, Idle(s))
  BY DEF Keeps, Idle, IdleState, SchedulerType, SchedulerRecord, AppState

\* Arming a source never starts a run.
LEMMA ArmedKeeps ==
    ASSUME NEW s \in SchedulerType
    PROVE  Keeps(s, Armed(s))
<1>1. s.armed + 1 \in Nat /\ s.armed + 1 > 0
  BY DEF SchedulerType, SchedulerRecord
<1>2. Keeps(s, [s EXCEPT !.source = TRUE, !.armed = @ + 1])
  BY <1>1 DEF Keeps, SchedulerType, SchedulerRecord
<1>3. Keeps(s, s)
  BY DEF Keeps
<1> QED
  BY <1>2, <1>3 DEF Armed

\* schedule_start
LEMMA ScheduleStartKeeps ==
    ASSUME NEW s \in SchedulerType
    PROVE  Keeps(s, ScheduleStart(s))
<1>1. ASSUME NEW t, Keeps(s, t)
      PROVE  Keeps(s, [t EXCEPT !.state = "SyncQueued"])
  BY <1>1 DEF Keeps, SchedulerType, SchedulerRecord, AppState
<1>2. Keeps(s, s)
  BY DEF Keeps
<1> QED
  BY <1>1, <1>2, ArmedKeeps DEF ScheduleStart

\* schedule_debounce
LEMMA ScheduleDebounceKeeps ==
    ASSUME NEW s \in SchedulerType
    PROVE  Keeps(s, ScheduleDebounce(s))
  BY DEF Keeps, ScheduleDebounce, SchedulerType, SchedulerRecord, AppState

\* schedule_keyring_retry
LEMMA ScheduleKeyringRetryKeeps ==
    ASSUME NEW s \in SchedulerType
    PROVE  Keeps(s, ScheduleKeyringRetry(s))
<1> DEFINE t == Armed(s)
<1>1. Keeps(s, t)
  BY ArmedKeeps
<1>2. t.keyringTries = s.keyringTries
  BY DEF Armed, SchedulerType, SchedulerRecord
<1>3. ASSUME s.keyringTries < KeyringRetryMax
      PROVE  t.keyringTries + 1 \in 0..KeyringRetryMax
  BY <1>2, <1>3, BoundsAssumption DEF SchedulerType, SchedulerRecord
<1> HIDE DEF t
<1>4. ASSUME s.keyringTries < KeyringRetryMax
      PROVE  Keeps(s, [t EXCEPT !.keyringTries = @ + 1])
  BY <1>1, <1>3, <1>4 DEF Keeps, SchedulerType, SchedulerRecord
<1> QED
  BY <1>1, <1>4 DEF ScheduleKeyringRetry, t

\* schedule_server_probe
LEMMA ScheduleServerProbeKeeps ==
    ASSUME NEW s \in SchedulerType
    PROVE  Keeps(s, ScheduleServerProbe(s))
  BY ArmedKeeps DEF ScheduleServerProbe, Keeps

\* queue.add
LEMMA QueuedKeeps ==
    ASSUME NEW s \in SchedulerType, NEW t
    PROVE  Keeps(s, Queued(s, t))
<1>1. Reason(t) \in Reasons
  BY DEF Reason, Reasons
<1> QED
  BY <1>1 DEF Keeps, Queued, SchedulerType, SchedulerRecord

\* Whatever request does, the caller is not running because of it.
LEMMA RequestedKeeps ==
    ASSUME NEW s \in SchedulerType, NEW t
    PROVE  Keeps(s, Requested(s, t))
<1> DEFINE q == Queued(s, t)
<1>1. Keeps(s, q)
  BY QueuedKeeps
<1> HIDE DEF q
<1>2. q \in SchedulerType /\ q.running = s.running /\ q.phase = s.phase
  BY <1>1 DEF Keeps
<1>3. Keeps(s, s)
  BY DEF Keeps
<1>4. ASSUME NEW l \in AppState
      PROVE  Keeps(s, [q EXCEPT !.state = l])
  BY <1>2 DEF Keeps, SchedulerType, SchedulerRecord
<1>5. /\ Keeps(s, [s EXCEPT !.localDirty = TRUE])
      /\ Keeps(s, [s EXCEPT !.remotePending = TRUE])
  BY DEF Keeps, SchedulerType, SchedulerRecord
<1>6. Keeps(s, ScheduleStart(q)) /\ Keeps(s, ScheduleDebounce(q))
  BY <1>2, ScheduleStartKeeps, ScheduleDebounceKeeps DEF Keeps
<1>7. {"DeleteReview", "AuthRequired", "Offline"} \subseteq AppState
  BY DEF AppState
<1> QED
  BY <1>1, <1>3, <1>4, <1>5, <1>6, <1>7 DEF Requested, q

\* What a pause left behind becomes a request, or the label is repainted.
LEMMA ResumedKeeps ==
    ASSUME NEW s \in SchedulerType
    PROVE  Keeps(s, Resumed(s))
<1> DEFINE clean == [s EXCEPT !.localDirty = FALSE, !.remotePending = FALSE]
<1>1. Keeps(s, clean)
  BY DEF Keeps, SchedulerType, SchedulerRecord
<1> HIDE DEF clean
<1>2. Keeps(s, Requested(clean, "Resume")) /\ Keeps(s, Idle(clean))
  BY <1>1, RequestedKeeps, IdleKeeps DEF Keeps
<1> QED
  BY <1>2 DEF Resumed, clean

\* Coming back online starts no run of its own.
LEMMA ReconnectedKeeps ==
    ASSUME NEW s \in SchedulerType
    PROVE  Keeps(s, Reconnected(s))
  BY RequestedKeeps, IdleKeeps DEF Reconnected

\* A start that aborts leaves the scheduler as idle as it was.
LEMMA AbortedKeeps ==
    ASSUME NEW s \in SchedulerType, StartVerdict(s) # "go"
    PROVE  Keeps(s, Aborted(s, StartVerdict(s)))
<1> DEFINE v == StartVerdict(s)
<1>1. v \in {"nothing", "gated", "paused", "unauthorized", "underReview",
             "massDeletion"}
  BY DEF StartVerdict
<1>2. Missing(s) \in SUBSET Batches
  BY DEF Missing, SchedulerType, SchedulerRecord
<1>3. Keeps(s, s)
  BY DEF Keeps
<1>4. /\ Keeps(s, [s EXCEPT !.state = "Offline"])
      /\ Keeps(s, [s EXCEPT !.state = "AuthRequired"])
      /\ Keeps(s, [s EXCEPT !.state = "DeleteReview"])
  BY DEF Keeps, SchedulerType, SchedulerRecord, AppState
<1>5. Keeps(s, [s EXCEPT !.queue = {}, !.localDirty = TRUE])
  BY DEF Keeps, SchedulerType, SchedulerRecord
<1>6. Keeps(s, [s EXCEPT !.state = "DeleteReview", !.alert = Missing(s)])
  BY <1>2 DEF Keeps, SchedulerType, SchedulerRecord, AppState
<1> HIDE DEF v
<1>7. Keeps(s, Aborted(s, v))
  <2>1. CASE v = "nothing"
    BY <2>1, <1>3 DEF Aborted
  <2>2. CASE v = "gated"
    BY <2>2, <1>4 DEF Aborted
  <2>3. CASE v = "paused"
    BY <2>3, <1>5 DEF Aborted
  <2>4. CASE v = "unauthorized"
    BY <2>4, <1>4 DEF Aborted
  <2>5. CASE v = "underReview"
    BY <2>5, <1>4 DEF Aborted
  <2>6. CASE v = "massDeletion"
    BY <2>6, <1>6 DEF Aborted
  <2> QED
    BY <1>1, <2>1, <2>2, <2>3, <2>4, <2>5, <2>6
<1> QED
  BY <1>7 DEF v

\* A scheduler that joins the line of the permit is not running.
LEMMA WaitingKeeps ==
    ASSUME NEW s \in SchedulerType
    PROVE  Keeps(s, Waiting(s))
  BY DEF Keeps, Waiting, SchedulerType, SchedulerRecord, AppState

\* begin_run with the slot in hand sets running, and keeps the record well typed.
LEMMA RunningRuns ==
    ASSUME NEW s \in SchedulerType
    PROVE  /\ Running(s) \in SchedulerType
           /\ Running(s).running /\ Running(s).phase = s.phase
<1>1. Batches \ s.disk \in SUBSET Batches /\ "Syncing" \in AppState
  BY DEF AppState
<1>2. Running(s) \in SchedulerRecord /\ Running(s).running /\ Running(s).phase = s.phase
  BY <1>1 DEF Running, SchedulerType, SchedulerRecord
<1>3. /\ Running(s).source = s.source /\ Running(s).armed = s.armed
      /\ Running(s).cooldown = s.cooldown /\ Running(s).coolTimers = s.coolTimers
  BY DEF Running, SchedulerType, SchedulerRecord
<1> QED
  BY <1>2, <1>3 DEF SchedulerType

\* The end of a cooldown only arms a timer or relabels.
LEMMA CooldownFinishedKeeps ==
    ASSUME NEW s \in SchedulerType
    PROVE  Keeps(s, CooldownFinished(s))
<1>1. Keeps(s, s)
  BY DEF Keeps
<1> QED
  BY <1>1, IdleKeeps, ScheduleStartKeeps, ArmedKeeps DEF CooldownFinished

\* The verdict on a run repaints the label and sets flags.
LEMMA JudgedType ==
    ASSUME NEW s \in SchedulerType, NEW o \in SyncOutcome
    PROVE  Judged(s, o) \in SchedulerType /\ Judged(s, o).phase = s.phase
<1> DEFINE reset  == [s EXCEPT !.keyringLocked = FALSE, !.keyringTries = 0,
                               !.authRequired = FALSE, !.unreachable = FALSE,
                               !.failures = 0, !.everSynced = TRUE]
           more   == IF s.failures < BackoffAfter THEN s.failures + 1
                     ELSE s.failures
           failed == [s EXCEPT !.keyringLocked = o = "KeyringLocked",
                               !.failures = more]
<1>1. 0 \in 0..KeyringRetryMax /\ 0 \in 0..BackoffAfter
  BY BoundsAssumption
<1>2. reset \in SchedulerType /\ reset.phase = s.phase
  BY <1>1 DEF SchedulerType, SchedulerRecord
<1>3. more \in 0..BackoffAfter
  BY BoundsAssumption DEF SchedulerType, SchedulerRecord
<1>4. (o = "KeyringLocked") \in BOOLEAN
  OBVIOUS
<1> HIDE DEF more, reset
<1>5. failed \in SchedulerType /\ failed.phase = s.phase
  <2>1. failed \in SchedulerType
    BY <1>3, <1>4 DEF SchedulerType, SchedulerRecord
  <2>2. failed.phase = s.phase
    BY DEF SchedulerType, SchedulerRecord
  <2> QED
    BY <2>1, <2>2
<1> HIDE DEF failed
<1>6. ASSUME NEW t \in SchedulerType, NEW l \in AppState
      PROVE  /\ [t EXCEPT !.state = l] \in SchedulerType
             /\ [t EXCEPT !.state = l].phase = t.phase
             /\ [t EXCEPT !.authRequired = TRUE, !.state = l] \in SchedulerType
             /\ [t EXCEPT !.authRequired = TRUE, !.state = l].phase = t.phase
             /\ [t EXCEPT !.unreachable = TRUE, !.state = l] \in SchedulerType
             /\ [t EXCEPT !.unreachable = TRUE, !.state = l].phase = t.phase
  BY DEF SchedulerType, SchedulerRecord
<1>7. Idle(reset) \in SchedulerType /\ Idle(reset).phase = reset.phase
  BY <1>2, IdleKeeps DEF Keeps
<1>8. {"IdleOk", "AuthRequired", "KeyringLocked", "Error", "Offline"}
        \subseteq AppState
  BY DEF AppState
<1>9. Judged(s, o) =
        CASE o = "Success"  -> Idle(reset)
          [] o = "Conflict" -> [reset EXCEPT !.state = "IdleOk"]
          [] o \in {"AuthFailed", "NoCredentials"} ->
                 [failed EXCEPT !.authRequired = TRUE, !.state = "AuthRequired"]
          [] o = "KeyringLocked" -> [failed EXCEPT !.state = "KeyringLocked"]
          [] o = "Failed"        -> [failed EXCEPT !.state = "Error"]
          [] o = "NetworkError"  ->
                 [failed EXCEPT !.unreachable = TRUE, !.state = "Offline"]
  BY DEF Judged, reset, failed, more
<1> DEFINE Lives(t) == t \in SchedulerType /\ t.phase = s.phase
<1>10. /\ Lives(Idle(reset)) /\ Lives([reset EXCEPT !.state = "IdleOk"])
       /\ Lives([failed EXCEPT !.authRequired = TRUE, !.state = "AuthRequired"])
       /\ Lives([failed EXCEPT !.state = "KeyringLocked"])
       /\ Lives([failed EXCEPT !.state = "Error"])
       /\ Lives([failed EXCEPT !.unreachable = TRUE, !.state = "Offline"])
  BY <1>2, <1>5, <1>6, <1>7, <1>8
<1> HIDE DEF Lives
<1>11. Lives(Judged(s, o))
  BY <1>9, <1>10 DEF SyncOutcome
<1> QED
  BY <1>11 DEF Lives

\* Recording the baseline changes nothing else of the record.
LEMMA RebaselinedType ==
    ASSUME NEW s \in SchedulerType, NEW o, NEW d
    PROVE  Rebaselined(s, o, d) \in SchedulerType /\ Rebaselined(s, o, d).phase = s.phase
  BY DEF Rebaselined, SchedulerType, SchedulerRecord

\* Whatever the outcome, the scheduler is no longer running.
LEMMA FollowedIdles ==
    ASSUME NEW s \in SchedulerType, NEW o
    PROVE  /\ Followed(s, o) \in SchedulerType
           /\ ~Followed(s, o).running /\ Followed(s, o).phase = s.phase
<1> DEFINE done == [s EXCEPT !.running = FALSE]
<1>1. done \in SchedulerType /\ ~done.running /\ done.phase = s.phase
  BY DEF SchedulerType, SchedulerRecord
<1> HIDE DEF done
<1>2. /\ done.coolTimers + 1 \in Nat /\ done.coolTimers + 1 > 0
      /\ done.queue \ {"LocalInotify"} \in SUBSET Reasons
  BY <1>1 DEF SchedulerType, SchedulerRecord
<1>3. LET t == [done EXCEPT !.queue = @ \ {"LocalInotify"}, !.cooldown = TRUE,
                            !.coolTimers = @ + 1, !.coolCallback = TRUE]
      IN  t \in SchedulerType /\ ~t.running /\ t.phase = done.phase
  <2> DEFINE n == done.coolTimers + 1
             q == done.queue \ {"LocalInotify"}
  <2>1. n \in Nat /\ n > 0 /\ q \in SUBSET Reasons
    BY <1>2
  <2> HIDE DEF n, q
  <2>2. LET t == [done EXCEPT !.queue = q, !.cooldown = TRUE,
                              !.coolTimers = n, !.coolCallback = TRUE]
        IN  t \in SchedulerType /\ ~t.running /\ t.phase = done.phase
    BY <1>1, <2>1 DEF SchedulerType, SchedulerRecord
  <2> QED
    BY <2>2 DEF n, q
<1>4. Keeps(done, Queued(done, "Retry"))
  BY <1>1, QueuedKeeps
<1>5. /\ Keeps(done, ScheduleKeyringRetry(Queued(done, "Retry")))
      /\ Keeps(done, ScheduleServerProbe(Queued(done, "Retry")))
  BY <1>4, ScheduleKeyringRetryKeeps, ScheduleServerProbeKeeps DEF Keeps
<1> QED
  BY <1>1, <1>3, <1>5 DEF Followed, Keeps, done

-----------------------------------------------------------------------------
(* The operations of the permit.                                           *)

\* try_acquire_root takes one slot, when one is free, and tracks the root.
LEMMA AcquiredType ==
    ASSUME NEW p \in PermitType, NEW f \in Folders, CanAcquire(p, f)
    PROVE  Acquired(p, f) \in PermitType
<1>1. p.inUse + 1 \in 0..MaxConcurrent
  BY MaxConcurrentAssumption DEF PermitType, CanAcquire
<1>2. Append(p.roots, f) \in Seq(Folders)
  BY DEF PermitType
<1> QED
  BY <1>1, <1>2 DEF PermitType, Acquired

\* wait_for_release appends a callback and touches no slot.
LEMMA WaitForReleaseType ==
    ASSUME NEW p \in PermitType, NEW f \in Folders
    PROVE  WaitForRelease(p, f) \in PermitType
<1>1. Append(p.waiters, f) \in Seq(Waiters)
  BY DEF PermitType, Waiters
<1> QED
  BY <1>1 DEF PermitType, WaitForRelease

\* The woken scheduler takes its idle source and claims its turn.
LEMMA ClaimReleasedTurnType ==
    ASSUME NEW p \in PermitType
    PROVE  /\ ClaimReleasedTurn(p) \in PermitType
           /\ p.idles # <<>> => [p EXCEPT !.idles = Tail(@)] \in PermitType
<1>1. (IF p.pendingWakeups = 0 THEN 0 ELSE p.pendingWakeups - 1) \in Nat
  BY DEF PermitType
<1>2. ASSUME p.idles # <<>> PROVE Tail(p.idles) \in Seq(Waiters)
  BY <1>2 DEF PermitType
<1>3. ClaimReleasedTurn(p) \in PermitType
  BY <1>1 DEF PermitType, ClaimReleasedTurn
<1>4. p.idles # <<>> => [p EXCEPT !.idles = Tail(@)] \in PermitType
  BY <1>2 DEF PermitType
<1> QED
  BY <1>3, <1>4

\* The first half of release: a slot comes back, never below none.
LEMMA SlotFreedType ==
    ASSUME NEW p \in PermitType
    PROVE  SlotFreed(p) \in PermitType
<1>1. CASE p.inUse = 0
  BY <1>1 DEF SlotFreed
<1>2. CASE p.inUse # 0
  <2> DEFINE r == IF p.roots = <<>> THEN <<>> ELSE Tail(p.roots)
  <2>1. p.inUse - 1 \in 0..MaxConcurrent
    BY <1>2, MaxConcurrentAssumption DEF PermitType
  <2>2. r \in Seq(Folders)
    BY DEF PermitType
  <2>3. SlotFreed(p) = [p EXCEPT !.inUse = p.inUse - 1, !.roots = r]
    BY <1>2 DEF SlotFreed
  <2> HIDE DEF r
  <2> QED
    BY <2>1, <2>2, <2>3 DEF PermitType
<1> QED
  BY <1>1, <1>2

\* The second half of release: the oldest callback becomes an idle source.
LEMMA OldestWokenType ==
    ASSUME NEW p \in PermitType
    PROVE  OldestWoken(p) \in PermitType
<1>1. CASE p.waiters = <<>>
  BY <1>1 DEF OldestWoken
<1>2. CASE p.waiters # <<>>
  <2>1. /\ Tail(p.waiters) \in Seq(Waiters)
        /\ Append(p.idles, Head(p.waiters)) \in Seq(Waiters)
        /\ p.pendingWakeups + 1 \in Nat
    BY <1>2 DEF PermitType
  <2>2. OldestWoken(p) = [p EXCEPT !.waiters = Tail(p.waiters),
                                   !.pendingWakeups = p.pendingWakeups + 1,
                                   !.idles = Append(p.idles, Head(p.waiters))]
    BY <1>2 DEF OldestWoken
  <2> QED
    BY <2>1, <2>2 DEF PermitType
<1> QED
  BY <1>1, <1>2

\* release keeps the permit well typed, whoever calls it.
LEMMA ReleasedType ==
    ASSUME NEW p \in PermitType
    PROVE  Released(p) \in PermitType
  BY SlotFreedType, OldestWokenType DEF Released

\* Dropping a scheduler blanks its callbacks and keeps their places.
LEMMA ForgottenType ==
    ASSUME NEW p \in PermitType, NEW f \in Folders
    PROVE  /\ Forgotten(p, f) \in PermitType
           /\ Len(Forgotten(p, f).idles) = Len(p.idles)
<1> DEFINE Forget(q) == [i \in DOMAIN q |-> IF q[i] = f THEN Dropped ELSE q[i]]
<1>1. ASSUME NEW q \in Seq(Waiters)
      PROVE  Forget(q) \in Seq(Waiters) /\ Len(Forget(q)) = Len(q)
  <2>1. DOMAIN q = 1..Len(q) /\ Len(q) \in Nat
    OBVIOUS
  <2>2. \A i \in 1..Len(q) : Forget(q)[i] \in Waiters
    BY <2>1 DEF Waiters
  <2>3. Forget(q) \in [1..Len(q) -> Waiters]
    BY <2>1, <2>2
  <2> HIDE DEF Forget
  <2>4. Forget(q) \in Seq(Waiters)
    BY <2>1, <2>3, SeqDef
  <2>5. DOMAIN Forget(q) = 1..Len(q)
    BY <2>3
  <2> QED
    BY <2>1, <2>4, <2>5, LenProperties
<1>2. Forgotten(p, f) = [p EXCEPT !.waiters = Forget(@), !.idles = Forget(@)]
  BY DEF Forgotten
<1>3. p.waiters \in Seq(Waiters) /\ p.idles \in Seq(Waiters)
  BY DEF PermitType
<1> HIDE DEF Forget
<1> QED
  BY <1>1, <1>2, <1>3 DEF PermitType

-----------------------------------------------------------------------------
(* What a step does to the runs and to the permit.                         *)

SameRun(f) == sched'[f].running = sched[f].running /\ sched'[f].phase = sched[f].phase

\* No run starts or ends, and no folder comes or goes.
SameRuns == \A g \in Folders : SameRun(g)

\* None does but that of f.
OthersSame(f) ==
    sched'[f].phase = sched[f].phase /\ \A g \in Folders \ {f} : SameRun(g)

Quiet == SameRuns /\ UNCHANGED <<permit, orphans>>

\* A start with the permit p: it aborts, enters, or joins the line.
Attempt(f, p, turn) ==
    LET enters == (turn \/ WaiterCount(p) = 0) /\ CanAcquire(p, f)
    IN  /\ UNCHANGED orphans
        /\ \/ SameRuns /\ permit' = IF turn THEN Released(p) ELSE p
           \/ enters /\ permit' = Acquired(p, f) /\ sched'[f].running /\ OthersSame(f)
           \/ ~enters /\ permit' = WaitForRelease(p, f) /\ SameRuns

\* The permit once the first idle source is taken from the loop.
IdleTaken == [permit EXCEPT !.idles = Tail(@)]

Woken(f) ==
    /\ permit.idles # <<>> /\ Head(permit.idles) = f
    /\ Attempt(f, ClaimReleasedTurn(IdleTaken), TRUE)

\* The scheduler behind the callback is gone.
Swallowed ==
    /\ permit.idles # <<>> /\ Head(permit.idles) = Dropped
    /\ SameRuns /\ permit' = IdleTaken /\ UNCHANGED orphans

\* A folder is stopped, or is replaced once it was.
Removed(f) ==
    /\ "folders" \in Inputs \/ sched[f].phase # "live"
    /\ sched'[f].running => sched[f].running
    /\ \A g \in Folders \ {f} : SameRun(g)
    /\ \/ /\ ~sched'[f].running
          /\ orphans' = IF sched[f].running THEN orphans \cup {f} ELSE orphans
          /\ UNCHANGED permit
       \/ permit' \in {permit, Forgotten(permit, f)} /\ UNCHANGED orphans

Ended(f) ==
    \/ /\ sched[f].running /\ ~sched'[f].running /\ OthersSame(f)
       /\ permit' = Released(permit)
       /\ UNCHANGED orphans
    \/ SameRuns /\ orphans' = orphans \ {f} /\ UNCHANGED permit

Effect ==
    \/ Quiet
    \/ Swallowed
    \/ \E f \in Folders :
           Attempt(f, permit, FALSE) \/ Woken(f) \/ Removed(f) \/ Ended(f)

\* A scheduler that is replaced by one that runs just when it did.
LEMMA BecomeStep ==
    ASSUME TypeOK, NEW f \in Folders, NEW s \in SchedulerType,
           s.running = sched[f].running, s.phase = sched[f].phase, Become(f, s)
    PROVE  TypeOK' /\ Effect
<1>1. TypeOK'
  BY DEF TypeOK, Become
<1>2. Quiet
  BY DEF TypeOK, Become, Quiet, SameRuns, SameRun
<1> QED
  BY <1>1, <1>2 DEF Effect

\* start, with or without a turn that a release handed over.
LEMMA StartStep ==
    ASSUME TypeOK, NEW f \in Folders, NEW s0 \in SchedulerType,
           s0.running = sched[f].running, s0.phase = sched[f].phase,
           NEW p \in PermitType, NEW turn \in BOOLEAN, Start(f, s0, p, turn)
    PROVE  TypeOK' /\ Attempt(f, p, turn)
<1> DEFINE s == [s0 EXCEPT !.source = FALSE]
           verdict == StartVerdict(s)
           enters == (turn \/ WaiterCount(p) = 0) /\ CanAcquire(p, f)
<1>1. s \in SchedulerType /\ s.running = s0.running /\ s.phase = s0.phase
  BY DEF SchedulerType, SchedulerRecord
<1>2. /\ UNCHANGED orphans
      /\ \/ /\ verdict # "go"
            /\ sched' = [sched EXCEPT ![f] = Aborted(s, verdict)]
            /\ permit' = IF turn THEN Released(p) ELSE p
         \/ /\ verdict = "go" /\ enters
            /\ sched' = [sched EXCEPT ![f] = Running(s)]
            /\ permit' = Acquired(p, f)
         \/ /\ verdict = "go" /\ ~enters
            /\ sched' = [sched EXCEPT ![f] = Waiting(s)]
            /\ permit' = WaitForRelease(p, f)
  BY DEF Start
<1> HIDE DEF s
<1>3. CASE verdict # "go"
  <2>1. Keeps(s, Aborted(s, verdict))
    BY <1>1, <1>3, AbortedKeeps
  <2> HIDE DEF verdict, enters
  <2>2. TypeOK'
    BY <1>2, <1>3, <2>1, ReleasedType DEF TypeOK, Keeps
  <2>3. SameRuns
    BY <1>1, <1>2, <1>3, <2>1 DEF TypeOK, Keeps, SameRuns, SameRun
  <2> QED
    BY <1>2, <1>3, <2>2, <2>3 DEF Attempt
<1>4. CASE verdict = "go" /\ enters
  <2>1. Running(s) \in SchedulerType /\ Running(s).running /\ Running(s).phase = s.phase
    BY <1>1, RunningRuns
  <2>2. Acquired(p, f) \in PermitType
    BY <1>4, AcquiredType
  <2> HIDE DEF verdict
  <2>3. sched' = [sched EXCEPT ![f] = Running(s)] /\ permit' = Acquired(p, f)
    BY <1>2, <1>4
  <2>4. TypeOK'
    BY <1>2, <2>1, <2>2, <2>3 DEF TypeOK
  <2>5. sched'[f].running /\ OthersSame(f)
    BY <1>1, <2>1, <2>3 DEF TypeOK, OthersSame, SameRun
  <2> QED
    BY <1>2, <1>4, <2>3, <2>4, <2>5 DEF Attempt
<1>5. CASE verdict = "go" /\ ~enters
  <2>1. Keeps(s, Waiting(s))
    BY <1>1, WaitingKeeps
  <2>2. WaitForRelease(p, f) \in PermitType
    BY WaitForReleaseType
  <2> HIDE DEF verdict, enters
  <2>3. sched' = [sched EXCEPT ![f] = Waiting(s)] /\ permit' = WaitForRelease(p, f)
    BY <1>2, <1>5
  <2>4. TypeOK'
    BY <1>2, <2>1, <2>2, <2>3 DEF TypeOK, Keeps
  <2>5. SameRuns
    BY <1>1, <2>1, <2>3 DEF TypeOK, Keeps, SameRuns, SameRun
  <2>6. ~((turn \/ WaiterCount(p) = 0) /\ CanAcquire(p, f))
    BY <1>5 DEF enters
  <2> QED
    BY <1>2, <2>3, <2>4, <2>5, <2>6 DEF Attempt
<1> QED
  BY <1>3, <1>4, <1>5

\* request, whether it enters start at once or not.
LEMMA SubmitStep ==
    ASSUME TypeOK, NEW f \in Folders, NEW s \in SchedulerType,
           s.running = sched[f].running, s.phase = sched[f].phase,
           NEW t, Submit(f, s, t)
    PROVE  TypeOK' /\ Effect
<1>1. Keeps(s, Queued(s, t)) /\ Keeps(s, Requested(s, t))
  BY QueuedKeeps, RequestedKeeps
<1>2. CASE StartsNow(s, t)
  <2>1. Start(f, Queued(s, t), permit, FALSE)
    BY <1>2 DEF Submit
  <2> QED
    BY <1>1, <2>1, StartStep DEF TypeOK, Keeps, Effect
<1>3. CASE ~StartsNow(s, t)
  <2>1. Become(f, Requested(s, t))
    BY <1>3 DEF Submit
  <2> QED
    BY <1>1, <2>1, BecomeStep DEF Keeps
<1> QED
  BY <1>2, <1>3

\* A new scheduler is well typed and does not run.
LEMMA NewSchedulerType == NewScheduler \in SchedulerType /\ ~NewScheduler.running
<1>1. 0 \in 0..KeyringRetryMax /\ 0 \in 0..BackoffAfter
  BY BoundsAssumption
<1> QED
  BY <1>1 DEF NewScheduler, SchedulerType, SchedulerRecord, AppState

-----------------------------------------------------------------------------
(* One lemma per group of actions.                                         *)

\* The inputs that toggle what a scheduler was told.
LEMMA InputStep ==
    ASSUME TypeOK, NEW f \in Folders,
           \/ SetUserPaused(f) \/ SetBatteryPaused(f)
           \/ SetOnline(f) \/ SetMetered(f) \/ SetHushed(f)
           \/ SetRemotePushReady(f) \/ UpdateSyncConfig(f)
    PROVE  TypeOK' /\ Effect
<1>1. sched[f] \in SchedulerType
  BY DEF TypeOK
<1>2. CASE SetUserPaused(f)
  <2> DEFINE s == [sched[f] EXCEPT !.userPaused = ~@]
  <2>1. s \in SchedulerType /\ s.running = sched[f].running
        /\ s.phase = sched[f].phase
    BY <1>1, ToggleKeeps DEF Keeps
  <2>2. Become(f, IF s.userPaused THEN [s EXCEPT !.state = "PausedUser"]
                  ELSE Resumed(s))
    BY <1>2 DEF SetUserPaused
  <2> HIDE DEF s
  <2>3. Keeps(s, [s EXCEPT !.state = "PausedUser"]) /\ Keeps(s, Resumed(s))
    BY <2>1, ResumedKeeps DEF Keeps, SchedulerType, SchedulerRecord, AppState
  <2> QED
    BY <2>1, <2>2, <2>3, BecomeStep DEF Keeps
<1>3. CASE SetBatteryPaused(f)
  <2> DEFINE s == [sched[f] EXCEPT !.batteryPaused = ~@]
  <2>1. s \in SchedulerType /\ s.running = sched[f].running
        /\ s.phase = sched[f].phase
    BY <1>1, ToggleKeeps DEF Keeps
  <2>2. Become(f, IF s.batteryPaused THEN [s EXCEPT !.state = "PausedBattery"]
                  ELSE IF s.userPaused THEN s
                  ELSE Resumed(s))
    BY <1>3 DEF SetBatteryPaused
  <2> HIDE DEF s
  <2>3. Keeps(s, [s EXCEPT !.state = "PausedBattery"]) /\ Keeps(s, Resumed(s))
    BY <2>1, ResumedKeeps DEF Keeps, SchedulerType, SchedulerRecord, AppState
  <2> QED
    BY <2>1, <2>2, <2>3, BecomeStep DEF Keeps
<1>4. CASE SetOnline(f)
  <2> DEFINE s     == [sched[f] EXCEPT !.online = ~@]
             probe == IF s.unreachable
                      THEN ScheduleServerProbe(Queued(s, "Retry")) ELSE s
  <2>1. s \in SchedulerType /\ s.running = sched[f].running
        /\ s.phase = sched[f].phase
    BY <1>1, ToggleKeeps DEF Keeps
  <2>2. Become(f, IF s.online THEN Reconnected(probe)
                  ELSE [s EXCEPT !.state = "Offline"])
    BY <1>4 DEF SetOnline
  <2> HIDE DEF s
  <2>3. Keeps(s, [s EXCEPT !.state = "Offline"]) /\ Keeps(s, Queued(s, "Retry"))
    BY <2>1, QueuedKeeps DEF Keeps, SchedulerType, SchedulerRecord, AppState
  <2>4. Keeps(s, probe)
    BY <2>1, <2>3, ScheduleServerProbeKeeps DEF Keeps
  <2> HIDE DEF probe
  <2>5. Keeps(s, Reconnected(probe))
    BY <2>4, ReconnectedKeeps DEF Keeps
  <2> QED
    BY <2>1, <2>2, <2>3, <2>5, BecomeStep DEF Keeps
<1>5. CASE SetMetered(f)
  <2> DEFINE s == [sched[f] EXCEPT !.metered = ~@]
  <2>1. s \in SchedulerType /\ s.running = sched[f].running
        /\ s.phase = sched[f].phase
    BY <1>1, ToggleKeeps DEF Keeps
  <2>2. Become(f, IF ~s.metered /\ s.online THEN Reconnected(s) ELSE s)
    BY <1>5 DEF SetMetered
  <2> HIDE DEF s
  <2> QED
    BY <2>1, <2>2, ReconnectedKeeps, BecomeStep DEF Keeps
<1>6. CASE SetHushed(f)
  BY <1>1, <1>6, ToggleKeeps, BecomeStep DEF SetHushed, Keeps
<1>7. CASE SetRemotePushReady(f)
  BY <1>1, <1>7, ToggleKeeps, BecomeStep DEF SetRemotePushReady, Keeps
<1>8. CASE UpdateSyncConfig(f)
  BY <1>1, <1>8, ToggleKeeps, BecomeStep DEF UpdateSyncConfig, Keeps
<1> QED
  BY <1>2, <1>3, <1>4, <1>5, <1>6, <1>7, <1>8

\* What submits a request, and what happens to the files.
LEMMA RequestStep ==
    ASSUME TypeOK, NEW f \in Folders,
           \/ \E t \in Requests : Request(f, t)
           \/ CredentialsRenewed(f)
           \/ \E b \in Batches : LoseBatch(f, b)
           \/ ApproveDeleteOnce(f) \/ RestoreFromServer(f) \/ SetGuardEnabled(f)
    PROVE  TypeOK' /\ Effect
<1>1. sched[f] \in SchedulerType
  BY DEF TypeOK
<1>2. CASE \E t \in Requests : Request(f, t)
  BY <1>1, <1>2, SubmitStep DEF Request
<1>3. CASE CredentialsRenewed(f)
  <2>1. [sched[f] EXCEPT !.authRequired = FALSE] \in SchedulerType
    BY <1>1 DEF SchedulerType, SchedulerRecord
  <2>2. /\ [sched[f] EXCEPT !.authRequired = FALSE].running = sched[f].running
        /\ [sched[f] EXCEPT !.authRequired = FALSE].phase = sched[f].phase
    BY <1>1 DEF SchedulerType, SchedulerRecord
  <2> QED
    BY <1>3, <2>1, <2>2, SubmitStep DEF CredentialsRenewed
<1>4. CASE \E b \in Batches : LoseBatch(f, b)
  <2> PICK b \in Batches : LoseBatch(f, b)
    BY <1>4
  <2> DEFINE s == [sched[f] EXCEPT !.disk = @ \ {b}]
  <2>1. s \in SchedulerType /\ s.running = sched[f].running
        /\ s.phase = sched[f].phase
    BY <1>1 DEF SchedulerType, SchedulerRecord
  <2>2. Become(f, s) \/ Become(f, [s EXCEPT !.foundGone = @ \cup {b}])
    BY DEF LoseBatch
  <2> HIDE DEF s
  <2>3. Keeps(s, [s EXCEPT !.foundGone = @ \cup {b}])
    BY <2>1 DEF Keeps, SchedulerType, SchedulerRecord
  <2> QED
    BY <2>1, <2>2, <2>3, BecomeStep DEF Keeps
<1>5. CASE ApproveDeleteOnce(f)
  <2> DEFINE s == [sched[f] EXCEPT !.alert = {}, !.bypass = TRUE,
                                   !.approved = @ \cup sched[f].alert]
  <2>1. s \in SchedulerType /\ s.running = sched[f].running
        /\ s.phase = sched[f].phase
    BY <1>1 DEF SchedulerType, SchedulerRecord
  <2>2. Submit(f, s, "Manual")
    BY <1>5 DEF ApproveDeleteOnce
  <2> HIDE DEF s
  <2> QED
    BY <2>1, <2>2, SubmitStep
<1>6. CASE RestoreFromServer(f)
  <2> DEFINE s == [sched[f] EXCEPT !.alert = {}, !.bypass = FALSE,
                                   !.baseline = sched[f].disk]
  <2>1. s \in SchedulerType /\ s.running = sched[f].running
        /\ s.phase = sched[f].phase
    BY <1>1 DEF SchedulerType, SchedulerRecord
  <2>2. Submit(f, s, "Manual")
    BY <1>6 DEF RestoreFromServer
  <2> HIDE DEF s
  <2> QED
    BY <2>1, <2>2, SubmitStep
<1>7. CASE SetGuardEnabled(f)
  <2> DEFINE s       == [sched[f] EXCEPT !.guarded = ~@]
             cleared == [s EXCEPT !.alert = {}, !.bypass = FALSE,
                                  !.state = "IdleNotSynced"]
  <2>1. s \in SchedulerType /\ s.running = sched[f].running
        /\ s.phase = sched[f].phase
    BY <1>1, ToggleKeeps DEF Keeps
  <2>2. Become(f, s) \/ Submit(f, cleared, "Manual")
    BY <1>7 DEF SetGuardEnabled
  <2> HIDE DEF s
  <2>3. Keeps(s, cleared)
    BY <2>1 DEF Keeps, SchedulerType, SchedulerRecord, AppState
  <2> HIDE DEF cleared
  <2> QED
    BY <2>1, <2>2, <2>3, SubmitStep, BecomeStep DEF Keeps
<1> QED
  BY <1>2, <1>3, <1>4, <1>5, <1>6, <1>7

\* Removing a folder and adding it again.
LEMMA RemovalStep ==
    ASSUME TypeOK, NEW f \in Folders, Stop(f) \/ Drop(f) \/ AddFolder(f)
    PROVE  TypeOK' /\ Effect
<1>1. sched[f] \in SchedulerType
  BY DEF TypeOK
<1>2. CASE Stop(f)
  <2> DEFINE s      == sched[f]
             armed  == IF s.source THEN s.armed - 1 ELSE s.armed
             cools  == IF s.cooldown THEN s.coolTimers - 1 ELSE s.coolTimers
             halted == [s EXCEPT !.phase = "stopped", !.queue = {}, !.alert = {},
                                 !.localDirty = FALSE, !.remotePending = FALSE,
                                 !.armed = armed, !.source = FALSE,
                                 !.settling = FALSE, !.coolTimers = cools,
                                 !.cooldown = FALSE, !.coolCallback = FALSE,
                                 !.running = FALSE]
  <2>1. /\ sched' = [sched EXCEPT ![f] = halted]
        /\ orphans' = IF s.running THEN orphans \cup {f} ELSE orphans
        /\ UNCHANGED permit
    BY <1>2 DEF Stop
  <2>2. armed \in Nat /\ cools \in Nat
    BY <1>1 DEF SchedulerType, SchedulerRecord
  <2> HIDE DEF armed, cools
  <2>3. halted \in SchedulerType /\ ~halted.running
    <3>1. s \in SchedulerRecord
      BY <1>1 DEF SchedulerType
    <3>2. halted \in SchedulerRecord
      BY <2>2, <3>1 DEF SchedulerRecord
    <3>3. ~halted.source /\ ~halted.cooldown /\ ~halted.running
      BY <3>1 DEF SchedulerRecord
    <3> QED
      BY <3>2, <3>3 DEF SchedulerType
  <2> HIDE DEF halted
  <2>4. TypeOK'
    BY <2>1, <2>3 DEF TypeOK
  <2>5. Removed(f)
    BY <1>2, <2>1, <2>3 DEF TypeOK, Removed, SameRun, Stop, Accepts
  <2> QED
    BY <2>4, <2>5 DEF Effect
<1>3. CASE Drop(f)
  <2> DEFINE gone == [NewScheduler EXCEPT !.phase = "dropped"]
  <2>1. gone \in SchedulerType /\ ~gone.running
    BY NewSchedulerType DEF SchedulerType, SchedulerRecord
  <2>2. /\ sched' = [sched EXCEPT ![f] = gone]
        /\ permit' = Forgotten(permit, f)
        /\ UNCHANGED orphans
    BY <1>3 DEF Drop
  <2> HIDE DEF gone
  <2>3. TypeOK'
    BY <2>1, <2>2, ForgottenType DEF TypeOK
  <2>4. ~sched'[f].running /\ \A g \in Folders \ {f} : SameRun(g)
    BY <2>1, <2>2 DEF TypeOK, SameRun
  <2>5. Removed(f)
    BY <1>3, <2>2, <2>4 DEF Removed, Drop
  <2> QED
    BY <2>3, <2>5 DEF Effect
<1>4. CASE AddFolder(f)
  <2> DEFINE new == Requested(NewScheduler, "Startup")
  <2>1. new \in SchedulerType /\ ~new.running
    BY NewSchedulerType, RequestedKeeps DEF Keeps
  <2>2. /\ sched' = [sched EXCEPT ![f] = new] /\ UNCHANGED <<permit, orphans>>
        /\ sched[f].phase = "dropped"
    BY <1>4 DEF AddFolder, Become
  <2> HIDE DEF new
  <2>3. TypeOK'
    BY <2>1, <2>2 DEF TypeOK
  <2>4. ~sched'[f].running /\ \A g \in Folders \ {f} : SameRun(g)
    BY <2>1, <2>2 DEF TypeOK, SameRun
  <2>5. Removed(f)
    BY <2>2, <2>4 DEF Removed
  <2> QED
    BY <2>3, <2>5 DEF Effect
<1> QED
  BY <1>2, <1>3, <1>4

\* The callbacks of the main loop.
LEMMA TimerStep ==
    ASSUME TypeOK, NEW f \in Folders,
           StartTimer(f) \/ DebounceReady(f) \/ CooldownTimer(f) \/ OrphanEnds(f)
    PROVE  TypeOK' /\ Effect
<1>1. sched[f] \in SchedulerType
  BY DEF TypeOK
<1>2. CASE StartTimer(f)
  \* The source that fired may be the remembered one: start forgets it first.
  <2> DEFINE n == sched[f].armed - 1
             s == [sched[f] EXCEPT !.armed = n]
             t == [sched[f] EXCEPT !.armed = n, !.source = FALSE]
  <2>1. Start(f, s, permit, FALSE)
    BY <1>2 DEF StartTimer
  <2>2. n \in Nat
    BY <1>1, <1>2 DEF StartTimer, SchedulerType, SchedulerRecord
  <2> HIDE DEF n
  <2>3. t \in SchedulerType /\ t.running = sched[f].running
        /\ t.phase = sched[f].phase
    BY <1>1, <2>2 DEF SchedulerType, SchedulerRecord
  <2>4. [s EXCEPT !.source = FALSE] = [t EXCEPT !.source = FALSE]
    BY <1>1 DEF SchedulerType, SchedulerRecord
  <2> HIDE DEF s, t
  <2>5. Start(f, t, permit, FALSE)
    BY <2>1, <2>4 DEF Start
  <2> QED
    BY <2>3, <2>5, StartStep DEF TypeOK, Effect
<1>3. CASE DebounceReady(f)
  <2> DEFINE s == [sched[f] EXCEPT !.settling = FALSE]
  <2>1. s \in SchedulerType /\ s.running = sched[f].running
        /\ s.phase = sched[f].phase
    BY <1>1 DEF SchedulerType, SchedulerRecord
  <2>2. Become(f, ScheduleStart(s))
    BY <1>3 DEF DebounceReady
  <2> HIDE DEF s
  <2> QED
    BY <2>1, <2>2, ScheduleStartKeeps, BecomeStep DEF Keeps
<1>4. CASE CooldownTimer(f)
  <2> DEFINE n == sched[f].coolTimers - 1
             t == [sched[f] EXCEPT !.coolTimers = n, !.cooldown = FALSE,
                                   !.coolCallback = FALSE]
  <2>1. Become(f, CooldownFinished(t)) \/ Become(f, t)
    BY <1>4 DEF CooldownTimer
  <2>2. n \in Nat
    BY <1>1, <1>4 DEF CooldownTimer, SchedulerType, SchedulerRecord
  <2> HIDE DEF n
  <2>3. t \in SchedulerType /\ t.running = sched[f].running
        /\ t.phase = sched[f].phase
    BY <1>1, <2>2 DEF SchedulerType, SchedulerRecord
  <2> HIDE DEF t
  <2> QED
    BY <2>1, <2>3, CooldownFinishedKeeps, BecomeStep DEF Keeps
<1>5. CASE OrphanEnds(f)
  <2>1. TypeOK'
    BY <1>5 DEF OrphanEnds, TypeOK
  <2>2. Ended(f)
    BY <1>5 DEF OrphanEnds, Ended, SameRuns, SameRun
  <2> QED
    BY <2>1, <2>2 DEF Effect
<1> QED
  BY <1>2, <1>3, <1>4, <1>5

\* The idle source that a release queued.
LEMMA WokenWaiterStep ==
    ASSUME TypeOK, WokenWaiter
    PROVE  TypeOK' /\ Effect
<1> DEFINE f == Head(permit.idles)
<1>1. permit.idles # <<>> /\ f \in Waiters
  BY DEF WokenWaiter, TypeOK, PermitType
<1>2. IdleTaken \in PermitType /\ ClaimReleasedTurn(IdleTaken) \in PermitType
  BY <1>1, ClaimReleasedTurnType DEF IdleTaken, TypeOK
<1>3. CASE f = Dropped
  <2>1. permit' = IdleTaken /\ UNCHANGED <<sched, orphans>>
    BY <1>3 DEF WokenWaiter, IdleTaken
  <2>2. TypeOK'
    BY <1>2, <2>1 DEF TypeOK
  <2>3. Swallowed
    BY <1>1, <1>3, <2>1 DEF Swallowed, SameRuns, SameRun
  <2> QED
    BY <2>2, <2>3 DEF Effect
<1>4. CASE f # Dropped
  <2>1. f \in Folders
    BY <1>1, <1>4 DEF Waiters
  <2>2. Start(f, sched[f], ClaimReleasedTurn(IdleTaken), TRUE)
    BY <1>4 DEF WokenWaiter, IdleTaken
  <2>3. TypeOK' /\ Attempt(f, ClaimReleasedTurn(IdleTaken), TRUE)
    BY <1>2, <2>1, <2>2, StartStep DEF TypeOK
  <2> QED
    BY <1>1, <2>1, <2>3 DEF Woken, Effect
<1> QED
  BY <1>3, <1>4

\* finished
LEMMA RunEndsStep ==
    ASSUME TypeOK, NEW f \in Folders, RunEnds(f)
    PROVE  TypeOK' /\ Effect
<1>1. PICK o \in Outcomes, gone \in SUBSET Batches, deleted \in BOOLEAN :
        Finished(f, o, gone, deleted)
  BY DEF RunEnds
<1> DEFINE left   == [sched[f] EXCEPT !.server = @ \ gone, !.foundGone = {}]
           judged == Judged(left, o)
           based  == Rebaselined(judged, o, deleted)
           next   == Followed(based, o)
<1>2. /\ sched[f].running
      /\ sched' = [sched EXCEPT ![f] = next]
      /\ permit' = Released(permit)
      /\ UNCHANGED orphans
  BY <1>1 DEF Finished
<1>3. left \in SchedulerType /\ left.phase = sched[f].phase
  <2>1. sched[f] \in SchedulerType
    BY DEF TypeOK
  <2>2. sched[f].server \ gone \in SUBSET Batches
    BY <2>1 DEF SchedulerType, SchedulerRecord
  <2> QED
    BY <2>1, <2>2 DEF SchedulerType, SchedulerRecord
<1> HIDE DEF left
<1>4. judged \in SchedulerType /\ judged.phase = left.phase
  BY <1>3, JudgedType, OutcomesAssumption
<1> HIDE DEF judged
<1>5. based \in SchedulerType /\ based.phase = judged.phase
  BY <1>4, RebaselinedType
<1> HIDE DEF based
<1>6. next \in SchedulerType /\ ~next.running /\ next.phase = based.phase
  BY <1>5, FollowedIdles
<1> HIDE DEF next
<1>7. TypeOK'
  BY <1>2, <1>6, ReleasedType DEF TypeOK
<1>8. Ended(f)
  BY <1>2, <1>3, <1>4, <1>5, <1>6 DEF TypeOK, Ended, OthersSame, SameRun
<1> QED
  BY <1>7, <1>8 DEF Effect

\* Every step of the specification preserves the types and has an effect.
LEMMA StepEffect ==
    ASSUME TypeOK, [Next]_vars
    PROVE  TypeOK' /\ Effect
<1>1. CASE UNCHANGED vars
  BY <1>1 DEF vars, TypeOK, Effect, Quiet, SameRuns, SameRun
<1>2. CASE \E f \in Folders : UserStep(f)
  BY <1>2, InputStep, RequestStep, RemovalStep DEF UserStep
<1>3. CASE \E f \in Folders : SystemStep(f)
  BY <1>3, InputStep DEF SystemStep
<1>4. CASE \E f \in Folders : LoopStep(f)
  BY <1>4, TimerStep, RunEndsStep DEF LoopStep
<1>5. CASE WokenWaiter
  BY <1>5, WokenWaiterStep
<1> QED
  BY <1>1, <1>2, <1>3, <1>4, <1>5 DEF Next

\* The start of the application is well typed.
LEMMA InitType == Init => TypeOK
<1>1. FreePermit \in PermitType
  BY MaxConcurrentAssumption DEF FreePermit, PermitType
<1> QED
  BY <1>1, NewSchedulerType DEF Init, TypeOK

\* Types: in particular a timer id that a scheduler remembers belongs to a
\* timer that is still to fire, so that stop cancels what it thinks it cancels.
THEOREM TypeInvariant == Spec => []TypeOK
<1>1. TypeOK /\ [Next]_vars => TypeOK'
  BY StepEffect
<1> QED
  BY InitType, <1>1, PTL DEF Spec

-----------------------------------------------------------------------------
(* The single slot of AccountManager.                                      *)

\* Why one slot means one run.  The slot is free, held, or handed over: a turn
\* that a release gave out counts like a run until its idle source claims it,
\* and no idle source is left without such a turn.  A run that was cancelled
\* with its folder keeps the slot for ever, so nobody runs beside its engine.
SlotInv ==
    /\ permit.inUse + permit.pendingWakeups <= 1
    /\ Len(permit.idles) <= permit.pendingWakeups
    /\ \A f \in Folders : sched[f].running => permit.inUse = 1 /\ orphans = {}
    /\ \A f, g \in Folders : sched[f].running /\ sched[g].running => f = g
    /\ orphans # {} => permit.inUse = 1
    /\ \A f, g \in orphans : f = g

\* A release by a run, or by a turn that was claimed and given up, frees the
\* slot and hands out at most one turn.
LEMMA ReleasedSlots ==
    ASSUME NEW p \in PermitType,
           Len(p.idles) <= p.pendingWakeups,
           p.inUse <= 1, p.pendingWakeups = 0
    PROVE  /\ Released(p).inUse = 0
           /\ Released(p).pendingWakeups <= 1
           /\ Len(Released(p).idles) <= Released(p).pendingWakeups
<1> DEFINE q == SlotFreed(p)
<1>1. q \in PermitType
  BY SlotFreedType
<1>2. q.inUse = 0 /\ q.pendingWakeups = 0 /\ q.idles = p.idles
  BY DEF SlotFreed, PermitType
<1>3. Released(p) = OldestWoken(q)
  BY DEF Released
<1> HIDE DEF q
<1>4. CASE q.waiters = <<>>
  BY <1>2, <1>3, <1>4 DEF OldestWoken
<1>5. CASE q.waiters # <<>>
  <2> DEFINE r == OldestWoken(q)
  <2>1. /\ r.inUse = q.inUse
        /\ r.pendingWakeups = q.pendingWakeups + 1
        /\ r.idles = Append(q.idles, Head(q.waiters))
    BY <1>1, <1>5 DEF OldestWoken, PermitType
  <2>2. Len(Append(q.idles, Head(q.waiters))) = Len(q.idles) + 1
    BY <1>1 DEF PermitType
  <2>3. Len(q.idles) = 0
    BY <1>1, <1>2 DEF PermitType
  <2> QED
    BY <1>2, <1>3, <2>1, <2>2, <2>3
<1> QED
  BY <1>4, <1>5

\* With one slot, every kind of step keeps the account of it.
LEMMA SlotStep ==
    ASSUME MaxConcurrent = 1, TypeOK, SlotInv, Effect
    PROVE  SlotInv'
<1>0. /\ permit \in PermitType
      /\ permit.inUse \in 0..1 /\ permit.pendingWakeups \in Nat
      /\ Len(permit.idles) \in Nat
  BY DEF TypeOK, PermitType
<1>1. CASE Quiet
  BY <1>1 DEF Quiet, SameRuns, SameRun, SlotInv
<1>2. CASE Swallowed
  <2>1. /\ permit'.inUse = permit.inUse
        /\ permit'.pendingWakeups = permit.pendingWakeups
        /\ permit'.idles = Tail(permit.idles)
    BY <1>0, <1>2 DEF Swallowed, IdleTaken, PermitType
  <2>2. Len(Tail(permit.idles)) <= Len(permit.idles)
    BY <1>0, <1>2 DEF Swallowed, PermitType
  <2>3. Len(permit'.idles) \in Nat
    BY <1>0, <1>2, <2>1 DEF Swallowed, PermitType
  <2> QED
    BY <1>0, <1>2, <2>1, <2>2, <2>3 DEF Swallowed, SameRuns, SameRun, SlotInv
<1>3. CASE \E f \in Folders : Attempt(f, permit, FALSE)
  <2> PICK f \in Folders : Attempt(f, permit, FALSE)
    BY <1>3
  <2>1. CASE SameRuns /\ permit' = permit
    BY <2>1 DEF Attempt, SameRuns, SameRun, SlotInv
  <2>2. CASE SameRuns /\ permit' = WaitForRelease(permit, f)
    <3>1. /\ permit'.inUse = permit.inUse
          /\ permit'.pendingWakeups = permit.pendingWakeups
          /\ permit'.idles = permit.idles
      BY <1>0, <2>2 DEF WaitForRelease, PermitType
    <3> QED
      BY <2>2, <3>1 DEF Attempt, SameRuns, SameRun, SlotInv
  <2>3. CASE /\ WaiterCount(permit) = 0 /\ CanAcquire(permit, f)
             /\ permit' = Acquired(permit, f)
             /\ sched'[f].running /\ OthersSame(f)
    <3>1. permit.inUse = 0 /\ permit.pendingWakeups = 0
      BY <1>0, <2>3 DEF CanAcquire, WaiterCount, PermitType
    <3>2. /\ permit'.inUse = 1
          /\ permit'.pendingWakeups = 0
          /\ permit'.idles = permit.idles
      BY <1>0, <2>3, <3>1 DEF Acquired, PermitType
    <3>3. orphans' = {} /\ \A g \in Folders \ {f} : ~sched'[g].running
      BY <2>3, <3>1 DEF Attempt, OthersSame, SameRun, SlotInv
    <3> QED
      BY <1>0, <3>1, <3>2, <3>3 DEF SlotInv
  <2> QED
    BY <2>1, <2>2, <2>3 DEF Attempt
<1>4. CASE \E f \in Folders : Woken(f)
  <2> PICK f \in Folders : Woken(f)
    BY <1>4
  <2> DEFINE p == ClaimReleasedTurn(IdleTaken)
  <2>1. Len(permit.idles) > 0 /\ Len(Tail(permit.idles)) = Len(permit.idles) - 1
    BY <1>0 DEF Woken, PermitType
  <2>2. permit.inUse = 0 /\ permit.pendingWakeups = 1 /\ Len(permit.idles) = 1
    <3>1. /\ permit.inUse + permit.pendingWakeups <= 1
          /\ Len(permit.idles) <= permit.pendingWakeups
      BY DEF SlotInv
    <3>2. \A u, w, l \in Nat :
            l > 0 /\ u + w <= 1 /\ l <= w => u = 0 /\ w = 1 /\ l = 1
      OBVIOUS
    <3>3. permit.inUse \in Nat
      BY <1>0
    <3> DEFINE l == Len(permit.idles)
    <3>4. l \in Nat /\ l > 0 /\ l <= permit.pendingWakeups
      BY <1>0, <2>1, <3>1
    <3> HIDE DEF l
    <3>5. permit.inUse = 0 /\ permit.pendingWakeups = 1 /\ l = 1
      BY <1>0, <3>1, <3>2, <3>3, <3>4
    <3> QED
      BY <3>5 DEF l
  <2>3. /\ p \in PermitType
        /\ p.inUse = 0 /\ p.pendingWakeups = 0 /\ p.idles = Tail(permit.idles)
    <3>1. IdleTaken \in PermitType
      BY <1>0, ClaimReleasedTurnType DEF Woken, IdleTaken
    <3>2. /\ IdleTaken.inUse = 0 /\ IdleTaken.pendingWakeups = 1
          /\ IdleTaken.idles = Tail(permit.idles)
      BY <1>0, <2>2 DEF IdleTaken, PermitType
    <3>3. /\ p.inUse = 0 /\ p.pendingWakeups = 0
          /\ p.idles = Tail(permit.idles)
      BY <3>1, <3>2 DEF ClaimReleasedTurn, PermitType
    <3> QED
      BY <3>1, <3>3, ClaimReleasedTurnType
  <2>4. Len(p.idles) = 0
    BY <2>1, <2>2, <2>3
  <2>5. /\ Attempt(f, p, TRUE)
        /\ orphans = {} /\ \A g \in Folders : ~sched[g].running
    <3>1. Attempt(f, p, TRUE)
      BY DEF Woken
    <3>2. permit.inUse # 1
      BY <2>2
    <3>3. orphans = {} /\ \A g \in Folders : ~sched[g].running
      BY <3>2 DEF SlotInv
    <3> QED
      BY <3>1, <3>3
  <2> HIDE DEF p
  <2>6. CASE SameRuns /\ permit' = Released(p)
    <3>0. Len(p.idles) <= p.pendingWakeups /\ p.inUse <= 1
      <4>1. 0 <= 0 /\ 0 <= 1
        OBVIOUS
      <4> QED
        BY <2>3, <2>4, <4>1, Zenon
    <3>1. /\ permit' \in PermitType /\ permit'.inUse = 0
          /\ permit'.pendingWakeups <= 1
          /\ Len(permit'.idles) <= permit'.pendingWakeups
      BY <2>3, <2>6, <3>0, ReleasedSlots, ReleasedType
    <3>2. permit'.pendingWakeups \in Nat
      BY <3>1 DEF PermitType
    <3> QED
      BY <2>5, <2>6, <3>1, <3>2 DEF Attempt, SameRuns, SameRun, SlotInv
  <2>7. CASE SameRuns /\ permit' = WaitForRelease(p, f)
    <3>1. permit'.inUse = 0 /\ permit'.pendingWakeups = 0 /\ permit'.idles = p.idles
      BY <2>3, <2>7 DEF WaitForRelease, PermitType
    <3> QED
      BY <2>4, <2>5, <2>7, <3>1 DEF Attempt, SameRuns, SameRun, SlotInv
  <2>8. CASE permit' = Acquired(p, f) /\ sched'[f].running /\ OthersSame(f)
    <3>1. permit'.inUse = 1 /\ permit'.pendingWakeups = 0 /\ permit'.idles = p.idles
      BY <2>3, <2>8 DEF Acquired, PermitType
    <3>2. orphans' = {} /\ \A g \in Folders \ {f} : ~sched'[g].running
      BY <2>5, <2>8 DEF Attempt, OthersSame, SameRun
    <3> QED
      BY <2>4, <3>1, <3>2 DEF SlotInv
  <2> QED
    BY <2>5, <2>6, <2>7, <2>8 DEF Attempt
<1>5. CASE \E f \in Folders : Removed(f)
  <2> PICK f \in Folders : Removed(f)
    BY <1>5
  <2>0. \A g \in Folders : sched'[g].running => sched[g].running
    BY DEF Removed, SameRun
  <2>1. CASE /\ ~sched'[f].running
             /\ orphans' = IF sched[f].running THEN orphans \cup {f} ELSE orphans
             /\ UNCHANGED permit
    <3>1. CASE sched[f].running
      <4>1. permit'.inUse = 1 /\ orphans' = {f}
        BY <2>1, <3>1 DEF SlotInv
      <4>2. \A g \in Folders : ~sched'[g].running
        BY <2>0, <2>1, <3>1 DEF SlotInv
      <4> QED
        BY <2>1, <4>1, <4>2 DEF SlotInv
    <3>2. CASE ~sched[f].running
      BY <2>0, <2>1, <3>2 DEF SlotInv
    <3> QED
      BY <3>1, <3>2
  <2>2. CASE permit' \in {permit, Forgotten(permit, f)} /\ UNCHANGED orphans
    <3>1. /\ permit'.inUse = permit.inUse
          /\ permit'.pendingWakeups = permit.pendingWakeups
      BY <1>0, <2>2 DEF Forgotten, PermitType
    <3>2. Len(permit'.idles) = Len(permit.idles)
      BY <1>0, <2>2, ForgottenType
    <3> QED
      BY <2>0, <2>2, <3>1, <3>2 DEF SlotInv
  <2> QED
    BY <2>1, <2>2 DEF Removed
<1>6. CASE \E f \in Folders : Ended(f)
  <2> PICK f \in Folders : Ended(f)
    BY <1>6
  <2>1. CASE /\ sched[f].running /\ ~sched'[f].running /\ OthersSame(f)
             /\ permit' = Released(permit) /\ UNCHANGED orphans
    <3>1. permit.inUse = 1 /\ permit.pendingWakeups = 0 /\ orphans = {}
      BY <1>0, <2>1 DEF SlotInv
    <3>2. /\ permit' \in PermitType /\ permit'.inUse = 0
          /\ permit'.pendingWakeups <= 1
          /\ Len(permit'.idles) <= permit'.pendingWakeups
      BY <1>0, <2>1, <3>1, ReleasedSlots, ReleasedType DEF SlotInv
    <3>3. permit'.pendingWakeups \in Nat
      BY <3>2 DEF PermitType
    <3>4. \A g \in Folders : ~sched'[g].running
      BY <2>1 DEF OthersSame, SameRun, SlotInv
    <3> QED
      BY <2>1, <3>1, <3>2, <3>3, <3>4 DEF SlotInv
  <2>2. CASE SameRuns /\ orphans' = orphans \ {f} /\ UNCHANGED permit
    BY <2>2 DEF SameRuns, SameRun, SlotInv
  <2> QED
    BY <2>1, <2>2 DEF Ended
<1> QED
  BY <1>1, <1>2, <1>3, <1>4, <1>5, <1>6 DEF Effect

\* At the start the slot is free and nobody waits.
LEMMA InitSlots == Init => SlotInv
  BY NewSchedulerType DEF Init, SlotInv, FreePermit

\* Both invariants together are inductive.
LEMMA SlotInvariant == MaxConcurrent = 1 => (Spec => [](TypeOK /\ SlotInv))
<1> SUFFICES ASSUME MaxConcurrent = 1
             PROVE  Spec => [](TypeOK /\ SlotInv)
  OBVIOUS
<1>1. Init => TypeOK /\ SlotInv
  BY InitType, InitSlots
<1>2. TypeOK /\ SlotInv /\ [Next]_vars => (TypeOK /\ SlotInv)'
  BY StepEffect, SlotStep
<1> QED
  BY <1>1, <1>2, PTL DEF Spec

\* However many folders, inputs and removals: with the one slot that
\* AccountManager::new asks for, no two engines ever run at once, not even the
\* engine of a removed folder and that of its successor.
THEOREM SingleSlotOneRun == MaxConcurrent = 1 => (Spec => []OneRunAtATime)
<1> SUFFICES ASSUME MaxConcurrent = 1
             PROVE  Spec => []OneRunAtATime
  OBVIOUS
<1>1. TypeOK /\ SlotInv => OneRunAtATime
  BY DEF TypeOK, SlotInv, OneRunAtATime, InFlight
<1>2. Spec => [](TypeOK /\ SlotInv)
  BY SlotInvariant
<1> QED
  BY <1>1, <1>2, PTL

\* No release gives back a slot that is somebody else's: duplicate callbacks,
\* aborted turns and dropped schedulers included.
THEOREM SingleSlotAccounted == MaxConcurrent = 1 => (Spec => []SlotsAccounted)
<1> SUFFICES ASSUME MaxConcurrent = 1
             PROVE  Spec => []SlotsAccounted
  OBVIOUS
<1>1. TypeOK /\ SlotInv => SlotsAccounted
  BY DEF TypeOK, SlotInv, SlotsAccounted
<1>2. Spec => [](TypeOK /\ SlotInv)
  BY SlotInvariant
<1> QED
  BY <1>1, <1>2, PTL

-----------------------------------------------------------------------------
(* The permit is fair: it implements the queue of turns.                   *)

\* Who runs, and who waits: woken schedulers come first, then those asleep.
Inside == {f \in Folders : sched[f].running}
Line == permit.idles \o permit.waiters

\* As long as no folder is removed: every callback has its scheduler, every turn
\* handed out has its idle source, and the slot and its root are in use just
\* while somebody runs.
LineInv ==
    /\ orphans = {} /\ \A f \in Folders : sched[f].phase = "live"
    /\ permit.waiters \in Seq(Folders) /\ permit.idles \in Seq(Folders)
    /\ Len(permit.idles) = permit.pendingWakeups
    /\ Len(permit.roots) = permit.inUse
    /\ permit.inUse = 1 => Inside # {}

\* Whoever joins the second of two queues joins both together.
LEMMA AppendJoins ==
    ASSUME NEW S, NEW q \in Seq(S), NEW r \in Seq(S), NEW x \in S
    PROVE  q \o Append(r, x) = Append(q \o r, x)
<1>1. Append(r, x) = r \o <<x>> /\ Append(q \o r, x) = (q \o r) \o <<x>>
  <2>1. q \o r \in Seq(S)
    BY ConcatProperties
  <2> QED
    BY <2>1, AppendIsConcat
<1>2. <<x>> \in Seq(S)
  OBVIOUS
<1> QED
  BY <1>1, <1>2, ConcatAssociative

\* A queue is its head and the rest.
LEMMA HeadRejoins ==
    ASSUME NEW S, NEW q \in Seq(S), q # <<>>
    PROVE  <<Head(q)>> \o Tail(q) = q
<1>1. Len(q) \in Nat \ {0}
  BY EmptySeq
<1>2. /\ SubSeq(q, 1, Len(q)) = <<q[1]>> \o SubSeq(q, 2, Len(q))
      /\ SubSeq(q, 1, Len(q)) = q
      /\ Tail(q) = SubSeq(q, 2, Len(q))
  <2>1. 1 \in 1..Len(q) /\ Len(q) \in 1..Len(q) /\ 1 + 1 = 2
    BY <1>1
  <2>2. SubSeq(q, 1, Len(q)) = <<q[1]>> \o SubSeq(q, 1 + 1, Len(q))
    BY <2>1, SubSeqRecursiveFirst
  <2> QED
    BY <2>1, <2>2, SubSeqFull, TailIsSubSeq
<1>3. Head(q) = q[1]
  BY <1>1
<1> QED
  BY <1>2, <1>3

\* A release wakes the head of the line and moves nobody else.
LEMMA ReleasedLine ==
    ASSUME NEW p \in PermitType, p.waiters \in Seq(Folders),
           p.idles = <<>>, p.pendingWakeups = 0, p.inUse \in 0..1, Len(p.roots) = p.inUse
    PROVE  /\ Released(p).waiters \in Seq(Folders) /\ Released(p).idles \in Seq(Folders)
           /\ Len(Released(p).idles) = Released(p).pendingWakeups
           /\ Released(p).inUse = 0 /\ Len(Released(p).roots) = 0
           /\ Released(p).idles \o Released(p).waiters = p.waiters
<1> DEFINE q == SlotFreed(p)
           r == Released(p)
<1>1. q \in PermitType
  BY SlotFreedType
<1>2. /\ q.inUse = 0 /\ q.pendingWakeups = 0 /\ q.idles = <<>> /\ q.waiters = p.waiters
      /\ Len(q.roots) = 0
  <2>1. CASE p.inUse = 0
    BY <2>1 DEF SlotFreed
  <2>2. CASE p.inUse = 1
    <3>1. /\ q.inUse = 0 /\ q.pendingWakeups = 0 /\ q.idles = <<>> /\ q.waiters = p.waiters
          /\ q.roots = IF p.roots = <<>> THEN <<>> ELSE Tail(p.roots)
      BY <2>2 DEF SlotFreed, PermitType
    <3>2. p.roots \in Seq(Folders) /\ Len(p.roots) = 1
      BY <2>2 DEF PermitType
    <3>3. p.roots # <<>>
      <4>1. Len(<<>>) # 1
        OBVIOUS
      <4> QED
        BY <3>2, <4>1, Zenon
    <3>4. Len(Tail(p.roots)) = Len(p.roots) - 1
      BY <3>2, <3>3, HeadTailProperties
    <3>5. Len(Tail(p.roots)) = 0
      BY <3>2, <3>4
    <3> QED
      BY <3>1, <3>3, <3>5
  <2> QED
    BY <2>1, <2>2
<1>3. r = OldestWoken(q)
  BY DEF Released
<1> HIDE DEF q
<1>4. CASE q.waiters = <<>>
  <2>1. r = q
    BY <1>3, <1>4 DEF OldestWoken
  <2>2. <<>> \in Seq(Folders) /\ Len(<<>>) = 0 /\ <<>> \o <<>> = <<>>
    BY EmptySeq, ConcatEmptySeq
  <2> HIDE DEF r
  <2>3. /\ r.waiters \in Seq(Folders) /\ r.idles \in Seq(Folders)
        /\ Len(r.idles) = r.pendingWakeups /\ r.inUse = 0 /\ Len(r.roots) = 0
        /\ r.idles \o r.waiters = p.waiters
    BY <1>2, <1>4, <2>1, <2>2
  <2> QED
    BY <2>3 DEF r
<1>5. CASE q.waiters # <<>>
  <2>1. /\ r.waiters = Tail(q.waiters) /\ r.pendingWakeups = q.pendingWakeups + 1
        /\ r.idles = Append(q.idles, Head(q.waiters)) /\ r.inUse = q.inUse
        /\ r.roots = q.roots
    BY <1>1, <1>3, <1>5 DEF OldestWoken, PermitType
  <2>2. Head(q.waiters) \in Folders /\ Tail(q.waiters) \in Seq(Folders)
    BY <1>2, <1>5, HeadTailProperties
  <2>3. Append(<<>>, Head(q.waiters)) = <<Head(q.waiters)>>
    OBVIOUS
  <2>4. <<Head(q.waiters)>> \o Tail(q.waiters) = q.waiters
    BY <1>2, <1>5, HeadRejoins
  <2>5. <<Head(q.waiters)>> \in Seq(Folders) /\ Len(<<Head(q.waiters)>>) = 1
    BY <2>2
  <2> HIDE DEF r
  <2>6. /\ r.waiters \in Seq(Folders) /\ r.idles \in Seq(Folders)
        /\ Len(r.idles) = r.pendingWakeups /\ r.inUse = 0 /\ Len(r.roots) = 0
        /\ r.idles \o r.waiters = p.waiters
    BY <1>2, <2>1, <2>2, <2>3, <2>4, <2>5
  <2> QED
    BY <2>6 DEF r
<1> QED
  BY <1>4, <1>5

\* With one slot and no removals, every kind of step keeps the line, and is a step
\* of the queue of turns, or one that neither enters, leaves nor waits.
LEMMA TurnStep ==
    ASSUME MaxConcurrent = 1, "folders" \notin Inputs, TypeOK, SlotInv, LineInv, Effect
    PROVE  /\ LineInv'
           /\ Turns!Next \/ (Inside' = Inside /\ Line' = Line)
<1>0. /\ permit \in PermitType /\ permit.inUse \in 0..1
      /\ permit.pendingWakeups \in Nat
      /\ permit.waiters \in Seq(Folders) /\ permit.idles \in Seq(Folders)
      /\ Len(permit.idles) = permit.pendingWakeups /\ Len(permit.roots) = permit.inUse
  BY DEF TypeOK, PermitType, LineInv
<1>1. SameRuns => Inside' = Inside /\ \A f \in Folders : sched'[f].phase = "live"
  BY DEF SameRuns, SameRun, Inside, LineInv
<1>2. permit.inUse = 1 <=> Inside # {}
  BY DEF LineInv, SlotInv, Inside
<1>3. permit.inUse + permit.pendingWakeups <= 1
  BY DEF SlotInv
<1>4. permit.inUse = 0 => permit.roots = <<>>
  <2>1. permit.roots \in Seq(Folders)
    BY <1>0 DEF PermitType
  <2> QED
    BY <1>0, <2>1, EmptySeq
<1>5. permit.pendingWakeups = 0 => permit.idles = <<>>
  BY <1>0, EmptySeq
<1>6. CASE Quiet
  BY <1>1, <1>6 DEF Quiet, LineInv, Line
<1>7. CASE Swallowed
  <2>1. Head(permit.idles) \in Folders
    BY <1>0, <1>7, HeadTailProperties DEF Swallowed
  <2> QED
    BY <1>7, <2>1, DroppedAssumption DEF Swallowed
<1>8. CASE \E f \in Folders : Attempt(f, permit, FALSE)
  <2> PICK f \in Folders : Attempt(f, permit, FALSE)
    BY <1>8
  <2>1. CASE SameRuns /\ permit' = permit
    BY <1>1, <2>1 DEF Attempt, LineInv, Line
  <2>2. CASE /\ WaiterCount(permit) = 0 /\ CanAcquire(permit, f)
             /\ permit' = Acquired(permit, f)
             /\ sched'[f].running /\ OthersSame(f)
    <3>1. permit.inUse = 0 /\ permit.pendingWakeups = 0 /\ Len(permit.waiters) = 0
      BY <1>0, <2>2 DEF CanAcquire, WaiterCount
    <3>2. permit.waiters = <<>> /\ permit.idles = <<>> /\ permit.roots = <<>>
      BY <1>0, <1>4, <1>5, <3>1, EmptySeq
    <3>3. /\ permit'.inUse = 1 /\ permit'.pendingWakeups = 0
          /\ permit'.waiters = <<>> /\ permit'.idles = <<>>
          /\ permit'.roots = Append(<<>>, f)
      BY <1>0, <2>2, <3>1, <3>2 DEF Acquired, PermitType
    <3>4. Len(Append(<<>>, f)) = 1
      OBVIOUS
    <3>5. Inside = {} /\ Inside' = {f}
      BY <1>2, <2>2, <3>1 DEF Inside, OthersSame, SameRun
    <3>6. Line = <<>> /\ Line' = Line
      BY <3>2, <3>3, ConcatEmptySeq, EmptySeq DEF Line
    <3>7. LineInv'
      BY <2>2, <3>3, <3>4, <3>5, EmptySeq DEF LineInv, Attempt, OthersSame, SameRun
    <3>8. Turns!Enter(f)
      BY <3>5, <3>6 DEF Turns!Enter, Inside, Line
    <3> QED
      BY <3>7, <3>8 DEF Turns!Next
  <2>3. CASE /\ ~(WaiterCount(permit) = 0 /\ CanAcquire(permit, f))
             /\ permit' = WaitForRelease(permit, f) /\ SameRuns
    <3>1. /\ permit'.inUse = permit.inUse /\ permit'.idles = permit.idles
          /\ permit'.pendingWakeups = permit.pendingWakeups
          /\ permit'.roots = permit.roots
          /\ permit'.waiters = Append(permit.waiters, f)
      BY <1>0, <2>3 DEF WaitForRelease, PermitType
    <3>2. Append(permit.waiters, f) \in Seq(Folders)
      BY <1>0
    <3>3. LineInv'
      BY <1>1, <2>3, <3>1, <3>2 DEF LineInv, Attempt
    <3>4. Line' = Append(Line, f)
      <4>1. Line' = permit.idles \o Append(permit.waiters, f)
        BY <3>1 DEF Line
      <4>2. permit.idles \o Append(permit.waiters, f) = Append(Line, f)
        <5> DEFINE q == permit.idles
                   w == permit.waiters
        <5>1. q \in Seq(Folders) /\ w \in Seq(Folders) /\ Line = q \o w
          BY <1>0 DEF Line
        <5> HIDE DEF q, w
        <5>2. q \o Append(w, f) = Append(q \o w, f)
          BY <5>1, AppendJoins
        <5> QED
          BY <5>1, <5>2 DEF q, w
      <4> QED
        BY <4>1, <4>2
    <3>5. Inside # {} \/ Line # <<>>
      <4>1. CASE WaiterCount(permit) # 0
        <5>1. Len(Line) = Len(permit.idles) + Len(permit.waiters)
          BY <1>0, ConcatProperties DEF Line
        <5>2. Len(Line) # 0
          BY <1>0, <4>1, <5>1 DEF WaiterCount
        <5> QED
          BY <5>2
      <4>2. CASE ~CanAcquire(permit, f)
        <5>1. ~CanAcquire(permit, f) /\ permit.roots = <<>> => permit.inUse # 0
          BY <1>0 DEF CanAcquire
        <5> QED
          BY <1>0, <1>2, <1>4, <4>2, <5>1
      <4> QED
        BY <2>3, <4>1, <4>2
    <3>6. Turns!Join(f)
      BY <1>1, <2>3, <3>4, <3>5 DEF Turns!Join, Inside, Line
    <3> QED
      BY <3>3, <3>6 DEF Turns!Next
  <2> QED
    BY <2>1, <2>2, <2>3 DEF Attempt
<1>9. CASE \E f \in Folders : Woken(f)
  <2> PICK f \in Folders : Woken(f)
    BY <1>9
  <2> DEFINE p == ClaimReleasedTurn(IdleTaken)
  <2>1. permit.inUse = 0 /\ permit.pendingWakeups = 1 /\ Len(permit.idles) = 1
    <3>1. Len(permit.idles) # 0
      BY <1>0, EmptySeq DEF Woken
    <3> QED
      BY <1>0, <1>3, <3>1
  <2>2. permit.idles # <<>> /\ Tail(permit.idles) = <<>>
        /\ permit.idles = <<Head(permit.idles)>>
    <3>1. permit.idles # <<>>
      BY DEF Woken
    <3>2. Len(Tail(permit.idles)) = 0 /\ Tail(permit.idles) \in Seq(Folders)
      BY <1>0, <2>1, <3>1, HeadTailProperties
    <3>3. Tail(permit.idles) = <<>>
      BY <3>2, EmptySeq
    <3>4. <<Head(permit.idles)>> \o <<>> = permit.idles
      BY <1>0, <3>1, <3>3, HeadRejoins
    <3>5. <<Head(permit.idles)>> \in Seq(Folders)
      BY <1>0, <3>1, HeadTailProperties
    <3> QED
      BY <3>1, <3>3, <3>4, <3>5, ConcatEmptySeq
  <2>3. /\ p \in PermitType /\ p.inUse = 0 /\ p.pendingWakeups = 0 /\ p.idles = <<>>
        /\ p.waiters = permit.waiters /\ p.roots = <<>>
    <3> DEFINE i == IdleTaken
    <3>1. i \in PermitType
      <4>1. Tail(permit.idles) \in Seq(Waiters)
        BY <1>0, <2>2, HeadTailProperties DEF PermitType
      <4> QED
        BY <1>0, <4>1 DEF IdleTaken, PermitType
    <3>2. /\ i.inUse = 0 /\ i.pendingWakeups = 1 /\ i.idles = <<>>
          /\ i.waiters = permit.waiters /\ i.roots = <<>>
      BY <1>0, <1>4, <2>1, <2>2 DEF IdleTaken, PermitType
    <3> HIDE DEF i
    <3>3. /\ ClaimReleasedTurn(i).inUse = 0 /\ ClaimReleasedTurn(i).pendingWakeups = 0
          /\ ClaimReleasedTurn(i).idles = <<>> /\ ClaimReleasedTurn(i).roots = <<>>
          /\ ClaimReleasedTurn(i).waiters = permit.waiters
      BY <3>1, <3>2 DEF ClaimReleasedTurn, PermitType
    <3>4. ClaimReleasedTurn(i) \in PermitType
      BY <3>1, ClaimReleasedTurnType
    <3> QED
      BY <3>3, <3>4 DEF i
  <2>4. Attempt(f, p, TRUE) /\ f = Head(permit.idles)
    BY DEF Woken
  <2>5. Inside = {}
    BY <1>2, <2>1
  <2> HIDE DEF p
  <2>6. Line # <<>> /\ Tail(Line) = permit.waiters /\ Head(Line) = Head(permit.idles)
    <3>1. Line = <<Head(permit.idles)>> \o permit.waiters
      BY <2>2 DEF Line
    <3>2. Head(permit.idles) \in Folders
      BY <1>0, <2>2, HeadTailProperties
    <3> HIDE DEF Line
    <3> QED
      BY <1>0, <3>1, <3>2
  <2>7. CASE SameRuns /\ permit' = Released(p)
    <3>1. p.inUse \in 0..1 /\ Len(p.roots) = p.inUse
      <4>1. Len(<<>>) = 0
        OBVIOUS
      <4> QED
        BY <2>3, <4>1
    <3>2. /\ permit'.waiters \in Seq(Folders) /\ permit'.idles \in Seq(Folders)
          /\ Len(permit'.idles) = permit'.pendingWakeups
          /\ permit'.inUse = 0 /\ Len(permit'.roots) = 0
          /\ Line' = p.waiters
      BY <1>0, <2>3, <2>7, <3>1, ReleasedLine DEF Line
    <3>3. LineInv'
      BY <1>1, <2>4, <2>5, <2>7, <3>2 DEF LineInv, Attempt
    <3>4. Turns!PassTurn
      BY <1>1, <2>3, <2>5, <2>6, <2>7, <3>2 DEF Turns!PassTurn, Inside, Line
    <3> QED
      BY <3>3, <3>4 DEF Turns!Next
  <2>8. CASE permit' = Acquired(p, f) /\ sched'[f].running /\ OthersSame(f)
    <3>1. /\ permit'.inUse = 1 /\ permit'.pendingWakeups = 0 /\ permit'.idles = <<>>
          /\ permit'.waiters = permit.waiters /\ permit'.roots = Append(<<>>, f)
      BY <2>3, <2>8 DEF Acquired, PermitType
    <3>2. Len(Append(<<>>, f)) = 1
      OBVIOUS
    <3>3. Inside' = {f}
      BY <2>5, <2>8 DEF Inside, OthersSame, SameRun
    <3>4. LineInv'
      BY <1>0, <2>4, <2>8, <3>1, <3>2, <3>3, EmptySeq
      DEF LineInv, Attempt, OthersSame, SameRun
    <3>5. Line' = permit.waiters
      BY <1>0, <3>1, ConcatEmptySeq DEF Line
    <3>6. f = Head(Line)
      BY <2>4, <2>6
    <3>7. Turns!TakeTurn
      BY <2>5, <2>6, <3>3, <3>5, <3>6 DEF Turns!TakeTurn, Inside, Line
    <3> QED
      BY <3>4, <3>7 DEF Turns!Next
  <2>9. CanAcquire(p, f)
    BY <2>3, MaxConcurrentAssumption DEF CanAcquire
  <2> QED
    BY <2>4, <2>7, <2>8, <2>9 DEF Attempt
<1>10. CASE \E f \in Folders : Removed(f)
  BY <1>10 DEF Removed, LineInv
<1>11. CASE \E f \in Folders : Ended(f)
  <2> PICK f \in Folders : Ended(f)
    BY <1>11
  <2>1. CASE /\ sched[f].running /\ ~sched'[f].running /\ OthersSame(f)
             /\ permit' = Released(permit) /\ UNCHANGED orphans
    <3>1. permit.inUse = 1 /\ permit.pendingWakeups = 0 /\ Inside = {f}
      BY <1>0, <1>3, <2>1 DEF SlotInv, Inside
    <3>2. permit.idles = <<>>
      BY <1>5, <3>1
    <3>3. /\ permit'.waiters \in Seq(Folders) /\ permit'.idles \in Seq(Folders)
          /\ Len(permit'.idles) = permit'.pendingWakeups
          /\ permit'.inUse = 0 /\ Len(permit'.roots) = 0
          /\ Line' = permit.waiters
      BY <1>0, <2>1, <3>1, <3>2, ReleasedLine DEF Line
    <3>4. Inside' = {}
      BY <2>1, <3>1 DEF Inside, OthersSame, SameRun
    <3>5. Line' = Line
      BY <1>0, <3>2, <3>3, ConcatEmptySeq DEF Line
    <3>6. LineInv'
      BY <2>1, <3>3, <3>4 DEF LineInv, OthersSame, SameRun
    <3>7. Turns!Leave(f)
      BY <3>1, <3>4, <3>5 DEF Turns!Leave, Inside, Line
    <3> QED
      BY <3>6, <3>7 DEF Turns!Next
  <2>2. CASE SameRuns /\ orphans' = orphans \ {f} /\ UNCHANGED permit
    BY <1>1, <2>2 DEF LineInv, Line
  <2> QED
    BY <2>1, <2>2 DEF Ended
<1> QED
  BY <1>6, <1>7, <1>8, <1>9, <1>10, <1>11 DEF Effect

\* At the start nobody runs and nobody waits.
LEMMA InitLine == Init => LineInv /\ Turns!Init
<1> SUFFICES ASSUME Init PROVE LineInv /\ Turns!Init
  OBVIOUS
<1>1. /\ permit.inUse = 0 /\ permit.roots = <<>> /\ permit.waiters = <<>>
      /\ permit.pendingWakeups = 0 /\ permit.idles = <<>> /\ orphans = {}
  BY DEF Init, FreePermit
<1>2. \A f \in Folders : sched[f].phase = "live" /\ ~sched[f].running
  BY DEF Init, NewScheduler
<1>3. <<>> \in Seq(Folders) /\ Len(<<>>) = 0 /\ <<>> \o <<>> = <<>>
  BY EmptySeq, ConcatEmptySeq
<1>4. LineInv
  BY <1>1, <1>2, <1>3 DEF LineInv
<1>5. Turns!Init
  BY <1>1, <1>2, <1>3 DEF Turns!Init
<1> QED
  BY <1>4, <1>5

\* The permit takes turns, for any number of folders and however their requests,
\* gates and runs interleave: a run starts at the head of the line or on an empty
\* one, also between a release and the callback it queued. (A removed folder
\* leaves its place to nobody, so none is removed here.)
THEOREM SingleSlotTakesTurns ==
    MaxConcurrent = 1 /\ "folders" \notin Inputs => (Spec => TakesTurns)
<1> SUFFICES ASSUME MaxConcurrent = 1, "folders" \notin Inputs
             PROVE  Spec => TakesTurns
  OBVIOUS
<1>1. Init => LineInv /\ Turns!Init
  BY InitLine
<1>2. TypeOK /\ SlotInv /\ LineInv /\ [Next]_vars => LineInv' /\ [Turns!Next]_Turns!vars
  <2> SUFFICES ASSUME TypeOK, SlotInv, LineInv, [Next]_vars
               PROVE  LineInv' /\ [Turns!Next]_Turns!vars
    OBVIOUS
  <2>1. Effect
    BY StepEffect
  <2>2. LineInv' /\ (Turns!Next \/ (Inside' = Inside /\ Line' = Line))
    BY <2>1, TurnStep
  <2> QED
    BY <2>2 DEF Turns!vars, Inside, Line
<1>3. Spec => [](TypeOK /\ SlotInv)
  BY SlotInvariant
<1> QED
  BY <1>1, <1>2, <1>3, PTL DEF Spec, TakesTurns, Turns!Spec

-----------------------------------------------------------------------------
(* The methods of one scheduler, and the work it is asked to do.           *)

\* What the deletion guard knows and did.
SameFiles(s, t) ==
    /\ t.guarded = s.guarded /\ t.disk = s.disk /\ t.baseline = s.baseline
    /\ t.server = s.server /\ t.foundGone = s.foundGone /\ t.approved = s.approved
    /\ t.bypass => s.bypass

\* While it runs, no local change is queued: the run will find it.
Deafened(s) == s.running => "LocalInotify" \notin s.queue

\* Who cools down is called when that is over.
Called(s) == s.cooldown => s.coolCallback

\* t is s after methods that start no run, touch no file and forget nothing.
Heeds(s, t) ==
    /\ t \in SchedulerType
    /\ t.running = s.running /\ t.phase = s.phase /\ t.manualOnly = s.manualOnly
    /\ t.state = "Syncing" => s.state = "Syncing"
    /\ Deafened(s) => Deafened(t)
    /\ Called(s) => Called(t)
    /\ s.phase = "live" /\ ~s.manualOnly /\ Pending(s) => Pending(t)
    /\ SameFiles(s, t)

\* Two such methods in a row are one.
LEMMA HeedsTransitive ==
    ASSUME NEW s, NEW t, NEW u, Heeds(s, t), Heeds(t, u)
    PROVE  Heeds(s, u)
  BY DEF Heeds, SameFiles

\* To do nothing is to heed.
LEMMA HeedsReflexive ==
    ASSUME NEW s \in SchedulerType
    PROVE  Heeds(s, s)
  BY DEF Heeds, SameFiles

\* The label, unless it says that a run goes on.
LEMMA LabelHeeds ==
    ASSUME NEW s \in SchedulerType, NEW l \in AppState, l # "Syncing"
    PROVE  Heeds(s, [s EXCEPT !.state = l])
  BY DEF Heeds, SameFiles, Deafened, Called, Pending, SchedulerType, SchedulerRecord

\* set_idle_state
LEMMA IdleHeeds ==
    ASSUME NEW s \in SchedulerType
    PROVE  Heeds(s, Idle(s))
<1>1. IdleState(s) \in AppState /\ IdleState(s) # "Syncing"
  BY DEF IdleState, AppState
<1> QED
  BY <1>1, LabelHeeds DEF Idle

\* Arming a source.
LEMMA ArmedHeeds ==
    ASSUME NEW s \in SchedulerType
    PROVE  Heeds(s, Armed(s))
<1> DEFINE n == s.armed + 1
           t == [s EXCEPT !.source = TRUE, !.armed = n]
<1>1. n \in Nat /\ n > 0
  BY DEF SchedulerType, SchedulerRecord
<1> HIDE DEF n
<1>2. Heeds(s, t)
  <2>1. t \in SchedulerType
    BY <1>1 DEF SchedulerType, SchedulerRecord
  <2> QED
    BY <2>1 DEF Heeds, SameFiles, Deafened, Called, Pending, SchedulerType, SchedulerRecord
<1> QED
  BY <1>2, HeedsReflexive DEF Armed, n

\* schedule_start
LEMMA ScheduleStartHeeds ==
    ASSUME NEW s \in SchedulerType
    PROVE  Heeds(s, ScheduleStart(s))
<1>1. Heeds(s, Armed(s)) /\ Armed(s) \in SchedulerType
  BY ArmedHeeds DEF Heeds
<1>2. Heeds(Armed(s), [Armed(s) EXCEPT !.state = "SyncQueued"])
  BY <1>1, LabelHeeds DEF AppState
<1> QED
  BY <1>1, <1>2, HeedsTransitive, HeedsReflexive DEF ScheduleStart

\* schedule_debounce
LEMMA ScheduleDebounceHeeds ==
    ASSUME NEW s \in SchedulerType
    PROVE  Heeds(s, ScheduleDebounce(s))
<1>1. ScheduleDebounce(s) \in SchedulerType
  BY ScheduleDebounceKeeps DEF Keeps
<1> QED
  BY <1>1 DEF ScheduleDebounce, Heeds, SameFiles, Deafened, Called, Pending,
              SchedulerType, SchedulerRecord

\* schedule_keyring_retry
LEMMA ScheduleKeyringRetryHeeds ==
    ASSUME NEW s \in SchedulerType
    PROVE  Heeds(s, ScheduleKeyringRetry(s))
<1> DEFINE t == Armed(s)
<1>1. Heeds(s, t) /\ t \in SchedulerType
  BY ArmedHeeds DEF Heeds
<1>2. ScheduleKeyringRetry(s) \in SchedulerType
  BY ScheduleKeyringRetryKeeps DEF Keeps
<1>3. ScheduleKeyringRetry(s) \in {t, [t EXCEPT !.keyringTries = @ + 1]}
  BY DEF ScheduleKeyringRetry
<1> HIDE DEF t
<1>4. [t EXCEPT !.keyringTries = @ + 1] \in SchedulerType =>
          Heeds(t, [t EXCEPT !.keyringTries = @ + 1])
  BY <1>1 DEF Heeds, SameFiles, Deafened, Called, Pending, SchedulerType, SchedulerRecord
<1> QED
  BY <1>1, <1>2, <1>3, <1>4, HeedsTransitive

\* schedule_server_probe
LEMMA ScheduleServerProbeHeeds ==
    ASSUME NEW s \in SchedulerType
    PROVE  Heeds(s, ScheduleServerProbe(s))
  BY ArmedHeeds, HeedsReflexive DEF ScheduleServerProbe

\* queue.add: a local change is not queued during a run.
LEMMA QueuedHeeds ==
    ASSUME NEW s \in SchedulerType, NEW t, s.running => t # "LocalInotify"
    PROVE  Heeds(s, Queued(s, t)) /\ Queued(s, t).queue # {}
<1> DEFINE q == Queued(s, t)
<1>1. q \in SchedulerType
  BY QueuedKeeps DEF Keeps
<1>2. /\ Reason(t) \in q.queue
      /\ s.running /\ "LocalInotify" \notin s.queue => "LocalInotify" \notin q.queue
  BY DEF Queued, Reason, SchedulerType, SchedulerRecord
<1>3. /\ q.running = s.running /\ q.phase = s.phase /\ q.manualOnly = s.manualOnly
      /\ q.state = s.state /\ q.cooldown = s.cooldown /\ q.coolCallback = s.coolCallback
      /\ SameFiles(s, q)
  BY DEF Queued, SameFiles, SchedulerType, SchedulerRecord
<1> HIDE DEF q
<1>4. Pending(q) /\ q.queue # {} /\ (Deafened(s) => Deafened(q)) /\ (Called(s) => Called(q))
  BY <1>2, <1>3 DEF Pending, Deafened, Called
<1>5. Heeds(s, q)
  BY <1>1, <1>3, <1>4 DEF Heeds
<1> QED
  BY <1>4, <1>5 DEF q

\* request: what it takes on is kept, on the queue or as what a pause remembers.
LEMMA RequestedHeeds ==
    ASSUME NEW s \in SchedulerType, NEW t
    PROVE  /\ Heeds(s, Requested(s, t))
           /\ ~Ignores(s, t) => Pending(Requested(s, t))
<1> DEFINE q == Queued(s, t)
           r == Requested(s, t)
<1>1. CASE Ignores(s, t)
  BY <1>1, HeedsReflexive DEF Requested
<1>2. CASE ~Ignores(s, t)
  <2>1. Heeds(s, q) /\ q \in SchedulerType /\ q.queue # {}
    BY <1>2, QueuedHeeds DEF Ignores, Heeds
  <2>2. r \in {[s EXCEPT !.localDirty = TRUE], [s EXCEPT !.remotePending = TRUE],
               q, [q EXCEPT !.state = "DeleteReview"], [q EXCEPT !.state = "AuthRequired"],
               [q EXCEPT !.state = "Offline"], ScheduleStart(q), ScheduleDebounce(q)}
    BY <1>2 DEF Requested
  <2> HIDE DEF q, r
  <2>3. \A d \in {[s EXCEPT !.localDirty = TRUE], [s EXCEPT !.remotePending = TRUE]} :
            Heeds(s, d) /\ Pending(d)
    <3>1. LET d == [s EXCEPT !.localDirty = TRUE] IN Heeds(s, d) /\ Pending(d)
      BY DEF Heeds, SameFiles, Deafened, Called, Pending, SchedulerType, SchedulerRecord
    <3>2. LET d == [s EXCEPT !.remotePending = TRUE] IN Heeds(s, d) /\ Pending(d)
      BY DEF Heeds, SameFiles, Deafened, Called, Pending, SchedulerType, SchedulerRecord
    <3> QED
      BY <3>1, <3>2
  <2>4. \A d \in {q, [q EXCEPT !.state = "DeleteReview"], [q EXCEPT !.state = "AuthRequired"],
                  [q EXCEPT !.state = "Offline"], ScheduleStart(q), ScheduleDebounce(q)} :
            Heeds(q, d)
    BY <2>1, LabelHeeds, HeedsReflexive, ScheduleStartHeeds, ScheduleDebounceHeeds
    DEF AppState
  <2>5. \A d \in {q, [q EXCEPT !.state = "DeleteReview"], [q EXCEPT !.state = "AuthRequired"],
                  [q EXCEPT !.state = "Offline"], ScheduleStart(q), ScheduleDebounce(q)} :
            d.queue = q.queue
    BY <2>1 DEF ScheduleStart, ScheduleDebounce, Armed, SchedulerType, SchedulerRecord
  <2>6. CASE r \in {[s EXCEPT !.localDirty = TRUE], [s EXCEPT !.remotePending = TRUE]}
    BY <2>3, <2>6 DEF r
  <2>7. CASE r \in {q, [q EXCEPT !.state = "DeleteReview"],
                    [q EXCEPT !.state = "AuthRequired"],
                    [q EXCEPT !.state = "Offline"], ScheduleStart(q), ScheduleDebounce(q)}
    <3>1. Heeds(q, r) /\ r.queue = q.queue
      BY <2>4, <2>5, <2>7
    <3>2. Heeds(s, r) /\ Pending(r)
      BY <2>1, <3>1, HeedsTransitive DEF Pending
    <3> QED
      BY <3>2 DEF r
  <2> QED
    BY <2>2, <2>6, <2>7
<1> QED
  BY <1>1, <1>2

\* What arrived during a pause becomes a request.
LEMMA ResumedHeeds ==
    ASSUME NEW s \in SchedulerType
    PROVE  Heeds(s, Resumed(s))
<1> DEFINE clean == [s EXCEPT !.localDirty = FALSE, !.remotePending = FALSE]
           r     == Requested(clean, "Resume")
<1>1. clean \in SchedulerType
  BY DEF SchedulerType, SchedulerRecord
<1>2. /\ clean.running = s.running /\ clean.phase = s.phase
      /\ clean.manualOnly = s.manualOnly /\ clean.state = s.state
      /\ clean.queue = s.queue /\ clean.cooldown = s.cooldown
      /\ clean.coolCallback = s.coolCallback /\ SameFiles(s, clean)
  BY DEF SameFiles, SchedulerType, SchedulerRecord
<1>3. Pending(s) <=> s.localDirty \/ s.remotePending \/ s.queue # {}
  BY DEF Pending
<1>4. Resumed(s) = IF (s.localDirty \/ s.remotePending \/ s.queue # {}) /\ ~s.manualOnly
                   THEN r ELSE Idle(clean)
  BY DEF Resumed
<1> HIDE DEF clean
<1>5. Heeds(clean, r) /\ (~Ignores(clean, "Resume") => Pending(r))
  BY <1>1, RequestedHeeds
<1>6. clean.phase = "live" => ~Ignores(clean, "Resume")
  BY DEF Ignores
<1> HIDE DEF r
<1>7. Heeds(clean, Idle(clean))
  BY <1>1, IdleHeeds
<1>8. \A d : Heeds(clean, d) =>
          /\ d \in SchedulerType
          /\ d.running = s.running /\ d.phase = s.phase /\ d.manualOnly = s.manualOnly
          /\ d.state = "Syncing" => s.state = "Syncing"
          /\ Deafened(s) => Deafened(d)
          /\ Called(s) => Called(d)
          /\ SameFiles(s, d)
  BY <1>2 DEF Heeds, SameFiles, Deafened, Called
<1>9. CASE (s.localDirty \/ s.remotePending \/ s.queue # {}) /\ ~s.manualOnly
  <2>1. Resumed(s) = r
    BY <1>4, <1>9
  <2>2. s.phase = "live" => Pending(r)
    BY <1>2, <1>5, <1>6
  <2> QED
    BY <1>5, <1>8, <2>1, <2>2 DEF Heeds
<1>10. CASE ~((s.localDirty \/ s.remotePending \/ s.queue # {}) /\ ~s.manualOnly)
  <2>1. Resumed(s) = Idle(clean)
    BY <1>4, <1>10
  <2>2. ~(~s.manualOnly /\ Pending(s))
    BY <1>3, <1>10
  <2> QED
    BY <1>7, <1>8, <2>1, <2>2 DEF Heeds
<1> QED
  BY <1>9, <1>10

\* Coming back online.
LEMMA ReconnectedHeeds ==
    ASSUME NEW s \in SchedulerType
    PROVE  Heeds(s, Reconnected(s))
  BY RequestedHeeds, IdleHeeds DEF Reconnected

\* An attempt that aborts leaves the work where it was, or remembers it as a
\* local change when it met a pause.
LEMMA AbortedHeeds ==
    ASSUME NEW s \in SchedulerType, StartVerdict(s) # "go"
    PROVE  Heeds(s, Aborted(s, StartVerdict(s)))
<1> DEFINE v == StartVerdict(s)
<1>1. v \in {"nothing", "gated", "paused", "unauthorized", "underReview", "massDeletion"}
  BY DEF StartVerdict
<1>2. Missing(s) \in SUBSET Batches
  BY DEF Missing, SchedulerType, SchedulerRecord
<1>3. Heeds(s, [s EXCEPT !.queue = {}, !.localDirty = TRUE])
  BY DEF Heeds, SameFiles, Deafened, Called, Pending, SchedulerType, SchedulerRecord
<1>4. Heeds(s, [s EXCEPT !.state = "DeleteReview", !.alert = Missing(s)])
  <2> DEFINE t == [s EXCEPT !.state = "DeleteReview", !.alert = Missing(s)]
  <2>1. t \in SchedulerType
    BY <1>2 DEF SchedulerType, SchedulerRecord, AppState
  <2> QED
    BY <2>1 DEF Heeds, SameFiles, Deafened, Called, Pending, SchedulerType, SchedulerRecord
<1> HIDE DEF v
<1>5. Aborted(s, v) \in
        {s, [s EXCEPT !.state = "Offline"], [s EXCEPT !.state = "AuthRequired"],
         [s EXCEPT !.state = "DeleteReview"], [s EXCEPT !.queue = {}, !.localDirty = TRUE],
         [s EXCEPT !.state = "DeleteReview", !.alert = Missing(s)]}
  BY <1>1 DEF Aborted
<1>6. Heeds(s, Aborted(s, v))
  BY <1>3, <1>4, <1>5, HeedsReflexive, LabelHeeds DEF AppState
<1> QED
  BY <1>6 DEF v

\* Joining the line of the permit uses an approval up.
LEMMA WaitingHeeds ==
    ASSUME NEW s \in SchedulerType
    PROVE  Heeds(s, Waiting(s))
<1>1. Waiting(s) \in SchedulerType
  BY WaitingKeeps DEF Keeps
<1> QED
  BY <1>1 DEF Waiting, Heeds, SameFiles, Deafened, Called, Pending, SchedulerType,
              SchedulerRecord

\* cooldown_finished
LEMMA CooldownFinishedHeeds ==
    ASSUME NEW s \in SchedulerType
    PROVE  Heeds(s, CooldownFinished(s))
  BY IdleHeeds, ScheduleStartHeeds, ArmedHeeds, HeedsReflexive DEF CooldownFinished


-----------------------------------------------------------------------------
(* What a step does to one scheduler.                                      *)

\* The label tells the truth about the run, what is queued during a run came
\* from no watcher, and a cooldown ends in a call.
WorkInv(s) ==
    /\ s.phase = "live" /\ s.state = "Syncing" => s.running
    /\ Deafened(s)
    /\ Called(s)

\* Until the first approval nothing is missing on the server or in the baseline,
\* and whatever a run found missing is nothing.
Reviewed(s) ==
    /\ s.guarded
    /\ s.approved = {} =>
           /\ s.server = Batches /\ s.baseline = Batches /\ ~s.bypass
           /\ s.running => s.disk = Batches /\ s.foundGone = {}

\* The inputs that go past the review.
PastReview == {"restore", "deleteInFlight", "guard"}

Leaves(s, t) ==
    s.phase = "live" /\ ~s.manualOnly /\ Pending(s) =>
        Pending(t) \/ t.running \/ t.phase # "live"

Serves(s, t) ==
    /\ WorkInv(s) => WorkInv(t) /\ Leaves(s, t)
    /\ PastReview \cap Inputs = {} /\ Reviewed(s) => Reviewed(t)

\* An input, before the scheduler acts on it.
Takes(s, t) ==
    /\ Serves(s, t)
    /\ t \in SchedulerType
    /\ t.phase = s.phase /\ t.manualOnly = s.manualOnly
    /\ Pending(s) => Pending(t)

\* The methods serve.
LEMMA HeedsServes ==
    ASSUME NEW s, NEW t, Heeds(s, t)
    PROVE  Serves(s, t)
<1>1. WorkInv(s) => WorkInv(t) /\ Leaves(s, t)
  BY DEF Heeds, WorkInv, Leaves
<1>2. Reviewed(s) => Reviewed(t)
  BY DEF Heeds, SameFiles, Reviewed
<1> QED
  BY <1>1, <1>2 DEF Serves

\* Whatever serves after an input serves.
LEMMA TakesServes ==
    ASSUME NEW s, NEW t, NEW u, Takes(s, t), Serves(t, u)
    PROVE  Serves(s, u)
  BY DEF Takes, Serves, Leaves

\* Whatever serves after a method serves.
LEMMA HeedsThenServes ==
    ASSUME NEW s, NEW t, NEW u, Heeds(s, t), Serves(t, u)
    PROVE  Serves(s, u)
<1>1. Serves(s, t)
  BY HeedsServes
<1>2. /\ t.phase = s.phase /\ t.manualOnly = s.manualOnly
      /\ s.phase = "live" /\ ~s.manualOnly /\ Pending(s) => Pending(t)
  BY DEF Heeds
<1> QED
  BY <1>1, <1>2 DEF Serves, Leaves

\* What the user, the settings and the system say.
LEMMA ToggleTakes ==
    ASSUME NEW s \in SchedulerType, NEW v \in BOOLEAN
    PROVE  /\ Takes(s, [s EXCEPT !.userPaused = v])
           /\ Takes(s, [s EXCEPT !.batteryPaused = v])
           /\ Takes(s, [s EXCEPT !.online = v])
           /\ Takes(s, [s EXCEPT !.metered = v])
           /\ Takes(s, [s EXCEPT !.hushed = v])
           /\ Takes(s, [s EXCEPT !.pushReady = v])
           /\ Takes(s, [s EXCEPT !.authRequired = v])
           /\ Serves(s, [s EXCEPT !.manualOnly = v])
<1> DEFINE Alike(t) ==
        /\ t \in SchedulerType
        /\ t.phase = s.phase /\ t.running = s.running /\ t.state = s.state
        /\ t.queue = s.queue /\ t.localDirty = s.localDirty
        /\ t.remotePending = s.remotePending
        /\ t.cooldown = s.cooldown /\ t.coolCallback = s.coolCallback
        /\ SameFiles(s, t)
<1>1. ASSUME NEW t, Alike(t) PROVE Serves(s, t) /\ (Pending(s) => Pending(t))
  <2>1. WorkInv(s) => WorkInv(t) /\ Leaves(s, t)
    BY <1>1 DEF WorkInv, Leaves, Deafened, Called, Pending
  <2>2. Reviewed(s) => Reviewed(t)
    BY <1>1 DEF SameFiles, Reviewed
  <2> QED
    BY <1>1, <2>1, <2>2 DEF Serves, Pending
<1>2. Alike([s EXCEPT !.userPaused = v]) /\ [s EXCEPT !.userPaused = v].manualOnly = s.manualOnly
  BY DEF SameFiles, SchedulerType, SchedulerRecord
<1>3. Alike([s EXCEPT !.batteryPaused = v])
      /\ [s EXCEPT !.batteryPaused = v].manualOnly = s.manualOnly
  BY DEF SameFiles, SchedulerType, SchedulerRecord
<1>4. Alike([s EXCEPT !.online = v]) /\ [s EXCEPT !.online = v].manualOnly = s.manualOnly
  BY DEF SameFiles, SchedulerType, SchedulerRecord
<1>5. Alike([s EXCEPT !.metered = v]) /\ [s EXCEPT !.metered = v].manualOnly = s.manualOnly
  BY DEF SameFiles, SchedulerType, SchedulerRecord
<1>6. Alike([s EXCEPT !.hushed = v]) /\ [s EXCEPT !.hushed = v].manualOnly = s.manualOnly
  BY DEF SameFiles, SchedulerType, SchedulerRecord
<1>7. Alike([s EXCEPT !.pushReady = v]) /\ [s EXCEPT !.pushReady = v].manualOnly = s.manualOnly
  BY DEF SameFiles, SchedulerType, SchedulerRecord
<1>8. Alike([s EXCEPT !.authRequired = v])
      /\ [s EXCEPT !.authRequired = v].manualOnly = s.manualOnly
  BY DEF SameFiles, SchedulerType, SchedulerRecord
<1>9. Alike([s EXCEPT !.manualOnly = v])
  BY DEF SameFiles, SchedulerType, SchedulerRecord
<1>10. \A t : Alike(t) /\ t.manualOnly = s.manualOnly => Takes(s, t)
  BY <1>1 DEF Takes
<1> HIDE DEF Alike
<1> QED
  BY <1>1, <1>2, <1>3, <1>4, <1>5, <1>6, <1>7, <1>8, <1>9, <1>10

\* begin_run: what was queued becomes the run, and without an approval the guard
\* found nothing missing.
LEMMA RunningServes ==
    ASSUME NEW s \in SchedulerType, StartVerdict(s) = "go"
    PROVE  Serves(s, Running(s))
<1> DEFINE r == Running(s)
<1>1. r.running /\ r.queue = {}
  BY DEF Running, SchedulerType, SchedulerRecord
<1>2. r.cooldown = s.cooldown /\ r.coolCallback = s.coolCallback
  BY DEF Running, SchedulerType, SchedulerRecord
<1>3. /\ r.guarded = s.guarded /\ r.disk = s.disk /\ r.baseline = s.baseline
      /\ r.server = s.server /\ r.approved = s.approved /\ ~r.bypass
      /\ r.foundGone = Batches \ s.disk
  BY DEF Running, SchedulerType, SchedulerRecord
<1>4. ~s.running /\ (s.guarded /\ ~s.bypass => Missing(s) = {})
  BY DEF StartVerdict
<1>5. s.disk \in SUBSET Batches
  BY DEF SchedulerType, SchedulerRecord
<1> HIDE DEF r
<1>6. WorkInv(s) => WorkInv(r) /\ Leaves(s, r)
  BY <1>1, <1>2 DEF WorkInv, Leaves, Deafened, Called
<1>7. ASSUME Reviewed(s) PROVE Reviewed(r)
  <2>1. CASE s.approved = {}
    <3>1. s.disk = Batches
      BY <1>4, <1>5, <1>7, <2>1 DEF Reviewed, Missing
    <3> QED
      BY <1>3, <1>7, <2>1, <3>1 DEF Reviewed
  <2>2. CASE s.approved # {}
    BY <1>3, <1>7, <2>2 DEF Reviewed
  <2> QED
    BY <2>1, <2>2
<1> QED
  BY <1>6, <1>7 DEF Serves, r

\* The record of f becomes one that serves what r was.
Served(f, r) == \E u : sched' = [sched EXCEPT ![f] = u] /\ Serves(r, u)

\* start, with or without a turn.
LEMMA StartServes ==
    ASSUME NEW f \in Folders, NEW s0 \in SchedulerType, NEW p, NEW turn,
           Start(f, s0, p, turn)
    PROVE  Served(f, s0)
<1> DEFINE s == [s0 EXCEPT !.source = FALSE]
<1>1. s \in SchedulerType
  BY DEF SchedulerType, SchedulerRecord
<1>2. Heeds(s0, s)
  BY <1>1 DEF Heeds, SameFiles, Deafened, Called, Pending, SchedulerType, SchedulerRecord
<1>3. \/ StartVerdict(s) # "go" /\ sched' = [sched EXCEPT ![f] = Aborted(s, StartVerdict(s))]
      \/ StartVerdict(s) = "go" /\ sched' = [sched EXCEPT ![f] = Running(s)]
      \/ StartVerdict(s) = "go" /\ sched' = [sched EXCEPT ![f] = Waiting(s)]
  BY DEF Start
<1> HIDE DEF s
<1>4. StartVerdict(s) # "go" => Serves(s, Aborted(s, StartVerdict(s)))
  BY <1>1, AbortedHeeds, HeedsServes
<1>5. StartVerdict(s) = "go" => Serves(s, Running(s)) /\ Serves(s, Waiting(s))
  BY <1>1, RunningServes, WaitingHeeds, HeedsServes
<1>6. \A u : Serves(s, u) => Serves(s0, u)
  BY <1>2, HeedsThenServes
<1> QED
  BY <1>3, <1>4, <1>5, <1>6 DEF Served

\* request, of a scheduler that took an input.
LEMMA SubmitServes ==
    ASSUME NEW f \in Folders, NEW r, NEW s \in SchedulerType, Takes(r, s),
           NEW t, Submit(f, s, t)
    PROVE  Served(f, r)
<1>1. CASE StartsNow(s, t)
  <2>1. Heeds(s, Queued(s, t)) /\ Queued(s, t) \in SchedulerType
    BY <1>1, QueuedHeeds, QueuedKeeps DEF StartsNow, Keeps
  <2>2. Served(f, Queued(s, t))
    BY <1>1, <2>1, StartServes DEF Submit
  <2> QED
    BY <2>1, <2>2, HeedsThenServes, TakesServes DEF Served
<1>2. CASE ~StartsNow(s, t)
  <2>1. sched' = [sched EXCEPT ![f] = Requested(s, t)]
    BY <1>2 DEF Submit, Become
  <2>2. Serves(s, Requested(s, t))
    BY RequestedHeeds, HeedsServes
  <2> QED
    BY <2>1, <2>2, TakesServes DEF Served
<1> QED
  BY <1>1, <1>2

\* A scheduler replaced after it took an input and went through its methods.
LEMMA BecomeServes ==
    ASSUME NEW f \in Folders, NEW r, NEW s, NEW u, Takes(r, s), Heeds(s, u), Become(f, u)
    PROVE  Served(f, r)
  BY HeedsServes, TakesServes DEF Served, Become

\* The inputs that toggle what a scheduler was told.
LEMMA InputServes ==
    ASSUME TypeOK, NEW f \in Folders,
           \/ SetUserPaused(f) \/ SetBatteryPaused(f)
           \/ SetOnline(f) \/ SetMetered(f) \/ SetHushed(f)
           \/ SetRemotePushReady(f) \/ UpdateSyncConfig(f)
    PROVE  Served(f, sched[f])
<1> DEFINE r == sched[f]
<1>1. r \in SchedulerType
  BY DEF TypeOK
<1>2. CASE SetUserPaused(f)
  <2> DEFINE s == [r EXCEPT !.userPaused = ~@]
  <2>1. Become(f, IF s.userPaused THEN [s EXCEPT !.state = "PausedUser"] ELSE Resumed(s))
    BY <1>2 DEF SetUserPaused
  <2>2. Takes(r, s)
    <3>1. (~r.userPaused) \in BOOLEAN
      OBVIOUS
    <3> QED
      BY <1>1, <3>1, ToggleTakes
  <2> HIDE DEF s, r
  <2>3. Heeds(s, [s EXCEPT !.state = "PausedUser"]) /\ Heeds(s, Resumed(s))
    BY <2>2, LabelHeeds, ResumedHeeds DEF Takes, AppState
  <2>4. Served(f, r)
    BY <2>1, <2>2, <2>3, BecomeServes
  <2> QED
    BY <2>4 DEF r
<1>3. CASE SetBatteryPaused(f)
  <2> DEFINE s == [r EXCEPT !.batteryPaused = ~@]
  <2>1. Become(f, IF s.batteryPaused THEN [s EXCEPT !.state = "PausedBattery"]
                  ELSE IF s.userPaused THEN s ELSE Resumed(s))
    BY <1>3 DEF SetBatteryPaused
  <2>2. Takes(r, s)
    <3>1. (~r.batteryPaused) \in BOOLEAN
      OBVIOUS
    <3> QED
      BY <1>1, <3>1, ToggleTakes
  <2> HIDE DEF s, r
  <2>3. /\ Heeds(s, [s EXCEPT !.state = "PausedBattery"]) /\ Heeds(s, s)
        /\ Heeds(s, Resumed(s))
    BY <2>2, LabelHeeds, HeedsReflexive, ResumedHeeds DEF Takes, AppState
  <2>4. Served(f, r)
    BY <2>1, <2>2, <2>3, BecomeServes
  <2> QED
    BY <2>4 DEF r
<1>4. CASE SetOnline(f)
  <2> DEFINE s     == [r EXCEPT !.online = ~@]
             probe == IF s.unreachable THEN ScheduleServerProbe(Queued(s, "Retry")) ELSE s
  <2>1. Become(f, IF s.online THEN Reconnected(probe) ELSE [s EXCEPT !.state = "Offline"])
    BY <1>4 DEF SetOnline
  <2>2. Takes(r, s)
    <3>1. (~r.online) \in BOOLEAN
      OBVIOUS
    <3> QED
      BY <1>1, <3>1, ToggleTakes
  <2> HIDE DEF s, r
  <2>3. s \in SchedulerType
    BY <2>2 DEF Takes
  <2>4. Heeds(s, Queued(s, "Retry")) /\ Queued(s, "Retry") \in SchedulerType
    BY <2>3, QueuedHeeds DEF Heeds
  <2>5. Heeds(s, probe) /\ probe \in SchedulerType
    BY <2>3, <2>4, ScheduleServerProbeHeeds, HeedsTransitive, HeedsReflexive DEF Heeds
  <2> HIDE DEF probe
  <2>6. Heeds(s, [s EXCEPT !.state = "Offline"]) /\ Heeds(s, Reconnected(probe))
    BY <2>3, <2>5, LabelHeeds, ReconnectedHeeds, HeedsTransitive DEF AppState
  <2>7. Served(f, r)
    BY <2>1, <2>2, <2>6, BecomeServes
  <2> QED
    BY <2>7 DEF r
<1>5. CASE SetMetered(f)
  <2> DEFINE s == [r EXCEPT !.metered = ~@]
  <2>1. Become(f, IF ~s.metered /\ s.online THEN Reconnected(s) ELSE s)
    BY <1>5 DEF SetMetered
  <2>2. Takes(r, s)
    <3>1. (~r.metered) \in BOOLEAN
      OBVIOUS
    <3> QED
      BY <1>1, <3>1, ToggleTakes
  <2> HIDE DEF s, r
  <2>3. Heeds(s, s) /\ Heeds(s, Reconnected(s))
    BY <2>2, HeedsReflexive, ReconnectedHeeds DEF Takes
  <2>4. Served(f, r)
    BY <2>1, <2>2, <2>3, BecomeServes
  <2> QED
    BY <2>4 DEF r
<1>6. CASE SetHushed(f)
  <2>1. sched' = [sched EXCEPT ![f] = [r EXCEPT !.hushed = ~r.hushed]]
    BY <1>6 DEF SetHushed, Become
  <2>2. (~r.hushed) \in BOOLEAN
    OBVIOUS
  <2> HIDE DEF r
  <2>3. Served(f, r)
    BY <1>1, <2>1, <2>2, ToggleTakes DEF Served, Takes
  <2> QED
    BY <2>3 DEF r
<1>7. CASE SetRemotePushReady(f)
  <2>1. sched' = [sched EXCEPT ![f] = [r EXCEPT !.pushReady = ~r.pushReady]]
    BY <1>7 DEF SetRemotePushReady, Become
  <2>2. (~r.pushReady) \in BOOLEAN
    OBVIOUS
  <2> HIDE DEF r
  <2>3. Served(f, r)
    BY <1>1, <2>1, <2>2, ToggleTakes DEF Served, Takes
  <2> QED
    BY <2>3 DEF r
<1>8. CASE UpdateSyncConfig(f)
  <2>1. sched' = [sched EXCEPT ![f] = [r EXCEPT !.manualOnly = ~r.manualOnly]]
    BY <1>8 DEF UpdateSyncConfig, Become
  <2>2. (~r.manualOnly) \in BOOLEAN
    OBVIOUS
  <2> HIDE DEF r
  <2>3. Served(f, r)
    BY <1>1, <2>1, <2>2, ToggleTakes DEF Served
  <2> QED
    BY <2>3 DEF r
<1> QED
  BY <1>2, <1>3, <1>4, <1>5, <1>6, <1>7, <1>8

\* t differs from s in what the guard knows.
SameWork(s, t) ==
    /\ t.phase = s.phase /\ t.running = s.running /\ t.manualOnly = s.manualOnly
    /\ t.queue = s.queue /\ t.localDirty = s.localDirty
    /\ t.remotePending = s.remotePending
    /\ t.cooldown = s.cooldown /\ t.coolCallback = s.coolCallback
    /\ t.state = "Syncing" => s.state = "Syncing"

\* An input that only concerns what the guard knows.
LEMMA GuardTakes ==
    ASSUME NEW s, NEW t \in SchedulerType, SameWork(s, t),
           PastReview \cap Inputs = {} /\ Reviewed(s) => Reviewed(t)
    PROVE  Takes(s, t)
<1>1. WorkInv(s) => WorkInv(t) /\ Leaves(s, t)
  BY DEF SameWork, WorkInv, Leaves, Deafened, Called, Pending
<1> QED
  BY <1>1 DEF SameWork, Takes, Serves, Pending

\* What submits a request, and what happens to the files.
LEMMA RequestServes ==
    ASSUME TypeOK, NEW f \in Folders,
           \/ \E t \in Requests : Request(f, t)
           \/ CredentialsRenewed(f)
           \/ \E b \in Batches : LoseBatch(f, b)
           \/ ApproveDeleteOnce(f) \/ RestoreFromServer(f) \/ SetGuardEnabled(f)
    PROVE  Served(f, sched[f])
<1> DEFINE r == sched[f]
<1>1. r \in SchedulerType
  BY DEF TypeOK
<1>2. CASE \E t \in Requests : Request(f, t)
  <2>1. Takes(r, r)
    BY <1>1, HeedsReflexive, HeedsServes DEF Takes
  <2> QED
    BY <1>1, <1>2, <2>1, SubmitServes DEF Request
<1>3. CASE CredentialsRenewed(f)
  <2> DEFINE s == [r EXCEPT !.authRequired = FALSE]
  <2>1. Takes(r, s)
    BY <1>1, ToggleTakes
  <2>2. Submit(f, s, "Manual")
    BY <1>3 DEF CredentialsRenewed
  <2> HIDE DEF s
  <2> QED
    BY <2>1, <2>2, SubmitServes DEF Takes
<1>4. CASE \E b \in Batches : LoseBatch(f, b)
  <2> PICK b \in Batches : LoseBatch(f, b)
    BY <1>4
  <2> DEFINE s == [r EXCEPT !.disk = @ \ {b}]
             u == [s EXCEPT !.foundGone = @ \cup {b}]
  <2>1. s \in SchedulerType /\ s.running = r.running
    BY <1>1 DEF SchedulerType, SchedulerRecord
  <2>2. ~r.running \/ "deleteInFlight" \in Inputs
    BY DEF LoseBatch
  <2>3. Become(f, s) \/ Become(f, u)
    BY DEF LoseBatch
  <2>4. Takes(r, s)
    <3>1. PastReview \cap Inputs = {} /\ Reviewed(r) => Reviewed(s)
      <4>1. PastReview \cap Inputs = {} => ~r.running
        BY <2>2 DEF PastReview
      <4>2. /\ s.guarded = r.guarded /\ s.baseline = r.baseline /\ s.server = r.server
            /\ s.approved = r.approved /\ s.bypass = r.bypass
        BY <1>1 DEF SchedulerType, SchedulerRecord
      <4> QED
        BY <2>1, <4>1, <4>2 DEF Reviewed
    <3>2. SameWork(r, s)
      BY <1>1 DEF SameWork, SchedulerType, SchedulerRecord
    <3> QED
      BY <2>1, <3>1, <3>2, GuardTakes
  <2>5. Takes(r, u)
    <3>1. u \in SchedulerType /\ u.running = r.running
      BY <1>1 DEF SchedulerType, SchedulerRecord
    <3>2. PastReview \cap Inputs = {} /\ Reviewed(r) => Reviewed(u)
      <4>1. PastReview \cap Inputs = {} => ~r.running
        BY <2>2 DEF PastReview
      <4>2. /\ u.guarded = r.guarded /\ u.baseline = r.baseline /\ u.server = r.server
            /\ u.approved = r.approved /\ u.bypass = r.bypass
        BY <1>1 DEF SchedulerType, SchedulerRecord
      <4> QED
        BY <3>1, <4>1, <4>2 DEF Reviewed
    <3>3. SameWork(r, u)
      BY <1>1 DEF SameWork, SchedulerType, SchedulerRecord
    <3> QED
      BY <3>1, <3>2, <3>3, GuardTakes
  <2> HIDE DEF s, u
  <2> QED
    BY <2>3, <2>4, <2>5 DEF Become, Served, Takes
<1>5. CASE ApproveDeleteOnce(f)
  <2> DEFINE s == [r EXCEPT !.alert = {}, !.bypass = TRUE, !.approved = @ \cup r.alert]
  <2>1. s \in SchedulerType
    BY <1>1 DEF SchedulerType, SchedulerRecord
  <2>2. Submit(f, s, "Manual") /\ r.alert # {}
    BY <1>5 DEF ApproveDeleteOnce
  <2>3. s.approved # {} /\ s.guarded = r.guarded
    BY <1>1, <2>2 DEF SchedulerType, SchedulerRecord
  <2>4. Reviewed(r) => Reviewed(s)
    BY <2>3 DEF Reviewed
  <2>5. Takes(r, s)
    <3>1. SameWork(r, s)
      BY <1>1 DEF SameWork, SchedulerType, SchedulerRecord
    <3> QED
      BY <2>1, <2>4, <3>1, GuardTakes
  <2> HIDE DEF s
  <2> QED
    BY <2>1, <2>2, <2>5, SubmitServes
<1>6. CASE RestoreFromServer(f)
  <2> DEFINE s == [r EXCEPT !.alert = {}, !.bypass = FALSE, !.baseline = r.disk]
  <2>1. s \in SchedulerType
    BY <1>1 DEF SchedulerType, SchedulerRecord
  <2>2. Submit(f, s, "Manual") /\ "restore" \in Inputs
    BY <1>6 DEF RestoreFromServer, Accepts
  <2>3. PastReview \cap Inputs # {}
    BY <2>2 DEF PastReview
  <2>4. Takes(r, s)
    <3>1. SameWork(r, s)
      BY <1>1 DEF SameWork, SchedulerType, SchedulerRecord
    <3> QED
      BY <2>1, <2>3, <3>1, GuardTakes
  <2> HIDE DEF s
  <2> QED
    BY <2>1, <2>2, <2>4, SubmitServes
<1>7. CASE SetGuardEnabled(f)
  <2> DEFINE g       == ~r.guarded
             s       == [r EXCEPT !.guarded = g]
             cleared == [s EXCEPT !.alert = {}, !.bypass = FALSE, !.state = "IdleNotSynced"]
  <2>1. g \in BOOLEAN
    OBVIOUS
  <2>2. (Become(f, s) \/ Submit(f, cleared, "Manual")) /\ "guard" \in Inputs
    BY <1>7 DEF SetGuardEnabled, Accepts
  <2> HIDE DEF g
  <2>3. s \in SchedulerType /\ cleared \in SchedulerType
    <3>1. s \in SchedulerType
      BY <1>1, <2>1 DEF SchedulerType, SchedulerRecord
    <3> HIDE DEF s
    <3>2. cleared \in SchedulerType
      BY <3>1 DEF SchedulerType, SchedulerRecord, AppState
    <3> QED
      BY <3>1, <3>2
  <2>4. PastReview \cap Inputs # {}
    BY <2>2 DEF PastReview
  <2>5. Takes(r, s) /\ Takes(r, cleared)
    <3>1. SameWork(r, s)
      BY <1>1 DEF SameWork, SchedulerType, SchedulerRecord
    <3> HIDE DEF s
    <3>2. SameWork(s, cleared)
      BY <2>3 DEF SameWork, SchedulerType, SchedulerRecord
    <3>3. SameWork(r, cleared)
      BY <3>1, <3>2 DEF SameWork
    <3> QED
      BY <2>3, <2>4, <3>1, <3>3, GuardTakes
  <2> HIDE DEF s, cleared
  <2>6. CASE Become(f, s)
    BY <2>5, <2>6 DEF Become, Served, Takes
  <2>7. CASE Submit(f, cleared, "Manual")
    BY <2>3, <2>5, <2>7, SubmitServes
  <2> QED
    BY <2>2, <2>6, <2>7
<1> QED
  BY <1>2, <1>3, <1>4, <1>5, <1>6, <1>7

\* Removing a folder and adding it again.
LEMMA RemovalServes ==
    ASSUME TypeOK, NEW f \in Folders, Stop(f) \/ Drop(f) \/ AddFolder(f)
    PROVE  Served(f, sched[f])
<1>1. sched[f] \in SchedulerType
  BY DEF TypeOK
<1>2. CASE Stop(f)
  <2> PICK armed, cools :
        sched' = [sched EXCEPT ![f] =
          [sched[f] EXCEPT !.phase = "stopped", !.queue = {}, !.alert = {},
                           !.localDirty = FALSE, !.remotePending = FALSE,
                           !.armed = armed, !.source = FALSE,
                           !.settling = FALSE, !.coolTimers = cools,
                           !.cooldown = FALSE, !.coolCallback = FALSE,
                           !.running = FALSE]]
    BY <1>2 DEF Stop
  <2> DEFINE u == [sched[f] EXCEPT !.phase = "stopped", !.queue = {}, !.alert = {},
                                   !.localDirty = FALSE, !.remotePending = FALSE,
                                   !.armed = armed, !.source = FALSE,
                                   !.settling = FALSE, !.coolTimers = cools,
                                   !.cooldown = FALSE, !.coolCallback = FALSE,
                                   !.running = FALSE]
  <2>1. u.phase = "stopped" /\ ~u.running /\ ~u.cooldown /\ SameFiles(sched[f], u)
    BY <1>1 DEF SameFiles, SchedulerType, SchedulerRecord
  <2>2. sched' = [sched EXCEPT ![f] = u]
    OBVIOUS
  <2> HIDE DEF u
  <2>3. WorkInv(u) /\ Leaves(sched[f], u)
    BY <2>1 DEF WorkInv, Deafened, Called, Leaves
  <2>4. Reviewed(sched[f]) => Reviewed(u)
    BY <2>1 DEF Reviewed, SameFiles
  <2> QED
    BY <2>2, <2>3, <2>4 DEF Served, Serves
<1>3. WorkInv(NewScheduler) /\ Reviewed(NewScheduler)
  BY DEF NewScheduler, WorkInv, Deafened, Called, Reviewed
<1>4. CASE Drop(f)
  <2> DEFINE u == [NewScheduler EXCEPT !.phase = "dropped"]
  <2>1. WorkInv(u) /\ Reviewed(u) /\ u.phase = "dropped"
    BY DEF NewScheduler, WorkInv, Deafened, Called, Reviewed
  <2>2. sched' = [sched EXCEPT ![f] = u]
    BY <1>4 DEF Drop
  <2> HIDE DEF u
  <2> QED
    BY <2>1, <2>2 DEF Served, Serves, Leaves
<1>5. CASE AddFolder(f)
  <2> DEFINE u == Requested(NewScheduler, "Startup")
  <2>1. Serves(NewScheduler, u)
    BY NewSchedulerType, RequestedHeeds, HeedsServes
  <2>2. sched' = [sched EXCEPT ![f] = u] /\ sched[f].phase = "dropped"
    BY <1>5 DEF AddFolder, Become
  <2> HIDE DEF u
  <2> QED
    BY <1>3, <2>1, <2>2 DEF Served, Serves, Leaves
<1> QED
  BY <1>2, <1>4, <1>5

\* The callbacks of the main loop.
LEMMA TimerServes ==
    ASSUME TypeOK, NEW f \in Folders,
           StartTimer(f) \/ DebounceReady(f) \/ CooldownTimer(f)
    PROVE  Served(f, sched[f])
<1> DEFINE r == sched[f]
<1>1. r \in SchedulerType
  BY DEF TypeOK
<1>2. CASE StartTimer(f)
  <2> DEFINE n == r.armed - 1
             s == [r EXCEPT !.armed = n]
             t == [r EXCEPT !.armed = n, !.source = FALSE]
  <2>1. Start(f, s, permit, FALSE)
    BY <1>2 DEF StartTimer
  <2>2. n \in Nat
    BY <1>1, <1>2 DEF StartTimer, SchedulerType, SchedulerRecord
  <2> HIDE DEF n
  <2>3. t \in SchedulerType
    BY <1>1, <2>2 DEF SchedulerType, SchedulerRecord
  <2>4. Heeds(r, t)
    BY <1>1, <2>3 DEF Heeds, SameFiles, Deafened, Called, Pending, SchedulerType,
                      SchedulerRecord
  <2>5. [s EXCEPT !.source = FALSE] = [t EXCEPT !.source = FALSE]
    BY <1>1 DEF SchedulerType, SchedulerRecord
  <2> HIDE DEF s, t
  <2>6. Start(f, t, permit, FALSE)
    BY <2>1, <2>5 DEF Start
  <2>7. Served(f, t)
    BY <2>3, <2>6, StartServes
  <2> QED
    BY <2>4, <2>7, HeedsThenServes DEF Served
<1>3. CASE DebounceReady(f)
  <2> DEFINE s == [r EXCEPT !.settling = FALSE]
  <2>1. Heeds(r, s)
    <3>1. s \in SchedulerType
      BY <1>1 DEF SchedulerType, SchedulerRecord
    <3> QED
      BY <1>1, <3>1 DEF Heeds, SameFiles, Deafened, Called, Pending, SchedulerType,
                        SchedulerRecord
  <2>2. sched' = [sched EXCEPT ![f] = ScheduleStart(s)]
    BY <1>3 DEF DebounceReady, Become
  <2> HIDE DEF s
  <2>3. Heeds(s, ScheduleStart(s))
    BY <2>1, ScheduleStartHeeds DEF Heeds
  <2> QED
    BY <2>1, <2>2, <2>3, HeedsTransitive, HeedsServes DEF Served
<1>4. CASE CooldownTimer(f)
  <2> DEFINE n == r.coolTimers - 1
             t == [r EXCEPT !.coolTimers = n, !.cooldown = FALSE, !.coolCallback = FALSE]
  <2>1. Become(f, CooldownFinished(t)) \/ Become(f, t)
    BY <1>4 DEF CooldownTimer
  <2>2. n \in Nat
    BY <1>1, <1>4 DEF CooldownTimer, SchedulerType, SchedulerRecord
  <2> HIDE DEF n
  <2>3. t \in SchedulerType
    BY <1>1, <2>2 DEF SchedulerType, SchedulerRecord
  <2>4. Heeds(r, t)
    BY <1>1, <2>3 DEF Heeds, SameFiles, Deafened, Called, Pending, SchedulerType,
                      SchedulerRecord
  <2> HIDE DEF t
  <2>5. Heeds(r, CooldownFinished(t))
    BY <2>3, <2>4, CooldownFinishedHeeds, HeedsTransitive
  <2> QED
    BY <2>1, <2>4, <2>5, HeedsServes DEF Served, Become
<1> QED
  BY <1>2, <1>3, <1>4

\* What finished says of the run, whatever the outcome.
LEMMA JudgedWork ==
    ASSUME NEW s \in SchedulerType, NEW o \in SyncOutcome
    PROVE  LET t == Judged(s, o) IN
           /\ t.state # "Syncing"
           /\ t.running = s.running /\ t.phase = s.phase /\ t.manualOnly = s.manualOnly
           /\ t.queue = s.queue /\ t.localDirty = s.localDirty
           /\ t.remotePending = s.remotePending
           /\ t.cooldown = s.cooldown /\ t.coolCallback = s.coolCallback
           /\ t.alert = s.alert /\ SameFiles(s, t) /\ t.bypass = s.bypass
           /\ o \in {"AuthFailed", "NoCredentials"} => t.authRequired
           /\ o = "NetworkError" => t.unreachable
<1> DEFINE reset  == [s EXCEPT !.keyringLocked = FALSE, !.keyringTries = 0,
                               !.authRequired = FALSE, !.unreachable = FALSE,
                               !.failures = 0, !.everSynced = TRUE]
           failed == [s EXCEPT !.keyringLocked = o = "KeyringLocked",
                               !.failures = IF s.failures < BackoffAfter THEN s.failures + 1
                                            ELSE s.failures]
           Alike(t) ==
             /\ t.running = s.running /\ t.phase = s.phase /\ t.manualOnly = s.manualOnly
             /\ t.queue = s.queue /\ t.localDirty = s.localDirty
             /\ t.remotePending = s.remotePending
             /\ t.cooldown = s.cooldown /\ t.coolCallback = s.coolCallback
             /\ t.alert = s.alert /\ SameFiles(s, t) /\ t.bypass = s.bypass
<1>1. IdleState(reset) # "Syncing"
  BY DEF IdleState
<1>2. ASSUME NEW l
      PROVE  /\ Alike([reset EXCEPT !.state = l]) /\ [reset EXCEPT !.state = l].state = l
             /\ Alike([failed EXCEPT !.state = l]) /\ [failed EXCEPT !.state = l].state = l
             /\ LET t == [failed EXCEPT !.authRequired = TRUE, !.state = l]
                IN  Alike(t) /\ t.state = l /\ t.authRequired
             /\ LET t == [failed EXCEPT !.unreachable = TRUE, !.state = l]
                IN  Alike(t) /\ t.state = l /\ t.unreachable
  BY DEF SameFiles, SchedulerType, SchedulerRecord
<1>3. Judged(s, o) =
        CASE o = "Success"  -> [reset EXCEPT !.state = IdleState(reset)]
          [] o = "Conflict" -> [reset EXCEPT !.state = "IdleOk"]
          [] o \in {"AuthFailed", "NoCredentials"} ->
                 [failed EXCEPT !.authRequired = TRUE, !.state = "AuthRequired"]
          [] o = "KeyringLocked" -> [failed EXCEPT !.state = "KeyringLocked"]
          [] o = "Failed"        -> [failed EXCEPT !.state = "Error"]
          [] o = "NetworkError"  ->
                 [failed EXCEPT !.unreachable = TRUE, !.state = "Offline"]
  BY DEF Judged, Idle
<1> DEFINE j == Judged(s, o)
<1>4. Alike(j) /\ j.state # "Syncing"
      /\ (o \in {"AuthFailed", "NoCredentials"} => j.authRequired)
      /\ (o = "NetworkError" => j.unreachable)
  <2> HIDE DEF reset, failed, Alike
  <2>1. CASE o = "Success"
    <3>1. j = [reset EXCEPT !.state = IdleState(reset)]
      BY <1>3, <2>1
    <3> QED
      BY <1>1, <1>2, <2>1, <3>1
  <2>2. CASE o = "Conflict"
    BY <1>2, <1>3, <2>2
  <2>3. CASE o \in {"AuthFailed", "NoCredentials"}
    <3>1. j = [failed EXCEPT !.authRequired = TRUE, !.state = "AuthRequired"]
      BY <1>3, <2>3
    <3> HIDE DEF j
    <3> QED
      BY <1>2, <2>3, <3>1
  <2>4. CASE o = "KeyringLocked"
    BY <1>2, <1>3, <2>4
  <2>5. CASE o = "Failed"
    BY <1>2, <1>3, <2>5
  <2>6. CASE o = "NetworkError"
    BY <1>2, <1>3, <2>6
  <2> QED
    BY <2>1, <2>2, <2>3, <2>4, <2>5, <2>6 DEF SyncOutcome
<1> HIDE DEF j
<1> QED
  BY <1>4 DEF j

\* The baseline moves to what is on disk, or stays.
LEMMA RebaselinedWork ==
    ASSUME NEW s \in SchedulerType, NEW o, NEW d
    PROVE  LET t == Rebaselined(s, o, d) IN
           /\ t.baseline \in {s.baseline, s.disk}
           /\ t.state = s.state
           /\ t.running = s.running /\ t.phase = s.phase /\ t.manualOnly = s.manualOnly
           /\ t.queue = s.queue /\ t.localDirty = s.localDirty
           /\ t.remotePending = s.remotePending
           /\ t.cooldown = s.cooldown /\ t.coolCallback = s.coolCallback
           /\ t.guarded = s.guarded /\ t.disk = s.disk /\ t.server = s.server
           /\ t.foundGone = s.foundGone /\ t.approved = s.approved /\ t.bypass = s.bypass
           /\ t.authRequired = s.authRequired /\ t.unreachable = s.unreachable
  BY DEF Rebaselined, SchedulerType, SchedulerRecord

\* What finished arms: a cooldown that will call, or a retry; what was queued
\* meanwhile stays queued.
LEMMA FollowedWork ==
    ASSUME NEW s \in SchedulerType, NEW o
    PROVE  LET t == Followed(s, o) IN
           /\ ~t.running /\ t.phase = s.phase /\ t.manualOnly = s.manualOnly
           /\ t.state = "Syncing" => s.state = "Syncing"
           /\ Called(s) => Called(t)
           /\ s.phase = "live" /\ ~s.manualOnly /\ "LocalInotify" \notin s.queue /\ Pending(s)
                => Pending(t)
           /\ SameFiles(s, t)
<1> DEFINE done   == [s EXCEPT !.running = FALSE]
           cooled == [done EXCEPT !.queue = @ \ {"LocalInotify"}, !.cooldown = TRUE,
                                  !.coolTimers = @ + 1, !.coolCallback = TRUE]
           Fine(t) ==
             /\ ~t.running /\ t.phase = s.phase /\ t.manualOnly = s.manualOnly
             /\ t.state = "Syncing" => s.state = "Syncing"
             /\ Called(s) => Called(t)
             /\ s.phase = "live" /\ ~s.manualOnly /\ "LocalInotify" \notin s.queue
                /\ Pending(s) => Pending(t)
             /\ SameFiles(s, t)
<1>1. done \in SchedulerType
  BY DEF SchedulerType, SchedulerRecord
<1>2. /\ ~done.running /\ done.phase = s.phase /\ done.manualOnly = s.manualOnly
      /\ done.state = s.state /\ (Called(s) => Called(done)) /\ (Pending(s) <=> Pending(done))
      /\ SameFiles(s, done)
  BY DEF SameFiles, Called, Pending, SchedulerType, SchedulerRecord
<1>3. Fine(cooled)
  BY DEF SameFiles, Called, Pending, SchedulerType, SchedulerRecord
<1> HIDE DEF done
<1>4. \A t : Heeds(done, t) => Fine(t)
  BY <1>2 DEF Heeds, SameFiles
<1>5. Heeds(done, Queued(done, "Retry")) /\ Queued(done, "Retry") \in SchedulerType
  BY <1>1, QueuedHeeds, QueuedKeeps DEF Keeps
<1>6. /\ Heeds(done, ScheduleKeyringRetry(Queued(done, "Retry")))
      /\ Heeds(done, ScheduleServerProbe(Queued(done, "Retry")))
  BY <1>5, ScheduleKeyringRetryHeeds, ScheduleServerProbeHeeds, HeedsTransitive
<1>7. Heeds(done, done)
  BY <1>1, HeedsReflexive
<1>8. Followed(s, o) \in {cooled, ScheduleKeyringRetry(Queued(done, "Retry")),
                          ScheduleServerProbe(Queued(done, "Retry")), done}
  BY DEF Followed, done
<1> HIDE DEF cooled, Fine
<1>9. Fine(Followed(s, o))
  BY <1>3, <1>4, <1>6, <1>7, <1>8
<1> DEFINE t == Followed(s, o)
<1> HIDE DEF t
<1>10. Fine(t)
  BY <1>9 DEF t
<1> QED
  BY <1>10 DEF Fine, t

\* finished
LEMMA RunEndsServes ==
    ASSUME TypeOK, NEW f \in Folders, RunEnds(f)
    PROVE  Served(f, sched[f])
<1> DEFINE r == sched[f]
<1>1. r \in SchedulerType
  BY DEF TypeOK
<1>2. PICK o \in Outcomes, gone \in SUBSET Batches, deleted \in BOOLEAN :
        Finished(f, o, gone, deleted)
  BY DEF RunEnds
<1> DEFINE left   == [r EXCEPT !.server = @ \ gone, !.foundGone = {}]
           judged == Judged(left, o)
           based  == Rebaselined(judged, o, deleted)
           next   == Followed(based, o)
<1>3. /\ r.running /\ gone \subseteq r.foundGone
      /\ sched' = [sched EXCEPT ![f] = next]
  BY <1>2 DEF Finished
<1>4. left \in SchedulerType
  <2>1. r.server \ gone \in SUBSET Batches
    BY <1>1 DEF SchedulerType, SchedulerRecord
  <2> QED
    BY <1>1, <2>1 DEF SchedulerType, SchedulerRecord
<1>5. /\ SameWork(r, left) /\ left.state = r.state
      /\ left.guarded = r.guarded /\ left.disk = r.disk /\ left.baseline = r.baseline
      /\ left.server = r.server \ gone /\ left.approved = r.approved
      /\ left.bypass = r.bypass
  BY <1>1 DEF SameWork, SchedulerType, SchedulerRecord
<1> HIDE DEF left
<1>6. o \in SyncOutcome
  BY OutcomesAssumption
<1>7. judged \in SchedulerType /\ SameWork(left, judged) /\ judged.state # "Syncing"
      /\ SameFiles(left, judged)
  BY <1>4, <1>6, JudgedType, JudgedWork DEF SameWork
<1> HIDE DEF judged
<1>8. /\ based \in SchedulerType /\ SameWork(judged, based)
      /\ based.baseline \in {judged.baseline, judged.disk} /\ based.disk = judged.disk
      /\ based.guarded = judged.guarded /\ based.server = judged.server
      /\ based.approved = judged.approved /\ based.bypass = judged.bypass
  BY <1>7, RebaselinedType, RebaselinedWork DEF SameWork
<1> HIDE DEF based
<1>9. /\ ~next.running /\ next.phase = based.phase
      /\ next.state = "Syncing" => based.state = "Syncing"
      /\ Called(based) => Called(next)
      /\ based.phase = "live" /\ ~based.manualOnly /\ "LocalInotify" \notin based.queue
         /\ Pending(based) => Pending(next)
      /\ SameFiles(based, next)
  BY <1>8, FollowedWork
<1> HIDE DEF next, r
<1>10. WorkInv(r) => WorkInv(next) /\ Leaves(r, next)
  BY <1>3, <1>5, <1>7, <1>8, <1>9 DEF SameWork, WorkInv, Leaves, Deafened, Called, Pending
<1>11. Reviewed(r) => Reviewed(next)
  <2>1. CASE r.approved # {}
    BY <1>5, <1>7, <1>8, <1>9, <2>1 DEF SameFiles, Reviewed
  <2>2. CASE r.approved = {}
    <3> SUFFICES ASSUME Reviewed(r) PROVE Reviewed(next)
      OBVIOUS
    <3>1. r.server = Batches /\ r.baseline = Batches /\ ~r.bypass /\ r.disk = Batches
          /\ gone = {} /\ r.guarded
      BY <1>3, <2>2 DEF Reviewed
    <3>2. left.server = Batches /\ left.baseline = Batches /\ left.disk = Batches
          /\ ~left.bypass /\ left.guarded
      BY <1>5, <3>1
    <3>3. judged.server = Batches /\ judged.baseline = Batches /\ judged.disk = Batches
          /\ ~judged.bypass /\ judged.guarded
      BY <1>7, <3>2 DEF SameFiles
    <3>4. based.server = Batches /\ based.baseline = Batches
          /\ ~based.bypass /\ based.guarded
      BY <1>8, <3>3
    <3> QED
      BY <1>9, <3>4 DEF SameFiles, Reviewed
  <2> QED
    BY <2>1, <2>2
<1> QED
  BY <1>3, <1>10, <1>11 DEF Served, Serves, r

\* The idle source that a release queued.
LEMMA WokenServes ==
    ASSUME TypeOK, WokenWaiter
    PROVE  UNCHANGED sched \/ \E f \in Folders : Served(f, sched[f])
<1> DEFINE f == Head(permit.idles)
<1>1. permit.idles # <<>> /\ f \in Waiters
  BY DEF WokenWaiter, TypeOK, PermitType
<1>2. CASE f = Dropped
  BY <1>2 DEF WokenWaiter
<1>3. CASE f # Dropped
  <2>1. f \in Folders
    BY <1>1, <1>3 DEF Waiters
  <2>2. PICK p : Start(f, sched[f], p, TRUE)
    BY <1>3 DEF WokenWaiter
  <2>3. Served(f, sched[f])
    BY <2>1, <2>2, StartServes DEF TypeOK
  <2> QED
    BY <2>1, <2>3
<1> QED
  BY <1>2, <1>3

\* Every step of the specification serves every scheduler.
LEMMA StepServes ==
    ASSUME TypeOK, [Next]_vars
    PROVE  \A g \in Folders : Serves(sched[g], sched'[g])
<1>1. \A g \in Folders : Serves(sched[g], sched[g])
  BY HeedsReflexive, HeedsServes DEF TypeOK
<1>2. UNCHANGED sched \/ \E f \in Folders : Served(f, sched[f])
  <2>1. CASE UNCHANGED vars
    BY <2>1 DEF vars
  <2>2. CASE \E f \in Folders : UserStep(f)
    BY <2>2, InputServes, RequestServes, RemovalServes DEF UserStep
  <2>3. CASE \E f \in Folders : SystemStep(f)
    BY <2>3, InputServes DEF SystemStep
  <2>4. CASE \E f \in Folders : LoopStep(f)
    BY <2>4, TimerServes, RunEndsServes DEF LoopStep, OrphanEnds
  <2>5. CASE WokenWaiter
    BY <2>5, WokenServes
  <2> QED
    BY <2>1, <2>2, <2>3, <2>4, <2>5 DEF Next
<1>3. CASE UNCHANGED sched
  BY <1>1, <1>3
<1>4. CASE \E f \in Folders : Served(f, sched[f])
  <2> PICK f \in Folders : Served(f, sched[f])
    BY <1>4
  <2> PICK u : sched' = [sched EXCEPT ![f] = u] /\ Serves(sched[f], u)
    BY DEF Served
  <2>1. sched'[f] = u /\ \A g \in Folders \ {f} : sched'[g] = sched[g]
    BY DEF TypeOK
  <2> QED
    BY <1>1, <2>1
<1> QED
  BY <1>2, <1>3, <1>4

-----------------------------------------------------------------------------
(* What holds of every scheduler.                                          *)

\* At the start nothing is queued and nothing is missing.
LEMMA InitWork == Init => \A g \in Folders : WorkInv(sched[g]) /\ Reviewed(sched[g])
  BY DEF Init, NewScheduler, WorkInv, Deafened, Called, Reviewed

\* The label, the queue of a running scheduler and the calls of its cooldowns.
AllWork == TypeOK /\ \A g \in Folders : WorkInv(sched[g])

\* What the review has seen of every folder.
AllReviewed == TypeOK /\ \A g \in Folders : Reviewed(sched[g])

LEMMA WorkStep == AllWork /\ [Next]_vars => AllWork'
<1> SUFFICES ASSUME AllWork, [Next]_vars PROVE AllWork'
  OBVIOUS
<1>1. TypeOK'
  BY StepEffect DEF AllWork
<1>2. \A g \in Folders : Serves(sched[g], sched'[g])
  BY StepServes DEF AllWork
<1>3. \A g \in Folders : WorkInv(sched'[g])
  BY <1>2 DEF Serves, AllWork
<1> QED
  BY <1>1, <1>3 DEF AllWork

LEMMA ReviewStep ==
    PastReview \cap Inputs = {} /\ AllReviewed /\ [Next]_vars => AllReviewed'
<1> SUFFICES ASSUME PastReview \cap Inputs = {}, AllReviewed, [Next]_vars PROVE AllReviewed'
  OBVIOUS
<1>1. TypeOK'
  BY StepEffect DEF AllReviewed
<1>2. \A g \in Folders : Serves(sched[g], sched'[g])
  BY StepServes DEF AllReviewed
<1>3. \A g \in Folders : Reviewed(sched'[g])
  BY <1>2 DEF Serves, AllReviewed
<1> QED
  BY <1>1, <1>3 DEF AllReviewed

\* One batch is missing from the server only if it was approved.
LEMMA OneBatchNeedsApproval ==
    AllReviewed /\ (\A a, b \in Batches : a = b) => MassDeletionReviewed
<1> SUFFICES ASSUME AllReviewed, \A a, b \in Batches : a = b, NEW f \in Folders
             PROVE  Batches \ sched[f].server \subseteq sched[f].approved
  BY DEF MassDeletionReviewed
<1>1. sched[f].approved \in SUBSET Batches
  BY DEF AllReviewed, TypeOK, SchedulerType, SchedulerRecord
<1>2. sched[f].approved = {} => sched[f].server = Batches
  BY DEF AllReviewed, Reviewed
<1> QED
  BY <1>1, <1>2

LEMMA WorkInvariant == Spec => []AllWork
<1>1. Init => AllWork
  BY InitType, InitWork DEF AllWork
<1> QED
  BY <1>1, WorkStep, PTL DEF Spec

\* "Synchronizing" is on show only while the folder synchronizes: whatever ends,
\* refuses or delays a run replaces the label, for any folders and inputs.
THEOREM LabelTellsTruth == Spec => []SyncingIsTrue
<1>1. AllWork => SyncingIsTrue
  BY DEF AllWork, SyncingIsTrue, WorkInv, Live
<1> QED
  BY <1>1, WorkInvariant, PTL

\* No pause, gate, abort, cooldown or end of a run forgets what a folder was asked
\* to do, unless the folder goes or the user switched to manual runs.
THEOREM WorkIsKept == Spec => WorkLeavesInRuns
<1> DEFINE Kept ==
      \A f \in Folders :
          Live(f) /\ ~sched[f].manualOnly /\ Pending(sched[f]) =>
              \/ Pending(sched'[f])
              \/ sched'[f].running
              \/ sched'[f].phase # "live"
<1>1. AllWork /\ [Next]_vars => [Kept]_vars
  <2> SUFFICES ASSUME AllWork, [Next]_vars PROVE Kept
    OBVIOUS
  <2>1. \A g \in Folders : Serves(sched[g], sched'[g])
    BY StepServes DEF AllWork
  <2> QED
    BY <2>1 DEF AllWork, Serves, Leaves, Live
<1>2. Spec => [][Kept]_vars
  BY <1>1, WorkInvariant, PTL DEF Spec
<1> QED
  BY <1>2 DEF WorkLeavesInRuns

\* Until the user approves a review for the first time, no mass deletion reaches the
\* server, however many batches there are: unless a restore, a deletion during a run
\* or the switch of the guard in the settings goes past the review.
THEOREM NothingUnreviewed ==
    PastReview \cap Inputs = {} =>
        (Spec => [](\A f \in Folders : sched[f].approved = {} => sched[f].server = Batches))
<1> SUFFICES ASSUME PastReview \cap Inputs = {}
             PROVE  Spec => [](\A f \in Folders :
                                  sched[f].approved = {} => sched[f].server = Batches)
  OBVIOUS
<1>1. Init => AllReviewed
  BY InitType, InitWork DEF AllReviewed
<1>2. AllReviewed => \A f \in Folders : sched[f].approved = {} => sched[f].server = Batches
  BY DEF AllReviewed, Reviewed
<1> QED
  BY <1>1, <1>2, ReviewStep, PTL DEF Spec

\* A batch at a time, that is all there is to the review: no mass deletion reaches
\* the server before the user approved it.
THEOREM OneBatchReviewed ==
    PastReview \cap Inputs = {} /\ (\A a, b \in Batches : a = b) =>
        (Spec => []MassDeletionReviewed)
<1> SUFFICES ASSUME PastReview \cap Inputs = {}, \A a, b \in Batches : a = b
             PROVE  Spec => []MassDeletionReviewed
  OBVIOUS
<1>1. Init => AllReviewed
  BY InitType, InitWork DEF AllReviewed
<1> QED
  BY <1>1, ReviewStep, OneBatchNeedsApproval, PTL DEF Spec

-----------------------------------------------------------------------------
(* Nothing is stranded.                                                    *)

Awake(s) == s.running \/ s.armed > 0 \/ s.settling \/ s.coolCallback

\* What is queued will be looked at, or the user is shown why not.
Attended(s) == s.phase = "live" /\ s.queue # {} => Awake(s) \/ Blocked(s)

\* Arming attends, unless a run goes on anyway.
LEMMA ArmedAttends ==
    ASSUME NEW s \in SchedulerType
    PROVE  Attended(Armed(s)) /\ Attended([Armed(s) EXCEPT !.state = "SyncQueued"])
<1>1. CASE s.phase # "live" \/ s.source \/ s.running
  BY <1>1 DEF Armed, Attended, Awake, SchedulerType, SchedulerRecord
<1>2. CASE ~(s.phase # "live" \/ s.source \/ s.running)
  <2>1. s.armed + 1 > 0
    BY DEF SchedulerType, SchedulerRecord
  <2>2. Armed(s).armed = s.armed + 1
        /\ [Armed(s) EXCEPT !.state = "SyncQueued"].armed = s.armed + 1
    BY <1>2 DEF Armed, SchedulerType, SchedulerRecord
  <2> QED
    BY <2>1, <2>2 DEF Attended, Awake
<1> QED
  BY <1>1, <1>2

\* schedule_start does nothing only when the end of a cooldown will.
LEMMA ScheduleStartAttends ==
    ASSUME NEW s \in SchedulerType, Called(s)
    PROVE  Attended(ScheduleStart(s))
<1>1. CASE s.cooldown
  BY <1>1 DEF Called, ScheduleStart, Attended, Awake
<1>2. CASE ~s.cooldown /\ Armed(s) = s
  BY <1>2, ArmedAttends DEF ScheduleStart
<1>3. CASE ~s.cooldown /\ Armed(s) # s
  BY <1>3, ArmedAttends DEF ScheduleStart
<1> QED
  BY <1>1, <1>2, <1>3

\* A request that is not dropped is attended to.
LEMMA RequestedAttends ==
    ASSUME NEW s \in SchedulerType, NEW t, ~Ignores(s, t), Called(s)
    PROVE  Attended(Requested(s, t))
<1> DEFINE q == Queued(s, t)
           r == Requested(s, t)
           manual == t = "Manual"
<1>1. q \in SchedulerType
  BY QueuedKeeps DEF Keeps
<1>2. /\ q.running = s.running /\ q.online = s.online /\ q.alert = s.alert
      /\ q.userPaused = s.userPaused /\ q.batteryPaused = s.batteryPaused
      /\ q.metered = s.metered /\ q.hushed = s.hushed
      /\ q.authRequired = s.authRequired /\ q.unreachable = s.unreachable
      /\ Called(q)
  BY DEF Queued, Called, SchedulerType, SchedulerRecord
<1>3. r = IF s.alert # {} /\ ~s.bypass THEN [q EXCEPT !.state = "DeleteReview"]
          ELSE IF s.running THEN q
          ELSE IF Paused(s) /\ ~manual
               THEN IF t \in LocalTriggers
                    THEN [s EXCEPT !.localDirty = TRUE]
                    ELSE [s EXCEPT !.remotePending = TRUE]
          ELSE IF s.authRequired /\ ~manual THEN [q EXCEPT !.state = "AuthRequired"]
          ELSE IF s.unreachable /\ ~manual THEN [q EXCEPT !.state = "Offline"]
          ELSE IF ~s.online THEN [q EXCEPT !.state = "Offline"]
          ELSE IF s.keyringLocked /\ ~manual THEN ScheduleStart(q)
          ELSE IF Gated(s, manual) THEN [q EXCEPT !.state = "Offline"]
          ELSE IF t = "LocalInotify" THEN ScheduleDebounce(q)
          ELSE ScheduleStart(q)
  BY DEF Requested
<1>4. \A l : Blocked(q) => Attended([q EXCEPT !.state = l])
  BY <1>1 DEF Blocked, Paused, Gated, Attended, SchedulerType, SchedulerRecord
<1>5. q.running => Attended(q)
  BY DEF Attended, Awake
<1>6. Paused(s) => Attended([s EXCEPT !.localDirty = TRUE])
                   /\ Attended([s EXCEPT !.remotePending = TRUE])
  BY DEF Blocked, Paused, Attended, SchedulerType, SchedulerRecord
<1>7. Attended(ScheduleStart(q))
  BY <1>1, <1>2, ScheduleStartAttends
<1>8. Attended(ScheduleDebounce(q))
  BY <1>1 DEF ScheduleDebounce, Attended, Awake, SchedulerType, SchedulerRecord
<1>9. s.alert # {} \/ s.authRequired \/ s.unreachable \/ ~s.online \/ Gated(s, manual)
        => Blocked(q)
  BY <1>2 DEF Blocked, Gated
<1> HIDE DEF q, r, manual
<1>10. Attended(r)
  BY <1>2, <1>3, <1>4, <1>5, <1>6, <1>7, <1>8, <1>9
<1> QED
  BY <1>10 DEF r

\* The end of a pause, unless runs are manual.
LEMMA ResumedAttends ==
    ASSUME NEW s \in SchedulerType, ~s.manualOnly, Called(s)
    PROVE  Attended(Resumed(s))
<1> DEFINE clean == [s EXCEPT !.localDirty = FALSE, !.remotePending = FALSE]
<1>1. /\ clean \in SchedulerType /\ clean.queue = s.queue /\ clean.phase = s.phase
      /\ Called(clean)
  BY DEF Called, SchedulerType, SchedulerRecord
<1>2. Resumed(s) = IF s.localDirty \/ s.remotePending \/ s.queue # {}
                   THEN Requested(clean, "Resume") ELSE Idle(clean)
  BY DEF Resumed
<1> HIDE DEF clean
<1>3. CASE clean.phase = "live"
  <2>1. ~Ignores(clean, "Resume")
    BY <1>3 DEF Ignores
  <2>2. Attended(Requested(clean, "Resume"))
    BY <1>1, <2>1, RequestedAttends
  <2>3. Idle(clean).queue = clean.queue
    BY <1>1 DEF Idle, SchedulerType, SchedulerRecord
  <2> QED
    BY <1>1, <1>2, <2>2, <2>3 DEF Attended
<1>4. CASE clean.phase # "live"
  <2>1. Heeds(clean, Requested(clean, "Resume")) /\ Heeds(clean, Idle(clean))
    BY <1>1, RequestedHeeds, IdleHeeds
  <2> QED
    BY <1>2, <1>4, <2>1 DEF Heeds, Attended
<1> QED
  BY <1>3, <1>4

\* The return of the network, or of a free one, unless runs are manual.
LEMMA ReconnectedAttends ==
    ASSUME NEW s \in SchedulerType, s.phase = "live", ~s.manualOnly, Called(s)
    PROVE  Attended(Reconnected(s))
<1>1. ~Ignores(s, "NetworkRestored")
  BY DEF Ignores
<1> QED
  BY <1>1, RequestedAttends DEF Reconnected

\* An attempt gives up only for a reason that is on show, or for want of work.
LEMMA AbortedAttends ==
    ASSUME NEW s \in SchedulerType, StartVerdict(s) # "go"
    PROVE  Attended(Aborted(s, StartVerdict(s)))
<1> DEFINE v == StartVerdict(s)
           a == Aborted(s, v)
<1>1. CASE v = "nothing"
  <2>1. a = s
    BY <1>1 DEF Aborted
  <2>2. s.phase # "live" \/ s.running \/ s.queue = {} \/ ~s.online
    BY <1>1 DEF StartVerdict
  <2> QED
    BY <2>1, <2>2 DEF Attended, Awake, Blocked
<1>2. CASE v = "gated"
  <2>1. a = [s EXCEPT !.state = "Offline"] /\ (s.metered \/ s.hushed)
    BY <1>2 DEF Aborted, StartVerdict, Gated
  <2> QED
    BY <2>1 DEF Attended, Blocked, Gated, SchedulerType, SchedulerRecord
<1>3. CASE v = "paused"
  BY <1>3 DEF Aborted, Attended, SchedulerType, SchedulerRecord
<1>4. CASE v = "unauthorized"
  <2>1. a = [s EXCEPT !.state = "AuthRequired"] /\ s.authRequired
    BY <1>4 DEF Aborted, StartVerdict
  <2> QED
    BY <2>1 DEF Attended, Blocked, SchedulerType, SchedulerRecord
<1>5. CASE v = "underReview"
  <2>1. a = [s EXCEPT !.state = "DeleteReview"] /\ s.alert # {}
    BY <1>5 DEF Aborted, StartVerdict
  <2> QED
    BY <2>1 DEF Attended, Blocked, SchedulerType, SchedulerRecord
<1>6. CASE v = "massDeletion"
  <2>1. a = [s EXCEPT !.state = "DeleteReview", !.alert = Missing(s)] /\ Missing(s) # {}
    BY <1>6 DEF Aborted, StartVerdict
  <2> QED
    BY <2>1 DEF Attended, Blocked, SchedulerType, SchedulerRecord
<1>7. v \in {"nothing", "gated", "paused", "unauthorized", "underReview", "massDeletion"}
  BY DEF StartVerdict
<1> QED
  BY <1>1, <1>2, <1>3, <1>4, <1>5, <1>6, <1>7

\* The end of a cooldown.
LEMMA CooldownFinishedAttends ==
    ASSUME NEW s \in SchedulerType, Called(s)
    PROVE  Attended(CooldownFinished(s))
<1>1. s.phase # "live" \/ Paused(s) => Attended(s)
  BY DEF Attended, Blocked
<1>2. s.queue = {} \/ ~s.online => Attended(Idle(s))
  BY DEF Idle, Attended, Blocked, SchedulerType, SchedulerRecord
<1>3. Attended(ScheduleStart(s)) /\ Attended(Armed(s))
  BY ScheduleStartAttends, ArmedAttends
<1> QED
  BY <1>1, <1>2, <1>3 DEF CooldownFinished

\* What finished arms attends to what is queued, unless the outcome blocks.
LEMMA FollowedAttends ==
    ASSUME NEW s \in SchedulerType, NEW o \in SyncOutcome,
           o \in {"AuthFailed", "NoCredentials"} => s.authRequired,
           o = "NetworkError" => s.unreachable
    PROVE  Attended(Followed(s, o))
<1> DEFINE done   == [s EXCEPT !.running = FALSE]
           cooled == [done EXCEPT !.queue = @ \ {"LocalInotify"}, !.cooldown = TRUE,
                                  !.coolTimers = @ + 1, !.coolCallback = TRUE]
           q      == Queued(done, "Retry")
<1>1. done \in SchedulerType /\ done.authRequired = s.authRequired
      /\ done.unreachable = s.unreachable
  BY DEF SchedulerType, SchedulerRecord
<1>2. Attended(cooled)
  BY DEF Attended, Awake, SchedulerType, SchedulerRecord
<1> HIDE DEF done
<1>3. q \in SchedulerType /\ q.unreachable = s.unreachable
  BY <1>1, QueuedKeeps DEF Keeps, Queued, SchedulerType, SchedulerRecord
<1> HIDE DEF q
<1>4. Attended(ScheduleKeyringRetry(q))
  <2> DEFINE a == Armed(q)
             n == a.keyringTries + 1
  <2>1. a \in SchedulerType /\ Attended(a)
    BY <1>3, ArmedKeeps, ArmedAttends DEF Keeps
  <2>2. ScheduleKeyringRetry(q) \in {a, [a EXCEPT !.keyringTries = n]}
    BY DEF ScheduleKeyringRetry
  <2> HIDE DEF a, n
  <2>3. Attended([a EXCEPT !.keyringTries = n])
    BY <2>1 DEF Attended, Awake, Blocked, Paused, Gated, SchedulerType, SchedulerRecord
  <2> QED
    BY <2>1, <2>2, <2>3
<1>5. o = "NetworkError" => Attended(ScheduleServerProbe(q))
  BY <1>3, ArmedAttends DEF ScheduleServerProbe
<1>6. o \in {"AuthFailed", "NoCredentials"} => Attended(done)
  BY <1>1 DEF Attended, Blocked
<1>7. Followed(s, o) = IF o \in Cooled THEN cooled
                       ELSE IF o = "KeyringLocked" THEN ScheduleKeyringRetry(q)
                       ELSE IF o = "NetworkError" THEN ScheduleServerProbe(q)
                       ELSE done
  BY DEF Followed, done, q
<1> HIDE DEF cooled
<1> QED
  BY <1>2, <1>4, <1>5, <1>6, <1>7 DEF SyncOutcome, Cooled, Completed

\* t looks at its queue as soon as s did.
Rests(s, t) ==
    /\ t.phase = s.phase /\ t.queue = s.queue
    /\ Awake(s) => Awake(t)
    /\ Blocked(s) => Blocked(t)

\* A step on which the scheduler itself sees to its work.
Tends(s, t) ==
    ~s.manualOnly /\ Called(s) => ~t.manualOnly /\ (Attended(t) \/ Rests(s, t))

\* The inputs by which work is held back, or let go again, in silence: the quiet
\* hours and the allowed networks, and the switch to manual runs.
Silent == {"hush", "settings"}

\* The inputs that toggle what a scheduler was told, silent ones aside.
LEMMA InputTends ==
    ASSUME TypeOK, Silent \cap Inputs = {}, NEW f \in Folders,
           \/ SetUserPaused(f) \/ SetBatteryPaused(f)
           \/ SetOnline(f) \/ SetMetered(f) \/ SetHushed(f)
           \/ SetRemotePushReady(f) \/ UpdateSyncConfig(f)
    PROVE  \E u : Become(f, u) /\ Tends(sched[f], u)
<1> DEFINE r == sched[f]
<1>1. r \in SchedulerType
  BY DEF TypeOK
<1>2. CASE SetUserPaused(f)
  <2> DEFINE s == [r EXCEPT !.userPaused = ~r.userPaused]
  <2>1. Become(f, IF s.userPaused THEN [s EXCEPT !.state = "PausedUser"] ELSE Resumed(s))
    BY <1>2 DEF SetUserPaused
  <2>2. s \in SchedulerType /\ s.manualOnly = r.manualOnly /\ (Called(r) => Called(s))
    <3>1. s \in SchedulerType
      BY <1>1, ToggleKeeps DEF Keeps
    <3>2. /\ s.manualOnly = r.manualOnly /\ s.phase = r.phase
          /\ s.cooldown = r.cooldown /\ s.coolCallback = r.coolCallback
      BY <1>1 DEF SchedulerType, SchedulerRecord
    <3> QED
      BY <3>1, <3>2 DEF Called
  <2> HIDE DEF s, r
  <2>3. s.userPaused => Tends(r, [s EXCEPT !.state = "PausedUser"])
    BY <2>2 DEF Tends, Attended, Blocked, Paused, SchedulerType, SchedulerRecord
  <2>4. Tends(r, Resumed(s))
    BY <2>2, ResumedAttends, ResumedHeeds DEF Tends, Heeds
  <2>5. \E u : Become(f, u) /\ Tends(r, u)
    BY <2>1, <2>3, <2>4
  <2> QED
    BY <2>5 DEF r
<1>3. CASE SetBatteryPaused(f)
  <2> DEFINE s == [r EXCEPT !.batteryPaused = ~r.batteryPaused]
  <2>1. Become(f, IF s.batteryPaused THEN [s EXCEPT !.state = "PausedBattery"]
                  ELSE IF s.userPaused THEN s ELSE Resumed(s))
    BY <1>3 DEF SetBatteryPaused
  <2>2. s \in SchedulerType /\ s.manualOnly = r.manualOnly /\ (Called(r) => Called(s))
    <3>1. s \in SchedulerType
      BY <1>1, ToggleKeeps DEF Keeps
    <3>2. /\ s.manualOnly = r.manualOnly /\ s.phase = r.phase
          /\ s.cooldown = r.cooldown /\ s.coolCallback = r.coolCallback
      BY <1>1 DEF SchedulerType, SchedulerRecord
    <3> QED
      BY <3>1, <3>2 DEF Called
  <2> HIDE DEF s, r
  <2>3. s.batteryPaused => Tends(r, [s EXCEPT !.state = "PausedBattery"])
    BY <2>2 DEF Tends, Attended, Blocked, Paused, SchedulerType, SchedulerRecord
  <2>4. s.userPaused => Tends(r, s)
    BY <2>2 DEF Tends, Attended, Blocked, Paused
  <2>5. Tends(r, Resumed(s))
    BY <2>2, ResumedAttends, ResumedHeeds DEF Tends, Heeds
  <2>6. \E u : Become(f, u) /\ Tends(r, u)
    BY <2>1, <2>3, <2>4, <2>5
  <2> QED
    BY <2>6 DEF r
<1>4. CASE SetOnline(f)
  <2> DEFINE s     == [r EXCEPT !.online = ~r.online]
             probe == IF s.unreachable THEN ScheduleServerProbe(Queued(s, "Retry")) ELSE s
  <2>1. Become(f, IF s.online THEN Reconnected(probe) ELSE [s EXCEPT !.state = "Offline"])
        /\ r.phase = "live"
    BY <1>4 DEF SetOnline, Accepts, Live
  <2>2. s \in SchedulerType /\ s.manualOnly = r.manualOnly /\ (Called(r) => Called(s))
        /\ s.phase = r.phase
    <3>1. s \in SchedulerType
      BY <1>1, ToggleKeeps DEF Keeps
    <3>2. /\ s.manualOnly = r.manualOnly /\ s.phase = r.phase
          /\ s.cooldown = r.cooldown /\ s.coolCallback = r.coolCallback
      BY <1>1 DEF SchedulerType, SchedulerRecord
    <3> QED
      BY <3>1, <3>2 DEF Called
  <2> HIDE DEF s, r
  <2>3. ~s.online => Tends(r, [s EXCEPT !.state = "Offline"])
    BY <2>2 DEF Tends, Attended, Blocked, SchedulerType, SchedulerRecord
  <2>4. Heeds(s, Queued(s, "Retry")) /\ Queued(s, "Retry") \in SchedulerType
    BY <2>2, QueuedHeeds DEF Heeds
  <2>5. Heeds(s, probe) /\ probe \in SchedulerType
    BY <2>2, <2>4, ScheduleServerProbeHeeds, HeedsTransitive, HeedsReflexive DEF Heeds
  <2> HIDE DEF probe
  <2>6. Tends(r, Reconnected(probe))
    BY <2>1, <2>2, <2>5, ReconnectedAttends, ReconnectedHeeds DEF Tends, Heeds
  <2>7. \E u : Become(f, u) /\ Tends(r, u)
    BY <2>1, <2>3, <2>6
  <2> QED
    BY <2>7 DEF r
<1>5. CASE SetMetered(f)
  <2> DEFINE s == [r EXCEPT !.metered = ~r.metered]
  <2>1. Become(f, IF ~s.metered /\ s.online THEN Reconnected(s) ELSE s) /\ r.phase = "live"
    BY <1>5 DEF SetMetered, Accepts, Live
  <2>2. s \in SchedulerType /\ s.manualOnly = r.manualOnly /\ (Called(r) => Called(s))
        /\ s.phase = r.phase
    <3>1. s \in SchedulerType
      BY <1>1, ToggleKeeps DEF Keeps
    <3>2. /\ s.manualOnly = r.manualOnly /\ s.phase = r.phase
          /\ s.cooldown = r.cooldown /\ s.coolCallback = r.coolCallback
      BY <1>1 DEF SchedulerType, SchedulerRecord
    <3> QED
      BY <3>1, <3>2 DEF Called
  <2> HIDE DEF s, r
  <2>3. ~(~s.metered /\ s.online) => Tends(r, s)
    BY <2>2 DEF Tends, Attended, Blocked, Gated
  <2>4. Tends(r, Reconnected(s))
    BY <2>1, <2>2, ReconnectedAttends, ReconnectedHeeds DEF Tends, Heeds
  <2>5. \E u : Become(f, u) /\ Tends(r, u)
    BY <2>1, <2>3, <2>4
  <2> QED
    BY <2>5 DEF r
<1>6. CASE SetHushed(f) \/ UpdateSyncConfig(f)
  BY <1>6 DEF SetHushed, UpdateSyncConfig, Accepts, Silent
<1>7. CASE SetRemotePushReady(f)
  <2> DEFINE s == [r EXCEPT !.pushReady = ~r.pushReady]
  <2>1. Become(f, s)
    BY <1>7 DEF SetRemotePushReady
  <2>2. s.manualOnly = r.manualOnly /\ Rests(r, s)
    BY <1>1 DEF Rests, Awake, Blocked, Paused, Gated, SchedulerType, SchedulerRecord
  <2> HIDE DEF s, r
  <2>3. \E u : Become(f, u) /\ Tends(r, u)
    BY <2>1, <2>2 DEF Tends
  <2> QED
    BY <2>3 DEF r
<1> QED
  BY <1>2, <1>3, <1>4, <1>5, <1>6, <1>7

-----------------------------------------------------------------------------
(* The places of schedulers in the line of the permit.                     *)

Among(q, g) == \E i \in DOMAIN q : q[i] = g

\* g has a callback with the permit, in the line or on its way.
Registered(p, g) == Among(p.waiters, g) \/ Among(p.idles, g)

\* Joining a queue displaces nobody.
LEMMA AppendAmong ==
    ASSUME NEW S, NEW q \in Seq(S), NEW x \in S, NEW g
    PROVE  Among(Append(q, x), g) <=> Among(q, g) \/ g = x
<1>1. /\ Append(q, x) \in Seq(S) /\ Len(Append(q, x)) = Len(q) + 1
      /\ \A i \in 1..Len(q) : Append(q, x)[i] = q[i]
      /\ Append(q, x)[Len(q) + 1] = x
  OBVIOUS
<1>2. DOMAIN q = 1..Len(q) /\ DOMAIN Append(q, x) = 1..(Len(q) + 1) /\ Len(q) \in Nat
  BY <1>1
<1>3. \A i \in 1..(Len(q) + 1) : i \in 1..Len(q) \/ i = Len(q) + 1
  BY <1>2
<1>4. 1..Len(q) \subseteq 1..(Len(q) + 1) /\ Len(q) + 1 \in 1..(Len(q) + 1)
  BY <1>2
<1> QED
  BY <1>1, <1>2, <1>3, <1>4 DEF Among

\* Only the head leaves a queue.
LEMMA TailAmong ==
    ASSUME NEW S, NEW q \in Seq(S), q # <<>>, NEW g
    PROVE  Among(q, g) <=> g = Head(q) \/ Among(Tail(q), g)
<1>1. /\ Tail(q) \in Seq(S) /\ Len(Tail(q)) = Len(q) - 1 /\ Len(q) \in Nat \ {0}
      /\ \A i \in 1..(Len(q) - 1) : Tail(q)[i] = q[i + 1]
      /\ Head(q) = q[1]
  OBVIOUS
<1>2. DOMAIN q = 1..Len(q) /\ DOMAIN Tail(q) = 1..(Len(q) - 1)
  BY <1>1
<1>3. \A i \in 1..Len(q) : i = 1 \/ (i - 1 \in 1..(Len(q) - 1) /\ (i - 1) + 1 = i)
  BY <1>1
<1>4. 1 \in 1..Len(q) /\ \A i \in 1..(Len(q) - 1) : i + 1 \in 1..Len(q)
  BY <1>1
<1>5. ASSUME Among(q, g), g # Head(q) PROVE Among(Tail(q), g)
  <2> PICK i \in 1..Len(q) : q[i] = g
    BY <1>2, <1>5 DEF Among
  <2>1. i - 1 \in 1..(Len(q) - 1) /\ (i - 1) + 1 = i
    BY <1>1, <1>3, <1>5
  <2>2. Tail(q)[i - 1] = g
    BY <1>1, <2>1
  <2> QED
    BY <1>2, <2>1, <2>2 DEF Among
<1>6. ASSUME Among(Tail(q), g) PROVE Among(q, g)
  BY <1>1, <1>2, <1>4, <1>6 DEF Among
<1>7. Among(q, Head(q))
  BY <1>1, <1>2, <1>4 DEF Among
<1> QED
  BY <1>5, <1>6, <1>7

\* Whatever happens to the permit, nobody loses a place to somebody else.
LEMMA PlacesStay ==
    ASSUME NEW p \in PermitType, NEW f \in Folders, NEW g \in Folders, Registered(p, g)
    PROVE  /\ Registered(Acquired(p, f), g)
           /\ Registered(WaitForRelease(p, f), g)
           /\ Registered(ClaimReleasedTurn(p), g)
           /\ Registered(Released(p), g)
           /\ g # f => Registered(Forgotten(p, f), g)
<1>1. p.waiters \in Seq(Waiters) /\ p.idles \in Seq(Waiters) /\ f \in Waiters
  BY DEF PermitType, Waiters
<1>2. Registered(Acquired(p, f), g) /\ Registered(ClaimReleasedTurn(p), g)
  BY DEF Acquired, ClaimReleasedTurn, Registered, PermitType
<1>3. Registered(WaitForRelease(p, f), g)
  <2>1. /\ WaitForRelease(p, f).waiters = Append(p.waiters, f)
        /\ WaitForRelease(p, f).idles = p.idles
    BY DEF WaitForRelease, PermitType
  <2> QED
    BY <1>1, <2>1, AppendAmong DEF Registered
<1>4. Registered(Released(p), g)
  <2> DEFINE q == SlotFreed(p)
  <2>1. q \in PermitType /\ q.waiters = p.waiters /\ q.idles = p.idles
    BY SlotFreedType DEF SlotFreed, PermitType
  <2>2. Released(p) = OldestWoken(q)
    BY DEF Released
  <2> HIDE DEF q
  <2>3. CASE q.waiters = <<>>
    BY <2>1, <2>2, <2>3 DEF OldestWoken, Registered
  <2>4. CASE q.waiters # <<>>
    <3>1. /\ OldestWoken(q).waiters = Tail(q.waiters)
          /\ OldestWoken(q).idles = Append(q.idles, Head(q.waiters))
      BY <2>1, <2>4 DEF OldestWoken, PermitType
    <3>2. Head(q.waiters) \in Waiters
      BY <1>1, <2>1, <2>4
    <3>3. Among(q.waiters, g) => g = Head(q.waiters) \/ Among(Tail(q.waiters), g)
      BY <1>1, <2>1, <2>4, TailAmong
    <3>4. Among(Append(q.idles, Head(q.waiters)), g)
            <=> Among(q.idles, g) \/ g = Head(q.waiters)
      BY <1>1, <2>1, <3>2, AppendAmong
    <3> QED
      BY <2>1, <2>2, <3>1, <3>3, <3>4 DEF Registered
  <2> QED
    BY <2>3, <2>4
<1>5. ASSUME g # f PROVE Registered(Forgotten(p, f), g)
  <2> DEFINE Forget(q) == [i \in DOMAIN q |-> IF q[i] = f THEN Dropped ELSE q[i]]
  <2>1. \A q : Among(q, g) => Among(Forget(q), g)
    BY <1>5 DEF Among
  <2>2. Forgotten(p, f) = [p EXCEPT !.waiters = Forget(p.waiters), !.idles = Forget(p.idles)]
    BY DEF Forgotten
  <2> HIDE DEF Forget
  <2>3. /\ Forgotten(p, f).waiters = Forget(p.waiters)
        /\ Forgotten(p, f).idles = Forget(p.idles)
    BY <2>2 DEF PermitType
  <2> QED
    BY <2>1, <2>3 DEF Registered
<1> QED
  BY <1>2, <1>3, <1>4, <1>5

\* Who joins the line has a place in it.
LEMMA JoinedRegistered ==
    ASSUME NEW p \in PermitType, NEW f \in Folders
    PROVE  Registered(WaitForRelease(p, f), f)
<1>1. p.waiters \in Seq(Waiters) /\ f \in Waiters
  BY DEF PermitType, Waiters
<1>2. WaitForRelease(p, f).waiters = Append(p.waiters, f)
  BY DEF WaitForRelease, PermitType
<1> QED
  BY <1>1, <1>2, AppendAmong DEF Registered

\* Taking the first idle source only takes its own place.
LEMMA OnlyHeadLeaves ==
    ASSUME TypeOK, permit.idles # <<>>, NEW g \in Folders, g # Head(permit.idles),
           Registered(permit, g)
    PROVE  Registered(IdleTaken, g)
<1>1. permit.idles \in Seq(Waiters)
  BY DEF TypeOK, PermitType
<1>2. IdleTaken.waiters = permit.waiters /\ IdleTaken.idles = Tail(permit.idles)
  BY DEF IdleTaken, TypeOK, PermitType
<1> QED
  BY <1>1, <1>2, TailAmong DEF Registered

\* The step keeps the places g has with the permit.
StaysListed(g) == Registered(permit, g) => Registered(permit', g)

\* After the step somebody looks at the queue of f, unless nobody did before it.
Minded(f) ==
    /\ ~sched'[f].manualOnly
    /\ \/ Attended(sched'[f])
       \/ Registered(permit', f)
       \/ Rests(sched[f], sched'[f]) /\ StaysListed(f)

\* The step is about f alone.
Apart(f) == \A g \in Folders \ {f} : sched'[g] = sched[g] /\ StaysListed(g)

\* Only the scheduler changes.
LEMMA BecomeMinds ==
    ASSUME TypeOK, NEW f \in Folders, NEW u, Become(f, u), ~u.manualOnly,
           Attended(u) \/ Rests(sched[f], u)
    PROVE  Minded(f) /\ Apart(f)
<1>1. sched'[f] = u /\ \A g \in Folders \ {f} : sched'[g] = sched[g]
  BY DEF Become, TypeOK
<1>2. permit' = permit
  BY DEF Become
<1> QED
  BY <1>1, <1>2 DEF Minded, Apart, StaysListed

\* An attempt gives up for a reason that is on show, runs, or joins the line.
LEMMA StartMinds ==
    ASSUME TypeOK, NEW f \in Folders, NEW s0 \in SchedulerType, ~s0.manualOnly,
           NEW p \in PermitType, NEW turn, Start(f, s0, p, turn)
    PROVE  /\ ~sched'[f].manualOnly
           /\ Attended(sched'[f]) \/ Registered(permit', f)
           /\ \A g \in Folders \ {f} :
                  /\ sched'[g] = sched[g]
                  /\ Registered(p, g) => Registered(permit', g)
<1> DEFINE s == [s0 EXCEPT !.source = FALSE]
           v == StartVerdict(s)
<1>1. s \in SchedulerType /\ ~s.manualOnly
  BY DEF SchedulerType, SchedulerRecord
<1>2. \/ v # "go" /\ sched' = [sched EXCEPT ![f] = Aborted(s, v)]
         /\ permit' \in {Released(p), p}
      \/ v = "go" /\ sched' = [sched EXCEPT ![f] = Running(s)] /\ permit' = Acquired(p, f)
      \/ v = "go" /\ sched' = [sched EXCEPT ![f] = Waiting(s)]
         /\ permit' = WaitForRelease(p, f)
  BY DEF Start
<1> HIDE DEF s
<1>3. \A g \in Folders \ {f} : sched'[g] = sched[g]
  BY <1>2 DEF TypeOK
<1>4. \A g \in Folders : Registered(p, g) => Registered(permit', g)
  BY <1>2, PlacesStay
<1>5. CASE v # "go"
  <2>1. sched'[f] = Aborted(s, v)
    BY <1>2, <1>5 DEF TypeOK
  <2>2. Attended(Aborted(s, v)) /\ Aborted(s, v).manualOnly = s.manualOnly
    BY <1>1, <1>5, AbortedAttends, AbortedHeeds DEF Heeds
  <2> QED
    BY <1>1, <1>3, <1>4, <2>1, <2>2
<1>6. CASE v = "go" /\ sched' = [sched EXCEPT ![f] = Running(s)]
  <2>1. sched'[f] = Running(s)
    BY <1>6 DEF TypeOK
  <2>2. Running(s).running /\ ~Running(s).manualOnly
    BY <1>1 DEF Running, SchedulerType, SchedulerRecord
  <2> QED
    BY <1>3, <1>4, <2>1, <2>2 DEF Attended, Awake
<1>7. CASE v = "go" /\ sched' = [sched EXCEPT ![f] = Waiting(s)]
           /\ permit' = WaitForRelease(p, f)
  <2>1. sched'[f] = Waiting(s)
    BY <1>7 DEF TypeOK
  <2>2. ~Waiting(s).manualOnly
    BY <1>1, WaitingHeeds DEF Heeds
  <2>3. Registered(permit', f)
    BY <1>7, JoinedRegistered
  <2> QED
    BY <1>3, <1>4, <2>1, <2>2, <2>3
<1> QED
  BY <1>2, <1>5, <1>6, <1>7

\* request, of a scheduler that took an input.
LEMMA SubmitMinds ==
    ASSUME TypeOK, NEW f \in Folders, NEW s \in SchedulerType, ~s.manualOnly, Called(s),
           NEW t, Submit(f, s, t), Ignores(s, t) => Rests(sched[f], s)
    PROVE  Minded(f) /\ Apart(f)
<1>1. CASE StartsNow(s, t)
  <2> DEFINE q == Queued(s, t)
  <2>1. q \in SchedulerType /\ q.manualOnly = s.manualOnly
    BY <1>1, QueuedHeeds DEF StartsNow, Heeds
  <2>2. Start(f, q, permit, FALSE)
    BY <1>1 DEF Submit
  <2> HIDE DEF q
  <2>3. /\ ~sched'[f].manualOnly
        /\ Attended(sched'[f]) \/ Registered(permit', f)
        /\ \A g \in Folders \ {f} :
               sched'[g] = sched[g] /\ (Registered(permit, g) => Registered(permit', g))
    BY <2>1, <2>2, StartMinds DEF TypeOK
  <2> QED
    BY <2>3 DEF Minded, Apart, StaysListed
<1>2. CASE ~StartsNow(s, t)
  <2>1. Become(f, Requested(s, t)) /\ Requested(s, t).manualOnly = s.manualOnly
    BY <1>2, RequestedHeeds DEF Submit, Heeds
  <2>2. Ignores(s, t) => Requested(s, t) = s
    BY DEF Requested
  <2>3. Attended(Requested(s, t)) \/ Rests(sched[f], Requested(s, t))
    BY <2>2, RequestedAttends
  <2> QED
    BY <2>1, <2>3, BecomeMinds
<1> QED
  BY <1>1, <1>2

\* What an input leaves alone when it does not touch the queue.
LEMMA RestsReflexive == \A s : Rests(s, s)
  BY DEF Rests

\* What submits a request, and what happens to the files.
LEMMA RequestMinds ==
    ASSUME TypeOK, NEW f \in Folders, ~sched[f].manualOnly, Called(sched[f]),
           \/ \E t \in Requests : Request(f, t)
           \/ CredentialsRenewed(f)
           \/ \E b \in Batches : LoseBatch(f, b)
           \/ ApproveDeleteOnce(f) \/ RestoreFromServer(f) \/ SetGuardEnabled(f)
    PROVE  Minded(f) /\ Apart(f)
<1> DEFINE r == sched[f]
           Same(s) == /\ s \in SchedulerType /\ ~s.manualOnly /\ Called(s)
                      /\ s.phase = r.phase
<1>1. r \in SchedulerType
  BY DEF TypeOK
<1>2. CASE \E t \in Requests : Request(f, t)
  BY <1>1, <1>2, SubmitMinds, RestsReflexive DEF Request
<1>3. \A s : Same(s) /\ Submit(f, s, "Manual") /\ r.phase = "live"
        => Minded(f) /\ Apart(f)
  BY SubmitMinds DEF Ignores
<1>4. CASE CredentialsRenewed(f)
  <2> DEFINE s == [r EXCEPT !.authRequired = FALSE]
  <2>1. Same(s)
    BY <1>1 DEF Called, SchedulerType, SchedulerRecord
  <2>2. Submit(f, s, "Manual") /\ r.phase = "live"
    BY <1>4 DEF CredentialsRenewed, Accepts, Live
  <2> HIDE DEF s
  <2> QED
    BY <1>3, <2>1, <2>2
<1>5. CASE \E b \in Batches : LoseBatch(f, b)
  <2> PICK b \in Batches : LoseBatch(f, b)
    BY <1>5
  <2> DEFINE s == [r EXCEPT !.disk = @ \ {b}]
             u == [s EXCEPT !.foundGone = @ \cup {b}]
  <2>1. Become(f, s) \/ Become(f, u)
    BY DEF LoseBatch
  <2>2. Rests(r, s) /\ ~s.manualOnly
    BY <1>1 DEF Rests, Awake, Blocked, Paused, Gated, SchedulerType, SchedulerRecord
  <2>3. Rests(r, u) /\ ~u.manualOnly
    BY <1>1 DEF Rests, Awake, Blocked, Paused, Gated, SchedulerType, SchedulerRecord
  <2> HIDE DEF s, u
  <2> QED
    BY <2>1, <2>2, <2>3, BecomeMinds
<1>6. CASE ApproveDeleteOnce(f)
  <2> DEFINE s == [r EXCEPT !.alert = {}, !.bypass = TRUE, !.approved = @ \cup r.alert]
  <2>1. Same(s)
    BY <1>1 DEF Called, SchedulerType, SchedulerRecord
  <2>2. Submit(f, s, "Manual") /\ r.phase = "live"
    BY <1>6 DEF ApproveDeleteOnce, Accepts, Live
  <2> HIDE DEF s
  <2> QED
    BY <1>3, <2>1, <2>2
<1>7. CASE RestoreFromServer(f)
  <2> DEFINE s == [r EXCEPT !.alert = {}, !.bypass = FALSE, !.baseline = r.disk]
  <2>1. Same(s)
    BY <1>1 DEF Called, SchedulerType, SchedulerRecord
  <2>2. Submit(f, s, "Manual") /\ r.phase = "live"
    BY <1>7 DEF RestoreFromServer, Accepts, Live
  <2> HIDE DEF s
  <2> QED
    BY <1>3, <2>1, <2>2
<1>8. CASE SetGuardEnabled(f)
  <2> DEFINE g       == ~r.guarded
             s       == [r EXCEPT !.guarded = g]
             cleared == [s EXCEPT !.alert = {}, !.bypass = FALSE, !.state = "IdleNotSynced"]
  <2>1. g \in BOOLEAN
    OBVIOUS
  <2>2. (Become(f, s) \/ Submit(f, cleared, "Manual")) /\ r.phase = "live"
    BY <1>8 DEF SetGuardEnabled, Accepts, Live
  <2> HIDE DEF g
  <2>3. Same(s)
    BY <1>1, <2>1 DEF Called, SchedulerType, SchedulerRecord
  <2>4. Rests(r, s)
    BY <1>1, <2>1 DEF Rests, Awake, Blocked, Paused, Gated, SchedulerType, SchedulerRecord
  <2> HIDE DEF s
  <2>5. Same(cleared)
    BY <2>3 DEF Called, SchedulerType, SchedulerRecord, AppState
  <2> HIDE DEF cleared
  <2> QED
    BY <1>3, <2>2, <2>3, <2>4, <2>5, BecomeMinds
<1> QED
  BY <1>2, <1>4, <1>5, <1>6, <1>7, <1>8

\* Removing a folder and adding it again: a new scheduler is asked to run.
LEMMA RemovalMinds ==
    ASSUME TypeOK, NEW f \in Folders, ~sched[f].manualOnly,
           Stop(f) \/ Drop(f) \/ AddFolder(f)
    PROVE  Minded(f) /\ Apart(f)
<1>1. sched[f] \in SchedulerType
  BY DEF TypeOK
<1>2. CASE Stop(f)
  <2> PICK armed, cools :
        sched' = [sched EXCEPT ![f] =
          [sched[f] EXCEPT !.phase = "stopped", !.queue = {}, !.alert = {},
                           !.localDirty = FALSE, !.remotePending = FALSE,
                           !.armed = armed, !.source = FALSE,
                           !.settling = FALSE, !.coolTimers = cools,
                           !.cooldown = FALSE, !.coolCallback = FALSE,
                           !.running = FALSE]]
    BY <1>2 DEF Stop
  <2> DEFINE u == [sched[f] EXCEPT !.phase = "stopped", !.queue = {}, !.alert = {},
                                   !.localDirty = FALSE, !.remotePending = FALSE,
                                   !.armed = armed, !.source = FALSE,
                                   !.settling = FALSE, !.coolTimers = cools,
                                   !.cooldown = FALSE, !.coolCallback = FALSE,
                                   !.running = FALSE]
  <2>1. u.phase = "stopped" /\ ~u.manualOnly
    BY <1>1 DEF SchedulerType, SchedulerRecord
  <2>2. sched' = [sched EXCEPT ![f] = u]
    OBVIOUS
  <2> HIDE DEF u
  <2>3. sched'[f] = u /\ \A g \in Folders \ {f} : sched'[g] = sched[g]
    BY <2>2 DEF TypeOK
  <2>4. permit' = permit
    BY <1>2 DEF Stop
  <2> QED
    BY <2>1, <2>3, <2>4 DEF Minded, Apart, StaysListed, Attended
<1>3. CASE Drop(f)
  <2> DEFINE u == [NewScheduler EXCEPT !.phase = "dropped"]
  <2>1. u.phase = "dropped" /\ ~u.manualOnly
    BY DEF NewScheduler
  <2>2. sched' = [sched EXCEPT ![f] = u] /\ permit' = Forgotten(permit, f)
    BY <1>3 DEF Drop
  <2> HIDE DEF u
  <2>3. sched'[f] = u /\ \A g \in Folders \ {f} : sched'[g] = sched[g]
    BY <2>2 DEF TypeOK
  <2>4. \A g \in Folders \ {f} : StaysListed(g)
    BY <2>2, PlacesStay DEF StaysListed, TypeOK
  <2> QED
    BY <2>1, <2>3, <2>4 DEF Minded, Apart, Attended
<1>4. CASE AddFolder(f)
  <2>1. NewScheduler.phase = "live" /\ ~NewScheduler.manualOnly /\ Called(NewScheduler)
    BY DEF NewScheduler, Called
  <2>2. ~Ignores(NewScheduler, "Startup")
    BY <2>1 DEF Ignores
  <2>3. /\ Attended(Requested(NewScheduler, "Startup"))
        /\ ~Requested(NewScheduler, "Startup").manualOnly
    BY <2>1, <2>2, NewSchedulerType, RequestedAttends, RequestedHeeds DEF Heeds
  <2> QED
    BY <1>4, <2>3, BecomeMinds DEF AddFolder
<1> QED
  BY <1>2, <1>3, <1>4

\* The callbacks of the main loop: the timer that goes off is replaced, or what it
\* leaves undone is on show.
LEMMA TimerMinds ==
    ASSUME TypeOK, NEW f \in Folders, ~sched[f].manualOnly, Called(sched[f]),
           StartTimer(f) \/ DebounceReady(f) \/ CooldownTimer(f)
    PROVE  Minded(f) /\ Apart(f)
<1> DEFINE r == sched[f]
<1>1. r \in SchedulerType
  BY DEF TypeOK
<1>2. CASE StartTimer(f)
  <2> DEFINE n == r.armed - 1
             s == [r EXCEPT !.armed = n]
             t == [r EXCEPT !.armed = n, !.source = FALSE]
  <2>1. Start(f, s, permit, FALSE)
    BY <1>2 DEF StartTimer
  <2>2. n \in Nat
    BY <1>1, <1>2 DEF StartTimer, SchedulerType, SchedulerRecord
  <2> HIDE DEF n
  <2>3. t \in SchedulerType /\ ~t.manualOnly
    BY <1>1, <2>2 DEF SchedulerType, SchedulerRecord
  <2>4. [s EXCEPT !.source = FALSE] = [t EXCEPT !.source = FALSE]
    BY <1>1 DEF SchedulerType, SchedulerRecord
  <2> HIDE DEF s, t
  <2>5. Start(f, t, permit, FALSE)
    BY <2>1, <2>4 DEF Start
  <2>6. /\ ~sched'[f].manualOnly
        /\ Attended(sched'[f]) \/ Registered(permit', f)
        /\ \A g \in Folders \ {f} :
               sched'[g] = sched[g] /\ (Registered(permit, g) => Registered(permit', g))
    BY <2>3, <2>5, StartMinds DEF TypeOK
  <2> QED
    BY <2>6 DEF Minded, Apart, StaysListed
<1>3. CASE DebounceReady(f)
  <2> DEFINE s == [r EXCEPT !.settling = FALSE]
  <2>1. s \in SchedulerType /\ ~s.manualOnly /\ Called(s)
    BY <1>1 DEF Called, SchedulerType, SchedulerRecord
  <2>2. Become(f, ScheduleStart(s))
    BY <1>3 DEF DebounceReady
  <2> HIDE DEF s
  <2>3. Attended(ScheduleStart(s)) /\ ~ScheduleStart(s).manualOnly
    BY <2>1, ScheduleStartAttends, ScheduleStartHeeds DEF Heeds
  <2> QED
    BY <2>2, <2>3, BecomeMinds
<1>4. CASE CooldownTimer(f)
  <2> DEFINE n == r.coolTimers - 1
             t == [r EXCEPT !.coolTimers = n, !.cooldown = FALSE, !.coolCallback = FALSE]
  <2>1. Become(f, IF r.coolCallback THEN CooldownFinished(t) ELSE t)
    BY <1>4 DEF CooldownTimer
  <2>2. n \in Nat
    BY <1>1, <1>4 DEF CooldownTimer, SchedulerType, SchedulerRecord
  <2> HIDE DEF n
  <2>3. t \in SchedulerType /\ ~t.manualOnly /\ Called(t)
    BY <1>1, <2>2 DEF Called, SchedulerType, SchedulerRecord
  <2>4. ~r.coolCallback => Rests(r, t)
    BY <1>1 DEF Rests, Awake, Blocked, Paused, Gated, SchedulerType, SchedulerRecord
  <2> HIDE DEF t
  <2>5. Attended(CooldownFinished(t)) /\ ~CooldownFinished(t).manualOnly
    BY <2>3, CooldownFinishedAttends, CooldownFinishedHeeds DEF Heeds
  <2> QED
    BY <2>1, <2>3, <2>4, <2>5, BecomeMinds
<1> QED
  BY <1>2, <1>3, <1>4

\* finished: what was queued meanwhile gets a cooldown, a retry, or a reason.
LEMMA RunEndsMinds ==
    ASSUME TypeOK, NEW f \in Folders, ~sched[f].manualOnly, RunEnds(f)
    PROVE  Minded(f) /\ Apart(f)
<1> DEFINE r == sched[f]
<1>1. r \in SchedulerType
  BY DEF TypeOK
<1>2. PICK o \in Outcomes, gone \in SUBSET Batches, deleted \in BOOLEAN :
        Finished(f, o, gone, deleted)
  BY DEF RunEnds
<1> DEFINE left   == [r EXCEPT !.server = @ \ gone, !.foundGone = {}]
           judged == Judged(left, o)
           based  == Rebaselined(judged, o, deleted)
           next   == Followed(based, o)
<1>3. sched' = [sched EXCEPT ![f] = next] /\ permit' = Released(permit)
  BY <1>2 DEF Finished
<1>4. left \in SchedulerType /\ ~left.manualOnly
  <2>1. r.server \ gone \in SUBSET Batches
    BY <1>1 DEF SchedulerType, SchedulerRecord
  <2> QED
    BY <1>1, <2>1 DEF SchedulerType, SchedulerRecord
<1> HIDE DEF left
<1>5. o \in SyncOutcome
  BY OutcomesAssumption
<1>6. /\ judged \in SchedulerType /\ ~judged.manualOnly
      /\ o \in {"AuthFailed", "NoCredentials"} => judged.authRequired
      /\ o = "NetworkError" => judged.unreachable
  BY <1>4, <1>5, JudgedType, JudgedWork
<1> HIDE DEF judged
<1>7. /\ based \in SchedulerType /\ ~based.manualOnly
      /\ o \in {"AuthFailed", "NoCredentials"} => based.authRequired
      /\ o = "NetworkError" => based.unreachable
  BY <1>6, RebaselinedType, RebaselinedWork
<1> HIDE DEF based
<1>8. Attended(next) /\ ~next.manualOnly
  BY <1>5, <1>7, FollowedAttends, FollowedWork
<1> HIDE DEF next
<1>9. sched'[f] = next /\ \A g \in Folders \ {f} : sched'[g] = sched[g]
  BY <1>3 DEF TypeOK
<1>10. \A g \in Folders : StaysListed(g)
  BY <1>3, PlacesStay DEF StaysListed, TypeOK
<1> QED
  BY <1>8, <1>9, <1>10 DEF Minded, Apart

\* The idle source a release queued: only the scheduler it was for leaves the line.
LEMMA WokenMinds ==
    ASSUME TypeOK, \A g \in Folders : ~sched[g].manualOnly, WokenWaiter
    PROVE  \/ UNCHANGED sched /\ \A g \in Folders : StaysListed(g)
           \/ \E f \in Folders : Minded(f) /\ Apart(f)
<1> DEFINE f == Head(permit.idles)
<1>1. permit.idles # <<>> /\ f \in Waiters
  BY DEF WokenWaiter, TypeOK, PermitType
<1>2. IdleTaken \in PermitType
  <2>1. Tail(permit.idles) \in Seq(Waiters)
    BY <1>1 DEF TypeOK, PermitType
  <2> QED
    BY <2>1 DEF TypeOK, IdleTaken, PermitType
<1>3. CASE f = Dropped
  <2>1. UNCHANGED sched /\ permit' = IdleTaken
    BY <1>3 DEF WokenWaiter, IdleTaken
  <2>2. \A g \in Folders : g # f
    BY <1>3, DroppedAssumption
  <2> QED
    BY <1>1, <2>1, <2>2, OnlyHeadLeaves DEF StaysListed
<1>4. CASE f # Dropped
  <2>1. f \in Folders
    BY <1>1, <1>4 DEF Waiters
  <2> DEFINE p == ClaimReleasedTurn(IdleTaken)
  <2>2. Start(f, sched[f], p, TRUE)
    BY <1>4 DEF WokenWaiter, IdleTaken
  <2>3. p \in PermitType
    BY <1>2, ClaimReleasedTurnType
  <2>4. \A g \in Folders : g # f /\ Registered(permit, g) => Registered(p, g)
    BY <1>1, <1>2, <2>1, OnlyHeadLeaves, PlacesStay
  <2>5. sched[f] \in SchedulerType /\ ~sched[f].manualOnly
    BY <2>1 DEF TypeOK
  <2> HIDE DEF p, f
  <2>6. /\ ~sched'[f].manualOnly
        /\ Attended(sched'[f]) \/ Registered(permit', f)
        /\ \A g \in Folders \ {f} :
               sched'[g] = sched[g] /\ (Registered(p, g) => Registered(permit', g))
    BY <2>1, <2>2, <2>3, <2>5, StartMinds
  <2>7. Minded(f) /\ Apart(f)
    BY <2>4, <2>6 DEF Minded, Apart, StaysListed
  <2> QED
    BY <2>1, <2>7
<1> QED
  BY <1>3, <1>4

\* Unless it is held back in silence, work is always attended to: by a callback of
\* the scheduler or by a place in the line of the permit.
MindedInv ==
    \A g \in Folders :
        /\ ~sched[g].manualOnly
        /\ Attended(sched[g]) \/ Registered(permit, g)

\* No step of the specification strands the work of any folder.
LEMMA StepMinds ==
    ASSUME TypeOK, Silent \cap Inputs = {}, MindedInv,
           \A g \in Folders : Called(sched[g]), [Next]_vars
    PROVE  MindedInv'
<1>1. \/ UNCHANGED sched /\ \A g \in Folders : StaysListed(g)
      \/ \E f \in Folders : Minded(f) /\ Apart(f)
  <2>1. CASE UNCHANGED vars
    BY <2>1 DEF vars, StaysListed
  <2>2. ASSUME NEW f \in Folders,
               \/ SetUserPaused(f) \/ SetBatteryPaused(f)
               \/ SetOnline(f) \/ SetMetered(f) \/ SetHushed(f)
               \/ SetRemotePushReady(f) \/ UpdateSyncConfig(f)
        PROVE  Minded(f) /\ Apart(f)
    <3>1. PICK u : Become(f, u) /\ Tends(sched[f], u)
      BY <2>2, InputTends
    <3>2. ~u.manualOnly /\ (Attended(u) \/ Rests(sched[f], u))
      BY <3>1 DEF Tends, MindedInv
    <3> QED
      BY <3>1, <3>2, BecomeMinds
  <2>3. CASE \E f \in Folders : UserStep(f)
    BY <2>2, <2>3, RequestMinds, RemovalMinds DEF UserStep, MindedInv
  <2>4. CASE \E f \in Folders : SystemStep(f)
    BY <2>2, <2>4 DEF SystemStep
  <2>5. CASE \E f \in Folders : LoopStep(f)
    <3> PICK f \in Folders : LoopStep(f)
      BY <2>5
    <3>1. CASE OrphanEnds(f)
      BY <3>1 DEF OrphanEnds, StaysListed
    <3>2. CASE ~OrphanEnds(f)
      BY <3>2, TimerMinds, RunEndsMinds DEF LoopStep, MindedInv
    <3> QED
      BY <3>1, <3>2
  <2>6. CASE WokenWaiter
    BY <2>6, WokenMinds DEF MindedInv
  <2> QED
    BY <2>1, <2>3, <2>4, <2>5, <2>6 DEF Next
<1>2. \A g \in Folders :
        \/ Minded(g)
        \/ sched'[g] = sched[g] /\ StaysListed(g)
  BY <1>1 DEF Apart
<1>3. ASSUME NEW g \in Folders
      PROVE  ~sched'[g].manualOnly /\ (Attended(sched'[g]) \/ Registered(permit', g))
  BY <1>2 DEF Minded, Rests, StaysListed, Attended, MindedInv
<1> QED
  BY <1>3 DEF MindedInv

LEMMA InitMinded == Init => MindedInv
  BY DEF Init, NewScheduler, MindedInv, Attended

LEMMA MindedStep ==
    Silent \cap Inputs = {} /\ AllWork /\ MindedInv /\ [Next]_vars => MindedInv'
  BY StepMinds DEF AllWork, WorkInv

LEMMA MindedIsNotStranded == AllWork /\ MindedInv => NoStrandedWork
<1> SUFFICES ASSUME MindedInv, NEW f \in Folders, Live(f), sched[f].queue # {}
             PROVE  WillLook(f) \/ Blocked(sched[f])
  BY DEF NoStrandedWork
<1>1. Awake(sched[f]) \/ Blocked(sched[f]) \/ Registered(permit, f)
  BY DEF MindedInv, Attended, Live
<1> QED
  BY <1>1 DEF WillLook, Awake, Registered, Among

\* No queued work is stranded: a run, a timer, a cooldown or a place in the line of
\* the permit is there for it, or the user is shown what holds it back; as long as
\* nothing holds it back in silence.
THEOREM NothingIsStranded ==
    Silent \cap Inputs = {} => (Spec => []NoStrandedWork)
<1> SUFFICES ASSUME Silent \cap Inputs = {}
             PROVE  Spec => []NoStrandedWork
  OBVIOUS
<1> QED
  BY InitMinded, MindedStep, MindedIsNotStranded, WorkInvariant, PTL DEF Spec

=============================================================================
