--------------------------- MODULE SchedulerProps ---------------------------
(***************************************************************************)
(* What the schedulers and their permit must never do, and must do.        *)
(***************************************************************************)
EXTENDS Scheduler

\* The permit's counters and queues, and the flags, gates and counters of every
\* scheduler, keep their ranges; a timer that is remembered is still to come, so
\* no flag suppresses a callback that no longer exists.
TypeOK ==
    /\ permit \in PermitType
    /\ sched \in [Folders -> SchedulerType]
    /\ orphans \in SUBSET Folders

-----------------------------------------------------------------------------
(* The permit.                                                             *)

InFlight(f) == sched[f].running \/ f \in orphans

\* Never two engines at once, on one folder or on two, even across the removal
\* of a folder whose engine is still winding down and its return: the promise
\* of sync_permit.rs and of AccountManager's single slot.
OneRunAtATime ==
    /\ \A f, g \in Folders : InFlight(f) /\ InFlight(g) => f = g
    /\ \A f \in orphans : ~sched[f].running

\* No release gives back a slot that somebody else holds: a run has its slot,
\* and a turn that was handed out has a free slot to claim.
SlotsAccounted ==
    /\ permit.inUse + permit.pendingWakeups <= MaxConcurrent
    /\ (\E f \in Folders : sched[f].running) => permit.inUse > 0

\* Nobody sleeps beside a free permit (issue #197): as long as a callback is
\* queued, a run or a woken scheduler is there to release it in turn.
NoSleepingWaiter ==
    permit.waiters # <<>> =>
        \/ \E f \in Folders : InFlight(f)
        \/ \E i \in DOMAIN permit.idles : permit.idles[i] # Dropped

Turns == INSTANCE TurnQueue WITH
    Clients <- Folders,
    inside  <- {f \in Folders : sched[f].running},
    line    <- permit.idles \o permit.waiters

\* The permit implements turn taking: whoever starts a run is at the head of
\* the line or finds it empty, also between a release and the callback of the
\* scheduler it woke (issue #309).
TakesTurns == Turns!Spec

-----------------------------------------------------------------------------
(* One scheduler.                                                          *)

\* "Synchronizing" is shown only while something synchronizes: every exit of
\* start and finished replaces the label that prepare_sync put up.
SyncingIsTrue ==
    \A f \in Folders :
        Live(f) /\ sched[f].state = "Syncing" => sched[f].running

\* What holds work back in a way the user is shown.
Blocked(s) ==
    \/ ~s.online \/ Paused(s) \/ Gated(s, FALSE)
    \/ s.authRequired \/ s.unreachable \/ s.alert # {}

\* Some callback will look at the queue of f again.
WillLook(f) ==
    \/ sched[f].running \/ sched[f].armed > 0
    \/ sched[f].settling \/ sched[f].coolCallback
    \/ \E i \in DOMAIN permit.waiters : permit.waiters[i] = f
    \/ \E i \in DOMAIN permit.idles : permit.idles[i] = f

\* Queued work that nothing visible blocks is going to be looked at: a timer,
\* a cooldown, a run or a place in the line is there for it.
NoStrandedWork ==
    \A f \in Folders :
        Live(f) /\ sched[f].queue # {} => WillLook(f) \/ Blocked(sched[f])

Pending(s) == s.queue # {} \/ s.localDirty \/ s.remotePending

\* What was asked for leaves a scheduler only into a run of its own (or with
\* the scheduler): no pause, gate, abort or requeue forgets it.
WorkLeavesInRuns ==
    [][\A f \in Folders :
           Live(f) /\ ~sched[f].manualOnly /\ Pending(sched[f]) =>
               \/ Pending(sched'[f])
               \/ sched'[f].running
               \/ sched'[f].phase # "live"]_vars

-----------------------------------------------------------------------------
(* The deletion guard.                                                     *)

\* No mass deletion reaches the server before the user approved it.
MassDeletionReviewed ==
    \A f \in Folders : Batches \ sched[f].server \subseteq sched[f].approved

-----------------------------------------------------------------------------
(* Liveness.                                                               *)

\* Every queued request is served: a run of that folder starts, unless
\* something the user is shown holds the folder back by then.
RequestServed ==
    \A f \in Folders :
        sched[f].queue # {} ~> sched[f].running \/ Blocked(sched[f])

\* Whoever is in line gets to the head of it.
LineMoves ==
    \A f \in Folders :
        (permit.waiters # <<>> /\ Head(permit.waiters) = f)
            ~> (permit.waiters = <<>> \/ Head(permit.waiters) # f)

\* Neither in the queue nor in the line does a folder wait for ever.
NobodyStarves == RequestServed /\ LineMoves

=============================================================================
