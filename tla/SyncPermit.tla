----------------------------- MODULE SyncPermit -----------------------------
(***************************************************************************)
(* The permit of src/core/sync_permit.rs: a counter of running             *)
(* reconciliations, the roots they hold, and a FIFO of callbacks.  Every   *)
(* operation is one synchronous call on the main loop, so it is a function *)
(* from the permit before the call to the permit after it; the schedulers  *)
(* that make the calls are in module Scheduler.                            *)
(*                                                                         *)
(* A waiter is the folder whose scheduler registered the callback.  The    *)
(* callback holds a weak reference: when that scheduler is dropped the     *)
(* callback stays in the queue and becomes Dropped.                        *)
(***************************************************************************)
EXTENDS Naturals, Sequences

CONSTANTS
    Folders,        \* the configured folders of every account
    MaxConcurrent,  \* slots of the permit; AccountManager::new asks for 1
    Overlaps,       \* pairs of folders whose local roots cover a common tree
    Dropped         \* the callback of a scheduler that no longer exists

ASSUME MaxConcurrentAssumption == MaxConcurrent \in Nat \ {0}
ASSUME DroppedAssumption == Dropped \notin Folders
ASSUME OverlapsAssumption ==
    \A f, g \in Folders :
        /\ <<f, f>> \in Overlaps
        /\ <<f, g>> \in Overlaps => <<g, f>> \in Overlaps

VARIABLE permit

Waiters == Folders \cup {Dropped}

\* idles: release callbacks that already ran and queued their idle source.
PermitType ==
    [inUse          : 0..MaxConcurrent,
     roots          : Seq(Folders),
     waiters        : Seq(Waiters),
     pendingWakeups : Nat,
     idles          : Seq(Waiters)]

FreePermit ==
    [inUse |-> 0, roots |-> <<>>, waiters |-> <<>>,
     pendingWakeups |-> 0, idles |-> <<>>]

-----------------------------------------------------------------------------

\* Mutant: a waiter whose callback ran no longer counts (issue #309).
WaitersAsleep(p) == Len(p.waiters)

WaiterCount(p) == Len(p.waiters) + p.pendingWakeups

\* Mutant: an off-by-one in the slot count.
CanAcquireOneMore(p, f) == p.inUse <= MaxConcurrent

\* try_acquire_root succeeds: a slot is free and no tracked root overlaps.
CanAcquire(p, f) ==
    /\ p.inUse < MaxConcurrent
    /\ \A i \in DOMAIN p.roots : <<p.roots[i], f>> \notin Overlaps

Acquired(p, f) ==
    [p EXCEPT !.inUse = @ + 1, !.roots = Append(@, f)]

WaitForRelease(p, f) == [p EXCEPT !.waiters = Append(@, f)]

\* Mutant: a woken scheduler keeps its wake-up on the books.
ClaimForgotten(p) == p

ClaimReleasedTurn(p) ==
    [p EXCEPT !.pendingWakeups = IF @ = 0 THEN 0 ELSE @ - 1]

\* The slot goes together with the oldest root, whoever releases.
SlotFreed(p) ==
    IF p.inUse = 0
    THEN p
    ELSE [p EXCEPT !.inUse = @ - 1,
                   !.roots = IF @ = <<>> THEN <<>> ELSE Tail(@)]

\* The oldest callback runs now; all it does is to queue an idle source.
OldestWoken(p) ==
    IF p.waiters = <<>>
    THEN p
    ELSE [p EXCEPT !.waiters = Tail(@),
                   !.pendingWakeups = @ + 1,
                   !.idles = Append(@, Head(p.waiters))]

Released(p) == OldestWoken(SlotFreed(p))

\* The scheduler of f goes away: its callbacks stay, with nobody behind them.
Forgotten(p, f) ==
    LET Forget(q) == [i \in DOMAIN q |-> IF q[i] = f THEN Dropped ELSE q[i]]
    IN  [p EXCEPT !.waiters = Forget(@), !.idles = Forget(@)]

=============================================================================
