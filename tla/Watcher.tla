------------------------------- MODULE Watcher -------------------------------
(***************************************************************************)
(* How a change under a folder becomes a request of its scheduler: the     *)
(* notify callback, on a thread of its own, classifies what inotify tells  *)
(* and puts it into a bounded channel; the consumer, on the main loop,     *)
(* takes it out.  What does not fit is dropped and a flag raised instead,  *)
(* which the consumer reads after its next event; a watcher that lost      *)
(* events registers the whole tree anew (core/watcher.rs and               *)
(* FolderRuntime::connect_watcher).  Excluded names and access events, for *)
(* which the callback sends nothing, are left out.                         *)
(***************************************************************************)
EXTENDS Naturals, Sequences

CONSTANTS
    ChannelRoom,        \* what the channel holds (1024 in the code)
    KernelRoom,         \* what the inotify queue holds
    MaxWatchFailures,   \* bound: how often registering the tree fails
    MaxEdits            \* bound: how often something changes

VARIABLES
    watched,    \* the tree is registered with inotify
    blind,      \* a directory is in it that inotify does not report on
    kernel,     \* the inotify queue
    channel,    \* the bounded channel
    callback,   \* what the notify thread is about
    overflow,   \* the flag beside the channel
    consumer,   \* what the main loop is about: [at, event]
    unheard,    \* something changed since the last request
    failures, edits

watcherVars == <<watched, blind, kernel, channel, callback, overflow, consumer,
                 unheard, failures, edits>>

Listening == [at |-> "recv", event |-> "none"]

WatcherInit ==
    /\ watched = TRUE /\ blind = FALSE /\ kernel = <<>> /\ channel = <<>>
    /\ callback = "idle" /\ overflow = FALSE /\ consumer = Listening
    /\ unheard = FALSE /\ failures = 0 /\ edits = 0

-----------------------------------------------------------------------------
(* The kernel and the notify thread.                                       *)

\* A full queue ends in a note that it overflowed.
Queued(what) ==
    IF Len(kernel) < KernelRoom THEN Append(kernel, what)
    ELSE IF kernel[Len(kernel)] = "overflow" THEN kernel ELSE Append(kernel, "overflow")

\* Something changes where inotify looks.  An event that is lost, or for which
\* no watch is left, may be that of a new directory, which then goes unseen.
Change(what) ==
    /\ watched /\ edits < MaxEdits
    /\ unheard' = TRUE /\ edits' = edits + 1
    /\ kernel' = Queued(what)
    /\ blind' \in IF what = "error" THEN {TRUE}
                  ELSE IF Len(kernel) < KernelRoom THEN {blind} ELSE {blind, TRUE}
    /\ UNCHANGED <<watched, channel, callback, overflow, consumer, failures>>

\* Something changes where it does not look.
ChangeUnseen ==
    /\ ~watched \/ blind
    /\ edits < MaxEdits
    /\ unheard' = TRUE /\ edits' = edits + 1
    /\ UNCHANGED <<watched, blind, kernel, channel, callback, overflow, consumer, failures>>

\* The callback is called with the next event.
Notify ==
    /\ callback = "idle" /\ kernel # <<>>
    /\ callback' = Head(kernel) /\ kernel' = Tail(kernel)
    /\ UNCHANGED <<watched, blind, channel, overflow, consumer, unheard, failures, edits>>

Classified(event) == IF event = "change" THEN "Change" ELSE "Degraded"

\* try_send: what does not fit is dropped.
SendEvent ==
    /\ callback \in {"change", "overflow", "error"}
    /\ IF Len(channel) < ChannelRoom
       THEN channel' = Append(channel, Classified(callback)) /\ callback' = "idle"
       ELSE callback' = "dropped" /\ UNCHANGED channel
    /\ UNCHANGED <<watched, blind, kernel, overflow, consumer, unheard, failures, edits>>

\* Mutant: nothing is noted beside the channel.
FlagNothing ==
    /\ callback = "dropped"
    /\ callback' = "idle"
    /\ UNCHANGED <<overflow, watched, blind, kernel, channel, consumer, unheard, failures, edits>>

RaiseOverflow ==
    /\ callback = "dropped"
    /\ overflow' = TRUE /\ callback' = "idle"
    /\ UNCHANGED <<watched, blind, kernel, channel, consumer, unheard, failures, edits>>

-----------------------------------------------------------------------------
(* The consumer on the main loop.                                          *)

\* recv, then take_overflow: a raised flag means a rescan before the event.
Receive ==
    /\ consumer.at = "recv" /\ channel # <<>>
    /\ consumer' = [at |-> IF overflow THEN "unwatch" ELSE "handle", event |-> Head(channel)]
    /\ channel' = Tail(channel) /\ overflow' = FALSE
    /\ UNCHANGED <<watched, blind, kernel, callback, unheard, failures, edits>>

\* rescan, first half: notify knows no path for what is still queued.
Unwatch ==
    /\ consumer.at = "unwatch"
    /\ watched' = FALSE /\ kernel' = <<>>
    /\ consumer' = [consumer EXCEPT !.at = "watch"]
    /\ UNCHANGED <<blind, channel, callback, overflow, unheard, failures, edits>>

AfterRescan == IF consumer.event = "none" THEN Listening ELSE [consumer EXCEPT !.at = "handle"]

\* rescan, second half: it tells how it went, if the channel has room.
Rewatch ==
    /\ consumer.at = "watch"
    /\ \E ok \in BOOLEAN :
         /\ ~ok => failures < MaxWatchFailures
         /\ failures' = IF ok THEN failures ELSE failures + 1
         /\ watched' = ok /\ blind' = (blind /\ ~ok)
         /\ channel' = IF Len(channel) = ChannelRoom THEN channel
                       ELSE Append(channel, IF ok THEN "Rescan" ELSE "Degraded")
    /\ consumer' = AfterRescan
    /\ UNCHANGED <<kernel, callback, overflow, unheard, edits>>

\* A change or a finished rescan requests a synchronization; a watcher that
\* lost events rescans.
HandleNotice ==
    /\ consumer.at = "handle"
    /\ IF consumer.event = "Degraded"
       THEN consumer' = [at |-> "unwatch", event |-> "none"] /\ UNCHANGED unheard
       ELSE consumer' = Listening /\ unheard' = FALSE
    /\ UNCHANGED <<watched, blind, kernel, channel, callback, overflow, failures, edits>>

Callback == Notify \/ SendEvent \/ RaiseOverflow
Consume == Receive \/ Unwatch \/ Rewatch \/ HandleNotice

WatcherNext ==
    \/ \E what \in {"change", "error"} : Change(what)
    \/ ChangeUnseen
    \/ Callback \/ Consume

-----------------------------------------------------------------------------
\* Nothing is on its way to the consumer.
Quiet == channel = <<>> /\ kernel = <<>> /\ callback = "idle" /\ consumer = Listening

\* The two ways in which this client goes deaf, until something else changes
\* where it still looks: registering the tree failed and the channel had no
\* room for the news, or the flag was raised after the channel was emptied.
Deaf == Quiet /\ (~watched \/ (overflow /\ blind))

\* Whatever changes under the folder is requested, also what happened while
\* the queue or the channel overflowed or the tree was registered anew.
ChangesAreRequested == unheard ~> (~unheard \/ Deaf)

=============================================================================
