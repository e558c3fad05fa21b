-------------------------------- MODULE Push --------------------------------
(***************************************************************************)
(* The notify_push channel of one account: NotifyPushClient (push.rs), its *)
(* worker threads and their event queues, the part of the account runtime  *)
(* that drives it (network, resume, settings switch, removal) and the      *)
(* launcher's keyring lookup that configures it once (main.rs).            *)
(*                                                                         *)
(* The client exists to tell the folders of changes on the server, and the *)
(* schedulers drop their interval polls while the last state it reported   *)
(* is "connected": unseen is a change no folder has synchronized yet.      *)
(*                                                                         *)
(* The generation counter is compared for equality only, so a worker       *)
(* carries current: its generation is the client's.                        *)
(***************************************************************************)
EXTENDS Integers, Sequences, FiniteSets

CONSTANTS
    Slots,          \* worker threads that may exist at once
    Servers,        \* the servers to explore, see Server
    MaxEvents,      \* bound: events a worker may have queued
    MaxTroubles,    \* bound: what happens around the client
    MaxChanges      \* bound: remote changes

\* MAX_PUSH_AUTH_ATTEMPTS
MaxAttempts == 3

\* preauth: what its pre-auth tokens are worth; offers: it advertises
\* notify_push; says: it answers wrong credentials with a text first;
\* troubles: what may happen to its account.
Troubles == {"down", "drop", "network", "resume", "switch", "password", "remove", "locked",
             "stall"}
Server == [preauth : {"none", "good", "bad"}, offers : BOOLEAN, says : BOOLEAN,
           troubles : SUBSET Troubles]

ASSUME PushAssumption ==
    /\ Servers \subseteq Server /\ Slots \subseteq Nat \ {0}
    /\ {MaxEvents, MaxTroubles, MaxChanges} \subseteq Nat

VARIABLES
    server, up, accepts,        \* the server, whether it answers, its password
    link, switch, secret,    \* the machine: network, setting, keyring
    lookup,     \* the launcher's keyring lookup: the setting it captured
    removed,    \* the account was removed
    client,     \* PushInner
    workers,    \* [Slots -> Worker]
    reported,   \* the last state passed to store_push_state
    unseen,     \* a remote change no folder has synchronized
    troubles, changes           \* spent bounds

pushVars == <<server, up, accepts, link, switch, secret, lookup, removed,
              client, workers, reported, unseen, troubles, changes>>
world == <<server, up, accepts, link, switch, secret, lookup, removed>>
bounds == <<troubles, changes>>

Passwords == {"old", "new"}
Client == [configured : BOOLEAN, password : Passwords \cup {"none"},
           enabled : BOOLEAN, online : BOOLEAN, force : BOOLEAN,
           failures : 0..MaxAttempts, connection : Slots \cup {0}, timer : BOOLEAN]

Kinds == {"failed", "auth", "unsupported", "authenticated", "hint", "closed"}
Event == [kind : Kinds, mode : {"preauth", "password"}, authed : BOOLEAN]
Worker == [stage : {"free", "discover", "socket", "open", "gone"},
           current : BOOLEAN, stop : BOOLEAN, force : BOOLEAN,
           password : Passwords \cup {"none"}, mode : {"preauth", "password"},
           authed : BOOLEAN, rejected : BOOLEAN, stalled : BOOLEAN,
           events : Seq(Event)]

NoWorker == [stage |-> "free", current |-> FALSE, stop |-> FALSE, force |-> FALSE,
             password |-> "none", mode |-> "password", authed |-> FALSE,
             rejected |-> FALSE, stalled |-> FALSE, events |-> <<>>]

PushStates == {"disabled", "connecting", "connected", "reconnecting",
               "auth_required", "unsupported"}

\* store_push_state hands the schedulers "connected"; request() then drops
\* Trigger::RemoteInterval.
PollsSkipped == reported = "connected"

\* A sync of the folders succeeds.
CanSync == link /\ up /\ accepts = secret /\ ~removed

PushInit ==
    /\ server \in Servers /\ up = TRUE /\ accepts = "old"
    /\ link = TRUE /\ switch \in BOOLEAN /\ secret = "old"
    /\ lookup = IF switch THEN "on" ELSE "off"
    /\ removed = FALSE
    /\ client = [configured |-> FALSE, password |-> "none", enabled |-> FALSE,
                 online |-> TRUE, force |-> FALSE, failures |-> 0,
                 connection |-> 0, timer |-> FALSE]
    /\ workers = [w \in Slots |-> NoWorker]
    /\ reported = "disabled" /\ unseen = FALSE
    /\ troubles = 0 /\ changes = 0

-----------------------------------------------------------------------------
(* The client's own operations, on the main thread.                        *)

\* Mutant: the stopped worker still counts as the connection.
DisconnectedHalfway(c) == [c EXCEPT !.timer = FALSE, !.force = FALSE]

\* disconnect: the generation moves on, the timer and the worker stop.
Disconnected(c) == [c EXCEPT !.connection = 0, !.timer = FALSE, !.force = FALSE]

Halted(ws, connection) ==
    [w \in Slots |-> IF w = connection
                     THEN [ws[w] EXCEPT !.current = FALSE, !.stop = TRUE]
                     ELSE [ws[w] EXCEPT !.current = FALSE]]

\* connect: a new generation, unless the channel may not run or already does.
\* otherwise: what was reported before.
Connect(c, ws, otherwise) ==
    IF ~(c.enabled /\ c.online /\ c.configured /\ c.connection = 0)
    THEN client' = c /\ workers' = ws /\ reported' = otherwise
    ELSE \E s \in Slots :
            /\ ws[s] = NoWorker
            /\ client' = [c EXCEPT !.connection = s, !.timer = FALSE]
            /\ workers' = [w \in Slots |->
                   IF w = s
                   THEN [NoWorker EXCEPT !.stage = "discover", !.current = TRUE,
                                         !.force = c.force, !.password = c.password]
                   ELSE [ws[w] EXCEPT !.current = FALSE]]
            /\ reported' = "connecting"

\* configure: whatever changed disconnects first.
Configure(password, on) ==
    LET c == [client EXCEPT !.configured = TRUE, !.password = password, !.enabled = on]
    IN  IF c # client
        THEN IF on /\ c.online
             THEN Connect(Disconnected(c), Halted(workers, client.connection), "disabled")
             ELSE /\ client' = Disconnected(c)
                  /\ workers' = Halted(workers, client.connection)
                  /\ reported' = "disabled"
        ELSE Connect(c, workers, IF on THEN reported ELSE "disabled")

\* set_enabled
SetEnabled(on) ==
    IF client.enabled = on THEN UNCHANGED <<client, workers, reported>>
    ELSE IF on THEN Connect([client EXCEPT !.enabled = TRUE], workers, reported)
    ELSE /\ client' = Disconnected([client EXCEPT !.enabled = FALSE])
         /\ workers' = Halted(workers, client.connection)
         /\ reported' = "disabled"

\* set_online: offline keeps the configuration and reports nothing; online
\* forgives the failed logins.
SetOnline(on) ==
    IF on THEN Connect([client EXCEPT !.online = TRUE, !.failures = 0], workers, reported)
    ELSE /\ client' = Disconnected([client EXCEPT !.online = FALSE])
         /\ workers' = Halted(workers, client.connection)
         /\ UNCHANGED reported

\* reconnect: the backoff timer ran out.
ReconnectDue ==
    /\ client.timer
    /\ Connect([client EXCEPT !.timer = FALSE, !.connection = 0], workers, reported)
    /\ UNCHANGED <<world, unseen, bounds>>

-----------------------------------------------------------------------------
(* The worker thread.                                                      *)

Send(w, kind) ==
    Append(workers[w].events,
           [kind |-> kind, mode |-> workers[w].mode, authed |-> workers[w].authed])

\* The worker moves to stage, having sent the event kind ("" sends none).
Becomes(w, worker, kind) ==
    /\ Len(workers[w].events) < MaxEvents
    /\ workers' = [workers EXCEPT ![w] =
           IF kind = "" THEN worker ELSE [worker EXCEPT !.events = Send(w, kind)]]
    /\ UNCHANGED <<world, client, reported, unseen, bounds>>

Leaves(w, kind) == Becomes(w, [workers[w] EXCEPT !.stage = "gone"], kind)

\* A stopped worker ends within a read timeout; its events are all stale.
WorkerStops(w) ==
    /\ workers[w].stop
    /\ workers' = [workers EXCEPT ![w] = NoWorker]
    /\ UNCHANGED <<world, client, reported, unseen, bounds>>

\* The capabilities request, then the pre-auth token if there is one to be had:
\* a refused token request falls back to the password.
Discover(w) ==
    LET worker == workers[w]
        answers == link /\ up
    IN  /\ worker.stage = "discover" /\ ~worker.stop /\ ~worker.stalled
        /\ \/ ~answers /\ Leaves(w, "failed")
           \/ answers /\ worker.password # accepts /\ Leaves(w, "auth")
           \/ answers /\ worker.password = accepts /\ ~server.offers /\ Leaves(w, "unsupported")
           \/ /\ answers /\ worker.password = accepts /\ server.offers
              /\ \E mode \in {"password"} \cup
                         (IF server.preauth # "none" /\ ~worker.force THEN {"preauth"} ELSE {}) :
                    Becomes(w, [worker EXCEPT !.stage = "socket", !.mode = mode], "")

\* The websocket handshake and the credentials.
OpenSocket(w) ==
    /\ workers[w].stage = "socket" /\ ~workers[w].stop /\ ~workers[w].stalled
    /\ IF link /\ up THEN Becomes(w, [workers[w] EXCEPT !.stage = "open"], "")
                        ELSE Leaves(w, "failed")

GoodCredentials(w) ==
    IF workers[w].mode = "preauth" THEN server.preauth = "good"
                                   ELSE workers[w].password = accepts

Listening(w) == workers[w].stage = "open" /\ ~workers[w].stop

ReadAuthenticated(w) ==
    /\ Listening(w) /\ ~workers[w].authed /\ ~workers[w].rejected
    /\ link /\ up /\ GoodCredentials(w)
    /\ Becomes(w, [workers[w] EXCEPT !.authed = TRUE], "authenticated")

\* "invalid credentials" is an event like any other: the loop goes on.
ReadInvalid(w) ==
    /\ Listening(w) /\ ~workers[w].authed /\ ~workers[w].rejected
    /\ link /\ up /\ server.says /\ ~GoodCredentials(w)
    /\ Becomes(w, [workers[w] EXCEPT !.rejected = TRUE], "auth")

\* The server ends the session: wrong credentials, or for reasons of its own.
ReadClosed(w) ==
    /\ Listening(w)
    /\ \/ /\ ~workers[w].authed /\ ~GoodCredentials(w)
          /\ server.says => workers[w].rejected
          /\ Leaves(w, "closed")
       \/ /\ "drop" \in server.troubles /\ troubles < MaxTroubles
          /\ Len(workers[w].events) < MaxEvents
          /\ workers' = [workers EXCEPT ![w] =
                 [workers[w] EXCEPT !.stage = "gone", !.events = Send(w, "closed")]]
          /\ troubles' = troubles + 1
          /\ UNCHANGED <<world, client, reported, unseen, changes>>

\* Nothing heard for PUSH_HEARTBEAT_TIMEOUT_MS.
HeartbeatTimeout(w) ==
    /\ Listening(w) /\ ~(link /\ up)
    /\ Leaves(w, "closed")

-----------------------------------------------------------------------------
(* The consumer on the main thread: stale generations are dropped.         *)

Consumed(ws, w) ==
    LET rest == Tail(ws[w].events)
    IN  [ws EXCEPT ![w] = IF ws[w].stage = "gone" /\ rest = <<>> THEN NoWorker
                          ELSE [ws[w] EXCEPT !.events = rest]]

\* handle_event(Closed): the pre-auth token gives way to the password, and
\* the third login that fails in a row parks the channel.
AfterClose(event) ==
    [client EXCEPT
        !.connection = 0,
        !.force = IF event.authed THEN @ ELSE event.mode = "preauth",
        !.failures = IF event.authed \/ @ = MaxAttempts THEN @ ELSE @ + 1]

\* handle_event(AuthRequired): no timer, the channel is parked.
AfterRejection == [client EXCEPT !.connection = 0]

Handle(event) ==
    \/ /\ event.kind = "failed"
       /\ client' = [client EXCEPT !.connection = 0, !.timer = TRUE]
       /\ reported' = "reconnecting" /\ UNCHANGED unseen
    \/ /\ event.kind = "auth"
       /\ client' = AfterRejection
       /\ reported' = "auth_required" /\ UNCHANGED unseen
    \/ /\ event.kind = "unsupported"
       /\ client' = [client EXCEPT !.connection = 0]
       /\ reported' = "unsupported" /\ UNCHANGED unseen
    \/ /\ event.kind = "authenticated"
       /\ client' = [client EXCEPT !.force = FALSE, !.failures = 0]
       /\ reported' = "connected" /\ UNCHANGED unseen
    \/ /\ event.kind = "hint"       \* apply_remote_push
       /\ unseen' = (unseen /\ ~CanSync)
       /\ UNCHANGED <<client, reported>>
    \/ /\ event.kind = "closed"
       /\ LET c == AfterClose(event) IN
          IF c.failures = MaxAttempts
          THEN client' = c /\ reported' = "auth_required"
          ELSE client' = [c EXCEPT !.timer = TRUE] /\ reported' = "reconnecting"
       /\ UNCHANGED unseen

\* Mutant: a worker the client has given up still speaks for it.
FreshAnyway(w) == TRUE

\* spawn_consumer compares the event's generation with the client's.
Fresh(w) == workers[w].current

HandleEvent(w) ==
    /\ workers[w].events # <<>>
    /\ IF Fresh(w) THEN Handle(Head(workers[w].events))
                   ELSE UNCHANGED <<client, reported, unseen>>
    /\ workers' = Consumed(workers, w)
    /\ UNCHANGED <<world, bounds>>

-----------------------------------------------------------------------------
(* What drives the client, and the world around it.                        *)

Trouble(kind) ==
    /\ kind \in server.troubles /\ troubles < MaxTroubles
    /\ troubles' = troubles + 1 /\ UNCHANGED changes

\* The launcher's lookup returns: it configures the client with the setting it
\* captured at startup, or leaves it be when the keyring is locked.
LookupReturns ==
    /\ lookup # "done" /\ lookup' = "done"
    /\ \/ Configure(secret, lookup = "on")
       \/ "locked" \in server.troubles /\ UNCHANGED <<client, workers, reported>>
    /\ UNCHANGED <<server, up, accepts, link, switch, secret, removed, unseen, bounds>>

\* apply_online: the schedulers first (NetworkRestored runs a sync), then push.
PushNetworkChanges ==
    /\ Trouble("network") /\ ~removed
    /\ link' = ~link
    /\ unseen' = (unseen /\ ~(link' /\ up /\ accepts = secret))
    /\ SetOnline(link')
    /\ UNCHANGED <<server, up, accepts, switch, secret, lookup, removed>>

\* apply_resume: the socket is dropped, and every folder syncs.
Resume ==
    /\ Trouble("resume") /\ ~removed
    /\ client' = Disconnected(client)
    /\ workers' = Halted(workers, client.connection)
    /\ unseen' = (unseen /\ ~CanSync)
    /\ UNCHANGED <<world, reported>>

\* apply_account: the preference changed in Settings.
SwitchFlips ==
    /\ Trouble("switch") /\ ~removed
    /\ switch' = ~switch
    /\ SetEnabled(switch')
    /\ UNCHANGED <<server, up, accepts, link, secret, lookup, removed, unseen>>

\* AccountRuntime::stop: the watchers are gone, the lookup is not.
StopRuntime ==
    /\ Trouble("remove") /\ ~removed
    /\ removed' = TRUE
    /\ client' = Disconnected(client)
    /\ workers' = Halted(workers, client.connection)
    /\ reported' = "disabled"
    /\ UNCHANGED <<server, up, accepts, link, switch, secret, lookup, unseen>>

\* A connection is half dead while its worker discovers or opens the socket:
\* read_retry goes on after every read that times out, until it is stopped.
Stalls(w) ==
    /\ Trouble("stall")
    /\ workers[w].stage \in {"discover", "socket"} /\ ~workers[w].stalled
    /\ workers' = [workers EXCEPT ![w].stalled = TRUE]
    /\ UNCHANGED <<world, client, reported, unseen>>

\* The other end speaks again, or resets the connection.
Thaws(w) ==
    /\ workers[w].stage \in {"discover", "socket"}
    /\ workers[w].stalled /\ ~workers[w].stop
    /\ workers' = [workers EXCEPT ![w].stalled = FALSE]
    /\ UNCHANGED <<world, client, reported, unseen, bounds>>

ServerFlips ==
    /\ Trouble("down") /\ up' = ~up
    /\ UNCHANGED <<server, accepts, link, switch, secret, lookup, removed,
                   client, workers, reported, unseen>>

\* The password is changed on the server...
PasswordChanges ==
    /\ Trouble("password") /\ accepts' = "new"
    /\ UNCHANGED <<server, up, link, switch, secret, lookup, removed,
                   client, workers, reported, unseen>>

\* ... and entered again: credentials_renewed syncs every folder; nothing
\* hands the new password to the push client.
PasswordRenewed ==
    /\ accepts # secret /\ ~removed /\ secret' = accepts
    /\ unseen' = (unseen /\ ~(link /\ up))
    /\ UNCHANGED <<server, up, accepts, link, switch, lookup, removed,
                   client, workers, reported, bounds>>

\* Somebody else changes a file; the server tells every authenticated socket
\* it can reach.
RemoteChange ==
    /\ changes < MaxChanges /\ changes' = changes + 1
    /\ unseen' = TRUE
    /\ \A w \in Slots : Len(workers[w].events) < MaxEvents
    /\ workers' = [w \in Slots |->
           IF Listening(w) /\ workers[w].authed /\ link /\ up
           THEN [workers[w] EXCEPT !.events = Send(w, "hint")] ELSE workers[w]]
    /\ UNCHANGED <<world, client, reported, troubles>>

\* The remote interval fires in a folder's scheduler.
PollDue ==
    /\ ~PollsSkipped /\ CanSync
    /\ unseen' = FALSE
    /\ UNCHANGED <<world, client, workers, reported, bounds>>

WorkerStep(w) ==
    \/ WorkerStops(w) \/ Discover(w) \/ OpenSocket(w)
    \/ ReadAuthenticated(w) \/ ReadInvalid(w) \/ HeartbeatTimeout(w)

Around ==
    \/ PushNetworkChanges \/ Resume \/ SwitchFlips \/ StopRuntime
    \/ ServerFlips \/ PasswordChanges \/ PasswordRenewed \/ RemoteChange

PushNext ==
    \/ \E w \in Slots :
        WorkerStep(w) \/ ReadClosed(w) \/ HandleEvent(w) \/ Stalls(w) \/ Thaws(w)
    \/ ReconnectDue \/ LookupReturns \/ PollDue \/ Around

PushSpec == PushInit /\ [][PushNext]_pushVars

-----------------------------------------------------------------------------
\* Two sockets never serve one client: a worker nobody told to stop is the
\* client's connection, has nothing left to do, or is one whose credentials
\* the server rejected in words, which the client forgets without stopping.
OneSocket ==
    \A w \in Slots :
        workers[w].stage \in {"discover", "socket", "open"} =>
            \/ workers[w].stop \/ client.connection = w \/ workers[w].rejected

\* The interval polls are dropped only while an authenticated worker serves the
\* client.  Offline nothing polls anyway; after a resume the socket is gone and
\* the schedulers were not told (apply_resume disconnects without a report).
PollsCovered ==
    PollsSkipped /\ link /\ "resume" \notin server.troubles =>
        \E w \in Slots : /\ client.connection = w
                         /\ workers[w].authed /\ ~workers[w].stop

\* The channel is what the client takes it for: one socket, and no poll dropped
\* on the word of a socket that is gone.
PushIsSound == OneSocket /\ PollsCovered

\* Once all is well and stays so, the channel does not linger between states:
\* it serves, or it is parked where only the user can help.  The one other end
\* is a connection half dead for good: nothing limits how long the requests and
\* the handshake of a worker may take, so it keeps "connecting" (and the
\* schedulers poll meanwhile).
Favourable == link /\ up /\ ~removed /\ client.enabled /\ client.configured
Settled ==
    \/ reported \in {"auth_required", "unsupported"}
    \/ \E w \in Slots : client.connection = w /\ workers[w].authed

Stuck == \E w \in Slots : client.connection = w /\ workers[w].stalled

PushSettles ==
    "resume" \notin server.troubles =>
        (<>[]Favourable => []<>Settled \/ <>[]Stuck)

\* "On wake: drop the push socket so it reconnects" (account_runtime.rs): with a
\* resume, too, the channel comes back.
PushReconnects == <>[]Favourable => []<>Settled \/ <>[]Stuck
=============================================================================
