---------------------------- MODULE Surroundings ----------------------------
(***************************************************************************)
(* What the system tells the folders of an account: the watchers of        *)
(* src/core/network.rs, power.rs and suspend.rs, the way their reports     *)
(* take through src/core/account_runtime.rs, and what the gates of the     *)
(* schedulers (environment_gate in src/core/scheduler.rs) make of it.      *)
(*                                                                         *)
(* A scheduler is reduced to these gates: a run is over when it starts,    *)
(* and every request is automatic.  The interval timers are switched off,  *)
(* they would make up for what a report fails to start.                    *)
(***************************************************************************)
EXTENDS Integers, FiniteSets

CONSTANTS
    Members,    \* the folders of the account
    Links,      \* what the machine may be connected to, [metered, spot]
    NoLink,
    NoGate,     \* where a folder without a scheduler has its gates
    NoSpot,     \* not on a Wi-Fi whose name is known
    Wishes,     \* the settings: Wi-Fi names to keep to, if any, and quiet hours
    Midnight,   \* the hours of the clock are 0..(Midnight - 1)
    MaxWakes,   \* bound: timers of a wake-up that are under way
    MaxNews     \* bound: changes of connection, settings and folders

ASSUME SurroundingsAssumption ==
    /\ Midnight \in Nat \ {0} /\ MaxWakes \in Nat /\ MaxNews \in Nat
    /\ \A w \in Wishes : \A q \in w.quiet : q \in (0..(Midnight - 1)) \X (0..(Midnight - 1))

VARIABLES
    connection,  \* what the machine is connected to
    hour,        \* its clock
    wishes,      \* the settings in the file
    ears,        \* the account's watchers, and the settings they go by
    gates,       \* per folder its scheduler, NoGate without one
    wakes,       \* timers that run since a wake-up
    news         \* changes so far

surroundingVars == <<connection, hour, wishes, ears, gates, wakes, news>>

Free == [allowed |-> {}, quiet |-> {}]
NoEars == [there |-> FALSE, online |-> TRUE, wishes |-> Free]

Present == {f \in Members : gates[f] # NoGate}

-----------------------------------------------------------------------------
(* A scheduler.                                                            *)

\* time_in_window: from the start to the end, excluded, over midnight if the
\* start is the later one.
InWindow(now, q) ==
    IF q[1] <= q[2] THEN q[1] <= now /\ now < q[2] ELSE q[1] <= now \/ now < q[2]

\* environment_gate, of an automatic run.
Closed(g) ==
    \/ g.metered
    \/ g.wishes.allowed # {} /\ g.spot \notin g.wishes.allowed
    \/ \E q \in g.wishes.quiet : InWindow(hour, q)

\* Scheduler::new.
NewGate ==
    [online |-> TRUE, metered |-> FALSE, spot |-> NoSpot, wishes |-> Free,
     battery |-> FALSE, dirty |-> FALSE, queue |-> FALSE, start |-> FALSE]

\* request
Requested(g) ==
    IF g.battery THEN [g EXCEPT !.dirty = TRUE]
    ELSE [g EXCEPT !.queue = TRUE, !.start = @ \/ (g.online /\ ~Closed(g))]

\* set_online
WithOnline(g, online) ==
    LET h == [g EXCEPT !.online = online]
    IN  IF online /\ ~g.online THEN Requested(h) ELSE h

\* set_metered
WithMetered(g, metered) ==
    LET h == [g EXCEPT !.metered = metered]
    IN  IF g.metered /\ ~metered /\ g.online THEN Requested(h) ELSE h

\* start, from its idle callback: what it took from the queue goes back when a
\* gate is closed, and is only remembered on battery.
Attempted(g) ==
    IF ~g.queue \/ ~g.online \/ Closed(g) THEN [g EXCEPT !.start = FALSE]
    ELSE [g EXCEPT !.start = FALSE, !.queue = FALSE, !.dirty = @ \/ g.battery]

-----------------------------------------------------------------------------
(* The watchers, and whom their reports reach.                             *)

\* is_available, is_metered and wifi_ssid of the probe.
Available(l) == l # NoLink
MeteredBy(l) == l # NoLink /\ l.metered
SpotOf(l) == IF l = NoLink THEN NoSpot ELSE l.spot

\* WatcherTargets::apply_environment, for one scheduler: the settings, then what
\* the connection costs, and its name last.
Informed(g, w, l) ==
    [WithMetered([g EXCEPT !.wishes = w], MeteredBy(l)) EXCEPT !.spot = SpotOf(l)]

\* WatcherTargets::apply_online, for one scheduler: the request that the return of
\* the network makes is judged by what was read before.
Reached(g, w, l) == Informed(WithOnline(g, Available(l)), w, l)

\* Every scheduler of the account is told.
EachGate(gate) == [f \in Members |-> IF f \in Present THEN gate[f] ELSE NoGate]

News == news < MaxNews /\ news' = news + 1
Quiet == UNCHANGED news

-----------------------------------------------------------------------------
(* What happens.                                                           *)

SurroundingsInit ==
    /\ connection \in Links \cup {NoLink} /\ hour = 0 /\ wishes \in Wishes
    /\ ears = NoEars
    /\ gates = [f \in Members |-> NoGate]
    /\ wakes = 0 /\ news = 0

\* mount_watchers, and apply_environment after it: the network is reported to the
\* new schedulers, then the battery, which nobody reads again; each is asked to
\* synchronize, and then they learn the settings and the connection.
Mount ==
    /\ ~ears.there /\ News
    /\ ears' = [there |-> TRUE, online |-> Available(connection), wishes |-> wishes]
    /\ \E configured \in SUBSET Members, battery \in BOOLEAN :
           LET reported == [WithOnline(NewGate, Available(connection)) EXCEPT !.battery = battery]
           IN  gates' = [f \in Members |->
                   IF f \in configured THEN Informed(Requested(reported), wishes, connection)
                   ELSE NoGate]
    /\ UNCHANGED <<connection, hour, wishes, wakes>>

\* stop, when the account is removed.  The timers go on, for schedulers that are
\* stopped.
Unmount ==
    /\ ears.there /\ News
    /\ ears' = NoEars /\ gates' = [f \in Members |-> NoGate] /\ wakes' = 0
    /\ UNCHANGED <<connection, hour, wishes>>

\* refresh_after_config_change: folders come and go, the new ones are asked to
\* synchronize, and the settings reach them all.
Refreshed ==
    /\ ears.there /\ News
    /\ ears' = [ears EXCEPT !.wishes = wishes]
    /\ \E configured \in SUBSET Members :
           gates' = [f \in Members |->
               IF f \notin configured THEN NoGate
               ELSE Informed(IF f \in Present THEN gates[f] ELSE Requested(NewGate),
                             wishes, connection)]
    /\ UNCHANGED <<connection, hour, wishes, wakes>>

\* The settings are saved.
Wish ==
    /\ News
    /\ wishes' \in Wishes \ {wishes}
    /\ UNCHANGED <<connection, hour, ears, gates, wakes>>

\* network-changed: the watcher passes on that there is a network again, or none
\* any more, and not that it is another one.
ConnectionChanges ==
    /\ News
    /\ connection' \in (Links \cup {NoLink}) \ {connection}
    /\ LET online == Available(connection') IN
           IF ears.there /\ ears.online # online
           THEN /\ ears' = [ears EXCEPT !.online = online]
                /\ gates' = EachGate([f \in Present |-> Reached(gates[f], ears.wishes, connection')])
           ELSE UNCHANGED <<ears, gates>>
    /\ UNCHANGED <<hour, wishes, wakes>>

\* PrepareForSleep says that the machine is awake: in three seconds ...
WakesUp ==
    /\ ears.there /\ wakes < MaxWakes /\ News
    /\ wakes' = wakes + 1
    /\ UNCHANGED <<connection, hour, wishes, ears, gates>>

\* ... apply_resume asks the folders there are by then.
TimerFires ==
    /\ wakes > 0 /\ wakes' = wakes - 1 /\ Quiet
    /\ gates' = EachGate([f \in Present |-> Requested(gates[f])])
    /\ UNCHANGED <<connection, hour, wishes, ears>>

\* A file changed, here or on the server.
Change(f) ==
    /\ f \in Present /\ News
    /\ gates' = [gates EXCEPT ![f] = Requested(@)]
    /\ UNCHANGED <<connection, hour, wishes, ears, wakes>>

\* The idle callback of schedule_start.
Start(f) ==
    /\ f \in Present /\ gates[f].start /\ Quiet
    /\ gates' = [gates EXCEPT ![f] = Attempted(@)]
    /\ UNCHANGED <<connection, hour, wishes, ears, wakes>>

Tick ==
    /\ hour' = (hour + 1) % Midnight /\ Quiet
    /\ UNCHANGED <<connection, wishes, ears, gates, wakes>>

SurroundingsNext ==
    \/ Mount \/ Unmount \/ Refreshed \/ Wish \/ ConnectionChanges
    \/ WakesUp \/ TimerFires \/ Tick
    \/ \E f \in Members : Change(f) \/ Start(f)

SurroundingsSpec == SurroundingsInit /\ [][SurroundingsNext]_surroundingVars

-----------------------------------------------------------------------------
\* The folders of an account live in one world, late ones included: while there is
\* a network none of them waits for one, and they agree about its cost, its name
\* and the settings.
OneWorld ==
    \A f, g \in Present :
        /\ Available(connection) => gates[f].online
        /\ <<gates[f].metered, gates[f].spot, gates[f].wishes>> =
           <<gates[g].metered, gates[g].spot, gates[g].wishes>>

\* What is reported is read on the spot: folders never go by the cost or the name of
\* a connection from before the last report or refresh.
ReadingsAreFresh ==
    ears' # ears =>
        \A f \in Present' :
            /\ gates'[f].metered = MeteredBy(connection')
            /\ gates'[f].spot = SpotOf(connection')

\* What may go and does not, and nobody is coming for it.
Stranded(f) ==
    /\ f \in Present
    /\ LET g == gates[f] IN g.queue /\ ~g.start /\ g.online /\ ~g.battery /\ ~Closed(g)

\* No folder is left behind by a network that comes back, costs nothing any more or
\* is read late, by a wake-up or an attempt, unless the settings restrict Wi-Fi or
\* hours.  These gates open in silence: after each loss of the network its return is
\* even judged by the name that was read without one, and refused.
NobodyLeftBehind ==
    \A f \in Members :
        Stranded(f)' => Stranded(f) \/ ears.wishes # Free \/ ears'.wishes # Free

\* No automatic run starts within the quiet hours, counted from their start around
\* the clock, or on a Wi-Fi the account's settings exclude by the last reading.
RunsKeepQuiet ==
    \A f \in Present :
        f \in Present' /\ gates[f].start /\ gates[f].queue /\ ~gates'[f].queue
        /\ ~gates'[f].dirty =>
            /\ \A q \in gates[f].wishes.quiet :
                   (hour - q[1]) % Midnight >= (q[2] - q[1]) % Midnight
            /\ gates[f].wishes.allowed # {} => gates[f].spot \in gates[f].wishes.allowed

\* After a wake-up every folder that is there when the timer fires has something
\* to do, those that came after the wake-up too.
WakesReachAll ==
    wakes' < wakes => \A f \in Present' : gates'[f].queue \/ gates'[f].dirty

\* What a step does to the folders of an account.
FoldersFollow ==
    OneWorld' /\ ReadingsAreFresh /\ NobodyLeftBehind /\ RunsKeepQuiet /\ WakesReachAll

=============================================================================
