------------------------------- MODULE Wizard -------------------------------
(***************************************************************************)
(* Signing in from the Add Account wizard (src/ui/setup.rs): the browser   *)
(* flow of Login Flow v2 (src/nextcloud/login_flow.rs), the manual         *)
(* sign-in beside it, and the account that is added at the end.            *)
(*                                                                         *)
(* Requests and keyring calls run on threads of a pool; each has a         *)
(* continuation on the main loop, which starts at its next round and then  *)
(* waits for the thread.  A flow is numbered by the generation it has.     *)
(***************************************************************************)
EXTENDS Integers, FiniteSets

CONSTANTS
    Users,       \* login names, on one server
    MaxPolls,    \* MAX_POLLS, 600 in the program
    MaxSignIns   \* bound: sign-ins the user starts, in the browser or by hand

ASSUME WizardAssumption == MaxPolls \in Nat /\ MaxSignIns \in Nat

NoUser == "nobody"

VARIABLES
    browser,    \* BrowserFlowState
    waiting,    \* whether the page shows that it waits for the browser
    timers,     \* the flows with a poll timer installed
    initiates,  \* the initiate requests out there, with their continuations
    pollers,    \* the poll requests out there, with theirs
    granted,    \* the server: the flows authorized and not yet told of
    sensitive,  \* whether the manual sign-in can be clicked
    manuals,    \* the manual sign-ins under way
    tried,      \* sign-ins started so far
    saving,     \* the browser flow's users being written to the keyring
    secrets,    \* the keyring: users it has a password of
    username,   \* WizardState's user
    page,       \* the page of the wizard
    accounts,   \* the configured accounts
    mixed       \* history: a sign-in ended while another was under way

signIns == <<manuals, tried, sensitive>>
wizardVars == <<browser, waiting, timers, initiates, pollers, granted, signIns, saving,
                secrets, username, page, accounts, mixed>>

NewFlow(generation) ==
    [generation |-> generation, session |-> FALSE, polls |-> 0, inFlight |-> FALSE]

WizardInit ==
    /\ browser = NewFlow(0) /\ waiting = FALSE
    /\ timers = {} /\ initiates = {} /\ pollers = {}
    /\ granted = {}
    /\ sensitive = TRUE /\ manuals = {} /\ tried = 0
    /\ saving = {} /\ username = NoUser /\ page = "authentication"
    /\ \E configured \in SUBSET Users :
           accounts = configured /\ secrets = configured
    /\ mixed = FALSE

-----------------------------------------------------------------------------
(* The browser flow.                                                       *)

\* cancel: the generation moves on.
Cancelled == browser' = NewFlow(browser.generation + 1)

\* A click on the browser row, also while a flow is under way.
BrowserLogin ==
    /\ page = "authentication"
    /\ tried < MaxSignIns /\ tried' = tried + 1
    /\ Cancelled /\ waiting' = TRUE
    /\ initiates' = initiates \cup {[flow |-> browser'.generation, begun |-> FALSE]}
    /\ UNCHANGED <<timers, pollers, granted, sensitive, manuals, saving, secrets, username,
                   page, accounts, mixed>>

CancelClicked ==
    /\ page = "authentication" /\ waiting
    /\ Cancelled /\ waiting' = FALSE
    /\ UNCHANGED <<timers, initiates, pollers, granted, signIns, saving, secrets, username,
                   page, accounts, mixed>>

\* A continuation starts, and gives up if its flow is over already.
InitiateBegins(i) ==
    /\ ~i.begun
    /\ initiates' = (initiates \ {i}) \cup
           IF browser.generation = i.flow THEN {[i EXCEPT !.begun = TRUE]} ELSE {}
    /\ UNCHANGED <<browser, waiting, timers, pollers, granted, signIns, saving, secrets,
                   username, page, accounts, mixed>>

\* browser_flow_failed: whatever flow there is.
Failed == Cancelled /\ waiting' = FALSE

InitiateFails(i) ==
    /\ i.begun /\ Failed
    /\ initiates' = initiates \ {i}
    /\ UNCHANGED <<timers, pollers, granted, signIns, saving, secrets, username, page,
                   accounts, mixed>>

InitiateSucceeds(i) ==
    /\ i.begun /\ initiates' = initiates \ {i}
    /\ IF browser.generation = i.flow
       THEN /\ browser' = [browser EXCEPT !.session = TRUE]
            /\ timers' = timers \cup {i.flow}
       ELSE UNCHANGED <<browser, timers>>
    /\ UNCHANGED <<waiting, pollers, granted, signIns, saving, secrets, username, page,
                   accounts, mixed>>

\* In the browser, the user signs in as u.
Granted(f, u) ==
    /\ \A g \in granted : g.flow # f
    /\ granted' = granted \cup {[flow |-> f, user |-> u]}
    /\ UNCHANGED <<browser, waiting, timers, initiates, pollers, signIns, saving, secrets,
                   username, page, accounts, mixed>>

\* Mutant: polls are not counted.
Uncounted(polls) == polls

Counted(polls) == polls + 1

\* The tick of a timer whose flow is over, or was polled MAX_POLLS times.
TickStops(f) ==
    LET over == browser.generation # f \/ ~browser.session
        polls == IF over \/ browser.inFlight THEN browser.polls ELSE Counted(browser.polls)
    IN  /\ f \in timers
        /\ over \/ polls > MaxPolls
        /\ timers' = timers \ {f}
        /\ browser' = IF over THEN browser ELSE [browser EXCEPT !.polls = polls, !.session = FALSE]
        /\ waiting' = (waiting /\ polls <= MaxPolls)
        /\ UNCHANGED <<initiates, pollers, granted, signIns, saving, secrets, username, page,
                       accounts, mixed>>

\* begin_poll lets this tick poll.
TickPolls(f) ==
    /\ f \in timers /\ browser.generation = f /\ browser.session /\ ~browser.inFlight
    /\ Counted(browser.polls) <= MaxPolls
    /\ browser' = [browser EXCEPT !.polls = Counted(@), !.inFlight = TRUE]
    /\ pollers' = pollers \cup {[flow |-> f, number |-> Counted(browser.polls), begun |-> FALSE]}
    /\ UNCHANGED <<waiting, timers, initiates, granted, signIns, saving, secrets, username,
                   page, accounts, mixed>>

\* The poll is no longer called pending when its continuation starts to wait.
PollBegins(p) ==
    /\ ~p.begun
    /\ browser' = [browser EXCEPT !.inFlight = FALSE]
    /\ pollers' = (pollers \ {p}) \cup
           IF browser.generation = p.flow THEN {[p EXCEPT !.begun = TRUE]} ELSE {}
    /\ UNCHANGED <<waiting, timers, initiates, granted, signIns, saving, secrets, username,
                   page, accounts, mixed>>

\* 404, or no answer: then the server may have told of the grant in vain.
PollPending(p) ==
    /\ p.begun /\ pollers' = pollers \ {p}
    /\ granted' \in {granted, {g \in granted : g.flow # p.flow}}
    /\ UNCHANGED <<browser, waiting, timers, initiates, signIns, saving, secrets, username,
                   page, accounts, mixed>>

PollFails(p) ==
    /\ p.begun /\ pollers' = pollers \ {p}
    /\ Failed
    /\ UNCHANGED <<timers, initiates, granted, signIns, saving, secrets, username, page,
                   accounts, mixed>>

\* browser_flow_succeeded: whatever flow there is.  The server tells once.
PollAuthorized(p) ==
    \E g \in granted :
        /\ p.begun /\ g.flow = p.flow
        /\ pollers' = pollers \ {p} /\ granted' = granted \ {g}
        /\ Cancelled /\ waiting' = FALSE
        /\ username' = g.user /\ saving' = saving \cup {g.user}
        /\ mixed' = (mixed \/ manuals # {} \/ saving # {} \/ page # "authentication")
        /\ UNCHANGED <<timers, initiates, signIns, secrets, page, accounts>>

\* An inline error; the page stays.
Refused == UNCHANGED <<secrets, page>>

\* The keyring takes the app password, or refuses.
Saved(u) ==
    /\ u \in saving /\ saving' = saving \ {u}
    /\ \/ secrets' = secrets \cup {u} /\ page' = IF page = "closed" THEN page ELSE "folders"
       \/ Refused
    /\ UNCHANGED <<browser, waiting, timers, initiates, pollers, granted, signIns, username,
                   accounts, mixed>>

-----------------------------------------------------------------------------
(* The manual sign-in.                                                     *)

ManualLogin(u) ==
    /\ page = "authentication" /\ sensitive /\ tried < MaxSignIns
    /\ tried' = tried + 1 /\ sensitive' = FALSE
    /\ manuals' = manuals \cup {[user |-> u, step |-> "checking", number |-> tried]}
    /\ UNCHANGED <<browser, waiting, timers, initiates, pollers, granted, saving, secrets,
                   username, page, accounts, mixed>>

ManualRefused(m) ==
    /\ m.step = "checking"
    /\ manuals' = manuals \ {m} /\ sensitive' = TRUE
    /\ UNCHANGED <<browser, waiting, timers, initiates, pollers, granted, tried, saving,
                   secrets, username, page, accounts, mixed>>

\* An account is not added twice, and its password not written over (#267).
ManualChecked(m) ==
    /\ m.step = "checking" /\ username' = m.user
    /\ IF m.user \in accounts
       THEN manuals' = manuals \ {m} /\ sensitive' = TRUE
       ELSE manuals' = (manuals \ {m}) \cup {[m EXCEPT !.step = "saving"]} /\ UNCHANGED sensitive
    /\ mixed' = (mixed \/ manuals # {m} \/ saving # {} \/ page # "authentication")
    /\ UNCHANGED <<browser, waiting, timers, initiates, pollers, granted, tried, saving,
                   secrets, page, accounts>>

ManualSaved(m) ==
    /\ m.step = "saving" /\ manuals' = manuals \ {m}
    /\ \/ /\ secrets' = secrets \cup {m.user}
          /\ page' = IF page = "closed" THEN page ELSE "folders"
          /\ UNCHANGED sensitive
       \/ sensitive' = TRUE /\ Refused
    /\ UNCHANGED <<browser, waiting, timers, initiates, pollers, granted, tried, saving,
                   username, accounts, mixed>>

-----------------------------------------------------------------------------
(* The pages.                                                              *)

Back ==
    /\ page = "folders" /\ page' = "authentication"
    /\ UNCHANGED <<browser, waiting, timers, initiates, pollers, granted, signIns, saving,
                   secrets, username, accounts, mixed>>

\* By way of the server page, configure_authentication.
ServerChosenAgain ==
    /\ page = "authentication" /\ ~sensitive /\ sensitive' = TRUE
    /\ UNCHANGED <<browser, waiting, timers, initiates, pollers, granted, manuals, tried,
                   saving, secrets, username, page, accounts, mixed>>

\* finish_setup: add_account refuses a duplicate, and the wizard stays.
FinishSetup ==
    /\ page = "folders" /\ username \notin accounts
    /\ accounts' = accounts \cup {username} /\ page' = "closed"
    /\ UNCHANGED <<browser, waiting, timers, initiates, pollers, granted, signIns, saving,
                   secrets, username, mixed>>

WizardRuns ==
    \/ \E i \in initiates : InitiateBegins(i) \/ InitiateFails(i) \/ InitiateSucceeds(i)
    \/ \E f \in timers : TickStops(f) \/ TickPolls(f)
    \/ \E p \in pollers : PollBegins(p) \/ PollPending(p) \/ PollFails(p) \/ PollAuthorized(p)
    \/ \E u \in saving : Saved(u)
    \/ \E m \in manuals : ManualRefused(m) \/ ManualChecked(m) \/ ManualSaved(m)

WizardNext ==
    \/ WizardRuns
    \/ BrowserLogin \/ CancelClicked \/ Back \/ ServerChosenAgain \/ FinishSetup
    \/ \E u \in Users : ManualLogin(u) \/ \E f \in timers : Granted(f, u)

WizardSpec == WizardInit /\ [][WizardNext]_wizardVars

-----------------------------------------------------------------------------
\* The wizard does not wait for the browser for ever: the flow succeeds, fails,
\* is cancelled or is given up after MAX_POLLS polls, whatever the server says.
FlowsEnd == waiting ~> ~waiting

\* The keyring has a password for every account the wizard adds, unless a
\* sign-in ended while another was under way or already through.
AddedHasSecret == mixed \/ accounts \subseteq secrets
=============================================================================
