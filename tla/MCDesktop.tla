----------------------------- MODULE MCDesktop -----------------------------
(***************************************************************************)
(* The desktop application around the schedulers for TLC: the account      *)
(* runtimes, the reports of the system to the folders of one of them, the  *)
(* push channel of one, the password of an account, the wizard that adds   *)
(* one and the conflicted copies of a file.  They share no modelled state, *)
(* so a behaviour is the life of one of them and the others rest.          *)
(***************************************************************************)
EXTENDS Accounts, Surroundings, Push, Credentials, Wizard, Conflicts

CONSTANT Parts

VARIABLE part

vars == <<part, accountVars, surroundingVars, pushVars, credentialVars, wizardVars,
          conflictVars>>

\* A part that rests does so in one of its initial states.
Init ==
    /\ part \in Parts
    /\ AccountsInit /\ SurroundingsInit /\ PushInit /\ CredentialsInit /\ WizardInit /\ ConflictsInit
    /\ part # "accounts" => /\ network /\ Configured = {}
                            /\ environment = CHOOSE e \in Environments : TRUE
    /\ part # "surroundings" => connection = NoLink /\ wishes = Free
    /\ part # "push" => switch /\ server = CHOOSE s \in Servers : TRUE
    /\ part # "password" => \A u \in Logins : legacy[u] = None
    /\ part # "wizard" => accounts = {}

\* Everything but the part that lives.
InAccounts ==
    part = "accounts" /\ UNCHANGED <<part, surroundingVars, pushVars, credentialVars,
                                     wizardVars, conflictVars>>
InSurroundings ==
    part = "surroundings" /\ UNCHANGED <<part, accountVars, pushVars, credentialVars,
                                         wizardVars, conflictVars>>
InPush ==
    part = "push" /\ UNCHANGED <<part, accountVars, surroundingVars, credentialVars,
                                 wizardVars, conflictVars>>
InPassword ==
    part = "password" /\ UNCHANGED <<part, accountVars, surroundingVars, pushVars,
                                     wizardVars, conflictVars>>
InWizard ==
    part = "wizard" /\ UNCHANGED <<part, accountVars, surroundingVars, pushVars,
                                   credentialVars, conflictVars>>
InConflicts ==
    part = "conflicts" /\ UNCHANGED <<part, accountVars, surroundingVars, pushVars,
                                      credentialVars, wizardVars>>

Next ==
    \/ InAccounts /\ AccountsNext
    \/ InSurroundings /\ SurroundingsNext
    \/ InPush /\ PushNext
    \/ InPassword /\ CredentialsNext
    \/ InWizard /\ WizardNext
    \/ InConflicts /\ ConflictsNext

Spec == Init /\ [][Next]_vars

\* The threads run, and the main loop runs its timers and continuations; the
\* scheduler starts a run for what changed.  A request of the push worker is
\* answered or fails unless its connection is half dead: Thaws is not fair.
FairSpec ==
    /\ Spec
    /\ \A w \in Slots : /\ WF_vars(InPush /\ WorkerStep(w))
                        /\ WF_vars(InPush /\ HandleEvent(w))
                        /\ WF_vars(InPush /\ ReadClosed(w) /\ ~workers[w].authed)
    /\ WF_vars(InPush /\ ReconnectDue)
    /\ WF_vars(InPush /\ LookupReturns)
    /\ WF_vars(InPush /\ PollDue)
    /\ WF_vars(InWizard /\ WizardRuns)
    /\ WF_vars(InConflicts /\ Sync) /\ WF_vars(InConflicts /\ Resolve)

-----------------------------------------------------------------------------
\* Every folder hears what the system reports and what the settings say, and follows:
\* AccountsHear in any account, FoldersFollow in the gates of one.
FoldersHearAll == [][AccountsHear /\ FoldersFollow]_vars

\* What a resolution made of the file reaches the server: once the users leave
\* the file alone, both sides hold the same and no conflict comes back.
ResolutionsReachServer == part = "conflicts" ~> [](working = held /\ base = held)

\* A resolution does what was asked, for good: the newest copy of a bulk answer
\* stays, and what it made of the file reaches the server.
ResolutionsHold == []BulkEndsOnNewest /\ ResolutionsReachServer

\* Who signed in, in the wizard or again later, has a password that works where
\* the runs look for it.
SecretsAreKept == SignInSticks /\ AddedHasSecret

-----------------------------------------------------------------------------
CONSTANTS a1, a2, f1, f2

Lists == [a \in Accounts |-> IF a = a1 THEN {<<>>, <<f1>>, <<f2, f1>>} ELSE {<<f1>>}]

\* At home, tethered to a phone, and elsewhere; nothing special, the Wi-Fi at home
\* only, quiet hours over midnight.
CONSTANTS s1, s2
Networks == {[metered |-> FALSE, spot |-> s1], [metered |-> TRUE, spot |-> s2],
             [metered |-> FALSE, spot |-> s2]}
Settings == {Free, [Free EXCEPT !.allowed = {s1}], [Free EXCEPT !.quiet = {<<2, 1>>}]}

\* Servers with and without tokens that are worth something, with the troubles
\* that meet.
PushWorlds ==
    {[preauth |-> "bad", offers |-> TRUE, says |-> says,
      troubles |-> {"down", "drop", "network"}] : says \in BOOLEAN}
    \cup {[preauth |-> "good", offers |-> TRUE, says |-> FALSE,
           troubles |-> {"switch", "password", "locked", "remove"}]}
    \cup {[preauth |-> "none", offers |-> offers, says |-> TRUE,
           troubles |-> {"resume", "network", "remove"}] : offers \in BOOLEAN}
    \cup {[preauth |-> "good", offers |-> TRUE, says |-> FALSE,
           troubles |-> {"stall", "down", "network"}]}

=============================================================================
