--------------------------- MODULE SettingsProofs ---------------------------
(***************************************************************************)
(* The settings file is whole and keeps what was saved, for any number of  *)
(* instances, accounts, saves and mishaps; the settings pages and the file *)
(* agree, for any accounts, folders, files to import and number of         *)
(* choices; the window shows what is there, for any reports, changes of    *)
(* the configuration and failures to read and write it; and the log shows  *)
(* what was written to it, for any bytes, sizes of the blocks and days.    *)
(***************************************************************************)
EXTENDS MCTransfers, ListTheorems, SequenceTheorems, TLAPS

-----------------------------------------------------------------------------
(* The settings file.                                                      *)

Configs == SUBSET Entries
Steps == {"rest", "open", "write", "sync", "rename", "directory"}

\* What is about to be renamed is the writer's own content, and synced.
StagedIsMine ==
    \A p \in Processes :
        writer[p].at = "rename" => staged[p] = [holds |-> writer[p].config, synced |-> TRUE]

\* The file holds what was put in place last.
LastIsInPlace ==
    /\ turns \in Nat
    /\ \A p \in Processes : writer[p].turn \in 0..turns
    /\ [turn |-> turns, config |-> settings] \in renames

SettingsInv ==
    /\ writer \in [Processes -> [at : Steps, config : Configs, turn : Nat]]
    /\ DOMAIN staged = Processes
    /\ settings \in Configs /\ afterCut \subseteq Configs
    /\ StagedIsMine /\ LastIsInPlace /\ SavesSurvive

LEMMA SettingsInvInit == SettingsInit => SettingsInv
  BY DEF SettingsInit, SettingsInv, AtRest, Configs, Steps, StagedIsMine, LastIsInPlace,
         SavesSurvive

\* A step of one writer that touches at most its own staging file.
LEMMA OwnStepKeepsInv ==
    ASSUME SettingsInv, NEW p \in Processes,
           NEW w \in [at : Steps, config : Configs, turn : {0, writer[p].turn}],
           writer' = [writer EXCEPT ![p] = w],
           DOMAIN staged' = Processes,
           \A q \in Processes \ {p} : staged'[q] = staged[q],
           w.at = "rename" => staged'[p] = [holds |-> w.config, synced |-> TRUE],
           UNCHANGED <<settings, afterCut, turns, renames>>
    PROVE  SettingsInv'
<1>1. writer[p].turn \in Nat BY DEF SettingsInv
<1>2. w \in [at : Steps, config : Configs, turn : Nat] BY <1>1
<1>3. writer' \in [Processes -> [at : Steps, config : Configs, turn : Nat]]
  BY <1>2 DEF SettingsInv
<1>4. /\ writer'[p] = w
      /\ \A q \in Processes \ {p} : writer'[q] = writer[q]
  BY DEF SettingsInv
<1>5. StagedIsMine' BY <1>4 DEF SettingsInv, StagedIsMine
<1>6. LastIsInPlace'
  <2>1. w.turn \in 0..turns BY DEF SettingsInv, LastIsInPlace
  <2>2. QED BY <1>4, <2>1 DEF SettingsInv, LastIsInPlace
<1>7. SavesSurvive' BY DEF SettingsInv, SavesSurvive
<1>8. QED BY <1>3, <1>5, <1>6, <1>7 DEF SettingsInv

LEMMA LoadKeepsInv ==
    ASSUME SettingsInv, NEW p \in Processes, Load(p)
    PROVE  SettingsInv'
<1>1. PICK config \in Mutated(settings) :
        writer' = [writer EXCEPT ![p] = [at |-> "open", config |-> config, turn |-> 0]]
  BY DEF Load
<1>2. config \in Configs BY DEF SettingsInv, Mutated, Configs
<1>3. QED BY <1>1, <1>2, OwnStepKeepsInv DEF Load, SettingsInv, Steps

\* open, write_all and sync_all work on the writer's own staging file.
LEMMA StagingKeepsInv ==
    ASSUME SettingsInv, NEW p \in Processes,
           OpenStaging(p) \/ WriteStaging(p) \/ SyncStaging(p)
    PROVE  SettingsInv'
<1> DEFINE Moved(at) == [writer[p] EXCEPT !.at = at]
<1>1. \A at \in Steps : Moved(at) \in [at : Steps, config : Configs, turn : {0, writer[p].turn}]
  BY DEF SettingsInv
<1>2. CASE OpenStaging(p)
  BY <1>1, <1>2, OwnStepKeepsInv, Moved("write").at = "write"
  DEF OpenStaging, Goes, TemporaryPath, SettingsInv, Steps
<1>3. CASE WriteStaging(p)
  BY <1>1, <1>3, OwnStepKeepsInv, Moved("sync").at = "sync"
  DEF WriteStaging, Goes, TemporaryPath, SettingsInv, Steps
<1>4. CASE SyncStaging(p)
  <2>1. Moved("rename").at = "rename" /\ Moved("rename").config = writer[p].config
    BY DEF SettingsInv
  <2>2. QED BY <1>1, <1>4, <2>1, OwnStepKeepsInv
            DEF SyncStaging, Goes, TemporaryPath, SettingsInv, Steps
<1>5. QED BY <1>2, <1>3, <1>4

LEMMA ReplaceKeepsInv ==
    ASSUME SettingsInv, NEW p \in Processes, ReplaceSettings(p)
    PROVE  SettingsInv'
<1> DEFINE new == writer[p].config
<1>1. staged[p] = [holds |-> new, synced |-> TRUE]
  BY DEF ReplaceSettings, SettingsInv, StagedIsMine
<1>2. /\ settings' = new /\ afterCut' = afterCut \cup {new}
      /\ turns' = turns + 1
      /\ renames' = renames \cup {[turn |-> turns + 1, config |-> new]}
      /\ staged' = [staged EXCEPT ![p] = NoFile]
      /\ writer' = [writer EXCEPT ![p] = [@ EXCEPT !.at = "directory", !.turn = turns + 1]]
  BY <1>1 DEF ReplaceSettings, TemporaryPath
<1>3. new \in Configs /\ turns \in Nat BY DEF SettingsInv, LastIsInPlace
<1>4. writer' \in [Processes -> [at : Steps, config : Configs, turn : Nat]]
  <2> DEFINE w == [writer[p] EXCEPT !.at = "directory", !.turn = turns + 1]
  <2>1. w \in [at : Steps, config : Configs, turn : Nat]
    <3>1. writer[p] \in [at : Steps, config : Configs, turn : Nat] BY DEF SettingsInv
    <3>2. turns + 1 \in Nat BY <1>3
    <3>3. "directory" \in Steps BY DEF Steps
    <3>4. QED BY <3>1, <3>2, <3>3
  <2>2. writer' = [writer EXCEPT ![p] = w] BY <1>2
  <2>3. QED BY <2>1, <2>2 DEF SettingsInv
<1>5. /\ writer'[p].at = "directory" /\ writer'[p].turn = turns + 1
      /\ \A q \in Processes \ {p} : writer'[q] = writer[q] /\ staged'[q] = staged[q]
  BY <1>2 DEF SettingsInv
<1>6. StagedIsMine' BY <1>5 DEF SettingsInv, StagedIsMine
<1>7. LastIsInPlace'
  <2>1. \A q \in Processes : writer'[q].turn \in 0..(turns + 1)
    BY <1>3, <1>5 DEF SettingsInv, LastIsInPlace
  <2>2. turns + 1 \in Nat BY <1>3
  <2>3. [turn |-> turns', config |-> settings'] \in renames' BY <1>2
  <2>4. QED BY <1>2, <2>1, <2>2, <2>3 DEF LastIsInPlace
<1>8. SavesSurvive'
  BY <1>2, [turn |-> turns + 1, config |-> new].config = new DEF SettingsInv, SavesSurvive
<1>9. QED BY <1>2, <1>3, <1>4, <1>6, <1>7, <1>8 DEF SettingsInv

\* What is on disk after the directory is synced is the save put in place last,
\* and that is answered for or came after.
LEMMA DirectoryKeepsInv ==
    ASSUME SettingsInv, NEW p \in Processes, SyncDirectory(p)
    PROVE  SettingsInv'
<1>1. afterCut' = {settings} BY StoreAssumption DEF SyncDirectory, SettingsInv, Configs
<1>2. [turn |-> turns, config |-> settings] \in renames'
  BY DEF SyncDirectory, AnsweredFor, SettingsInv, LastIsInPlace
<1>3. writer' \in [Processes -> [at : Steps, config : Configs, turn : Nat]]
  BY DEF SyncDirectory, SettingsInv, AtRest, Steps, Configs
<1>4. \A q \in Processes : writer'[q] = IF q = p THEN AtRest ELSE writer[q]
  BY DEF SyncDirectory, SettingsInv
<1>5. StagedIsMine' BY <1>4 DEF SyncDirectory, SettingsInv, StagedIsMine, AtRest
<1>6. LastIsInPlace' BY <1>2, <1>4 DEF SyncDirectory, SettingsInv, LastIsInPlace, AtRest
<1>7. SavesSurvive'
  BY <1>1, <1>2, [turn |-> turns, config |-> settings].config = settings DEF SavesSurvive
<1>8. QED BY <1>1, <1>3, <1>5, <1>6, <1>7 DEF SyncDirectory, SettingsInv

LEMMA MishapKeepsInv ==
    ASSUME SettingsInv, NEW p \in Processes, StepFails(p) \/ ProcessDies(p)
    PROVE  SettingsInv'
<1>1. AtRest \in [at : Steps, config : Configs, turn : {0, writer[p].turn}]
      /\ AtRest.at # "rename"
  BY DEF AtRest, Steps, Configs
<1>2. QED BY <1>1, OwnStepKeepsInv
          DEF StepFails, ProcessDies, TemporaryPath, SettingsInv

LEMMA PowerCutKeepsInv ==
    ASSUME SettingsInv, PowerCut
    PROVE  SettingsInv'
<1>1. \A q \in Processes : writer'[q] = AtRest BY DEF PowerCut
<1>2. writer' \in [Processes -> [at : Steps, config : Configs, turn : Nat]]
  BY DEF PowerCut, AtRest, Steps, Configs
<1>3. settings' \in Configs /\ afterCut' = {settings'} /\ DOMAIN staged' = Processes
  BY DEF PowerCut, SettingsInv
<1>4. StagedIsMine' BY <1>1 DEF StagedIsMine, AtRest
<1>5. LastIsInPlace' BY <1>1 DEF PowerCut, SettingsInv, LastIsInPlace, AtRest
<1>6. SavesSurvive'
  BY <1>3, [turn |-> turns, config |-> settings'].config = settings' DEF PowerCut, SavesSurvive
<1>7. QED BY <1>2, <1>3, <1>4, <1>5, <1>6 DEF SettingsInv

LEMMA SettingsInvNext == SettingsInv /\ [SettingsNext]_settingsVars => SettingsInv'
<1> SUFFICES ASSUME SettingsInv, [SettingsNext]_settingsVars PROVE SettingsInv' OBVIOUS
<1>1. CASE UNCHANGED settingsVars
  BY <1>1 DEF settingsVars, SettingsInv, StagedIsMine, LastIsInPlace, SavesSurvive
<1>2. ASSUME NEW p \in Processes, Load(p) PROVE SettingsInv' BY <1>2, LoadKeepsInv
<1>3. ASSUME NEW p \in Processes, Save(p) PROVE SettingsInv'
  BY <1>3, StagingKeepsInv, ReplaceKeepsInv, DirectoryKeepsInv DEF Save
<1>4. ASSUME NEW p \in Processes, StepFails(p) \/ ProcessDies(p) PROVE SettingsInv'
  BY <1>4, MishapKeepsInv
<1>5. CASE PowerCut BY <1>5, PowerCutKeepsInv
<1>6. QED BY <1>1, <1>2, <1>3, <1>4, <1>5 DEF SettingsNext

LEMMA SettingsInvAlways == SettingsSpec => []SettingsInv
  BY SettingsInvInit, SettingsInvNext, PTL DEF SettingsSpec

\* No instance ever reads half a file, and no power cut leaves one, whatever
\* ConfigStore::save was doing in any number of instances when it came.
THEOREM NeverTorn == SettingsSpec => []SettingsAreWhole
<1>1. SettingsInv => SettingsAreWhole
  BY StoreAssumption DEF SettingsInv, SettingsAreWhole, Configs
<1>2. QED BY <1>1, SettingsInvAlways, PTL

\* What ConfigStore::save answered Ok for survives a power cut, unless a later
\* save replaced it.
THEOREM SavedForGood == SettingsSpec => []SavesSurvive
<1>1. SettingsInv => SavesSurvive BY DEF SettingsInv
<1>2. QED BY <1>1, SettingsInvAlways, PTL

-----------------------------------------------------------------------------
(* The settings pages.                                                     *)

Views ==
    {NoView} \cup
    [up : {TRUE}, account : Users, shown : [ShownFields -> Values],
     typed : SUBSET ShownFields, refused : BOOLEAN, outdated : BOOLEAN]

\* Only a line that is checked when it is saved can hold what is of no use.
InRange(v) == v.up => \A f \in ShownFields \ Checked : v.shown[f] # "bad"

\* The window's copy has the accounts of the file.
CopyIsCurrent == cached.accounts = LoadedOrDefault(document).accounts

\* WidgetsShowFile, of a file and a view.
FoundIn(d, u) == Loads(d) /\ u \in DOMAIN d.accounts
FieldIn(d, u, f) ==
    IF f \in AccountFields THEN Loaded(d).accounts[u].own[f] ELSE Loaded(d).app[f]
Agree(d, v) ==
    v.up /\ ~v.outdated =>
        /\ FoundIn(d, v.account)
        /\ \A f \in ShownFields :
               \/ f \in v.typed
               \/ f \in ConnectionFields /\ v.refused
               \/ FieldIn(d, v.account, f) = Meant(f, v.shown[f])

PreferencesInv ==
    /\ IsDocument(document) /\ IsDocument(backup)
    /\ view \in Views /\ InRange(view)
    /\ CopyIsCurrent
    /\ FileLoads /\ Agree(document, view)

\* What a loaded configuration is like: nothing in it is of no use, except
\* perhaps the proxy of an account.
CleanOwn(own) ==
    own \in [AccountFields -> Values] /\ \A f \in AccountFields : Meant(f, own[f]) = own[f]
CleanAccounts(accounts) ==
    /\ accounts \in [DOMAIN accounts -> Account] /\ DOMAIN accounts \subseteq Users
    /\ \A u \in DOMAIN accounts : CleanOwn(accounts[u].own)
CleanApp(app) ==
    app \in [AppFields -> Values] /\ \A f \in AppFields : app[f] # "bad"

-----------------------------------------------------------------------------
(* The fields.                                                             *)

LEMMA FieldFacts ==
    /\ \A page \in AccountPages : page \subseteq AccountFields
    /\ \A page \in AppPages : page \subseteq AppFields
    /\ \A f \in AccountFields : f \notin AppFields
    /\ \A f \in ShownFields : f \in AccountFields \/ f \in AppFields
    /\ \A page \in AccountPages \cup AppPages : page \subseteq ShownFields
    /\ \A page \in AccountPages \cup AppPages :
           page # ConnectionFields => \A f \in page : f \notin ConnectionFields
  BY DEF AccountPages, AppPages, AccountFields, AppFields, ShownFields,
         SyncFields, GuardFields, ConnectionFields, GeneralFields,
         LoggingFields, NetworkFields, HiddenFields, DetailFields, SizeFields

LEMMA SingleFields ==
    /\ "custom_proxy" \in ConnectionFields /\ "custom_proxy" \notin StrictFields
    /\ "custom_proxy" \in AccountFields
    /\ "exclude_patterns" \in AccountFields /\ "global_trust" \in AppFields
    /\ "quiet_hours" \notin StrictFields /\ "quiet_hours" \in GeneralFields
    /\ "quiet_hours" \in AppFields
    /\ TextFields \subseteq ShownFields
    /\ Checked = {"custom_proxy", "quiet_hours"}
  BY DEF AccountPages, AppPages, AccountFields, AppFields, ShownFields, TextFields,
         StrictFields, ConnectionFields, GeneralFields, NetworkFields, Checked

LEMMA PageOfField ==
    ASSUME NEW f \in ShownFields
    PROVE  PageOf(f) \in AccountPages \cup AppPages /\ f \in PageOf(f)
  BY DEF ShownFields, PageOf

LEMMA MeantFacts ==
    ASSUME NEW f, NEW v \in Values
    PROVE  /\ Meant(f, v) \in Values /\ Meant(f, Meant(f, v)) = Meant(f, v)
           /\ v # "bad" => Meant(f, v) = v
           /\ Meant(f, v) = "bad" => f = "custom_proxy"
  BY DEF Meant, Values

-----------------------------------------------------------------------------
(* Loading, and saving what was loaded.                                    *)

LEMMA DocumentFacts ==
    ASSUME NEW d, IsDocument(d)
    PROVE  /\ d = [shape |-> d.shape, accounts |-> d.accounts, app |-> d.app]
           /\ d.shape \in {"single", "pairs", "folders"}
           /\ d.accounts \in [DOMAIN d.accounts -> Account]
           /\ DOMAIN d.accounts \subseteq Users
           /\ d.app \in [AppFields -> Values]
  BY DEF IsDocument

\* What a document loads to is clean.
LEMMA LoadedFacts ==
    ASSUME NEW d, IsDocument(d)
    PROVE  /\ DOMAIN Loaded(d).accounts = DOMAIN d.accounts
           /\ CleanAccounts(Loaded(d).accounts) /\ CleanApp(Loaded(d).app)
           /\ \A u \in DOMAIN d.accounts : \A f \in AccountFields :
                  Loaded(d).accounts[u].own[f] = Meant(f, d.accounts[u].own[f])
           /\ \A f \in AppFields : Loaded(d).app[f] = Meant(f, d.app[f])
  <1> DEFINE accounts == [u \in DOMAIN d.accounts |->
                 [folders |-> d.accounts[u].folders,
                  own |-> [f \in AccountFields |-> Meant(f, d.accounts[u].own[f])]]]
             app == [f \in AppFields |-> Meant(f, d.app[f])]
  <1>1. Loaded(d).accounts = accounts /\ Loaded(d).app = app
    BY DEF Loaded, Migrated
  <1>2. ASSUME NEW u \in DOMAIN d.accounts
        PROVE  accounts[u] \in Account /\ CleanOwn(accounts[u].own)
    <2>1. d.accounts[u].folders \in SUBSET Roots
          /\ d.accounts[u].own \in [AccountFields -> Values]
      BY DocumentFacts DEF Account
    <2>2. [f \in AccountFields |-> Meant(f, d.accounts[u].own[f])]
             \in [AccountFields -> Values]
      BY <2>1, MeantFacts
    <2>3. \A f \in AccountFields :
              Meant(f, Meant(f, d.accounts[u].own[f])) = Meant(f, d.accounts[u].own[f])
      BY <2>1, MeantFacts
    <2> QED BY <2>1, <2>2, <2>3 DEF Account, CleanOwn
  <1>3. CleanAccounts(accounts)
    BY <1>2, DocumentFacts DEF CleanAccounts
  <1>4. CleanApp(app)
    <2>1. \A f \in AppFields : Meant(f, d.app[f]) \in Values
      BY DocumentFacts, MeantFacts
    <2>2. \A f \in AppFields : f # "custom_proxy"
      BY FieldFacts, SingleFields
    <2>3. \A f \in AppFields : Meant(f, d.app[f]) # "bad"
      BY <2>2, DocumentFacts, MeantFacts
    <2> QED BY <2>1, <2>3 DEF CleanApp
  <1> QED BY <1>1, <1>3, <1>4

\* What is clean can be written and loads to itself.
LEMMA WrittenFacts ==
    ASSUME NEW accounts, NEW app, CleanAccounts(accounts), CleanApp(app)
    PROVE  LET d == Written([accounts |-> accounts, app |-> app])
           IN  /\ IsDocument(d) /\ Loads(d)
               /\ d.accounts = accounts /\ d.app = app
               /\ \A u \in DOMAIN accounts : \A f \in AccountFields :
                      Loaded(d).accounts[u].own[f] = accounts[u].own[f]
               /\ \A f \in AppFields : Loaded(d).app[f] = app[f]
  <1> DEFINE d == Written([accounts |-> accounts, app |-> app])
  <1>1. d = [shape |-> "folders", accounts |-> accounts, app |-> app]
    BY DEF Written
  <1>2. IsDocument(d)
    BY <1>1 DEF IsDocument, CleanAccounts, CleanApp
  <1>3. Loads(d)
    <2>1. ASSUME NEW u \in DOMAIN accounts, NEW f \in AccountFields \cap StrictFields
          PROVE  accounts[u].own[f] # "bad"
      <3>1. Meant(f, accounts[u].own[f]) = accounts[u].own[f]
            /\ accounts[u].own[f] \in Values
        BY DEF CleanAccounts, CleanOwn
      <3> QED BY <3>1, SingleFields, MeantFacts
    <2> QED BY <1>1, <2>1 DEF Loads, CleanApp
  <1>4. \A u \in DOMAIN accounts : \A f \in AccountFields :
            Loaded(d).accounts[u].own[f] = accounts[u].own[f]
    BY <1>1, <1>2, LoadedFacts DEF CleanAccounts, CleanOwn
  <1>5. \A f \in AppFields : Loaded(d).app[f] = app[f]
    BY <1>1, <1>2, LoadedFacts, MeantFacts DEF CleanApp
  <1> QED BY <1>1, <1>2, <1>3, <1>4, <1>5

LEMMA AccountsWithFacts ==
    ASSUME NEW accounts, CleanAccounts(accounts), NEW u \in Users,
           NEW account \in Account, CleanOwn(account.own)
    PROVE  CleanAccounts(AccountsWith(accounts, u, account))
  BY DEF AccountsWith, CleanAccounts

LEMMA WithoutFacts ==
    ASSUME NEW accounts, CleanAccounts(accounts), NEW u
    PROVE  CleanAccounts(Without(accounts, u))
  BY DEF Without, CleanAccounts

\* Saving a page of an account changes the settings of that page.
LEMMA AccountStoredFacts ==
    ASSUME IsDocument(document), NEW u, Found(u), NEW page \in SUBSET AccountFields,
           NEW shown, \A f \in page : shown[f] \in Values /\ shown[f] # "bad"
    PROVE  LET d == AccountStored(u, page, shown)
           IN  /\ IsDocument(d) /\ FoundIn(d, u)
               /\ \A f \in AccountFields \cup AppFields :
                      FieldIn(d, u, f) = IF f \in page THEN shown[f]
                                         ELSE FieldIn(document, u, f)
  <1> DEFINE config == Loaded(document)
             own == Set(config.accounts[u].own, page, shown)
             account == [folders |-> config.accounts[u].folders, own |-> own]
             accounts == AccountsWith(config.accounts, u, account)
             d == AccountStored(u, page, shown)
  <1>1. d = Written([accounts |-> accounts, app |-> config.app])
    BY DEF AccountStored
  <1>2. CleanAccounts(config.accounts) /\ CleanApp(config.app)
    BY LoadedFacts
  <1>3. u \in DOMAIN config.accounts /\ u \in Users
    BY LoadedFacts, DocumentFacts DEF Found
  <1>4. config.accounts[u].folders \in SUBSET Roots /\ CleanOwn(config.accounts[u].own)
    BY <1>2, <1>3 DEF CleanAccounts, Account
  <1>5. \A f \in page : Meant(f, shown[f]) = shown[f]
    BY MeantFacts
  <1>6. CleanOwn(own)
    BY <1>4, <1>5 DEF CleanOwn, Set
  <1>7. account \in Account /\ account.own = own
    BY <1>4, <1>6 DEF Account, CleanOwn
  <1>8. CleanAccounts(accounts)
    <2> HIDE DEF account, config
    <2> QED BY <1>2, <1>3, <1>6, <1>7, AccountsWithFacts
  <1>9. accounts[u].own = own /\ u \in DOMAIN accounts
    BY <1>3 DEF AccountsWith
  <1>10. \A f \in AccountFields :
             own[f] = IF f \in page THEN shown[f] ELSE config.accounts[u].own[f]
    BY <1>4 DEF Set, CleanOwn
  <1> HIDE DEF accounts, own, d
  <1>11. IsDocument(d) /\ Loads(d) /\ d.accounts = accounts
         /\ (\A f \in AccountFields : Loaded(d).accounts[u].own[f] = own[f])
         /\ (\A f \in AppFields : Loaded(d).app[f] = config.app[f])
    BY <1>1, <1>2, <1>8, <1>9, WrittenFacts
  <1> QED BY <1>9, <1>10, <1>11, FieldFacts DEF FoundIn, FieldIn, d

\* Saving a page of the application leaves the accounts alone.
LEMMA AppStoredFacts ==
    ASSUME IsDocument(document), NEW page \in SUBSET AppFields,
           NEW shown, \A f \in page : shown[f] \in Values /\ shown[f] # "bad"
    PROVE  LET d == AppStored(page, shown)
           IN  /\ IsDocument(d) /\ Loads(d)
               /\ Loaded(d).accounts = Loaded(document).accounts
               /\ DOMAIN d.accounts = DOMAIN document.accounts
               /\ \A u \in DOMAIN document.accounts :
                      \A f \in AccountFields \cup AppFields :
                          FieldIn(d, u, f) = IF f \in page THEN shown[f]
                                             ELSE FieldIn(document, u, f)
  <1> DEFINE config == Loaded(document)
             app == Set(config.app, page, shown)
             d == AppStored(page, shown)
  <1>1. d = Written([accounts |-> config.accounts, app |-> app])
    BY DEF AppStored
  <1>2. CleanAccounts(config.accounts) /\ CleanApp(config.app)
        /\ DOMAIN config.accounts = DOMAIN document.accounts
    BY LoadedFacts
  <1>3. CleanApp(app)
    BY <1>2 DEF CleanApp, Set
  <1>4. \A f \in AppFields : app[f] = IF f \in page THEN shown[f] ELSE config.app[f]
    BY <1>2 DEF Set, CleanApp
  <1>5. IsDocument(d) /\ Loads(d) /\ d.accounts = config.accounts
        /\ (\A u \in DOMAIN config.accounts : \A f \in AccountFields :
                Loaded(d).accounts[u].own[f] = config.accounts[u].own[f])
        /\ (\A f \in AppFields : Loaded(d).app[f] = app[f])
    <2> HIDE DEF config, app, d
    <2> QED BY <1>1, <1>2, <1>3, WrittenFacts
  <1>6. Loaded(d).accounts = config.accounts
    <2>1. Loaded(d).accounts =
              [u \in DOMAIN config.accounts |->
                  [folders |-> config.accounts[u].folders,
                   own |-> [f \in AccountFields |-> Meant(f, config.accounts[u].own[f])]]]
      <3>1. d.accounts = config.accounts
        BY <1>5
      <3> HIDE DEF config, d
      <3> QED BY <3>1 DEF Loaded, Migrated
    <2>2. ASSUME NEW u \in DOMAIN config.accounts
          PROVE  config.accounts[u] =
                     [folders |-> config.accounts[u].folders,
                      own |-> [f \in AccountFields |-> Meant(f, config.accounts[u].own[f])]]
      <3>1. config.accounts[u] \in Account /\ CleanOwn(config.accounts[u].own)
        BY <1>2 DEF CleanAccounts
      <3>2. config.accounts[u].own =
                [f \in AccountFields |-> Meant(f, config.accounts[u].own[f])]
        BY <3>1 DEF CleanOwn
      <3> HIDE DEF config
      <3> QED BY <3>1, <3>2 DEF Account
    <2>3. config.accounts = [u \in DOMAIN config.accounts |-> config.accounts[u]]
      BY <1>2 DEF CleanAccounts
    <2> HIDE DEF config, d
    <2> QED BY <2>1, <2>2, <2>3
  <1> HIDE DEF app, d
  <1> QED BY <1>2, <1>4, <1>5, <1>6, FieldFacts DEF FieldIn, d

-----------------------------------------------------------------------------
(* The steps.                                                              *)

\* What saving a page does to the file and to the window's copy.
LEMMA SavesFacts ==
    ASSUME PreferencesInv, view.up, NEW page \in AccountPages \cup AppPages,
           NEW shown \in [ShownFields -> Values],
           \A f \in ShownFields \ Checked : shown[f] # "bad",
           Saves(page, shown)
    PROVE  /\ IsDocument(document') /\ CopyIsCurrent'
           /\ Loads(document') \/ document' = document
           /\ FoundIn(document, view.account) =>
                 /\ FoundIn(document', view.account)
                 /\ \A f \in ShownFields :
                        \/ f \in ConnectionFields /\ page = ConnectionFields
                           /\ shown["custom_proxy"] = "bad"
                        \/ FieldIn(document', view.account, f) =
                              IF f \in page THEN Meant(f, shown[f])
                              ELSE FieldIn(document, view.account, f)
  <1> DEFINE u == view.account
  <1>1. \A f \in page : f \in ShownFields /\ shown[f] \in Values
    BY FieldFacts
  <1>2. ASSUME Found(u), page \in AccountPages,
               page = ConnectionFields => shown["custom_proxy"] # "bad",
               document' = AccountStored(u, page, shown)
        PROVE  /\ IsDocument(document') /\ FoundIn(document', u)
               /\ \A f \in ShownFields :
                      FieldIn(document', u, f) = IF f \in page THEN Meant(f, shown[f])
                                                 ELSE FieldIn(document, u, f)
    <2>1. \A f \in page : shown[f] # "bad"
      <3>1. ASSUME NEW f \in page, f \in Checked PROVE shown[f] # "bad"
        <4>1. f = "custom_proxy" \/ f \in AppFields
          BY <3>1, SingleFields
        <4>2. f = "custom_proxy" /\ page = ConnectionFields
          BY <4>1, <1>2, SingleFields, FieldFacts
        <4> QED BY <4>2, <1>2
      <3> QED BY <3>1, <1>1
    <2>2. \A f \in page : Meant(f, shown[f]) = shown[f]
      BY <2>1, <1>1, MeantFacts
    <2>3. page \in SUBSET AccountFields
      BY <1>2, FieldFacts
    <2> HIDE DEF u
    <2> QED BY <1>1, <1>2, <2>1, <2>2, <2>3, AccountStoredFacts, FieldFacts
               DEF PreferencesInv
  <1>3. ASSUME Loads(document), page \in AppPages, NEW cleaned,
               \A f \in page : cleaned[f] = Meant(f, shown[f]),
               document' = AppStored(page, cleaned), cached' = cached
        PROVE  /\ IsDocument(document') /\ Loads(document') /\ CopyIsCurrent'
               /\ FoundIn(document, u) =>
                     /\ FoundIn(document', u)
                     /\ \A f \in ShownFields :
                            FieldIn(document', u, f) =
                                IF f \in page THEN Meant(f, shown[f])
                                ELSE FieldIn(document, u, f)
    <2>1. \A f \in page : cleaned[f] \in Values /\ cleaned[f] # "bad"
      BY <1>1, <1>3, MeantFacts, FieldFacts, SingleFields
    <2>2. page \in SUBSET AppFields
      BY <1>3, FieldFacts
    <2>3. /\ IsDocument(document') /\ Loads(document')
          /\ Loaded(document').accounts = Loaded(document).accounts
          /\ DOMAIN document'.accounts = DOMAIN document.accounts
          /\ \A w \in DOMAIN document.accounts :
                 \A f \in AccountFields \cup AppFields :
                     FieldIn(document', w, f) = IF f \in page THEN cleaned[f]
                                                ELSE FieldIn(document, w, f)
      BY <1>3, <2>1, <2>2, AppStoredFacts DEF PreferencesInv
    <2>4. CopyIsCurrent'
      BY <1>3, <2>3 DEF PreferencesInv, CopyIsCurrent, LoadedOrDefault
    <2> QED BY <1>3, <2>3, <2>4, FieldFacts DEF FoundIn
  <1>4. \A f \in page : f # "quiet_hours" => shown[f] = Meant(f, shown[f])
    <2>1. ASSUME NEW f \in page PROVE f # "quiet_hours" => shown[f] = Meant(f, shown[f])
      BY <1>1, SingleFields, MeantFacts DEF Meant
    <2> QED BY <2>1
  <1>5. \A f \in page : page # GeneralFields => f # "quiet_hours"
    BY SingleFields DEF AccountPages, AppPages, SyncFields, GuardFields, ConnectionFields,
       GeneralFields, LoggingFields, NetworkFields, HiddenFields, DetailFields, SizeFields
  <1>6. ASSUME document' = document, WindowRests
        PROVE  IsDocument(document') /\ CopyIsCurrent'
    BY <1>6 DEF PreferencesInv, CopyIsCurrent, WindowRests
  <1>7. Reconfigured => CopyIsCurrent'
    BY DEF Reconfigured, CopyIsCurrent
  <1>8. FoundIn(document, u) <=> Found(u)
    BY DEF FoundIn, Found
  <1> HIDE DEF u
  <1>9. IsDocument(document)
    BY DEF PreferencesInv
  <1>10. CASE page = HiddenFields /\ SaveHiddenFiles(shown)
    <2>1. page \in AccountPages /\ page # ConnectionFields
      BY <1>10 DEF AccountPages, HiddenFields, ConnectionFields
    <2> QED BY <2>1, <1>10, <1>2, <1>6, <1>7, <1>8 DEF SaveHiddenFiles, u, FoundIn
  <1>11. CASE page = DetailFields /\ SaveDetailedOutput(shown)
    <2>1. page \in AccountPages /\ page # ConnectionFields
      BY <1>11 DEF AccountPages, DetailFields, ConnectionFields
    <2> QED BY <2>1, <1>11, <1>2, <1>7, <1>8, <1>9 DEF SaveDetailedOutput, u, FoundIn
  <1>12. CASE page = GuardFields /\ SaveDeleteGuard(shown)
    <2>1. page \in AccountPages /\ page # ConnectionFields
      BY <1>12 DEF AccountPages, GuardFields, ConnectionFields
    <2> QED BY <2>1, <1>12, <1>2, <1>7, <1>8, <1>9 DEF SaveDeleteGuard, u, FoundIn
  <1>13. CASE page = SyncFields /\ SaveSync(shown)
    <2>1. page \in AccountPages /\ page # ConnectionFields
      BY <1>13 DEF AccountPages, SyncFields, ConnectionFields
    <2> QED BY <2>1, <1>13, <1>2, <1>6, <1>7, <1>8 DEF SaveSync, u, FoundIn
  <1>14. CASE page = ConnectionFields /\ SaveAccountNetwork(shown)
    <2>1. page \in AccountPages
      BY <1>14 DEF AccountPages
    <2>2. CASE shown["custom_proxy"] = "bad" \/ ~Found(u)
      <3>1. document' = document /\ WindowRests
        BY <2>2, <1>14 DEF SaveAccountNetwork, u
      <3>2. \A f \in page : f \in ConnectionFields
        BY <1>14
      <3> QED BY <2>2, <3>1, <3>2, <1>6, <1>8, <1>14 DEF u
    <2>3. CASE shown["custom_proxy"] # "bad" /\ Found(u)
      <3>1. document' = AccountStored(u, page, shown) /\ Reconfigured
        BY <2>3, <1>14 DEF SaveAccountNetwork, u
      <3> QED BY <2>1, <2>3, <3>1, <1>2, <1>7 DEF u, FoundIn
    <2> QED BY <2>2, <2>3
  <1>15. ASSUME page \in AppPages, page # GeneralFields, WindowRests,
                document' = IF Loads(document) THEN AppStored(page, shown) ELSE document
         PROVE  /\ IsDocument(document') /\ CopyIsCurrent'
                /\ Loads(document') \/ document' = document
                /\ FoundIn(document, u) =>
                      /\ FoundIn(document', u)
                      /\ \A f \in ShownFields :
                             FieldIn(document', u, f) =
                                 IF f \in page THEN Meant(f, shown[f])
                                 ELSE FieldIn(document, u, f)
    <2>1. CASE Loads(document)
      <3>1. \A f \in page : shown[f] = Meant(f, shown[f])
        BY <1>15, <1>4, <1>5
      <3> QED BY <3>1, <2>1, <1>15, <1>3 DEF WindowRests
    <2>2. CASE ~Loads(document)
      BY <2>2, <1>15, <1>6 DEF FoundIn
    <2> QED BY <2>1, <2>2
  <1>16. CASE page = GeneralFields /\ SaveGeneral(shown)
    <2> DEFINE cleaned == [f \in GeneralFields |-> Meant(f, shown[f])]
    <2>1. page \in AppPages /\ \A f \in page : cleaned[f] = Meant(f, shown[f])
      BY <1>16 DEF AppPages
    <2>2. CASE Loads(document)
      <3>1. document' = AppStored(page, cleaned) /\ cached' = cached
        BY <2>2, <1>16 DEF SaveGeneral, WindowRests
      <3> HIDE DEF cleaned
      <3> QED BY <2>1, <2>2, <3>1, <1>3 DEF u
    <2>3. CASE ~Loads(document)
      BY <2>3, <1>16, <1>6 DEF FoundIn, SaveGeneral
    <2> QED BY <2>2, <2>3
  <1>17. CASE page = LoggingFields /\ SaveLogging(shown)
    <2>1. page \in AppPages /\ page # GeneralFields
      BY <1>17 DEF AppPages, LoggingFields, GeneralFields
    <2> QED BY <2>1, <1>17, <1>15 DEF SaveLogging, u
  <1>18. CASE page = NetworkFields /\ SaveNetwork(shown)
    <2>1. page \in AppPages /\ page # GeneralFields
      BY <1>18 DEF AppPages, NetworkFields, GeneralFields
    <2> QED BY <2>1, <1>18, <1>15 DEF SaveNetwork, u
  <1>19. CASE page = SizeFields /\ SaveSizeThreshold(shown)
    <2>1. page \in AppPages /\ page # GeneralFields
      BY <1>19 DEF AppPages, SizeFields, GeneralFields
    <2> QED BY <2>1, <1>19, <1>15 DEF SaveSizeThreshold, u
  <1> QED BY <1>10, <1>11, <1>12, <1>13, <1>14, <1>16, <1>17, <1>18, <1>19 DEF Saves

\* A page that was saved, with the new value of one of its fields, agrees with the
\* file if the view did, but for a proxy that is marked.
LEMMA SavedViewAgrees ==
    ASSUME PreferencesInv, view.up, NEW g \in ShownFields,
           NEW shown \in [ShownFields -> Values], NEW typed,
           \A f \in ShownFields \ Checked : shown[f] # "bad",
           Saves(PageOf(g), shown),
           \A f \in ShownFields : f # g => shown[f] = view.shown[f],
           \A f \in view.typed : f # g => f \in typed,
           view' = View(view.account, shown, typed, Marked(PageOf(g), shown),
                        view.outdated)
    PROVE  IsDocument(document') /\ CopyIsCurrent' /\ Agree(document', view')
           /\ (Loads(document') \/ document' = document)
  <1> DEFINE page == PageOf(g)
             u == view.account
  <1>1. page \in AccountPages \cup AppPages /\ g \in page
    BY PageOfField
  <1> HIDE DEF page
  <1>2. Saves(page, shown)
    BY DEF page
  <1>3. /\ IsDocument(document') /\ CopyIsCurrent'
        /\ Loads(document') \/ document' = document
        /\ FoundIn(document, u) =>
              /\ FoundIn(document', u)
              /\ \A f \in ShownFields :
                     \/ f \in ConnectionFields /\ page = ConnectionFields
                        /\ shown["custom_proxy"] = "bad"
                     \/ FieldIn(document', u, f) =
                           IF f \in page THEN Meant(f, shown[f])
                           ELSE FieldIn(document, u, f)
    BY <1>1, <1>2, SavesFacts
  <1>4. /\ view'.account = u /\ view'.shown = shown /\ view'.typed = typed
        /\ view'.refused = Marked(page, shown) /\ view'.outdated = view.outdated
    BY DEF View, page
  <1>5. ASSUME ~view.outdated PROVE Agree(document', view')
    <2>1. /\ FoundIn(document, u)
          /\ \A f \in ShownFields :
                 \/ f \in view.typed
                 \/ f \in ConnectionFields /\ view.refused
                 \/ FieldIn(document, u, f) = Meant(f, view.shown[f])
      BY <1>5 DEF PreferencesInv, Agree
    <2>2. ASSUME NEW f \in ShownFields
          PROVE  \/ f \in typed
                 \/ f \in ConnectionFields /\ Marked(page, shown)
                 \/ FieldIn(document', u, f) = Meant(f, shown[f])
      <3>1. CASE f \in page
        BY <3>1, <2>1, <1>3 DEF Marked
      <3>2. CASE f \notin page
        <4>1. f # g /\ shown[f] = view.shown[f]
          BY <3>2, <1>1
        <4>2. f \in ConnectionFields => page # ConnectionFields
          BY <3>2
        <4>3. FieldIn(document', u, f) = FieldIn(document, u, f)
          BY <3>2, <4>2, <2>1, <1>3
        <4> QED BY <4>1, <4>2, <4>3, <2>1 DEF Marked
      <3> QED BY <3>1, <3>2
    <2>3. FoundIn(document', u)
      BY <2>1, <1>3
    <2> HIDE DEF u
    <2> QED BY <1>4, <2>2, <2>3 DEF Agree
  <1>6. view.outdated => Agree(document', view')
    BY <1>4 DEF Agree
  <1> QED BY <1>3, <1>5, <1>6 DEF PreferencesInv, Views

\* A view that is built shows what is in the file.
LEMMA BuiltFacts ==
    ASSUME IsDocument(document), CopyIsCurrent, NEW u \in DOMAIN cached.accounts
    PROVE  Built(u) \in Views /\ InRange(Built(u)) /\ Agree(document, Built(u))
  <1>1. Loads(document) /\ cached.accounts = Loaded(document).accounts
    BY DEF CopyIsCurrent, LoadedOrDefault, DefaultConfig, NoAccounts
  <1>2. u \in DOMAIN document.accounts /\ u \in Users
    BY <1>1, LoadedFacts, DocumentFacts
  <1>3. CleanOwn(Loaded(document).accounts[u].own) /\ CleanApp(Loaded(document).app)
    BY <1>2, LoadedFacts DEF CleanAccounts
  <1> DEFINE shown == [f \in ShownFields |-> FieldIn(document, u, f)]
  <1>4. Built(u) = View(u, shown, {}, FALSE, FALSE)
    BY <1>1 DEF Built, FieldIn, LoadedOrDefault
  <1>5. ASSUME NEW f \in ShownFields
        PROVE  /\ FieldIn(document, u, f) \in Values
               /\ Meant(f, FieldIn(document, u, f)) = FieldIn(document, u, f)
               /\ f \notin Checked => FieldIn(document, u, f) # "bad"
    <2>1. FieldIn(document, u, f) \in Values
          /\ Meant(f, FieldIn(document, u, f)) = FieldIn(document, u, f)
      BY <1>3, FieldFacts, MeantFacts DEF FieldIn, CleanOwn, CleanApp
    <2> QED BY <2>1, MeantFacts, SingleFields
  <1> HIDE DEF shown
  <1>6. shown \in [ShownFields -> Values]
        /\ \A f \in ShownFields : shown[f] = FieldIn(document, u, f)
    BY <1>5 DEF shown
  <1>7. Built(u) \in Views
    BY <1>2, <1>4, <1>6 DEF Views, View
  <1>8. InRange(Built(u))
    BY <1>4, <1>5, <1>6 DEF InRange, View
  <1>9. Agree(document, Built(u))
    BY <1>1, <1>2, <1>4, <1>5, <1>6 DEF Agree, View, FoundIn
  <1> QED BY <1>7, <1>8, <1>9

LEMMA UpView ==
    ASSUME view \in Views, view.up
    PROVE  view \in [up : {TRUE}, account : Users, shown : [ShownFields -> Values],
                     typed : SUBSET ShownFields, refused : BOOLEAN, outdated : BOOLEAN]
  <1>1. NoView.up = FALSE
    BY DEF NoView
  <1>2. view # NoView
    BY <1>1
  <1> QED BY <1>2 DEF Views

\* Without a view, or with one that something went past, there is nothing to show.
LEMMA NoViewFacts ==
    /\ NoView \in Views /\ InRange(NoView) /\ \A d : Agree(d, NoView)
    /\ view \in Views /\ view.up /\ InRange(view) =>
          Outdated \in Views /\ InRange(Outdated) /\ \A d : Agree(d, Outdated)
  <1>1. NoView \in Views /\ NoView.up = FALSE
    BY DEF NoView, Views
  <1>2. ASSUME view \in Views, view.up
        PROVE  /\ Outdated \in Views /\ Outdated.outdated = TRUE
               /\ Outdated.shown = view.shown
    BY <1>2, UpView DEF Views, Outdated, View
  <1>3. \A v : v.up = FALSE => InRange(v) /\ \A d : Agree(d, v)
    BY DEF InRange, Agree
  <1>4. \A v : v.outdated = TRUE => \A d : Agree(d, v)
    BY DEF Agree
  <1> QED BY <1>1, <1>2, <1>3, <1>4 DEF InRange

LEMMA TypedFacts ==
    ASSUME view \in Views, view.up, InRange(view), NEW f \in ShownFields, NEW v \in Values,
           v = "bad" => f \in Checked
    PROVE  LET shown == Set(view.shown, {f}, [g \in {f} |-> v])
           IN  /\ shown \in [ShownFields -> Values] /\ shown[f] = v
               /\ \A g \in ShownFields : g # f => shown[g] = view.shown[g]
               /\ \A g \in ShownFields \ Checked : shown[g] # "bad"
  <1> DEFINE shown == Set(view.shown, {f}, [g \in {f} |-> v])
  <1>1. view.shown \in [ShownFields -> Values]
    BY UpView
  <1>2. shown \in [ShownFields -> Values]
        /\ \A g \in ShownFields : shown[g] = IF g = f THEN v ELSE view.shown[g]
    BY <1>1 DEF Set
  <1> HIDE DEF shown
  <1>3. \A g \in ShownFields \ Checked : shown[g] # "bad"
    BY <1>2 DEF InRange
  <1> QED BY <1>2, <1>3 DEF shown

\* The steps that end with a new file and with no view, or one they went past.
LEMMA NewFile ==
    ASSUME PreferencesInv, IsDocument(document'), backup' = backup, CopyIsCurrent', FileLoads',
           view' = NoView \/ (view.up /\ view' = Outdated)
    PROVE  PreferencesInv'
  BY NoViewFacts DEF PreferencesInv

\* What is written from the loaded file, with its accounts changed.
LEMMA AccountsChanged ==
    ASSUME IsDocument(document), NEW u \in Users, NEW account \in Account,
           CleanOwn(account.own), NEW gone
    PROVE  LET config == Loaded(document)
               some == Without(config.accounts, gone)
           IN  /\ CleanAccounts(config.accounts) /\ CleanApp(config.app)
               /\ CleanAccounts(some)
               /\ CleanAccounts(AccountsWith(some, u, account))
               /\ CleanAccounts(AccountsWith(config.accounts, u, account))
  BY LoadedFacts, WithoutFacts, AccountsWithFacts

LEMMA PreferencesStart == PreferencesInit => PreferencesInv
  <1> SUFFICES ASSUME PreferencesInit PROVE PreferencesInv
    OBVIOUS
  <1>1. IsDocument(document) /\ Loads(document)
    BY PreferencesAssumption DEF PreferencesInit
  <1>2. IsDocument(backup)
    <2>1. CleanAccounts(NoAccounts) /\ CleanApp([f \in AppFields |-> "default"])
      BY DEF NoAccounts, CleanAccounts, CleanApp, Values
    <2> QED BY <2>1, WrittenFacts DEF PreferencesInit, DefaultConfig
  <1>3. CopyIsCurrent
    BY <1>1 DEF PreferencesInit, CopyIsCurrent, LoadedOrDefault
  <1> QED BY <1>1, <1>2, <1>3, NoViewFacts DEF PreferencesInit, PreferencesInv, FileLoads

LEMMA PagesStep ==
    ASSUME PreferencesInv, NEW f \in ShownFields, NEW v \in Values,
           Choose(f, v) \/ (f \in TextFields /\ (Type(f, v) \/ Apply(f)))
    PROVE  PreferencesInv'
  <1>1. IsDocument(document) /\ view \in Views /\ InRange(view) /\ view.up
    BY DEF PreferencesInv, Choose, Type, Apply
  <1>2. /\ view.account \in Users /\ view.shown \in [ShownFields -> Values]
        /\ view.typed \in SUBSET ShownFields /\ view.refused \in BOOLEAN
        /\ view.outdated \in BOOLEAN
    BY <1>1, UpView
  <1>3. \A page, shown : Marked(page, shown) \in BOOLEAN
    BY <1>2 DEF Marked
  <1>4. ASSUME NEW shown \in [ShownFields -> Values], NEW typed \in SUBSET ShownFields,
               NEW refused \in BOOLEAN,
               \A g \in ShownFields \ Checked : shown[g] # "bad",
               view' = View(view.account, shown, typed, refused, view.outdated)
        PROVE  view' \in Views /\ InRange(view')
    BY <1>2, <1>4 DEF Views, View, InRange
  <1>5. ASSUME IsDocument(document'), CopyIsCurrent', Agree(document', view'),
               Loads(document') \/ document' = document,
               view' \in Views, InRange(view'), backup' = backup, imported' = imported
        PROVE  PreferencesInv'
    BY <1>5 DEF PreferencesInv, FileLoads
  <1> DEFINE shown == Set(view.shown, {f}, [g \in {f} |-> v])
  <1>6. (v = "bad" => f \in Checked)
        => /\ shown \in [ShownFields -> Values] /\ shown[f] = v
           /\ \A g \in ShownFields : g # f => shown[g] = view.shown[g]
           /\ \A g \in ShownFields \ Checked : shown[g] # "bad"
    BY ONLY <1>1, TypedFacts, ZenonT(30)
  <1> HIDE DEF shown
  <1>7. CASE Choose(f, v)
    <2>1. /\ v # "bad" /\ Saves(PageOf(f), shown)
          /\ backup' = backup /\ imported' = imported
          /\ view' = View(view.account, shown, view.typed, Marked(PageOf(f), shown),
                          view.outdated)
      BY <1>7 DEF Choose, shown
    <2>2. /\ shown \in [ShownFields -> Values]
          /\ \A g \in ShownFields : g # f => shown[g] = view.shown[g]
          /\ \A g \in ShownFields \ Checked : shown[g] # "bad"
      BY <1>6, <2>1
    <2>3. IsDocument(document') /\ CopyIsCurrent' /\ Agree(document', view')
          /\ (Loads(document') \/ document' = document)
      BY <1>1, <2>1, <2>2, SavedViewAgrees
    <2>4. view' \in Views /\ InRange(view')
      BY <1>2, <1>3, <1>4, <2>1, <2>2
    <2> QED BY <1>5, <2>1, <2>3, <2>4
  <1>8. CASE f \in TextFields /\ Type(f, v)
    <2>1. /\ v = "bad" => f \in Checked
          /\ document' = document /\ cached' = cached
          /\ backup' = backup /\ imported' = imported
          /\ view' = View(view.account, shown, view.typed \cup {f}, view.refused,
                          view.outdated)
      BY <1>8 DEF Type, shown
    <2>2. /\ shown \in [ShownFields -> Values]
          /\ \A g \in ShownFields : g # f => shown[g] = view.shown[g]
          /\ \A g \in ShownFields \ Checked : shown[g] # "bad"
      BY <1>6, <2>1
    <2>3. Agree(document', view')
      BY <1>1, <2>1, <2>2 DEF PreferencesInv, Agree, View
    <2>4. CopyIsCurrent'
      BY <2>1 DEF PreferencesInv, CopyIsCurrent
    <2>5. view' \in Views /\ InRange(view')
      BY <1>2, <1>4, <2>1, <2>2
    <2> QED BY <1>1, <1>5, <2>1, <2>3, <2>4, <2>5
  <1>9. CASE f \in TextFields /\ Apply(f)
    <2>1. /\ Saves(PageOf(f), view.shown)
          /\ backup' = backup /\ imported' = imported
          /\ view' = View(view.account, view.shown, view.typed \ {f},
                          Marked(PageOf(f), view.shown), view.outdated)
      BY <1>9 DEF Apply
    <2>2. \A g \in ShownFields \ Checked : view.shown[g] # "bad"
      BY <1>1 DEF InRange
    <2>3. IsDocument(document') /\ CopyIsCurrent' /\ Agree(document', view')
          /\ (Loads(document') \/ document' = document)
      BY <1>1, <1>2, <2>1, <2>2, SavedViewAgrees
    <2>4. view' \in Views /\ InRange(view')
      BY <1>2, <1>3, <1>4, <2>1, <2>2
    <2> QED BY <1>5, <2>1, <2>3, <2>4
  <1> QED BY <1>7, <1>8, <1>9

LEMMA PreferencesStep ==
    PreferencesInv /\ [PreferencesNext]_preferenceVars => PreferencesInv'
  <1> SUFFICES ASSUME PreferencesInv, [PreferencesNext]_preferenceVars
               PROVE  PreferencesInv'
    OBVIOUS
  <1> DEFINE config == Loaded(document)
  <1>0. IsDocument(document) /\ IsDocument(backup) /\ view \in Views /\ CopyIsCurrent
    BY DEF PreferencesInv
  <1>a. Refreshed \/ Reconfigured => CopyIsCurrent'
    BY DEF Refreshed, Reconfigured, CopyIsCurrent
  <1>b. ASSUME imported' = imported, Loads(document') \/ document' = document
        PROVE  FileLoads'
    BY <1>b DEF PreferencesInv, FileLoads
  <1>c. ASSUME NEW u, Found(u)
        PROVE  u \in Users /\ u \in DOMAIN config.accounts
               /\ config.accounts[u] \in Account /\ CleanOwn(config.accounts[u].own)
    BY <1>0, <1>c, LoadedFacts, DocumentFacts DEF Found, CleanAccounts
  <1>d. view.up => view.account \in Users
    BY <1>0, UpView
  <1> HIDE DEF config
  <1>1. CASE UNCHANGED preferenceVars
    BY <1>1 DEF preferenceVars, PreferencesInv, CopyIsCurrent, FileLoads
  <1>2. CASE \E f \in ShownFields : \E v \in Values : Choose(f, v)
    BY <1>2, PagesStep
  <1>3. CASE \E f \in TextFields : (\E v \in Values : Type(f, v)) \/ Apply(f)
    <2>1. "default" \in Values
      BY DEF Values
    <2> QED BY <1>3, <2>1, PagesStep, SingleFields
  <1>4. CASE OpenSettings
    <2>1. /\ document' = document /\ cached' = cached /\ backup' = backup
          /\ imported' = imported /\ view' = Built(active)
          /\ active \in DOMAIN cached.accounts
      BY <1>4 DEF OpenSettings
    <2> QED BY <1>0, <2>1, BuiltFacts DEF PreferencesInv, CopyIsCurrent, FileLoads
  <1>5. CASE \E u \in rows : SelectAccount(u)
    <2>1. PICK u \in rows : SelectAccount(u)
      BY <1>5
    <2>2. /\ document' = document /\ cached' = cached /\ backup' = backup
          /\ imported' = imported
          /\ view' = NoView \/ (u \in DOMAIN cached.accounts /\ view' = Built(u))
      BY <2>1 DEF SelectAccount
    <2>3. view' \in Views /\ InRange(view') /\ Agree(document, view')
      BY <1>0, <2>2, BuiltFacts, NoViewFacts
    <2> QED BY <2>2, <2>3 DEF PreferencesInv, CopyIsCurrent, FileLoads
  <1>6. CASE \E v \in Values : EditPatterns(v)
    <2> DEFINE u == view.account
               page == {"exclude_patterns"}
    <2>1. PICK v \in Values : EditPatterns(v)
      BY <1>6
    <2>2. /\ view.up /\ Found(u) /\ v # "bad" /\ Reconfigured
          /\ document' = AccountStored(u, page, [f \in page |-> v])
          /\ view' = view /\ backup' = backup /\ imported' = imported
      BY <2>1 DEF EditPatterns, ValidPattern
    <2>3. page \in SUBSET AccountFields
      BY SingleFields
    <2>4. /\ IsDocument(document') /\ FoundIn(document', u)
          /\ \A f \in AccountFields \cup AppFields :
                 FieldIn(document', u, f) = IF f \in page THEN v
                                            ELSE FieldIn(document, u, f)
      <3> DEFINE shown == [f \in page |-> v]
      <3>1. \A f \in page : shown[f] = v
        OBVIOUS
      <3> HIDE DEF shown, page, u
      <3> QED BY <1>0, <2>2, <2>3, <3>1, AccountStoredFacts DEF shown
    <2>5. \A f \in ShownFields : f \notin page
      BY DEF ShownFields, AccountPages, AppPages, SyncFields, GuardFields, ConnectionFields,
             GeneralFields, LoggingFields, NetworkFields, HiddenFields, DetailFields,
             SizeFields
    <2>6. Agree(document', view')
      <3> HIDE DEF page
      <3> QED BY <2>2, <2>4, <2>5, FieldFacts DEF PreferencesInv, Agree
    <2>7. FileLoads' /\ CopyIsCurrent'
      BY <1>a, <1>b, <2>2, <2>4 DEF FoundIn
    <2> QED BY <2>2, <2>4, <2>6, <2>7 DEF PreferencesInv
  <1>7. CASE \E u \in Users : SignInAgain(u)
    <2> DEFINE old == view.account
               account == config.accounts[old]
    <2>1. PICK u \in Users : SignInAgain(u)
      BY <1>7
    <2>2. /\ view.up /\ Found(old) /\ Reconfigured /\ view' = Outdated
          /\ document' = Written(
                 [accounts |-> AccountsWith(Without(config.accounts, old), u, account),
                  app |-> config.app])
          /\ backup' = backup /\ imported' = imported
      BY <2>1 DEF SignInAgain, config
    <2>3. account \in Account /\ CleanOwn(account.own)
      BY <1>c, <2>2
    <2>4. IsDocument(document') /\ Loads(document')
      <3> HIDE DEF account, old
      <3> QED BY <1>0, <2>2, <2>3, AccountsChanged, WrittenFacts DEF config
    <2> QED BY <1>a, <1>b, <2>2, <2>4, NewFile
  <1>8. CASE \E u \in Users : \E roots \in SUBSET Roots : EditAccountFolders(u, roots)
    <2>1. PICK u \in Users, roots \in SUBSET Roots : EditAccountFolders(u, roots)
      BY <1>8
    <2> DEFINE account == [folders |-> roots, own |-> config.accounts[u].own]
    <2>2. /\ Refreshed /\ backup' = backup /\ imported' = imported /\ view' = NoView
          /\ document' = IF Found(u)
                         THEN Written([accounts |-> AccountsWith(config.accounts, u, account),
                                       app |-> config.app])
                         ELSE document
      BY <2>1 DEF EditAccountFolders, Refreshed, config
    <2>3. IsDocument(document') /\ (Loads(document') \/ document' = document)
      <3>1. CASE Found(u)
        <4>1. account \in Account /\ CleanOwn(account.own)
          BY <1>c, <3>1 DEF Account
        <4> HIDE DEF account
        <4> QED BY <1>0, <2>2, <3>1, <4>1, AccountsChanged, WrittenFacts DEF config
      <3> QED BY <1>0, <2>2, <3>1
    <2> QED BY <1>a, <1>b, <2>2, <2>3, NewFile
  <1>9. CASE \E u \in Users : \E root \in Roots, trust \in {"default", "chosen"} :
                 CompleteSetup(u, root, trust)
    <2>1. PICK u \in Users, root \in Roots, trust \in {"default", "chosen"} :
              CompleteSetup(u, root, trust)
      BY <1>9
    <2> DEFINE account == [folders |-> {root}, own |-> DefaultOwn]
               app == Set(config.app, {"global_trust"}, [f \in {"global_trust"} |-> trust])
    <2>2. /\ Refreshed /\ backup' = backup /\ imported' = imported /\ view' = NoView
          /\ document' = Written([accounts |-> AccountsWith(config.accounts, u, account),
                                  app |-> app])
      BY <2>1 DEF CompleteSetup, Refreshed, config
    <2>3. account \in Account /\ CleanOwn(account.own)
      BY DEF Account, CleanOwn, DefaultOwn, Values, Meant
    <2>4. CleanApp(config.app)
      BY <1>0, LoadedFacts DEF config
    <2>5. CleanApp(app)
      BY <2>4 DEF CleanApp, Set, Values
    <2>6. IsDocument(document') /\ Loads(document')
      <3> HIDE DEF account, app
      <3> QED BY <1>0, <2>2, <2>3, <2>5, AccountsChanged, WrittenFacts DEF config
    <2> QED BY <1>a, <1>b, <2>2, <2>6, NewFile
  <1>10. CASE RemoveActive
    <2>1. /\ Refreshed /\ backup' = backup /\ imported' = imported /\ view' = NoView
          /\ document' = IF Found(active)
                         THEN Written([accounts |-> Without(config.accounts, active),
                                       app |-> config.app])
                         ELSE document
      BY <1>10 DEF RemoveActive, Refreshed, config
    <2>2. CleanAccounts(Without(config.accounts, active)) /\ CleanApp(config.app)
      BY <1>0, LoadedFacts, WithoutFacts DEF config
    <2>3. IsDocument(document') /\ (Loads(document') \/ document' = document)
      BY <1>0, <2>1, <2>2, WrittenFacts
    <2> QED BY <1>a, <1>b, <2>1, <2>3, NewFile
  <1>11. CASE ExportConfiguration
    <2>1. /\ document' = document /\ cached' = cached /\ view' = view
          /\ imported' = imported /\ backup' = Written(config)
      BY <1>11 DEF ExportConfiguration, config
    <2>2. IsDocument(Written([accounts |-> config.accounts, app |-> config.app]))
      BY <1>0, LoadedFacts, WrittenFacts DEF config
    <2>3. IsDocument(backup')
      BY <2>1, <2>2 DEF Written
    <2> QED BY <2>1, <2>3 DEF PreferencesInv, CopyIsCurrent, FileLoads
  <1>12. CASE \E d \in Documents \cup {backup} : ImportConfiguration(d)
    <2>1. PICK d \in Documents \cup {backup} : ImportConfiguration(d)
      BY <1>12
    <2>2. /\ view.up /\ Reconfigured /\ view' = Outdated /\ backup' = backup
          /\ imported' = d /\ document' = Written(Parsed(d))
      BY <2>1 DEF ImportConfiguration
    <2>3. IsDocument(d)
      BY <1>0, <2>1, PreferencesAssumption
    <2>4. /\ DOMAIN Parsed(d).accounts \subseteq Users
          /\ Parsed(d).accounts \in [DOMAIN Parsed(d).accounts -> Account]
          /\ Parsed(d).app \in [AppFields -> Values]
      <3>1. CASE d.shape = "single"
        BY <2>3, <3>1, DocumentFacts DEF Parsed, NoAccounts
      <3>2. CASE d.shape = "pairs"
        BY <2>3, <3>2, DocumentFacts DEF Parsed, Account
      <3>3. CASE d.shape = "folders"
        BY <2>3, <3>3, DocumentFacts DEF Parsed
      <3> QED BY <2>3, <3>1, <3>2, <3>3, DocumentFacts
    <2>5. IsDocument(document')
      BY <2>2, <2>4 DEF Written, IsDocument
    <2>6. FileLoads'
      BY <2>2 DEF FileLoads
    <2> QED BY <1>a, <2>2, <2>5, <2>6, NewFile
  <1>13. CASE StartAgain
    <2>1. /\ document' = document /\ backup' = backup /\ imported' = imported
          /\ view' = NoView /\ cached' = LoadedOrDefault(document)
      BY <1>13 DEF StartAgain
    <2>2. CopyIsCurrent'
      BY <2>1 DEF CopyIsCurrent, LoadedOrDefault
    <2> QED BY <1>0, <1>b, <2>1, <2>2, NewFile
  <1> QED BY <1>1, <1>2, <1>3, <1>4, <1>5, <1>6, <1>7, <1>8, <1>9, <1>10, <1>11, <1>12, <1>13
          DEF PreferencesNext

\* Whatever is chosen, typed, imported or signed in to, in any order: the file loads
\* at the next start unless an import brought one that does not, and what the open
\* pages would write back is what the file holds.
THEOREM PagesAgreeWithTheFile == PreferencesSpec => []SettingsAgree
  <1>1. PreferencesInv => SettingsAgree
    BY DEF PreferencesInv, SettingsAgree, WidgetsShowFile, Agree, FoundIn, Found, FieldIn,
           OnFile
  <1> QED BY <1>1, PreferencesStart, PreferencesStep, PTL DEF PreferencesSpec

-----------------------------------------------------------------------------
(* The lines of the rows.                                                  *)

\* The fields of a row.
RowFields == {"phase", "late", "connected", "active", "channel", "left", "line"}

\* The flag that lets a report through is set while a run is under way or in line,
\* and a line is shown only then.
LinesInv ==
    /\ DOMAIN progress = Rows /\ \A r \in Rows : DOMAIN progress[r] = RowFields
    /\ \A r \in Rows : progress[r].active => progress[r].phase \notin {"away", "idle"}
    /\ LinesAreOfRuns

\* A row that is well and shows what it should.
RowIsWell(row) ==
    /\ DOMAIN row = RowFields
    /\ row.active => row.phase \notin {"away", "idle"}
    /\ row.line # NoLine => row.phase \notin {"away", "idle"}

\* The rows start without a line, each away or idle.
LEMMA InitLines == ProgressInit => LinesInv
<1> SUFFICES ASSUME ProgressInit PROVE LinesInv OBVIOUS
<1>1. PICK first \in SUBSET Rows :
        progress = [r \in Rows |-> IF r \in first THEN [NoRow EXCEPT !.phase = "idle"] ELSE NoRow]
  BY DEF ProgressInit
<1>2. /\ DOMAIN NoRow = RowFields /\ ~NoRow.active /\ NoRow.line = NoLine
      /\ DOMAIN [NoRow EXCEPT !.phase = "idle"] = RowFields
      /\ ~[NoRow EXCEPT !.phase = "idle"].active /\ [NoRow EXCEPT !.phase = "idle"].line = NoLine
  BY DEF NoRow, RowFields
<1>3. DOMAIN progress = Rows BY <1>1
<1>4. ASSUME NEW r \in Rows PROVE RowIsWell(progress[r])
  <2>1. progress[r] = [NoRow EXCEPT !.phase = "idle"] \/ progress[r] = NoRow BY <1>1
  <2> QED BY <1>2, <2>1 DEF RowIsWell
<1> QED BY <1>3, <1>4 DEF LinesInv, LinesAreOfRuns, RowIsWell

\* A step that leaves every row but one alone.
LEMMA OneRowStep ==
    ASSUME LinesInv, NEW r \in Rows, NEW row, progress' = [progress EXCEPT ![r] = row],
           RowIsWell(row)
    PROVE  LinesInv'
  BY DEF LinesInv, LinesAreOfRuns, RowIsWell

\* What the handlers of the main loop and the engine make of one row is well.
LEMMA RowSteps ==
    ASSUME NEW row, RowIsWell(row)
    PROVE  /\ RowIsWell(Connected(row)) \/ row.phase = "away"
           /\ \A n : RowIsWell(Begun(row, n))
           /\ RowIsWell([Prepared(row) EXCEPT !.phase = "waiting"])
           /\ RowIsWell(Over(row)) /\ RowIsWell(Heard(row))
           /\ \A c, n : RowIsWell([row EXCEPT !.channel = c, !.left = n])
           /\ RowIsWell([row EXCEPT !.phase = "ended"])
           /\ row.phase = "away" => RowIsWell([row EXCEPT !.phase = "idle", !.late = TRUE])
  BY DEF RowIsWell, RowFields, Connected, Begun, Prepared, Over, Heard

\* A line stands for a run: each step of the loop and of the engines.
LEMMA LinesStep == LinesInv /\ [ProgressNext]_progressVars => LinesInv'
<1> SUFFICES ASSUME LinesInv, [ProgressNext]_progressVars PROVE LinesInv' OBVIOUS
<1>1. \A r \in Rows : RowIsWell(progress[r]) BY DEF LinesInv, LinesAreOfRuns, RowIsWell
<1>2. CASE UNCHANGED progressVars BY <1>2 DEF progressVars, LinesInv, LinesAreOfRuns
<1>3. CASE Connect
  <2>1. \A r \in Rows : RowIsWell(progress'[r])
    BY <1>1, <1>3, RowSteps DEF Connect, LinesInv
  <2>2. DOMAIN progress' = Rows BY <1>3 DEF Connect
  <2> QED BY <2>1, <2>2 DEF LinesInv, LinesAreOfRuns, RowIsWell
<1>4. CASE WaiterStarts
  <2> DEFINE r == Head(slot.waiters)
  <2>1. PICK n \in 0..MaxOperations :
          progress' = [progress EXCEPT ![r] = Begun(progress[r], n)]
    BY <1>4 DEF WaiterStarts
  <2>2. CASE r \in Rows
    <3>1. RowIsWell(Begun(progress[r], n)) BY <1>1, <2>2, RowSteps
    <3> HIDE DEF r
    <3> QED BY <2>1, <2>2, <3>1, OneRowStep
  <2>3. CASE r \notin Rows
    <3>1. DOMAIN progress' = Rows /\ \A q \in Rows : progress'[q] = progress[q]
      BY <2>1, <2>3 DEF LinesInv
    <3> QED BY <3>1 DEF LinesInv, LinesAreOfRuns
  <2> QED BY <2>2, <2>3
<1>5. ASSUME NEW r \in Rows, AddRow(r) PROVE LinesInv'
  <2>1. /\ progress[r].phase = "away"
        /\ progress' = [progress EXCEPT ![r] = [progress[r] EXCEPT !.phase = "idle", !.late = TRUE]]
    BY <1>5 DEF AddRow, LinesInv
  <2>2. RowIsWell([progress[r] EXCEPT !.phase = "idle", !.late = TRUE]) BY <1>1, <2>1, RowSteps
  <2> QED BY <2>1, <2>2, OneRowStep
<1>6. ASSUME NEW r \in Rows, Attempt(r) PROVE LinesInv'
  <2>1. \/ \E n \in 0..MaxOperations : progress' = [progress EXCEPT ![r] = Begun(progress[r], n)]
        \/ progress' = [progress EXCEPT ![r] = [Prepared(progress[r]) EXCEPT !.phase = "waiting"]]
    BY <1>6 DEF Attempt
  <2>2. RowIsWell(progress[r]) BY <1>1
  <2>3. ASSUME NEW n \in 0..MaxOperations,
               progress' = [progress EXCEPT ![r] = Begun(progress[r], n)]
        PROVE  LinesInv'
    <3>1. RowIsWell(Begun(progress[r], n)) BY <2>2, RowSteps
    <3> QED BY <2>3, <3>1, OneRowStep
  <2>4. RowIsWell([Prepared(progress[r]) EXCEPT !.phase = "waiting"]) BY <2>2, RowSteps
  <2> QED BY <2>1, <2>3, <2>4, OneRowStep
<1>7. ASSUME NEW r \in Rows, EngineWorks(r) PROVE LinesInv'
  <2>1. RowIsWell(progress[r]) BY <1>1
  <2>2. CASE Announce(r)
    <3>1. PICK kind \in Kinds :
            progress' = [progress EXCEPT ![r] =
                [progress[r] EXCEPT !.channel = Append(progress[r].channel, kind),
                                    !.left = progress[r].left - 1]]
      BY <2>2 DEF Announce, LinesInv, RowFields
    <3>2. RowIsWell([progress[r] EXCEPT !.channel = Append(progress[r].channel, kind),
                                        !.left = progress[r].left - 1])
      BY <2>1, RowSteps
    <3> QED BY <3>1, <3>2, OneRowStep
  <2>3. CASE EngineReturns(r)
    <3>1. progress' = [progress EXCEPT ![r] = [progress[r] EXCEPT !.phase = "ended"]]
      BY <2>3 DEF EngineReturns
    <3> QED BY <2>1, <3>1, RowSteps, OneRowStep
  <2> QED BY <1>7, <2>2, <2>3 DEF EngineWorks
<1>8. ASSUME NEW r \in Rows, LoopTurns(r) PROVE LinesInv'
  <2>1. \/ progress' = [progress EXCEPT ![r] = Over(progress[r])]
        \/ progress' = [progress EXCEPT ![r] = Heard(progress[r])]
    BY <1>8 DEF LoopTurns, RunOver, Forward
  <2> QED BY <1>1, <2>1, RowSteps, OneRowStep
<1> QED BY <1>2, <1>3, <1>4, <1>5, <1>6, <1>7, <1>8 DEF ProgressNext

\* LinesAreOfRuns for any folders, channels and numbers of reports and runs: the
\* forwarder drops what it finds in the channel once the run is over
\* (account_runtime.rs, connect_progress; scheduler.rs, finished).
THEOREM LinesStandForRuns == ProgressSpec => []LinesAreOfRuns
<1>1. LinesInv => LinesAreOfRuns BY DEF LinesInv
<1> QED BY <1>1, InitLines, LinesStep, PTL DEF ProgressSpec

-----------------------------------------------------------------------------
(* The main window.                                                        *)

\* What folders and accounts have reported.
Moods == FolderStates \cup {"idle_not_synced"}

\* The accounts have their types; whoever runs is on disk, and ids are unique.
DeskIsWell(d) ==
    /\ d \in [order : Seq(Owners), used : SUBSET Owners,
              lists : [Owners -> Seq(FolderIds)],
              runtime : [Owners -> Seq(FolderIds) \cup {NotRunning}],
              state : [FolderIds -> Moods], mood : [Owners -> Moods], born : Nat]
    /\ Range(d.order) \subseteq d.used /\ IsInjective(d.order)
    /\ \A a \in Owners : Runs(d, a) => a \in Range(d.order)

\* What the view of an account subscribes to.
EarsFor(seen) == [f \in FolderIds |-> IF f \in Listed(seen) THEN SubscriptionsPerRow ELSE 0]

\* The fields of the window.
WindowFields ==
    {"active", "selected", "settings", "page", "wizard", "view", "ears", "config", "sidebar",
     "world", "reports", "refreshes", "stumbles"}

\* The window has its fields, and listens to what it shows.
WindowIsWell(w) ==
    /\ DOMAIN w = WindowFields /\ w.config \in Seq(Owners) /\ w.sidebar \in Seq(Owners)
    /\ w.stumbles \in Nat /\ w.ears = EarsFor(w.view)

\* What is in front of the user: the account's view, if it runs.
AtFront(d, a) == IF a \in Owners /\ Runs(d, a) THEN ViewOf(d, a) ELSE BlankView

\* The window shows the account in front, and nothing of a page that was left.
FrontIsTrue(d, w) ==
    /\ w.active \in Owners \cup {NoOwner} /\ w.selected = w.active
    /\ w.view = AtFront(d, w.active)
    /\ w.page = "settings" => w.settings # NoOwner
    /\ w.page = "add-account" => w.wizard
    /\ w.settings \in {NoOwner, w.active}

\* What was read and written without a failure is what is there.
SettingsWereRead(d, w) ==
    /\ w.sidebar = d.order /\ w.config = d.order
    /\ w.active = NoOwner <=> d.order = <<>>
    /\ \A a \in Range(d.order) : d.runtime[a] = d.lists[a]

\* Every account runs the folders it has on disk, or the last read failed: then
\* the window has no account and no way to one but a refresh.
RuntimesAreCurrent(d, w) ==
    \/ \A a \in Owners : Runs(d, a) => d.runtime[a] = d.lists[a]
    \/ w.config = <<>> /\ w.sidebar = <<>> /\ w.active = NoOwner /\ w.page # "settings"

\* Only of accounts that were there is a picture on its way.
PicturesAreOfUsed(p, d) ==
    /\ DOMAIN p = {"cached", "painted", "asked", "stored", "overtaken"}
    /\ p.asked \in [Owners -> Nat] /\ p.stored \in [Owners -> Nat]
    /\ \A a \in Owners : p.asked[a] > 0 \/ p.stored[a] > 0 => a \in d.used

\* A picture on its way, or cached, is of an account that is there, unless its
\* removal overtook the fetch; what the pool has stored is cached.
PicturesAreDue(p, d) ==
    /\ p.cached \subseteq Range(d.order) \cup p.overtaken
    /\ \A a \in Owners :
           /\ p.asked[a] > 0 => a \in Range(d.order) \cup p.overtaken
           /\ p.stored[a] > 0 /\ a \in Range(d.order) => a \in p.cached

\* The parts of the invariant.
WindowInv ==
    /\ DeskIsWell(desk) /\ WindowIsWell(window) /\ FrontIsTrue(desk, window)
    /\ RuntimesAreCurrent(desk, window) /\ PicturesAreOfUsed(avatars, desk)
    /\ Range(window.sidebar) \subseteq desk.used
    /\ window.stumbles = 0 =>
           /\ SettingsWereRead(desk, window) /\ PicturesAreDue(avatars, desk)
           /\ avatars.painted \subseteq avatars.cached \cap Range(desk.order)

\* A view of an account is never the blank one: it has a summary.
LEMMA ViewsDiffer == ASSUME NEW d, NEW a PROVE ViewOf(d, a) # BlankView
<1>1. DOMAIN ViewOf(d, a) = {"owner", "rows", "light", "text"} BY DEF ViewOf
<1>2. DOMAIN BlankView = {"owner", "rows"} BY DEF BlankView
<1> QED BY <1>1, <1>2

\* What the run checks follows.
LEMMA WindowInvShows == WindowInv => WindowIsTrue
<1> SUFFICES ASSUME WindowInv PROVE WindowIsTrue OBVIOUS
<1>1. window.view = BlankView <=> ~(window.active \in Owners /\ Runs(desk, window.active))
  BY ViewsDiffer DEF WindowInv, FrontIsTrue, AtFront
<1>2. window.view # BlankView => window.view = ViewOf(desk, window.active)
  BY DEF WindowInv, FrontIsTrue, AtFront
<1>3. \A f \in FolderIds :
         window.ears[f] = IF f \in Listed(window.view) THEN SubscriptionsPerRow ELSE 0
  BY DEF WindowInv, WindowIsWell, EarsFor
<1>4. PagesAreTrue
  BY <1>1, <1>2, <1>3 DEF WindowInv, FrontIsTrue, SettingsWereRead, PagesAreTrue
<1>5. PicturesAreTrue BY DEF WindowInv, PicturesAreTrue, PicturesAreDue
<1> QED BY <1>4, <1>5 DEF WindowIsTrue

\* What retain leaves of a sequence of ids: all but the one, which is gone for good
\* where ids are unique.
LEMMA RetainedFacts ==
    ASSUME NEW S, NEW s \in Seq(S), NEW x
    PROVE  /\ Retained(s, x) \in Seq(S)
           /\ Range(Retained(s, x)) \subseteq Range(s)
           /\ Range(s) \ {x} \subseteq Range(Retained(s, x))
           /\ IsInjective(s) => x \notin Range(Retained(s, x)) /\ IsInjective(Retained(s, x))
<1>1. CASE x \notin Range(s) BY <1>1 DEF Retained
<1>2. CASE x \in Range(s)
  <2> DEFINE i == CHOOSE i \in DOMAIN s : s[i] = x
             t == RemoveAt(s, i)
  <2>1. i \in DOMAIN s /\ s[i] = x BY <1>2 DEF Range
  <2>2. i \in 1..Len(s) /\ Len(s) \in Nat BY <2>1
  <2> HIDE DEF i
  <2>3. /\ SubSeq(s, 1, i - 1) \in Seq(S) /\ Len(SubSeq(s, 1, i - 1)) = i - 1
        /\ \A j \in 1..(i - 1) : SubSeq(s, 1, i - 1)[j] = s[j]
    BY <2>2
  <2>4. /\ SubSeq(s, i + 1, Len(s)) \in Seq(S) /\ Len(SubSeq(s, i + 1, Len(s))) = Len(s) - i
        /\ \A j \in 1..(Len(s) - i) : SubSeq(s, i + 1, Len(s))[j] = s[j + i]
    BY <2>2
  <2> DEFINE u == SubSeq(s, 1, i - 1)
             v == SubSeq(s, i + 1, Len(s))
  <2>5. t \in Seq(S) /\ Len(t) = Len(s) - 1
    <3>1. t = u \o v BY DEF RemoveAt
    <3> HIDE DEF u, v, t
    <3>2. u \in Seq(S) /\ v \in Seq(S) /\ Len(u) = i - 1 /\ Len(v) = Len(s) - i
      BY <2>3, <2>4 DEF u, v
    <3> QED BY <2>2, <3>1, <3>2
  <2>6. \A j \in 1..(Len(s) - 1) : t[j] = IF j < i THEN s[j] ELSE s[j + 1]
    <3>1. t = u \o v BY DEF RemoveAt
    <3>2. /\ u \in Seq(S) /\ v \in Seq(S) /\ Len(u) = i - 1 /\ Len(v) = Len(s) - i
          /\ \A j \in 1..(i - 1) : u[j] = s[j]
          /\ \A j \in 1..(Len(s) - i) : v[j] = s[j + i]
      BY <2>3, <2>4
    <3> HIDE DEF u, v, t
    <3> SUFFICES ASSUME NEW j \in 1..(Len(s) - 1) PROVE t[j] = IF j < i THEN s[j] ELSE s[j + 1]
      OBVIOUS
    <3>3. CASE j < i
      <4>1. t[j] = u[j] BY <2>2, <3>1, <3>2, <3>3
      <4> QED BY <2>2, <3>2, <3>3, <4>1
    <3>4. CASE ~(j < i)
      <4>1. t[j] = v[j - (i - 1)] BY <2>2, <3>1, <3>2, <3>4
      <4>2. v[j - (i - 1)] = s[(j - (i - 1)) + i] BY <2>2, <3>2, <3>4
      <4>3. (j - (i - 1)) + i = j + 1 BY <2>2
      <4> QED BY <3>4, <4>1, <4>2, <4>3
    <3> QED BY <3>3, <3>4
  <2>7. Retained(s, x) = t BY <1>2 DEF Retained, i
  <2> HIDE DEF t
  <2>8. DOMAIN t = 1..(Len(s) - 1) BY <2>5, <2>2
  <2>9. Range(t) \subseteq Range(s) BY <2>2, <2>6, <2>8 DEF Range
  <2>10. Range(s) \ {x} \subseteq Range(t)
    <3> SUFFICES ASSUME NEW j \in 1..Len(s), s[j] # x PROVE s[j] \in Range(t)
      BY DEF Range
    <3>1. CASE j < i
      <4>1. j \in 1..(Len(s) - 1) /\ t[j] = s[j] BY <2>2, <2>6, <3>1
      <4> QED BY <2>8, <4>1 DEF Range
    <3>2. CASE j > i
      <4>1. (j - 1) \in 1..(Len(s) - 1) /\ ~(j - 1 < i) /\ (j - 1) + 1 = j BY <2>2, <3>2
      <4>2. t[j - 1] = s[j] BY <2>6, <4>1
      <4> QED BY <2>8, <4>1, <4>2 DEF Range
    <3> QED BY <2>1, <2>2, <3>1, <3>2
  <2>11. ASSUME IsInjective(s) PROVE x \notin Range(t) /\ IsInjective(t)
    <3>1. \A j, k \in 1..Len(s) : s[j] = s[k] => j = k BY <2>11 DEF IsInjective
    <3>2. \A j \in 1..(Len(s) - 1) :
             LET m == IF j < i THEN j ELSE j + 1 IN m \in 1..Len(s) /\ t[j] = s[m] /\ m # i
      BY <2>2, <2>6
    <3>3. x \notin Range(t) BY <2>1, <2>2, <2>8, <3>1, <3>2 DEF Range
    <3>4. ASSUME NEW j \in 1..(Len(s) - 1), NEW k \in 1..(Len(s) - 1), t[j] = t[k] PROVE j = k
      <4> DEFINE m == IF j < i THEN j ELSE j + 1
                 n == IF k < i THEN k ELSE k + 1
      <4>1. m = n BY <3>1, <3>2, <3>4
      <4> QED BY <2>2, <4>1
    <3> QED BY <2>8, <3>3, <3>4 DEF IsInjective
  <2> QED BY <2>5, <2>7, <2>9, <2>10, <2>11
<1> QED BY <1>1, <1>2

\* What is appended is there, and unique if it is new.
LEMMA AppendedFacts ==
    ASSUME NEW S, NEW s \in Seq(S), NEW x \in S
    PROVE  /\ Append(s, x) \in Seq(S) /\ Range(Append(s, x)) = Range(s) \cup {x}
           /\ IsInjective(s) /\ x \notin Range(s) => IsInjective(Append(s, x))
<1>1. Append(s, x) \in Seq(S) /\ Len(Append(s, x)) = Len(s) + 1 /\ Len(s) \in Nat OBVIOUS
<1>2. \A i \in 1..Len(s) : Append(s, x)[i] = s[i] OBVIOUS
<1>3. Append(s, x)[Len(s) + 1] = x OBVIOUS
<1>4. DOMAIN s = 1..Len(s) /\ DOMAIN Append(s, x) = 1..(Len(s) + 1) BY <1>1
<1>5. Range(Append(s, x)) = Range(s) \cup {x} BY <1>1, <1>2, <1>3, <1>4 DEF Range
<1>6. IsInjective(s) /\ x \notin Range(s) => IsInjective(Append(s, x))
  BY <1>1, <1>2, <1>3, <1>4 DEF IsInjective, Range
<1> QED BY <1>1, <1>5, <1>6

\* What takes over from one view to the next hears only the next.
LEMMA EarsFollow ==
    ASSUME NEW ears, NEW old, NEW new, ears = EarsFor(old)
    PROVE  Rehearsed(ears, old, new) = EarsFor(new)
  BY DEF Rehearsed, EarsFor, SubscriptionsPerRow

\* present_account shows the account it puts in front, and nothing else.
LEMMA InFrontFacts ==
    ASSUME NEW d, NEW w, NEW wish, WindowIsWell(w)
    PROVE  LET x == InFront(d, w, wish) IN
           /\ WindowIsWell(x) /\ FrontIsTrue(d, x) /\ x.page = "sync"
           /\ x.config = w.config /\ x.sidebar = w.sidebar /\ x.stumbles = w.stumbles
           /\ x.settings = NoOwner /\ x.wizard = w.wizard
           /\ wish \in Range(w.sidebar) => x.active = wish
           /\ wish \notin Range(w.sidebar) =>
                  x.active = IF w.config = <<>> THEN NoOwner ELSE Head(w.config)
<1> DEFINE a == IF wish \in Range(w.sidebar) THEN wish
                ELSE IF w.config = <<>> THEN NoOwner ELSE Head(w.config)
           seen == IF a \in Owners /\ Runs(d, a) THEN ViewOf(d, a) ELSE BlankView
           ears == Rehearsed(w.ears, w.view, seen)
           x == InFront(d, w, wish)
<1>1. x = [[w EXCEPT !.settings = NoOwner, !.page = "sync"]
              EXCEPT !.active = a, !.selected = a, !.view = seen, !.ears = ears]
  BY DEF InFront, SettingsDropped, WindowIsWell, WindowFields
<1>2. a \in Owners \cup {NoOwner}
  <2>1. Range(w.sidebar) \subseteq Owners BY DEF WindowIsWell, Range
  <2>2. w.config # <<>> => Head(w.config) \in Owners BY DEF WindowIsWell
  <2> QED BY <2>1, <2>2
<1>3. seen = AtFront(d, a) BY DEF AtFront
<1>4. ears = EarsFor(seen) BY EarsFollow DEF WindowIsWell
<1> HIDE DEF a, seen, ears, x
<1>5. /\ DOMAIN x = WindowFields /\ x.settings = NoOwner /\ x.page = "sync" /\ x.active = a
      /\ x.selected = a /\ x.view = seen /\ x.ears = ears /\ x.config = w.config
      /\ x.sidebar = w.sidebar /\ x.stumbles = w.stumbles /\ x.wizard = w.wizard
  BY <1>1 DEF WindowIsWell, WindowFields
<1>6. WindowIsWell(x) BY <1>4, <1>5 DEF WindowIsWell
<1>7. FrontIsTrue(d, x) BY <1>2, <1>3, <1>5 DEF FrontIsTrue
<1> QED BY <1>5, <1>6, <1>7 DEF x, a

\* A list of folders is not the mark of an account that does not run.
LEMMA ListsRun == \A list \in Seq(FolderIds) : list # NotRunning
<1> SUFFICES ASSUME NotRunning \in Seq(FolderIds) PROVE FALSE OBVIOUS
<1>1. Len(NotRunning) = 1 /\ NotRunning[1] = 0 BY DEF NotRunning
<1>2. NotRunning[1] \in FolderIds BY <1>1
<1> QED BY <1>1, <1>2 DEF FolderIds

\* sync_folders for whoever runs: the accounts stay as they were but for that.
LEMMA ReconciledFacts ==
    ASSUME NEW d, DeskIsWell(d), NEW read \in BOOLEAN
    PROVE  LET now == Reconciled(d, read) IN
           /\ DeskIsWell(now) /\ now.order = d.order /\ now.used = d.used /\ now.lists = d.lists
           /\ \A a \in Owners : Runs(now, a) <=> Runs(d, a)
           /\ read => \A a \in Owners : Runs(now, a) => now.runtime[a] = now.lists[a]
<1> DEFINE now == Reconciled(d, read)
           value(a) == IF read /\ a \in Range(d.order) /\ Runs(d, a) THEN d.lists[a]
                       ELSE d.runtime[a]
<1>1. \A a \in Owners : value(a) \in Seq(FolderIds) \cup {NotRunning} BY DEF DeskIsWell
<1>2. /\ now = [d EXCEPT !.runtime = [a \in Owners |-> value(a)]]
      /\ now.runtime = [a \in Owners |-> value(a)]
      /\ now.order = d.order /\ now.used = d.used /\ now.lists = d.lists
      /\ now.state = d.state /\ now.mood = d.mood /\ now.born = d.born
  BY DEF Reconciled, DeskIsWell
<1>3. now \in [order : Seq(Owners), used : SUBSET Owners,
              lists : [Owners -> Seq(FolderIds)],
              runtime : [Owners -> Seq(FolderIds) \cup {NotRunning}],
              state : [FolderIds -> Moods], mood : [Owners -> Moods], born : Nat]
  <2> DEFINE rt == [a \in Owners |-> value(a)]
  <2>1. rt \in [Owners -> Seq(FolderIds) \cup {NotRunning}] BY <1>1
  <2>2. now = [d EXCEPT !.runtime = rt] BY <1>2
  <2> HIDE DEF rt, now
  <2> QED BY <2>1, <2>2 DEF DeskIsWell
<1> HIDE DEF now
<1>4. \A a \in Owners : d.lists[a] # NotRunning BY ListsRun DEF DeskIsWell
<1>5. \A a \in Owners : Runs(now, a) <=> Runs(d, a) BY <1>2, <1>4 DEF Runs
<1>6. DeskIsWell(now) BY <1>2, <1>3, <1>5 DEF DeskIsWell
<1>7. read => \A a \in Owners : Runs(now, a) => now.runtime[a] = now.lists[a]
  BY <1>2, <1>5 DEF DeskIsWell
<1> QED BY <1>2, <1>5, <1>6, <1>7 DEF now

\* refresh_sidebar: only accounts that are listed are sent for.
LEMMA PaintedFacts ==
    ASSUME NEW p, NEW w, NEW d, PicturesAreOfUsed(p, d), Range(w.sidebar) \subseteq d.used
    PROVE  LET x == SidebarPainted(p, w) IN
           /\ PicturesAreOfUsed(x, d)
           /\ w.sidebar = d.order /\ PicturesAreDue(p, d) =>
                  PicturesAreDue(x, d) /\ x.painted \subseteq x.cached \cap Range(d.order)
<1> DEFINE missing == IF w.world.pictures THEN Range(w.sidebar) \ p.cached ELSE {}
           sent == [a \in Owners |-> p.asked[a] + IF a \in missing THEN 1 ELSE 0]
           x == SidebarPainted(p, w)
<1>1. missing \subseteq Range(w.sidebar) OBVIOUS
<1>2. x = [p EXCEPT !.painted = p.cached \cap Range(w.sidebar), !.asked = sent]
  BY DEF SidebarPainted, PicturesAreOfUsed
<1> HIDE DEF missing, x
<1>3. /\ DOMAIN x = DOMAIN p /\ x.painted = p.cached \cap Range(w.sidebar) /\ x.asked = sent
      /\ x.cached = p.cached /\ x.stored = p.stored /\ x.overtaken = p.overtaken
  BY <1>2 DEF PicturesAreOfUsed
<1>4. sent \in [Owners -> Nat] /\ \A a \in Owners : sent[a] > 0 => p.asked[a] > 0 \/ a \in missing
  BY DEF PicturesAreOfUsed
<1> HIDE DEF sent
<1>5. PicturesAreOfUsed(x, d) BY <1>1, <1>3, <1>4 DEF PicturesAreOfUsed
<1>6. ASSUME w.sidebar = d.order, PicturesAreDue(p, d)
      PROVE  PicturesAreDue(x, d) /\ x.painted \subseteq x.cached \cap Range(d.order)
  BY <1>1, <1>3, <1>4, <1>6 DEF PicturesAreDue
<1> QED BY <1>5, <1>6 DEF x

\* A refresh after a change: everything is as it was read.
LEMMA RefreshKeeps ==
    ASSUME NEW d, DeskIsWell(d), NEW w, WindowIsWell(w), NEW pics, PicturesAreOfUsed(pics, d),
           NEW read \in BOOLEAN, Changed(d, w, pics, read),
           w.stumbles = 0 => /\ read /\ PicturesAreDue(pics, d)
                             /\ \A a \in Range(d.order) : Runs(d, a)
    PROVE  WindowInv'
<1> DEFINE now == Reconciled(d, read)
           list == AsRead(d, read)
           told == [w EXCEPT !.config = list, !.sidebar = list]
           x == InFront(now, told, w.active)
<1>1. /\ DeskIsWell(now) /\ now.order = d.order /\ now.used = d.used /\ now.lists = d.lists
      /\ \A a \in Owners : Runs(now, a) <=> Runs(d, a)
      /\ read => \A a \in Owners : Runs(now, a) => now.runtime[a] = now.lists[a]
  BY ReconciledFacts
<1>2. list \in Seq(Owners) /\ Range(list) \subseteq d.used /\ (read => list = d.order)
      /\ (~read => list = <<>>)
  BY DEF AsRead, DeskIsWell, Range
<1>3. /\ WindowIsWell(told) /\ told.config = list /\ told.sidebar = list
      /\ told.stumbles = w.stumbles /\ told.active = w.active
  BY <1>2 DEF WindowIsWell, WindowFields
<1>4. /\ desk' = now /\ window' = [x EXCEPT !.refreshes = x.refreshes + 1]
      /\ avatars' = SidebarPainted(pics, x)
  BY DEF Changed, AfterRefresh
<1> HIDE DEF now, list, told
<1>5. /\ WindowIsWell(x) /\ FrontIsTrue(now, x) /\ x.page = "sync"
      /\ x.config = list /\ x.sidebar = list /\ x.stumbles = w.stumbles
      /\ w.active \in Range(list) => x.active = w.active
      /\ w.active \notin Range(list) =>
             x.active = IF list = <<>> THEN NoOwner ELSE Head(list)
  BY <1>3, InFrontFacts
<1> HIDE DEF x
<1>6. /\ window'.config = list /\ window'.sidebar = list /\ window'.stumbles = w.stumbles
      /\ window'.active = x.active /\ window'.page = "sync"
      /\ WindowIsWell(window') /\ FrontIsTrue(now, window')
  BY <1>4, <1>5 DEF WindowIsWell, WindowFields, FrontIsTrue
<1>7. RuntimesAreCurrent(now, window')
  <2>1. CASE read BY <1>1, <2>1 DEF RuntimesAreCurrent
  <2>2. CASE ~read
    <3>1. list = <<>> /\ Range(list) = {} BY <1>2, <2>2 DEF Range
    <3> QED BY <1>5, <1>6, <3>1 DEF RuntimesAreCurrent
  <2> QED BY <2>1, <2>2
<1>8. PicturesAreOfUsed(pics, now) BY <1>1 DEF PicturesAreOfUsed
<1>9. Range(x.sidebar) \subseteq now.used BY <1>1, <1>2, <1>5
<1>10. PicturesAreOfUsed(avatars', now) BY <1>4, <1>8, <1>9, PaintedFacts
<1>11. ASSUME window'.stumbles = 0
       PROVE  /\ SettingsWereRead(now, window') /\ PicturesAreDue(avatars', now)
              /\ avatars'.painted \subseteq avatars'.cached \cap Range(now.order)
  <2>1. read /\ list = now.order /\ PicturesAreDue(pics, now)
    BY <1>1, <1>2, <1>6, <1>11 DEF PicturesAreDue
  <2>2. /\ PicturesAreDue(avatars', now)
        /\ avatars'.painted \subseteq avatars'.cached \cap Range(now.order)
    BY <1>4, <1>5, <1>8, <1>9, <2>1, PaintedFacts
  <2>3. window'.active = NoOwner <=> now.order = <<>>
    <3>1. Range(list) \subseteq Owners /\ (list # <<>> => Head(list) \in Owners)
      BY <1>2 DEF Range
    <3>2. list = <<>> => Range(list) = {} BY DEF Range
    <3>3. NoOwner \notin Owners BY WindowAssumption
    <3> QED BY <1>5, <1>6, <2>1, <3>1, <3>2, <3>3
  <2>4. \A a \in Range(now.order) : now.runtime[a] = now.lists[a]
    <3>1. Range(now.order) \subseteq Owners BY <1>1 DEF DeskIsWell
    <3>2. \A a \in Range(d.order) : Runs(d, a) BY <1>6, <1>11
    <3> QED BY <1>1, <2>1, <3>1, <3>2
  <2> QED BY <1>6, <2>1, <2>2, <2>3, <2>4 DEF SettingsWereRead
<1> QED
  BY <1>1, <1>4, <1>5, <1>6, <1>7, <1>9, <1>10, <1>11 DEF WindowInv

\* A step of the window that leaves accounts and pictures alone.
LEMMA WindowOnly ==
    ASSUME WindowInv, UNCHANGED <<desk, avatars>>, WindowIsWell(window'),
           FrontIsTrue(desk, window'), window'.config = window.config,
           window'.sidebar = window.sidebar, window'.stumbles = window.stumbles,
           window'.active = window.active,
           window'.page = "settings" =>
               window.page = "settings" \/ window'.active \in Range(window.config)
    PROVE  WindowInv'
<1>1. RuntimesAreCurrent(desk, window')
  <2>1. Range(<<>>) = {} BY DEF Range
  <2> QED BY <2>1 DEF RuntimesAreCurrent, WindowInv
<1>2. ASSUME window.stumbles = 0 PROVE SettingsWereRead(desk, window')
  BY <1>2 DEF WindowInv, SettingsWereRead
<1> QED BY <1>1, <1>2 DEF WindowInv

\* The invariant at the launch.
LEMMA InitWindow == WindowInit => WindowInv
<1> SUFFICES ASSUME WindowInit PROVE WindowInv OBVIOUS
<1>1. PICK order \in {<<>>} \cup {<<a>> : a \in Owners}, list \in FirstLists,
           hoard \in BOOLEAN, world \in WindowWorlds :
        LET d == [order |-> order, used |-> Range(order),
                  lists |-> [a \in Owners |-> IF a \in Range(order) THEN list ELSE <<>>],
                  runtime |-> [a \in Owners |->
                      IF a \in Range(order) THEN list ELSE NotRunning],
                  state |-> [f \in FolderIds |-> "idle_not_synced"],
                  mood |-> [a \in Owners |-> "idle_not_synced"],
                  born |-> IF order = <<>> THEN 0 ELSE Len(list)]
            w == [active |-> NoOwner, selected |-> NoOwner, settings |-> NoOwner,
                  page |-> "sync", wizard |-> FALSE, view |-> BlankView,
                  ears |-> [f \in FolderIds |-> 0], config |-> order, sidebar |-> order,
                  world |-> world,
                  reports |-> 0, refreshes |-> 0, stumbles |-> 0]
            p == [cached |-> IF hoard THEN Range(order) ELSE {}, painted |-> {},
                  asked |-> [a \in Owners |-> 0], stored |-> [a \in Owners |-> 0],
                  overtaken |-> {}]
        IN  /\ desk = d
            /\ window = InFront(d, w, NoOwner)
            /\ avatars = SidebarPainted(p, w)
  BY DEF WindowInit
<1> DEFINE d == [order |-> order, used |-> Range(order),
                 lists |-> [a \in Owners |-> IF a \in Range(order) THEN list ELSE <<>>],
                 runtime |-> [a \in Owners |->
                     IF a \in Range(order) THEN list ELSE NotRunning],
                 state |-> [f \in FolderIds |-> "idle_not_synced"],
                 mood |-> [a \in Owners |-> "idle_not_synced"],
                 born |-> IF order = <<>> THEN 0 ELSE Len(list)]
           w == [active |-> NoOwner, selected |-> NoOwner, settings |-> NoOwner,
                 page |-> "sync", wizard |-> FALSE, view |-> BlankView,
                 ears |-> [f \in FolderIds |-> 0], config |-> order, sidebar |-> order,
                 world |-> world,
                 reports |-> 0, refreshes |-> 0, stumbles |-> 0]
           p == [cached |-> IF hoard THEN Range(order) ELSE {}, painted |-> {},
                 asked |-> [a \in Owners |-> 0], stored |-> [a \in Owners |-> 0],
                 overtaken |-> {}]
           x == InFront(d, w, NoOwner)
<1>2. desk = d /\ window = x /\ avatars = SidebarPainted(p, w) BY <1>1
<1>3. order \in Seq(Owners) /\ IsInjective(order) /\ Range(order) \subseteq Owners
  <2>1. CASE order = <<>>
    BY <2>1 DEF IsInjective, Range
  <2>2. CASE order # <<>>
    <3>1. PICK a \in Owners : order = <<a>> BY <2>2
    <3>2. order \in Seq(Owners) /\ Len(order) = 1 /\ order[1] = a BY <3>1
    <3>3. DOMAIN order = {1} BY <3>2
    <3> QED BY <3>2, <3>3 DEF IsInjective, Range
  <2> QED BY <2>1, <2>2
<1>4. list \in Seq(FolderIds) /\ Len(list) \in Nat
  <2>1. 1 \in FolderIds /\ 2 \in FolderIds BY WindowAssumption DEF FolderIds
  <2>2. list = <<>> \/ list = <<1>> \/ list = <<1, 2>> BY DEF FirstLists
  <2>3. <<>> \in Seq(FolderIds) /\ <<1>> \in Seq(FolderIds) /\ <<1, 2>> \in Seq(FolderIds)
    BY <2>1
  <2>4. list \in Seq(FolderIds) BY <2>2, <2>3
  <2> QED BY <2>4
<1>5. DeskIsWell(d)
  <2> DEFINE ls == [a \in Owners |-> IF a \in Range(order) THEN list ELSE <<>>]
             rt == [a \in Owners |-> IF a \in Range(order) THEN list ELSE NotRunning]
             st == [f \in FolderIds |-> "idle_not_synced"]
             md == [a \in Owners |-> "idle_not_synced"]
             bn == IF order = <<>> THEN 0 ELSE Len(list)
  <2>1. /\ ls \in [Owners -> Seq(FolderIds)]
        /\ rt \in [Owners -> Seq(FolderIds) \cup {NotRunning}]
        /\ st \in [FolderIds -> Moods] /\ md \in [Owners -> Moods] /\ bn \in Nat
    BY <1>4 DEF Moods
  <2>2. d = [order |-> order, used |-> Range(order), lists |-> ls, runtime |-> rt,
             state |-> st, mood |-> md, born |-> bn]
    OBVIOUS
  <2>3. \A a \in Owners : rt[a] # NotRunning => a \in Range(order) OBVIOUS
  <2> HIDE DEF ls, rt, st, md, bn, d
  <2> QED BY <1>3, <2>1, <2>2, <2>3 DEF DeskIsWell, Runs
<1>6. WindowIsWell(w) /\ w.sidebar = order /\ w.config = order /\ w.stumbles = 0
  BY <1>3 DEF WindowIsWell, WindowFields, EarsFor, Listed, BlankView
<1>7. \A a \in Owners : d.runtime[a] # NotRunning => d.runtime[a] = d.lists[a]
  OBVIOUS
<1>8. \A a \in Range(order) : d.runtime[a] = d.lists[a] BY <1>3
<1>9. PicturesAreOfUsed(p, d) /\ PicturesAreDue(p, d)
  BY DEF PicturesAreOfUsed, PicturesAreDue
<1>10. d.order = order /\ d.used = Range(order) OBVIOUS
<1> HIDE DEF d, w, p, x
<1>11. /\ WindowIsWell(x) /\ FrontIsTrue(d, x) /\ x.page = "sync"
       /\ x.config = order /\ x.sidebar = order /\ x.stumbles = 0
       /\ x.active = IF order = <<>> THEN NoOwner ELSE Head(order)
  <2>1. NoOwner \notin Range(w.sidebar) BY <1>3, <1>6, WindowAssumption
  <2> QED BY <1>6, <2>1, InFrontFacts DEF x
<1>12. /\ PicturesAreOfUsed(avatars, d) /\ PicturesAreDue(avatars, d)
       /\ avatars.painted \subseteq avatars.cached \cap Range(d.order)
  BY <1>2, <1>6, <1>9, <1>10, PaintedFacts
<1>13. SettingsWereRead(d, x)
  <2>1. order # <<>> => Head(order) \in Owners BY <1>3
  <2> QED BY <1>8, <1>10, <1>11, <2>1, WindowAssumption DEF SettingsWereRead
<1>14. RuntimesAreCurrent(d, x) BY <1>7 DEF RuntimesAreCurrent, Runs
<1> QED BY <1>2, <1>5, <1>10, <1>11, <1>12, <1>13, <1>14 DEF WindowInv

\* The user navigates.
LEMMA NavigateStep ==
    ASSUME WindowInv, NEW a,
           SelectRow(a) \/ SelectInSettings(a) \/ ShowAddAccount \/ ShowPreferences
           \/ BackFromOverlay
    PROVE  WindowInv'
<1>1. WindowIsWell(window) /\ FrontIsTrue(desk, window) BY DEF WindowInv
<1>2. CASE SelectRow(a)
  <2>1. /\ a \in Range(window.sidebar) /\ a \in Owners
        /\ window' = InFront(desk, window, a)
    BY <1>1, <1>2 DEF SelectRow, WindowIsWell, Range
  <2>2. /\ WindowIsWell(window') /\ FrontIsTrue(desk, window') /\ window'.page = "sync"
        /\ window'.config = window.config /\ window'.sidebar = window.sidebar
        /\ window'.stumbles = window.stumbles /\ window'.active = a
    BY <1>1, <2>1, InFrontFacts
  <2>3. RuntimesAreCurrent(desk, window')
    <3>1. window.sidebar # <<>> BY <2>1 DEF Range
    <3> QED BY <3>1 DEF WindowInv, RuntimesAreCurrent
  <2>4. ASSUME window.stumbles = 0 PROVE SettingsWereRead(desk, window')
    <3>1. desk.order # <<>> BY <2>1, <2>4 DEF WindowInv, SettingsWereRead, Range
    <3>2. a # NoOwner BY <2>1, WindowAssumption
    <3> QED BY <2>2, <2>4, <3>1, <3>2 DEF WindowInv, SettingsWereRead
  <2> QED BY <1>2, <2>2, <2>3, <2>4 DEF WindowInv, SelectRow
<1>3. CASE SelectInSettings(a)
  <2> DEFINE x == InFront(desk, window, a)
  <2>1. /\ window.page = "settings" /\ a \in Range(desk.order) /\ a \in Owners
        /\ window' = SettingsShown(x) /\ UNCHANGED <<desk, avatars>>
    BY <1>3 DEF SelectInSettings, WindowInv, DeskIsWell, Range
  <2>2. /\ WindowIsWell(x) /\ FrontIsTrue(desk, x) /\ x.page = "sync"
        /\ x.config = window.config /\ x.sidebar = window.sidebar
        /\ x.stumbles = window.stumbles /\ x.settings = NoOwner
        /\ (a \in Range(window.sidebar) => x.active = a)
    BY <1>1, InFrontFacts
  <2> HIDE DEF x
  <2>3. /\ WindowIsWell(window') /\ FrontIsTrue(desk, window')
        /\ window'.config = x.config /\ window'.sidebar = x.sidebar
        /\ window'.stumbles = x.stumbles /\ window'.active = x.active
    <3>1. CASE x.active \notin Range(x.config) BY <2>1, <2>2, <3>1 DEF SettingsShown
    <3>2. CASE x.active \in Range(x.config)
      <4>1. window' = [x EXCEPT !.settings = x.active, !.page = "settings"]
        BY <2>1, <2>2, <3>2 DEF SettingsShown, WindowIsWell, WindowFields
      <4>2. x.active # NoOwner
        BY <2>2, <3>2, WindowAssumption DEF WindowIsWell, Range
      <4> QED BY <2>2, <4>1, <4>2 DEF WindowIsWell, WindowFields, FrontIsTrue
    <3> QED BY <3>1, <3>2
  <2>4. \A b \in Owners : Runs(desk, b) => desk.runtime[b] = desk.lists[b]
    BY <2>1 DEF WindowInv, RuntimesAreCurrent
  <2>5. ASSUME window.stumbles = 0 PROVE SettingsWereRead(desk, window')
    <3>1. window.sidebar = desk.order BY <2>5 DEF WindowInv, SettingsWereRead
    <3>2. window'.active = a /\ desk.order # <<>> BY <2>1, <2>2, <2>3, <3>1 DEF Range
    <3>3. a # NoOwner BY <2>1, WindowAssumption
    <3> QED BY <2>2, <2>3, <2>5, <3>2, <3>3 DEF WindowInv, SettingsWereRead
  <2> QED BY <2>1, <2>2, <2>3, <2>4, <2>5 DEF WindowInv, RuntimesAreCurrent
<1>4. CASE ShowAddAccount
  <2>1. /\ window' = [window EXCEPT !.wizard = TRUE, !.page = "add-account"]
        /\ UNCHANGED <<desk, avatars>>
    BY <1>4 DEF ShowAddAccount
  <2> QED BY <1>1, <2>1, WindowOnly DEF WindowIsWell, WindowFields, FrontIsTrue
<1>5. CASE ShowPreferences
  <2>1. window' = SettingsShown(window) /\ UNCHANGED <<desk, avatars>>
    BY <1>5 DEF ShowPreferences
  <2>2. CASE window.active \notin Range(window.config)
    BY <1>1, <2>1, <2>2, WindowOnly DEF SettingsShown
  <2>3. CASE window.active \in Range(window.config)
    <3>1. window' = [window EXCEPT !.settings = IF @ = NoOwner THEN window.active ELSE @,
                                   !.page = "settings"]
      BY <2>1, <2>3 DEF SettingsShown
    <3>2. window.active # NoOwner
      BY <1>1, <2>3, WindowAssumption DEF WindowIsWell, Range
    <3> QED BY <1>1, <2>1, <2>3, <3>1, <3>2, WindowOnly DEF WindowIsWell, WindowFields, FrontIsTrue
  <2> QED BY <2>2, <2>3
<1>6. CASE BackFromOverlay
  <2>1. /\ window' = [window EXCEPT !.page = "sync",
                                    !.wizard = IF window.page = "add-account" THEN FALSE ELSE @]
        /\ UNCHANGED <<desk, avatars>>
    BY <1>6 DEF BackFromOverlay
  <2> QED BY <1>1, <2>1, WindowOnly DEF WindowIsWell, WindowFields, FrontIsTrue
<1> QED BY <1>2, <1>3, <1>4, <1>5, <1>6

\* A folder or an account reports: what is shown of it changes with it.
LEMMA ReportStep ==
    ASSUME WindowInv, NEW a \in Owners,
           (\E f \in FolderIds : FolderTurns(f)) \/ AccountTurns(a)
    PROVE  WindowInv'
<1>1. WindowIsWell(window) /\ FrontIsTrue(desk, window) /\ DeskIsWell(desk) BY DEF WindowInv
<1> DEFINE b == window.active
<1>2. UNCHANGED avatars BY DEF FolderTurns, AccountTurns
<1>3. /\ DeskIsWell(desk') /\ desk'.order = desk.order /\ desk'.used = desk.used
      /\ desk'.lists = desk.lists /\ desk'.runtime = desk.runtime
  <2>1. CASE \E f \in FolderIds : FolderTurns(f)
    <3>1. PICK f \in FolderIds, s \in FolderStates : desk' = [desk EXCEPT !.state[f] = s]
      BY <2>1 DEF FolderTurns
    <3> QED BY <1>1, <3>1 DEF DeskIsWell, Moods, Runs
  <2>2. CASE AccountTurns(a)
    <3>1. PICK s \in FolderStates : desk' = [desk EXCEPT !.mood[a] = s]
      BY <2>2 DEF AccountTurns
    <3> QED BY <1>1, <3>1 DEF DeskIsWell, Moods, Runs
  <2> QED BY <2>1, <2>2
<1>4. /\ window'.view = AtFront(desk', b) /\ DOMAIN window' = WindowFields
      /\ Listed(window'.view) = Listed(window.view)
      /\ \A x \in WindowFields \ {"view", "reports"} : window'[x] = window[x]
  <2>1. CASE ~(b \in Owners /\ Runs(desk, b))
    <3>1. window.view = BlankView /\ AtFront(desk', b) = BlankView
      BY <1>1, <1>3, <2>1 DEF FrontIsTrue, AtFront, Runs
    <3>2. window.view.owner = NoOwner /\ window.view.rows = <<>>
      BY <3>1 DEF BlankView
    <3>3. CASE \E f \in FolderIds : FolderTurns(f)
      <4>1. PICK f \in FolderIds, s \in FolderStates :
               window' = [[window EXCEPT !.view.rows = [i \in DOMAIN window.view.rows |->
                            IF window.view.rows[i].folder = f THEN Rendered(f, s)
                            ELSE window.view.rows[i]]] EXCEPT !.reports = @ + 1]
        BY <3>3 DEF FolderTurns, Reported
      <4> DEFINE lines == [i \in DOMAIN window.view.rows |->
                            IF window.view.rows[i].folder = f THEN Rendered(f, s)
                            ELSE window.view.rows[i]]
      <4>2. lines = <<>> BY <3>2
      <4>3. window' = [[window EXCEPT !.view.rows = lines] EXCEPT !.reports = @ + 1] BY <4>1
      <4> HIDE DEF lines
      <4>4. window'.view = [window.view EXCEPT !.rows = <<>>]
        BY <1>1, <4>2, <4>3 DEF WindowIsWell, WindowFields
      <4>5. window'.view = BlankView BY <3>1, <4>4 DEF BlankView
      <4> QED BY <1>1, <3>1, <4>3, <4>5 DEF WindowIsWell, WindowFields
    <3>4. CASE AccountTurns(a)
      <4>1. window' = [window EXCEPT !.reports = @ + 1]
        BY <3>2, <3>4, WindowAssumption DEF AccountTurns, Reported
      <4> QED BY <1>1, <3>1, <4>1 DEF WindowIsWell, WindowFields
    <3> QED BY <3>3, <3>4
  <2>2. CASE b \in Owners /\ Runs(desk, b)
    <3>1. window.view = ViewOf(desk, b) /\ AtFront(desk', b) = ViewOf(desk', b)
      BY <1>1, <1>3, <2>2 DEF FrontIsTrue, AtFront, Runs
    <3> DEFINE ids == desk.runtime[b]
    <3>2. ids \in Seq(FolderIds) BY <1>1, <2>2 DEF DeskIsWell, Runs
    <3>3. \A i \in DOMAIN ids : ids[i] \in FolderIds BY <3>2
    <3>4. CASE \E f \in FolderIds : FolderTurns(f)
      <4>1. PICK f \in FolderIds, s \in FolderStates :
               /\ desk' = [desk EXCEPT !.state[f] = s]
               /\ window' = [[window EXCEPT !.view.rows = [i \in DOMAIN window.view.rows |->
                               IF window.view.rows[i].folder = f THEN Rendered(f, s)
                               ELSE window.view.rows[i]]] EXCEPT !.reports = @ + 1]
        BY <3>4 DEF FolderTurns, Reported
      <4> DEFINE lines == [i \in DOMAIN window.view.rows |->
                            IF window.view.rows[i].folder = f THEN Rendered(f, s)
                            ELSE window.view.rows[i]]
                 new == [i \in DOMAIN ids |-> Rendered(ids[i], desk'.state[ids[i]])]
      <4>2. /\ window.view.rows = [i \in DOMAIN ids |-> Rendered(ids[i], desk.state[ids[i]])]
            /\ window.view.owner = b /\ window.view.light = Light(desk.mood[b])
            /\ window.view.text = ConnectionText(desk.mood[b])
            /\ DOMAIN window.view = {"owner", "rows", "light", "text"}
        BY <3>1 DEF ViewOf
      <4>3. desk'.mood = desk.mood /\ desk'.state = [desk.state EXCEPT ![f] = s]
        BY ONLY <1>1, <4>1 DEF DeskIsWell
      <4>4. \A g \in FolderIds : desk'.state[g] = IF g = f THEN s ELSE desk.state[g]
        BY <1>1, <4>3 DEF DeskIsWell
      <4>5. \A g, t : Rendered(g, t).folder = g BY DEF Rendered
      <4>6. ASSUME NEW i \in DOMAIN ids
            PROVE  /\ i \in DOMAIN window.view.rows /\ window.view.rows[i].folder = ids[i]
                   /\ new[i].folder = ids[i] /\ lines[i] = new[i]
        <5>1. /\ i \in DOMAIN window.view.rows
              /\ window.view.rows[i] = Rendered(ids[i], desk.state[ids[i]])
          BY <4>2
        <5>2. window.view.rows[i].folder = ids[i] BY <4>5, <5>1
        <5>3. new[i] = Rendered(ids[i], desk'.state[ids[i]]) OBVIOUS
        <5>4. new[i].folder = ids[i] BY <4>5, <5>3
        <5>5. lines[i] = IF ids[i] = f THEN Rendered(f, s) ELSE window.view.rows[i]
          BY <5>1, <5>2
        <5>6. desk'.state[ids[i]] = IF ids[i] = f THEN s ELSE desk.state[ids[i]]
          BY <3>3, <4>4
        <5>7. lines[i] = new[i]
          <6> HIDE DEF lines, new, ids
          <6> QED BY <5>1, <5>3, <5>5, <5>6
        <5> HIDE DEF lines, new, ids
        <5> QED BY <5>1, <5>2, <5>4, <5>7
      <4>7. DOMAIN window.view.rows = DOMAIN ids BY <4>2
      <4>8. DOMAIN lines = DOMAIN ids /\ DOMAIN new = DOMAIN ids BY <4>7
      <4>9. lines = new
        <5>1. lines = [i \in DOMAIN ids |-> lines[i]] BY <4>8
        <5>2. new = [i \in DOMAIN ids |-> new[i]] OBVIOUS
        <5> HIDE DEF lines, new, ids
        <5> QED BY <4>6, <5>1, <5>2
      <4>10. window' = [[window EXCEPT !.view.rows = lines] EXCEPT !.reports = @ + 1] BY <4>1
      <4>11. ViewOf(desk', b) = [owner |-> b, rows |-> new, light |-> Light(desk.mood[b]),
                                text |-> ConnectionText(desk.mood[b])]
        BY <1>3, <4>3 DEF ViewOf
      <4> HIDE DEF lines, new, ids
      <4>12. window'.view = [window.view EXCEPT !.rows = new]
        BY <1>1, <4>9, <4>10 DEF WindowIsWell, WindowFields
      <4>13. window'.view = ViewOf(desk', b)
        BY <4>2, <4>11, <4>12, <3>1 DEF ViewOf
      <4>14. window'.view.rows = new BY <4>11, <4>13
      <4>15. Listed(window'.view) = Listed(window.view) BY <4>6, <4>7, <4>8, <4>14 DEF Listed
      <4>16. /\ DOMAIN window' = WindowFields
             /\ \A x \in WindowFields \ {"view", "reports"} : window'[x] = window[x]
        BY <1>1, <4>10 DEF WindowIsWell, WindowFields
      <4> QED BY <3>1, <4>13, <4>15, <4>16
    <3>5. CASE AccountTurns(a)
      <4>1. PICK s \in FolderStates :
               /\ desk' = [desk EXCEPT !.mood[a] = s]
               /\ window' = Reported(IF window.view.owner # a THEN window
                              ELSE [window EXCEPT !.view.light = Light(s),
                                                  !.view.text = ConnectionText(s)])
        BY <3>5 DEF AccountTurns
      <4>2. window.view.owner = b BY <3>1 DEF ViewOf
      <4>3. desk'.state = desk.state /\ \A c \in Owners : desk'.mood[c] = IF c = a THEN s
                                                                          ELSE desk.mood[c]
        BY <1>1, <4>1 DEF DeskIsWell
      <4>4. CASE b # a
        <5>1. ViewOf(desk', b) = ViewOf(desk, b) BY <1>3, <2>2, <4>3, <4>4 DEF ViewOf
        <5>2. window' = [window EXCEPT !.reports = @ + 1] BY <4>1, <4>2, <4>4 DEF Reported
        <5> QED BY <1>1, <3>1, <5>1, <5>2 DEF WindowIsWell, WindowFields
      <4>5. CASE b = a
        <5>1. window' = [[window EXCEPT !.view.light = Light(s), !.view.text = ConnectionText(s)]
                            EXCEPT !.reports = @ + 1]
          BY <4>1, <4>2, <4>5 DEF Reported
        <5>2. window'.view = [window.view EXCEPT !.light = Light(s), !.text = ConnectionText(s)]
          BY <1>1, <5>1 DEF WindowIsWell, WindowFields
        <5> DEFINE lines == [i \in DOMAIN ids |-> Rendered(ids[i], desk.state[ids[i]])]
        <5>3. /\ window.view = [owner |-> b, rows |-> lines, light |-> Light(desk.mood[b]),
                                text |-> ConnectionText(desk.mood[b])]
              /\ ViewOf(desk', b) = [owner |-> b, rows |-> lines, light |-> Light(s),
                                     text |-> ConnectionText(s)]
          BY <1>3, <2>2, <3>1, <4>3, <4>5 DEF ViewOf
        <5> HIDE DEF lines
        <5>4. window'.view = ViewOf(desk', b)
          <6> DEFINE light == Light(s)
                     text == ConnectionText(s)
                     light0 == Light(desk.mood[b])
                     text0 == ConnectionText(desk.mood[b])
          <6>1. /\ window.view = [owner |-> b, rows |-> lines, light |-> light0, text |-> text0]
                /\ ViewOf(desk', b) = [owner |-> b, rows |-> lines, light |-> light, text |-> text]
                /\ window'.view = [window.view EXCEPT !.light = light, !.text = text]
            BY <5>2, <5>3
          <6> HIDE DEF light, text, light0, text0
          <6>2. [window.view EXCEPT !.light = light]
                = [owner |-> b, rows |-> lines, light |-> light, text |-> text0]
            BY <6>1
          <6>3. window'.view = [[window.view EXCEPT !.light = light] EXCEPT !.text = text]
            BY <6>1
          <6> QED BY <6>1, <6>2, <6>3
        <5>6. ViewOf(desk', b).rows = ViewOf(desk, b).rows
          <6>1. ViewOf(desk, b).rows = lines BY <3>1, <5>3
          <6> QED BY <5>3, <6>1
        <5>5. Listed(window'.view) = Listed(window.view)
          BY <3>1, <5>4, <5>6 DEF Listed
        <5> QED BY <1>1, <3>1, <5>1, <5>4, <5>5 DEF WindowIsWell, WindowFields
      <4> QED BY <4>4, <4>5
    <3> QED BY <3>4, <3>5
  <2> QED BY <2>1, <2>2
<1>5. WindowIsWell(window')
  <2>1. EarsFor(window'.view) = EarsFor(window.view) BY <1>4 DEF EarsFor
  <2> QED BY <1>1, <1>4, <2>1 DEF WindowIsWell, WindowFields
<1>6. FrontIsTrue(desk', window') BY <1>1, <1>4 DEF FrontIsTrue, WindowFields
<1>7. RuntimesAreCurrent(desk', window')
  BY <1>3, <1>4 DEF WindowInv, RuntimesAreCurrent, WindowFields, Runs
<1>8. PicturesAreOfUsed(avatars', desk') BY <1>2, <1>3 DEF WindowInv, PicturesAreOfUsed
<1>9. window'.stumbles = window.stumbles /\ window'.sidebar = window.sidebar
  BY <1>4 DEF WindowFields
<1>10. ASSUME window.stumbles = 0
       PROVE  SettingsWereRead(desk', window') /\ PicturesAreDue(avatars', desk')
  BY <1>2, <1>3, <1>4, <1>10 DEF WindowInv, SettingsWereRead, PicturesAreDue, WindowFields
<1> QED BY <1>2, <1>3, <1>5, <1>6, <1>7, <1>8, <1>9, <1>10 DEF WindowInv

\* The pool and the main loop bring a picture.
LEMMA PictureStep ==
    ASSUME WindowInv, NEW a \in Owners, AvatarStored(a) \/ AvatarPainted(a)
    PROVE  WindowInv'
<1>1. PicturesAreOfUsed(avatars, desk) BY DEF WindowInv
<1>2. UNCHANGED <<desk, window>> BY DEF AvatarStored, AvatarPainted
<1>3. /\ DOMAIN avatars' = DOMAIN avatars /\ avatars'.overtaken = avatars.overtaken
      /\ avatars'.asked \in [Owners -> Nat] /\ avatars'.stored \in [Owners -> Nat]
      /\ \A b \in Owners :
             /\ avatars'.asked[b] > 0 => avatars.asked[b] > 0
             /\ avatars'.stored[b] > 0 => avatars.stored[b] > 0 \/ (b = a /\ a \in avatars'.cached)
      /\ avatars.cached \subseteq avatars'.cached
      /\ \/ avatars'.painted = avatars.painted
         \/ /\ avatars.stored[a] > 0
            /\ avatars'.painted = avatars.painted \cup ({a} \cap Range(window.sidebar))
      /\ avatars'.cached = avatars.cached \/ avatars'.cached = avatars.cached \cup {a}
      /\ avatars'.cached # avatars.cached \/ avatars'.stored # avatars.stored =>
             avatars.asked[a] > 0 \/ avatars.stored[a] > 0
      /\ avatars'.cached # avatars.cached => avatars.asked[a] > 0
  <2>1. CASE AvatarStored(a)
    <3>1. avatars.asked[a] \in Nat \ {0} /\ avatars.stored[a] \in Nat BY <1>1, <2>1
          DEF AvatarStored, PicturesAreOfUsed
    <3>2. CASE avatars' = [avatars EXCEPT !.asked[a] = @ - 1]
      BY <1>1, <3>1, <3>2 DEF PicturesAreOfUsed
    <3>3. CASE avatars' = [avatars EXCEPT !.asked[a] = @ - 1, !.stored[a] = @ + 1,
                                          !.cached = @ \cup {a}]
      BY <1>1, <3>1, <3>3 DEF PicturesAreOfUsed
    <3> QED BY <2>1, <3>2, <3>3 DEF AvatarStored
  <2>2. CASE AvatarPainted(a)
    <3>1. avatars.stored[a] \in Nat \ {0}
      BY <1>1, <2>2 DEF AvatarPainted, PicturesAreOfUsed
    <3>2. avatars' = [avatars EXCEPT !.stored[a] = @ - 1,
                                     !.painted = @ \cup ({a} \cap Range(window.sidebar))]
      BY <2>2 DEF AvatarPainted
    <3> QED BY <1>1, <3>1, <3>2 DEF PicturesAreOfUsed
  <2> QED BY <2>1, <2>2
<1>4. PicturesAreOfUsed(avatars', desk)
  <2>1. \A b \in Owners : avatars'.stored[b] > 0 =>
           avatars.stored[b] > 0 \/ avatars.asked[b] > 0
    BY <1>1, <1>3 DEF PicturesAreOfUsed
  <2> QED BY <1>1, <1>3, <2>1 DEF PicturesAreOfUsed
<1>5. ASSUME window.stumbles = 0
      PROVE  /\ PicturesAreDue(avatars', desk)
             /\ avatars'.painted \subseteq avatars'.cached \cap Range(desk.order)
  <2>1. /\ PicturesAreDue(avatars, desk) /\ window.sidebar = desk.order
        /\ avatars.painted \subseteq avatars.cached \cap Range(desk.order)
    BY <1>5 DEF WindowInv, SettingsWereRead
  <2>2. PicturesAreDue(avatars', desk)
    <3>1. avatars'.cached \subseteq Range(desk.order) \cup avatars'.overtaken
      BY <1>3, <2>1 DEF PicturesAreDue
    <3>2. \A b \in Owners : avatars'.asked[b] > 0 => b \in Range(desk.order) \cup avatars'.overtaken
      BY <1>3, <2>1 DEF PicturesAreDue
    <3>3. \A b \in Owners :
             avatars'.stored[b] > 0 /\ b \in Range(desk.order) => b \in avatars'.cached
      BY <1>3, <2>1 DEF PicturesAreDue
    <3> QED BY <3>1, <3>2, <3>3 DEF PicturesAreDue
  <2>3. avatars'.painted \subseteq avatars'.cached \cap Range(desk.order)
    BY <1>3, <2>1 DEF PicturesAreDue
  <2> QED BY <2>2, <2>3
<1> QED BY <1>2, <1>4, <1>5 DEF WindowInv

\* A folder is added or removed.
LEMMA EditListStep ==
    ASSUME WindowInv, EditFolderList
    PROVE  WindowInv'
<1> DEFINE a == window.active
<1>1. PICK read \in BOOLEAN :
        LET w == [window EXCEPT !.stumbles = @ + Stumbles(read)]
        IN  /\ a \in Range(desk.order) /\ window.page # "add-account"
            /\ Stumbling(Stumbles(read))
            /\ \/ /\ desk.born < MaxFolders
                  /\ Changed([desk EXCEPT !.born = @ + 1,
                                          !.lists[a] = Append(@, desk.born + 1)],
                             w, avatars, read)
               \/ \E f \in Range(desk.lists[a]) :
                      Changed([desk EXCEPT !.lists[a] = Retained(@, f)], w, avatars, read)
  BY DEF EditFolderList
<1> DEFINE w == [window EXCEPT !.stumbles = @ + Stumbles(read)]
<1>2. DeskIsWell(desk) /\ WindowIsWell(window) /\ PicturesAreOfUsed(avatars, desk)
  BY DEF WindowInv
<1>3. a \in Range(desk.order) /\ a \in Owners
  <2>1. Range(desk.order) \subseteq Owners BY <1>2 DEF DeskIsWell, Range
  <2> QED BY <1>1, <2>1
<1>4. /\ WindowIsWell(w) /\ w.stumbles = window.stumbles + Stumbles(read)
  BY <1>2 DEF WindowIsWell, WindowFields, Stumbles
<1>5. w.stumbles = 0 => read /\ window.stumbles = 0
  BY <1>2, <1>4 DEF WindowIsWell, Stumbles
<1> HIDE DEF w
<1>6. ASSUME NEW list \in Seq(FolderIds), NEW n \in Nat, NEW d,
             d = [desk EXCEPT !.born = n, !.lists[a] = list], Changed(d, w, avatars, read)
      PROVE  WindowInv'
  <2>1. /\ d.order = desk.order /\ d.used = desk.used /\ d.runtime = desk.runtime
        /\ d.state = desk.state /\ d.mood = desk.mood
    BY <1>2, <1>6 DEF DeskIsWell
  <2>2. DeskIsWell(d) BY <1>2, <1>3, <1>6, <2>1 DEF DeskIsWell, Runs
  <2>3. PicturesAreOfUsed(avatars, d) BY <1>2, <2>1 DEF PicturesAreOfUsed
  <2>4. ASSUME w.stumbles = 0
        PROVE  read /\ PicturesAreDue(avatars, d) /\ \A b \in Range(d.order) : Runs(d, b)
    <3>1. read /\ PicturesAreDue(avatars, desk) /\ SettingsWereRead(desk, window)
      BY <1>5, <2>4 DEF WindowInv
    <3>2. \A b \in Range(desk.order) : b \in Owners /\ desk.runtime[b] = desk.lists[b]
      BY <1>2, <3>1 DEF SettingsWereRead, DeskIsWell, Range
    <3>3. \A b \in Owners : desk.lists[b] # NotRunning BY <1>2, ListsRun DEF DeskIsWell
    <3> QED BY <2>1, <3>1, <3>2, <3>3 DEF Runs, PicturesAreDue
  <2> QED BY <1>4, <1>6, <2>2, <2>3, <2>4, RefreshKeeps
<1>7. CASE /\ desk.born < MaxFolders
           /\ Changed([desk EXCEPT !.born = @ + 1, !.lists[a] = Append(@, desk.born + 1)],
                      w, avatars, read)
  <2>1. desk.born + 1 \in FolderIds /\ desk.born + 1 \in Nat /\ desk.lists[a] \in Seq(FolderIds)
    BY <1>2, <1>3, <1>7, WindowAssumption DEF DeskIsWell, FolderIds
  <2>2. Append(desk.lists[a], desk.born + 1) \in Seq(FolderIds) BY <2>1
  <2> DEFINE d == [desk EXCEPT !.born = desk.born + 1,
                               !.lists[a] = Append(desk.lists[a], desk.born + 1)]
  <2>3. d = [desk EXCEPT !.born = @ + 1, !.lists[a] = Append(@, desk.born + 1)]
    BY <1>2 DEF DeskIsWell
  <2>4. Changed(d, w, avatars, read) BY <1>7, <2>3
  <2> QED BY <1>6, <2>1, <2>2, <2>4
<1>8. ASSUME NEW f \in Range(desk.lists[a]),
             Changed([desk EXCEPT !.lists[a] = Retained(@, f)], w, avatars, read)
      PROVE  WindowInv'
  <2>1. desk.lists[a] \in Seq(FolderIds) /\ desk.born \in Nat BY <1>2, <1>3 DEF DeskIsWell
  <2>2. Retained(desk.lists[a], f) \in Seq(FolderIds) BY <2>1, RetainedFacts
  <2> DEFINE d == [desk EXCEPT !.born = desk.born, !.lists[a] = Retained(desk.lists[a], f)]
  <2>3. d = [desk EXCEPT !.lists[a] = Retained(@, f)] BY <1>2 DEF DeskIsWell
  <2>4. Changed(d, w, avatars, read) BY <1>8, <2>3
  <2> QED BY <1>6, <2>1, <2>2, <2>4
<1> QED BY <1>1, <1>7, <1>8 DEF w

\* The wizard adds an account; what it stored may be read back, or not.
LEMMA AddOwnerStep ==
    ASSUME WindowInv, NEW a \in Owners, AddOwner(a)
    PROVE  WindowInv'
<1> DEFINE list == <<desk.born + 1>>
           stored == [desk EXCEPT !.order = Append(@, a), !.used = @ \cup {a},
                                  !.lists[a] = list, !.born = @ + 1]
<1>1. DeskIsWell(desk) /\ WindowIsWell(window) /\ PicturesAreOfUsed(avatars, desk)
      /\ FrontIsTrue(desk, window)
  BY DEF WindowInv
<1>2. a \notin desk.used /\ desk.born < MaxFolders /\ window.page = "add-account"
  BY DEF AddOwner
<1>3. PICK back, read \in BOOLEAN :
        LET w == [window EXCEPT !.wizard = FALSE, !.page = "sync",
                                !.stumbles = @ + Stumbles(back) + Stumbles(read)]
        IN  /\ \/ /\ back
                  /\ Changed([stored EXCEPT !.runtime[a] = list], w, avatars, read)
               \/ /\ ~back /\ read
                  /\ desk' = stored /\ window' = w /\ UNCHANGED avatars
  BY DEF AddOwner
<1> DEFINE w == [window EXCEPT !.wizard = FALSE, !.page = "sync",
                               !.stumbles = @ + Stumbles(back) + Stumbles(read)]
<1>4. list \in Seq(FolderIds) /\ desk.born + 1 \in Nat
  <2>1. desk.born + 1 \in FolderIds /\ desk.born + 1 \in Nat
    BY <1>1, <1>2, WindowAssumption DEF DeskIsWell, FolderIds
  <2> QED BY <2>1
<1>5. a \notin Range(desk.order) /\ desk.runtime[a] = NotRunning
  BY <1>1, <1>2 DEF DeskIsWell, Runs
<1>6. /\ Append(desk.order, a) \in Seq(Owners)
      /\ Range(Append(desk.order, a)) = Range(desk.order) \cup {a}
      /\ IsInjective(Append(desk.order, a))
  <2>1. desk.order \in Seq(Owners) /\ IsInjective(desk.order) BY <1>1 DEF DeskIsWell
  <2> QED BY <1>5, <2>1, AppendedFacts
<1>7. /\ stored.order = Append(desk.order, a) /\ stored.used = desk.used \cup {a}
      /\ stored.lists = [desk.lists EXCEPT ![a] = list] /\ stored.born = desk.born + 1
      /\ stored.runtime = desk.runtime /\ stored.state = desk.state /\ stored.mood = desk.mood
  BY <1>1 DEF DeskIsWell
<1>8. DeskIsWell(stored)
  <2>1. stored \in [order : Seq(Owners), used : SUBSET Owners,
              lists : [Owners -> Seq(FolderIds)],
              runtime : [Owners -> Seq(FolderIds) \cup {NotRunning}],
              state : [FolderIds -> Moods], mood : [Owners -> Moods], born : Nat]
    <3> HIDE DEF list
    <3> QED BY <1>1, <1>4, <1>6 DEF DeskIsWell
  <2> HIDE DEF stored
  <2> QED BY <1>1, <1>6, <1>7, <2>1 DEF DeskIsWell, Runs
<1>9. /\ WindowIsWell(w) /\ w.stumbles = window.stumbles + Stumbles(back) + Stumbles(read)
  BY <1>1 DEF WindowIsWell, WindowFields, Stumbles
<1>10. w.stumbles = 0 => back /\ read /\ window.stumbles = 0
  BY <1>1, <1>9 DEF WindowIsWell, Stumbles
<1>11. PicturesAreOfUsed(avatars, stored) BY <1>1, <1>7 DEF PicturesAreOfUsed
<1>12. CASE back /\ Changed([stored EXCEPT !.runtime[a] = list], w, avatars, read)
  <2> DEFINE d == [stored EXCEPT !.runtime[a] = list]
  <2> HIDE DEF list, stored, w
  <2>1. /\ d.order = stored.order /\ d.used = stored.used /\ d.lists = stored.lists
        /\ d.runtime = [stored.runtime EXCEPT ![a] = list]
    BY <1>8 DEF DeskIsWell
  <2>2. DeskIsWell(d)
    <3>1. d \in [order : Seq(Owners), used : SUBSET Owners,
              lists : [Owners -> Seq(FolderIds)],
              runtime : [Owners -> Seq(FolderIds) \cup {NotRunning}],
              state : [FolderIds -> Moods], mood : [Owners -> Moods], born : Nat]
      BY <1>4, <1>8 DEF DeskIsWell
    <3>2. \A b \in Owners : Runs(d, b) => Runs(stored, b) \/ b = a
      BY <1>8, <2>1 DEF DeskIsWell, Runs
    <3>3. a \in Range(stored.order) BY <1>6, <1>7
    <3> HIDE DEF d
    <3> QED BY <1>8, <2>1, <3>1, <3>2, <3>3 DEF DeskIsWell
  <2>3. PicturesAreOfUsed(avatars, d) BY <1>11, <2>1 DEF PicturesAreOfUsed
  <2>4. ASSUME w.stumbles = 0
        PROVE  read /\ PicturesAreDue(avatars, d) /\ \A b \in Range(d.order) : Runs(d, b)
    <3>1. read /\ PicturesAreDue(avatars, desk) /\ SettingsWereRead(desk, window)
      BY <1>10, <2>4 DEF WindowInv
    <3>2. \A b \in Range(desk.order) : b \in Owners /\ desk.runtime[b] # NotRunning
      <4>1. \A b \in Owners : desk.lists[b] # NotRunning BY <1>1, ListsRun DEF DeskIsWell
      <4>2. \A b \in Range(desk.order) : b \in Owners BY <1>1 DEF DeskIsWell, Range
      <4> QED BY <3>1, <4>1, <4>2 DEF SettingsWereRead
    <3>3. \A b \in Range(d.order) : Runs(d, b)
      <4>1. d.runtime[a] = list
        BY <1>8, <2>1 DEF DeskIsWell
      <4>2. d.runtime[a] # NotRunning BY <1>4, <4>1, ListsRun
      <4>3. \A b \in Range(desk.order) : b # a => d.runtime[b] = desk.runtime[b]
        BY <1>7, <1>8, <2>1, <3>2 DEF DeskIsWell
      <4> HIDE DEF d
      <4> QED BY <1>6, <1>7, <2>1, <3>2, <4>2, <4>3 DEF Runs
    <3>4. avatars.stored[a] = 0
      BY <1>1, <1>2 DEF PicturesAreOfUsed
    <3>5. PicturesAreDue(avatars, d)
      <4> HIDE DEF d
      <4> QED BY <1>6, <1>7, <2>1, <3>1, <3>4 DEF PicturesAreDue
    <3> QED BY <3>1, <3>3, <3>5
  <2>5. Changed(d, w, avatars, read) BY <1>12 DEF w
  <2> HIDE DEF d
  <2> QED BY <1>9, <2>2, <2>3, <2>4, <2>5, RefreshKeeps
<1>13. CASE /\ ~back /\ read
            /\ desk' = stored /\ window' = w /\ UNCHANGED avatars
  <2>1. w.stumbles # 0 BY <1>10, <1>13
  <2>2. /\ w.active = window.active /\ w.selected = window.selected /\ w.page = "sync"
        /\ w.settings = window.settings /\ w.view = window.view /\ w.sidebar = window.sidebar
        /\ w.config = window.config
    BY <1>1 DEF WindowIsWell, WindowFields
  <2> HIDE DEF list, stored, w
  <2>3. AtFront(stored, w.active) = AtFront(desk, window.active)
    BY <1>7, <2>2 DEF AtFront, ViewOf, Runs
  <2>4. FrontIsTrue(stored, w) BY <1>1, <2>2, <2>3 DEF FrontIsTrue
  <2>5. RuntimesAreCurrent(stored, w)
    <3>1. \A b \in Owners : Runs(stored, b) => b # a BY <1>5, <1>7 DEF Runs
    <3>2. \A b \in Owners : b # a => stored.lists[b] = desk.lists[b]
      BY <1>1, <1>7 DEF DeskIsWell
    <3> QED BY <1>7, <2>2, <3>1, <3>2 DEF WindowInv, RuntimesAreCurrent, Runs
  <2>6. Range(w.sidebar) \subseteq stored.used BY <1>7, <2>2 DEF WindowInv
  <2> QED BY <1>8, <1>9, <1>11, <1>13, <2>1, <2>4, <2>5, <2>6 DEF WindowInv, w
<1> QED BY <1>3, <1>12, <1>13

\* The account in front goes, with its picture.
LEMMA RemoveOwnerStep ==
    ASSUME WindowInv, RemoveOwner
    PROVE  WindowInv'
<1> DEFINE a == window.active
<1>1. PICK stored, read \in BOOLEAN :
        LET gone == [desk EXCEPT !.runtime[a] = NotRunning,
                                 !.order = IF stored THEN Retained(@, a) ELSE @]
        IN  Changed(gone,
                    [window EXCEPT !.stumbles = @ + Stumbles(stored) + Stumbles(read)],
                    PictureDeleted(avatars, a), read)
  BY DEF RemoveOwner
<1> DEFINE order == IF stored THEN Retained(desk.order, a) ELSE desk.order
           d == [desk EXCEPT !.runtime[a] = NotRunning, !.order = order]
           w == [window EXCEPT !.stumbles = @ + Stumbles(stored) + Stumbles(read)]
           p == PictureDeleted(avatars, a)
<1>2. DeskIsWell(desk) /\ WindowIsWell(window) /\ PicturesAreOfUsed(avatars, desk)
  BY DEF WindowInv
<1>3. a \in Owners BY DEF RemoveOwner
<1>4. /\ order \in Seq(Owners) /\ Range(order) \subseteq Range(desk.order)
      /\ Range(desk.order) \ {a} \subseteq Range(order) /\ IsInjective(order)
      /\ stored => a \notin Range(order)
  <2>1. desk.order \in Seq(Owners) /\ IsInjective(desk.order) BY <1>2 DEF DeskIsWell
  <2> QED BY <2>1, RetainedFacts
<1>5. Changed(d, w, p, read)
  <2>1. d = [desk EXCEPT !.runtime[a] = NotRunning,
                         !.order = IF stored THEN Retained(@, a) ELSE @]
    BY <1>2 DEF DeskIsWell
  <2> QED BY <1>1, <2>1
<1> HIDE DEF order
<1>6. /\ d.order = order /\ d.used = desk.used /\ d.lists = desk.lists
      /\ d.runtime = [desk.runtime EXCEPT ![a] = NotRunning]
  BY <1>2 DEF DeskIsWell
<1>7. DeskIsWell(d)
  <2>1. d \in [order : Seq(Owners), used : SUBSET Owners,
              lists : [Owners -> Seq(FolderIds)],
              runtime : [Owners -> Seq(FolderIds) \cup {NotRunning}],
              state : [FolderIds -> Moods], mood : [Owners -> Moods], born : Nat]
    BY <1>2, <1>4 DEF DeskIsWell
  <2>2. \A b \in Owners : Runs(d, b) => Runs(desk, b) /\ b # a
    BY <1>2, <1>6 DEF DeskIsWell, Runs
  <2> HIDE DEF d
  <2> QED BY <1>2, <1>4, <1>6, <2>1, <2>2 DEF DeskIsWell
<1>8. /\ WindowIsWell(w) /\ w.stumbles = window.stumbles + Stumbles(stored) + Stumbles(read)
  BY <1>2 DEF WindowIsWell, WindowFields, Stumbles
<1>9. w.stumbles = 0 => stored /\ read /\ window.stumbles = 0
  BY <1>2, <1>8 DEF WindowIsWell, Stumbles
<1>10. /\ DOMAIN p = DOMAIN avatars /\ p.asked = avatars.asked /\ p.stored = avatars.stored
       /\ p.cached = avatars.cached \ {a}
       /\ p.overtaken = avatars.overtaken \cup (IF avatars.asked[a] > 0 THEN {a} ELSE {})
  BY <1>2 DEF PictureDeleted, PicturesAreOfUsed
<1> HIDE DEF d, w, p
<1>11. PicturesAreOfUsed(p, d) BY <1>2, <1>6, <1>10 DEF PicturesAreOfUsed
<1>12. ASSUME w.stumbles = 0
       PROVE  read /\ PicturesAreDue(p, d) /\ \A b \in Range(d.order) : Runs(d, b)
  <2>1. /\ stored /\ read /\ PicturesAreDue(avatars, desk)
        /\ SettingsWereRead(desk, window)
    BY <1>9, <1>12 DEF WindowInv
  <2>2. \A b \in Range(order) : b \in Range(desk.order) /\ b \in Owners /\ b # a
    BY <1>2, <1>4, <2>1 DEF DeskIsWell, Range
  <2>3. \A b \in Range(d.order) : Runs(d, b)
    <3>1. \A b \in Owners : desk.lists[b] # NotRunning BY <1>2, ListsRun DEF DeskIsWell
    <3>2. \A b \in Range(order) : desk.runtime[b] # NotRunning
      BY <2>1, <2>2, <3>1 DEF SettingsWereRead
    <3>3. \A b \in Owners : b # a => d.runtime[b] = desk.runtime[b]
      BY <1>2, <1>6 DEF DeskIsWell
    <3> QED BY <1>6, <2>2, <3>2, <3>3 DEF Runs
  <2>4. p.cached \subseteq Range(d.order) \cup p.overtaken
    BY <1>4, <1>6, <1>10, <2>1 DEF PicturesAreDue
  <2>5. \A b \in Owners : p.asked[b] > 0 => b \in Range(d.order) \cup p.overtaken
    BY <1>4, <1>6, <1>10, <2>1 DEF PicturesAreDue
  <2>6. \A b \in Owners : p.stored[b] > 0 /\ b \in Range(d.order) => b \in p.cached
    BY <1>4, <1>6, <1>10, <2>1 DEF PicturesAreDue
  <2> QED BY <2>1, <2>3, <2>4, <2>5, <2>6 DEF PicturesAreDue
<1> QED BY <1>5, <1>7, <1>8, <1>11, <1>12, RefreshKeeps

\* A setting of the account in front changed: it takes its folders from the disk,
\* and they are those it has, because the page is open.
LEMMA ReconfigureStep ==
    ASSUME WindowInv, Reconfigure
    PROVE  WindowInv'
<1>1. PICK read \in BOOLEAN :
        /\ window' = [window EXCEPT !.config = AsRead(desk, read),
                                    !.stumbles = @ + Stumbles(read),
                                    !.refreshes = @ + 1]
        /\ desk' = IF read /\ window.active \in Range(desk.order) /\ Runs(desk, window.active)
                   THEN [desk EXCEPT !.runtime[window.active] = desk.lists[window.active]]
                   ELSE desk
        /\ UNCHANGED avatars
  BY DEF Reconfigure
<1>2. DeskIsWell(desk) /\ WindowIsWell(window) /\ FrontIsTrue(desk, window)
  BY DEF WindowInv
<1>3. \A b \in Owners : Runs(desk, b) => desk.runtime[b] = desk.lists[b]
  BY DEF WindowInv, RuntimesAreCurrent, Reconfigure
<1>4. desk' = desk
  <2>1. CASE read /\ window.active \in Range(desk.order) /\ Runs(desk, window.active)
    <3>1. window.active \in Owners BY <1>2, <2>1 DEF DeskIsWell, Range
    <3>2. desk.runtime[window.active] = desk.lists[window.active] BY <1>3, <2>1, <3>1
    <3>3. desk' = [desk EXCEPT !.runtime[window.active] = desk.runtime[window.active]]
      BY <1>1, <2>1, <3>2
    <3>4. [desk.runtime EXCEPT ![window.active] = desk.runtime[window.active]] = desk.runtime
      BY <1>2 DEF DeskIsWell
    <3>5. desk' = [desk EXCEPT !.runtime = desk.runtime]
      BY <1>2, <3>3, <3>4 DEF DeskIsWell
    <3> QED BY <1>2, <3>5 DEF DeskIsWell
  <2> QED BY <1>1, <2>1
<1>5. AsRead(desk, read) \in Seq(Owners) BY <1>2 DEF AsRead, DeskIsWell
<1>6. /\ WindowIsWell(window') /\ window'.config = AsRead(desk, read)
      /\ window'.sidebar = window.sidebar /\ window'.active = window.active
      /\ window'.selected = window.selected /\ window'.settings = window.settings
      /\ window'.view = window.view /\ window'.page = window.page
      /\ window'.wizard = window.wizard
      /\ window'.stumbles = window.stumbles + Stumbles(read)
  BY <1>1, <1>2, <1>5 DEF WindowIsWell, WindowFields, Stumbles
<1>7. FrontIsTrue(desk, window') BY <1>2, <1>6 DEF FrontIsTrue
<1>8. ASSUME window'.stumbles = 0
      PROVE  window.stumbles = 0 /\ SettingsWereRead(desk, window')
  <2>1. window.stumbles = 0 /\ read BY <1>2, <1>6, <1>8 DEF WindowIsWell, Stumbles
  <2>2. SettingsWereRead(desk, window) BY <2>1 DEF WindowInv
  <2> QED BY <1>6, <2>1, <2>2 DEF SettingsWereRead, AsRead
<1> QED
  BY <1>1, <1>2, <1>3, <1>4, <1>6, <1>7, <1>8 DEF WindowInv, RuntimesAreCurrent

\* Each callback of the main loop and of the pool keeps the invariant.
LEMMA WindowStep == WindowInv /\ [WindowNext]_windowVars => WindowInv'
<1> SUFFICES ASSUME WindowInv, [WindowNext]_windowVars PROVE WindowInv' OBVIOUS
<1>1. CASE UNCHANGED windowVars BY <1>1 DEF windowVars, WindowInv
<1>2. CASE \E a \in Owners : \E f \in Range(desk.runtime[a]) \cap FolderIds : FolderTurns(f)
  BY <1>2, ReportStep
<1>3. CASE \E a \in Owners : Runs(desk, a) /\ AccountTurns(a) BY <1>3, ReportStep
<1>4. CASE \E a \in Owners : AvatarStored(a) \/ AvatarPainted(a) BY <1>4, PictureStep
<1>5. CASE \E a \in Owners : SelectRow(a) \/ SelectInSettings(a) BY <1>5, NavigateStep
<1>6. CASE \E a \in Owners : AddOwner(a) BY <1>6, AddOwnerStep
<1>7. CASE EditFolderList BY <1>7, EditListStep
<1>8. CASE RemoveOwner BY <1>8, RemoveOwnerStep
<1>9. CASE ShowAddAccount \/ ShowPreferences \/ BackFromOverlay BY <1>9, NavigateStep
<1>10. CASE Reconfigure BY <1>10, ReconfigureStep
<1> QED
  BY <1>1, <1>2, <1>3, <1>4, <1>5, <1>6, <1>7, <1>8, <1>9, <1>10 DEF WindowNext, Navigates

\* WindowIsTrue for any accounts, folders, refreshes and failing reads and writes: the
\* view in front is built again whenever the runtimes of its account may be others,
\* and a refresh that could not read leaves no account whose view could be stale
\* (main_window.rs, refresh_after_config_change).
THEOREM WindowShowsWhatIsThere == WindowSpec => []WindowIsTrue
  BY WindowInvShows, InitWindow, WindowStep, PTL DEF WindowSpec

-----------------------------------------------------------------------------
(* The end of a list.                                                      *)

\* The last of a list, or all of it.
LEMMA LastOfFacts ==
  ASSUME NEW S, NEW s \in Seq(S), NEW n \in Nat
  PROVE  /\ LastOf(s, n) \in Seq(S)
         /\ Len(LastOf(s, n)) = IF Len(s) > n THEN n ELSE Len(s)
         /\ \A i \in 1..Len(LastOf(s, n)) :
                LastOf(s, n)[i] = s[(Len(s) - Len(LastOf(s, n))) + i]
         /\ Len(s) <= n => LastOf(s, n) = s
<1> DEFINE m == IF Len(s) > n THEN (Len(s) - n) + 1 ELSE 1
           t == SubSeq(s, m, Len(s))
<1>1. Len(s) \in Nat OBVIOUS
<1>2. LastOf(s, n) = t BY DEF LastOf
<1>3. m \in 1..Len(s) + 1 BY <1>1
<1>4. t \in Seq(S) /\ Len(t) = (Len(s) - m) + 1
      /\ \A i \in 1..Len(t) : t[i] = s[m + i - 1]
  <2> HIDE DEF m
  <2> QED BY <1>1, <1>3
<1>5. Len(t) = (IF Len(s) > n THEN n ELSE Len(s)) /\ m = (Len(s) - Len(t)) + 1
  <2> HIDE DEF t
  <2>1. m \in Nat /\ (Len(s) > n => m = (Len(s) - n) + 1) /\ (~(Len(s) > n) => m = 1) BY <1>1
  <2> HIDE DEF m
  <2> QED BY <1>1, <1>4, <2>1
<1>6. \A i \in 1..Len(t) : t[i] = s[(Len(s) - Len(t)) + i]
  <2> HIDE DEF m, t
  <2> TAKE i \in 1..Len(t)
  <2>1. m + i - 1 = (Len(s) - Len(t)) + i BY <1>1, <1>4, <1>5
  <2> QED BY <1>4, <2>1
<1>7. Len(s) <= n => t = s
  <2>1. Len(s) <= n => m = 1 BY <1>1
  <2> HIDE DEF m
  <2> QED BY <2>1, SubSeqFull
<1> HIDE DEF t, m
<1> QED BY <1>2, <1>4, <1>5, <1>6, <1>7

\* The list u is s and t, and the last n of it leave k for s.
Parted(u, s, t, n, k) == u = s \o t /\ k = n - Len(LastOf(t, n))

\* The end of two lists is the end of the second, and what is then left of the first.
LEMMA LastOfJoined ==
  ASSUME NEW S, NEW s \in Seq(S), NEW t \in Seq(S), NEW n \in Nat,
         NEW u, NEW k, Parted(u, s, t, n, k)
  PROVE  k \in Nat /\ LastOf(u, n) = LastOf(s, k) \o LastOf(t, n)
<1> DEFINE e == LastOf(t, n)
           b == LastOf(s, k)
           v == LastOf(u, n)
<1>1. /\ u \in Seq(S) /\ Len(s) \in Nat /\ Len(t) \in Nat /\ Len(u) = Len(s) + Len(t)
      /\ \A i \in 1..Len(s) : u[i] = s[i]
      /\ \A i \in 1..Len(t) : u[Len(s) + i] = t[i]
  <2>1. u = s \o t BY DEF Parted
  <2> QED BY <2>1
<1>2. /\ e \in Seq(S) /\ Len(e) = IF Len(t) > n THEN n ELSE Len(t)
      /\ \A i \in 1..Len(e) : e[i] = t[(Len(t) - Len(e)) + i]
  BY LastOfFacts
<1>3. k = n - Len(e) /\ k \in Nat BY <1>1, <1>2 DEF Parted
<1>4. /\ b \in Seq(S) /\ Len(b) = IF Len(s) > k THEN k ELSE Len(s)
      /\ \A i \in 1..Len(b) : b[i] = s[(Len(s) - Len(b)) + i]
  BY <1>3, LastOfFacts
<1>5. /\ v \in Seq(S) /\ Len(v) = IF Len(u) > n THEN n ELSE Len(u)
      /\ \A i \in 1..Len(v) : v[i] = u[(Len(u) - Len(v)) + i]
  BY <1>1, LastOfFacts
<1>6. k = n - Len(e) /\ Len(e) \in Nat /\ Len(b) \in Nat BY <1>2, <1>3, <1>4
<1> HIDE DEF e, b, v
<1>7. Len(v) = Len(b) + Len(e)
  <2>1. CASE Len(t) > n BY <1>1, <1>2, <1>4, <1>5, <1>6, <2>1
  <2>2. CASE ~(Len(t) > n)
    <3>1. Len(e) = Len(t) /\ k = n - Len(t) BY <1>1, <1>2, <1>6, <2>2
    <3>2. CASE Len(s) > k
      <4>1. Len(b) = k /\ Len(u) > n BY <1>1, <1>3, <1>4, <3>1, <3>2
      <4> QED BY <1>1, <1>5, <3>1, <4>1
    <3>3. CASE ~(Len(s) > k)
      <4>1. Len(b) = Len(s) /\ ~(Len(u) > n) BY <1>1, <1>3, <1>4, <3>1, <3>3
      <4> QED BY <1>1, <1>5, <3>1, <4>1
    <3> QED BY <3>2, <3>3
  <2> QED BY <2>1, <2>2
<1>8. \A i \in 1..Len(v) : v[i] = (b \o e)[i]
  <2> TAKE i \in 1..Len(v)
  <2>1. CASE i <= Len(b)
    <3>1. (b \o e)[i] = b[i] /\ i \in 1..Len(b) BY <1>2, <1>4, <1>6, <2>1
    <3>2. k > 0 /\ Len(e) = Len(t) BY <1>1, <1>2, <1>4, <1>6, <2>1
    <3>3. (Len(u) - Len(v)) + i = (Len(s) - Len(b)) + i BY <1>1, <1>6, <1>7, <3>2
    <3>4. (Len(s) - Len(b)) + i \in 1..Len(s) BY <1>1, <1>3, <1>4, <1>6, <2>1
    <3> QED BY <1>1, <1>4, <1>5, <3>1, <3>3, <3>4
  <2>2. CASE i > Len(b)
    <3> DEFINE j == i - Len(b)
    <3>1. j \in 1..Len(e) /\ i = Len(b) + j BY <1>6, <1>7, <2>2
    <3> HIDE DEF j
    <3>2. (b \o e)[i] = e[j] BY <1>2, <1>4, <3>1
    <3>3. (Len(u) - Len(v)) + i = Len(s) + ((Len(t) - Len(e)) + j)
      BY <1>1, <1>6, <1>7, <3>1
    <3>4. (Len(t) - Len(e)) + j \in 1..Len(t) BY <1>1, <1>2, <1>6, <3>1
    <3> QED BY <1>1, <1>2, <1>5, <3>1, <3>2, <3>3, <3>4
  <2>3. i <= Len(b) \/ i > Len(b) BY <1>6
  <2> QED BY <2>1, <2>2, <2>3
<1>9. v = b \o e
  <2>1. e \in Seq(S) /\ b \in Seq(S) /\ v \in Seq(S) BY <1>2, <1>4, <1>5
  <2>2. b \o e \in Seq(S) /\ Len(b \o e) = Len(b) + Len(e) BY <2>1, ConcatProperties
  <2> QED BY <1>7, <1>8, <2>1, <2>2, SeqEqual
<1> QED BY <1>3, <1>9 DEF e, b, v

-----------------------------------------------------------------------------
(* The lines of a file.                                                    *)

\* Where the lines of a text end.
LineEnds(bytes) ==
    {i \in DOMAIN bytes : bytes[i] = Feed}
        \cup (IF bytes = <<>> \/ Last(bytes) = Feed THEN {} ELSE {Len(bytes) + 1})
EndOf(bytes, k) == Rising(LineEnds(bytes))[k]

\* There are as many lines as ends, each between two of them.
LEMMA LinesFacts ==
  ASSUME NEW S, NEW b \in Seq(S)
  PROVE  /\ LineEnds(b) \in SUBSET (1..Len(b) + 1) /\ IsFiniteSet(LineEnds(b))
         /\ LinesOf(b) \in Seq(Seq(S)) /\ Len(LinesOf(b)) = Cardinality(LineEnds(b))
         /\ \A k \in 1..Cardinality(LineEnds(b)) :
                /\ EndOf(b, k) \in LineEnds(b)
                /\ LinesOf(b)[k] = SubSeq(b, IF k = 1 THEN 1 ELSE EndOf(b, k - 1) + 1,
                                          EndOf(b, k) - 1)
<1> DEFINE c == Cardinality(LineEnds(b))
<1>1. Len(b) \in Nat /\ DOMAIN b = 1..Len(b) OBVIOUS
<1>2. LineEnds(b) \in SUBSET (1..Len(b) + 1)
  <2>1. Len(b) + 1 \in 1..Len(b) + 1 /\ 1..Len(b) \subseteq 1..Len(b) + 1 BY <1>1
  <2> QED BY <1>1, <2>1 DEF LineEnds
<1>3. IsFiniteSet(1..Len(b) + 1)
  <2>1. 1 \in Int /\ Len(b) + 1 \in Int BY <1>1
  <2> QED BY <2>1, FS_Interval
<1>4. IsFiniteSet(LineEnds(b)) BY <1>2, <1>3, FS_Subset
<1>5. c \in Nat BY <1>4, FS_CardinalityType
<1>6. LineEnds(b) \in SUBSET Nat BY <1>2
<1>7. ListsOnce(Rising(LineEnds(b)), LineEnds(b)) BY <1>4, <1>6, Ascending
<1>8. DOMAIN Rising(LineEnds(b)) = 1..c /\ \A k \in 1..c : EndOf(b, k) \in LineEnds(b)
  BY <1>7 DEF ListsOnce, EndOf
<1>9. LinesOf(b) = [k \in 1..c |-> SubSeq(b, IF k = 1 THEN 1 ELSE EndOf(b, k - 1) + 1,
                                           EndOf(b, k) - 1)]
  <2>1. LinesOf(b) = [k \in DOMAIN Rising(LineEnds(b)) |->
                        SubSeq(b, IF k = 1 THEN 1 ELSE EndOf(b, k - 1) + 1, EndOf(b, k) - 1)]
    BY DEF LinesOf, LineEnds, EndOf
  <2> HIDE DEF c
  <2> QED BY <1>8, <2>1
<1>10. ASSUME NEW k \in 1..c
       PROVE  SubSeq(b, IF k = 1 THEN 1 ELSE EndOf(b, k - 1) + 1, EndOf(b, k) - 1) \in Seq(S)
  <2>1. EndOf(b, k) \in 1..Len(b) + 1 BY <1>2, <1>8
  <2>2. CASE k = 1 BY <1>1, <2>1, <2>2
  <2>3. CASE k # 1
    <3>1. k - 1 \in 1..c BY <1>5, <2>3
    <3>2. EndOf(b, k - 1) \in 1..Len(b) + 1 BY <1>2, <1>8, <3>1
    <3> QED BY <1>1, <2>1, <2>3, <3>2
  <2> QED BY <2>2, <2>3
<1>11. LinesOf(b) \in Seq(Seq(S)) /\ Len(LinesOf(b)) = c
  <2> HIDE DEF c
  <2> QED BY <1>5, <1>9, <1>10
<1> QED BY <1>2, <1>4, <1>8, <1>9, <1>11

\* The text s is what is behind place p of the text b, and j lines end before it.
EndsUntil(b, p) == Cardinality({e \in LineEnds(b) : e <= p})
FromThere(b, s, p, j) ==
    /\ Len(s) = Len(b) - p /\ \A i \in 1..Len(s) : s[i] = b[p + i]
    /\ j \in Nat /\ Cardinality(LineEnds(b)) = Cardinality(LineEnds(s)) + j
    /\ \A k \in 1..Cardinality(LineEnds(s)) : EndOf(b, k + j) = EndOf(s, k) + p

\* What is behind some place of a text has the ends behind it, and they end what
\* they end in the text.
LEMMA EndsBehind ==
  ASSUME NEW S, NEW b \in Seq(S), NEW p \in 0..Len(b), p < Len(b)
  PROVE  FromThere(b, BlocksFrom(b, p), p, EndsUntil(b, p))
<1> DEFINE s == BlocksFrom(b, p)
           E == LineEnds(b)
           F == LineEnds(s)
           Early == {e \in E : e <= p}
           Late == {e \in E : e > p}
           j == Cardinality(Early)
<1>1. /\ Len(b) \in Nat /\ p \in Nat /\ s \in Seq(S) /\ Len(s) = Len(b) - p /\ Len(s) > 0
      /\ \A i \in 1..Len(s) : s[i] = b[p + i]
  BY DEF BlocksFrom
<1>2. /\ E \in SUBSET (1..Len(b) + 1) /\ IsFiniteSet(E)
      /\ F \in SUBSET (1..Len(s) + 1) /\ IsFiniteSet(F)
  <2> HIDE DEF s
  <2> QED BY <1>1, LinesFacts
<1>3. ASSUME NEW e \in Nat PROVE e \in F <=> e > 0 /\ e + p \in E
  <2>1. Last(s) = Last(b) /\ s # <<>> /\ b # <<>>
    <3> HIDE DEF s
    <3>1. Len(s) \in 1..Len(s) /\ p + Len(s) = Len(b) BY <1>1
    <3>2. s[Len(s)] = b[p + Len(s)] BY <1>1, <3>1
    <3> QED BY <1>1, <3>1, <3>2 DEF Last
  <2> HIDE DEF s
  <2>2. DOMAIN s = 1..Len(s) /\ DOMAIN b = 1..Len(b) BY <1>1
  <2>3. CASE e \in 1..Len(s)
    <3>1. s[e] = b[e + p] /\ e + p \in 1..Len(b) BY <1>1, <2>3
    <3>2. e # Len(s) + 1 /\ e + p # Len(b) + 1 /\ e > 0 BY <1>1, <2>3
    <3> QED BY <2>2, <2>3, <3>1, <3>2 DEF LineEnds
  <2>4. CASE e = Len(s) + 1
    <3>1. Len(s) \in Nat /\ Len(b) \in Nat /\ p \in Nat /\ Len(b) = Len(s) + p BY <1>1
    <3>2. e + p = Len(b) + 1 /\ e > 0 BY <2>4, <3>1
    <3>3. e \notin 1..Len(s) /\ e + p \notin 1..Len(b) BY <2>4, <3>1, <3>2
    <3> QED BY <2>1, <2>2, <2>4, <3>2, <3>3 DEF LineEnds
  <2>5. CASE e = 0 \/ e > Len(s) + 1
    <3>1. e \notin F BY <1>1, <1>2, <2>5
    <3>2. e = 0 \/ e + p \notin E BY <1>1, <1>2, <2>5
    <3> QED BY <2>5, <3>1, <3>2
  <2>6. e \in 1..Len(s) \/ e = Len(s) + 1 \/ e = 0 \/ e > Len(s) + 1
    <3>1. Len(s) \in Nat BY <1>1
    <3> QED BY <3>1
  <2> QED BY <2>3, <2>4, <2>5, <2>6
<1>4. IsFiniteSet(Early) /\ IsFiniteSet(Late) /\ j \in Nat /\ Cardinality(Late) \in Nat
  BY <1>2, FS_Subset, FS_CardinalityType
<1>5. \A T \in SUBSET F : Cardinality({e + p : e \in T}) = Cardinality(T)
                          /\ IsFiniteSet({e + p : e \in T})
  <2> TAKE T \in SUBSET F
  <2> HIDE DEF F, s
  <2> DEFINE U == {e + p : e \in T}
             f == [e \in T |-> e + p]
  <2>1. \A d, e \in T : d + p = e + p => d = e BY <1>1, <1>2
  <2>2. f \in Bijection(T, U)
    <3>1. f \in [T -> U] OBVIOUS
    <3>2. \A d, e \in T : f[d] = f[e] => d = e BY <2>1
    <3>3. \A u \in U : \E e \in T : f[e] = u OBVIOUS
    <3> HIDE DEF f, U
    <3> QED BY <3>1, <3>2, <3>3 DEF Bijection, Injection, Surjection, IsInjective
  <2>3. IsFiniteSet(T) BY <1>2, FS_Subset
  <2> HIDE DEF f, U
  <2>4. ExistsBijection(T, U) BY <2>2 DEF ExistsBijection
  <2> QED BY <2>3, <2>4, FS_Bijection DEF U
<1>6. Late = {e + p : e \in F}
  <2> HIDE DEF F, s
  <2>1. \A e \in F : e \in Nat /\ e + p \in E /\ e + p > p BY <1>1, <1>2, <1>3
  <2>2. \A l \in Late : l - p \in Nat /\ l - p \in F /\ (l - p) + p = l
    <3> TAKE l \in Late
    <3>1. l \in Nat /\ l > p BY <1>2
    <3>2. l - p \in Nat /\ l - p > 0 /\ (l - p) + p = l BY <1>1, <3>1
    <3> QED BY <1>3, <3>2
  <2>3. \A l \in Late : \E e \in F : l = e + p BY <2>2
  <2> HIDE DEF E
  <2> QED BY <2>1, <2>3
<1>7. Cardinality(Late) = Cardinality(F) BY <1>5, <1>6
<1>8. Cardinality(E) = Cardinality(F) + j
  <2>1. E = Early \cup Late /\ Early \cap Late = {}
    <3>1. \A e \in E : (e <= p \/ e > p) /\ ~(e <= p /\ e > p) BY <1>1, <1>2
    <3> QED BY <3>1
  <2>2. Cardinality({}) = 0 BY FS_EmptySet
  <2> HIDE DEF E, F, Early, Late, s
  <2>3. Cardinality(E) = Cardinality(Early) + Cardinality(Late) - Cardinality({})
    BY <1>4, <2>1, FS_Union
  <2>4. Cardinality(E) = Cardinality(Early) + Cardinality(F) BY <1>4, <1>7, <2>2, <2>3
  <2> QED BY <1>4, <1>7, <2>4
<1>9. ASSUME NEW k \in 1..Cardinality(F) PROVE EndOf(b, k + j) = EndOf(s, k) + p
  <2> DEFINE x == EndOf(s, k)
             Sooner == {d \in F : d < x}
             Shifted == {e + p : e \in Sooner}
             Below == {d \in E : d < x + p}
  <2>1. x \in F /\ Cardinality(Sooner) = k - 1
    <3>1. F \in SUBSET Nat BY <1>2
    <3> HIDE DEF F, s
    <3>2. ListsOnce(Rising(F), F) /\ Cardinality({d \in F : d < Rising(F)[k]}) = k - 1
      BY <1>2, <3>1, Ascending
    <3>3. x = Rising(F)[k] BY DEF EndOf, F
    <3> QED BY <3>2, <3>3 DEF ListsOnce
  <2>2. x \in Nat /\ x > 0 /\ x + p \in E BY <1>2, <1>3, <2>1
  <2> HIDE DEF x
  <2>3. Below = Early \cup Shifted /\ Early \cap Shifted = {}
    <3>1. ASSUME NEW d \in E, d < x + p, ~(d <= p) PROVE d \in Shifted
      <4>1. PICK e \in F : d = e + p
        <5>1. d \in Late BY <1>1, <1>2, <3>1
        <5> QED BY <1>6, <5>1
      <4>2. e < x BY <1>1, <1>2, <2>2, <3>1, <4>1
      <4> QED BY <4>1, <4>2
    <3>2. ASSUME NEW e \in Sooner PROVE e + p \in Below /\ ~(e + p <= p)
      <4>1. e \in Nat /\ e + p \in E /\ e > 0 BY <1>2, <1>3
      <4> QED BY <1>1, <2>2, <4>1
    <3>3. \A d \in Early : d \in Below BY <1>1, <1>2, <2>2
    <3> HIDE DEF E, F, s
    <3> QED BY <3>1, <3>2, <3>3
  <2>4. IsFiniteSet(Shifted) /\ Cardinality(Shifted) = k - 1
    <3>1. Sooner \in SUBSET F OBVIOUS
    <3> HIDE DEF Sooner, F
    <3> QED BY <1>5, <2>1, <3>1
  <2>5. Cardinality(Below) = j + (k - 1)
    <3> HIDE DEF Below, Early, Shifted, E, F, s
    <3>1. Cardinality(Below) = Cardinality(Early) + Cardinality(Shifted) - Cardinality({})
      BY <1>4, <2>3, <2>4, FS_Union
    <3>2. Cardinality({}) = 0 BY FS_EmptySet
    <3> QED BY <1>4, <2>4, <3>1, <3>2
  <2>6. Rising(E)[Cardinality(Below) + 1] = x + p
    <3>1. E \in SUBSET Nat BY <1>2
    <3> HIDE DEF E
    <3> QED BY <1>2, <2>2, <3>1, Ascending
  <2>7. Cardinality(Below) + 1 = k + j BY <1>4, <2>5
  <2> QED BY <2>6, <2>7 DEF EndOf, x
<1> QED BY <1>1, <1>4, <1>8, <1>9 DEF FromThere, EndsUntil

\* The lines of a text from some place on are those of the text, but for the first,
\* of which the place may have cut off the beginning.
LEMMA LastLinesBehind ==
  ASSUME NEW S, NEW b \in Seq(S), NEW p \in 0..Len(b), NEW n \in Nat,
         p = 0 \/ Feeds(BlocksFrom(b, p)) > n
  PROVE  LastOf(LinesOf(BlocksFrom(b, p)), n) = LastOf(LinesOf(b), n)
<1> DEFINE s == BlocksFrom(b, p)
           feeds == {i \in DOMAIN s : s[i] = Feed}
           F == LineEnds(s)
           E == LineEnds(b)
           j == EndsUntil(b, p)
<1>1. Len(b) \in Nat /\ p \in Nat OBVIOUS
<1>2. CASE p = 0
  <2>1. s = SubSeq(b, 1, Len(b)) BY <1>2 DEF BlocksFrom
  <2>2. s = b BY <2>1, SubSeqFull
  <2> QED BY <2>2
<1>3. CASE Feeds(s) > n
  <2>1. s \in Seq(S) /\ Len(s) \in Nat /\ (p = Len(b) => s = <<>>)
    BY <1>1 DEF BlocksFrom
  <2>2. IsFiniteSet(F) /\ F \in SUBSET (1..Len(s) + 1)
    <3> HIDE DEF s
    <3> QED BY <2>1, LinesFacts
  <2>3. feeds \in SUBSET F
    <3> HIDE DEF s
    <3> QED BY DEF LineEnds
  <2>4. Cardinality(feeds) <= Cardinality(F) /\ Cardinality(feeds) \in Nat
        /\ Cardinality(F) \in Nat
    <3> HIDE DEF feeds, F
    <3> QED BY <2>2, <2>3, FS_Subset, FS_CardinalityType
  <2>5. Cardinality(F) > n
    <3>1. Feeds(s) = Cardinality(feeds) BY DEF Feeds
    <3> HIDE DEF s, feeds, F
    <3> QED BY <1>3, <2>4, <3>1
  <2>6. p < Len(b)
    <3> SUFFICES ASSUME p = Len(b) PROVE FALSE BY <1>1
    <3>1. s = <<>> BY <2>1
    <3> HIDE DEF s
    <3>2. feeds = {} BY <3>1
    <3>3. Feeds(s) = 0 BY <3>1, <3>2, FS_EmptySet DEF Feeds
    <3> QED BY <1>3, <3>3
  <2>7. /\ \A i \in 1..Len(s) : s[i] = b[p + i]
        /\ Len(s) = Len(b) - p
        /\ j \in Nat /\ Cardinality(E) = Cardinality(F) + j
        /\ \A k \in 1..Cardinality(F) : EndOf(b, k + j) = EndOf(s, k) + p
    <3>1. FromThere(b, s, p, j) BY <2>6, EndsBehind
    <3> HIDE DEF s, j
    <3> QED BY <3>1 DEF FromThere
  <2>8. /\ LinesOf(s) \in Seq(Seq(S)) /\ Len(LinesOf(s)) = Cardinality(F)
        /\ \A k \in 1..Cardinality(F) :
               /\ EndOf(s, k) \in F
               /\ LinesOf(s)[k] = SubSeq(s, IF k = 1 THEN 1 ELSE EndOf(s, k - 1) + 1,
                                         EndOf(s, k) - 1)
    <3> HIDE DEF s
    <3> QED BY <2>1, LinesFacts
  <2>9. /\ LinesOf(b) \in Seq(Seq(S)) /\ Len(LinesOf(b)) = Cardinality(E)
        /\ E \in SUBSET (1..Len(b) + 1)
        /\ \A k \in 1..Cardinality(E) :
               /\ EndOf(b, k) \in E
               /\ LinesOf(b)[k] = SubSeq(b, IF k = 1 THEN 1 ELSE EndOf(b, k - 1) + 1,
                                         EndOf(b, k) - 1)
    BY LinesFacts
  <2> HIDE DEF s, feeds, F, E, j
  <2>10. ASSUME NEW k \in 1..Cardinality(F), k # 1 PROVE LinesOf(s)[k] = LinesOf(b)[k + j]
    <3>1. k - 1 \in 1..Cardinality(F) BY <2>4, <2>10
    <3> DEFINE from == EndOf(s, k - 1) + 1
               to == EndOf(s, k) - 1
    <3>a. EndOf(s, k - 1) \in 1..Len(s) + 1 /\ EndOf(s, k) \in 1..Len(s) + 1
      BY <2>2, <2>8, <2>10, <3>1
    <3>2. from \in 1..Len(s) + 2 /\ to \in 0..Len(s) BY <2>1, <3>a
    <3>3. k + j \in 1..Cardinality(E) /\ k + j # 1 /\ (k + j) - 1 = (k - 1) + j
      BY <2>4, <2>7, <2>10
    <3>4. LinesOf(s)[k] = SubSeq(s, from, to) BY <2>8, <2>10
    <3>5. LinesOf(b)[k + j] = SubSeq(b, from + p, to + p)
      <4>1. EndOf(b, (k + j) - 1) = EndOf(s, k - 1) + p /\ EndOf(b, k + j) = EndOf(s, k) + p
        BY <2>7, <3>1, <3>3
      <4>2. EndOf(b, (k + j) - 1) + 1 = from + p /\ EndOf(b, k + j) - 1 = to + p
        BY <1>1, <2>1, <3>a, <4>1
      <4> QED BY <2>9, <3>3, <4>2
    <3> HIDE DEF from, to
    <3>6. SubSeq(s, from, to) = SubSeq(b, from + p, to + p)
      <4>1. CASE from > to
        <5>1. SubSeq(s, from, to) = <<>> /\ SubSeq(b, from + p, to + p) = <<>>
          BY <1>1, <2>1, <3>2, <4>1
        <5> QED BY <5>1
      <4>2. CASE from <= to
        <5> DEFINE u == SubSeq(s, from, to)
                   v == SubSeq(b, from + p, to + p)
        <5>1. u \in Seq(S) /\ Len(u) = to - from + 1
              /\ \A i \in 1..Len(u) : u[i] = s[from + i - 1]
          BY <2>1, <3>2, <4>2
        <5>2. v \in Seq(S) /\ Len(v) = (to + p) - (from + p) + 1
              /\ \A i \in 1..Len(v) : v[i] = b[from + p + i - 1]
          <6>1. from + p \in 1..Len(b) + 1 /\ to + p \in (from + p) - 1..Len(b)
            BY <1>1, <2>1, <2>7, <3>2, <4>2
          <6> QED BY <6>1
        <5> HIDE DEF u, v
        <5>3. Len(u) = Len(v) BY <1>1, <2>1, <3>2, <5>1, <5>2
        <5>4. \A i \in 1..Len(u) : u[i] = v[i]
          <6> TAKE i \in 1..Len(u)
          <6>1. from + i - 1 \in 1..Len(s) /\ p + (from + i - 1) = from + p + i - 1
            BY <1>1, <2>1, <3>2, <4>2, <5>1
          <6> QED BY <2>7, <5>1, <5>2, <5>3, <6>1
        <5> QED BY <5>1, <5>2, <5>3, <5>4, SeqEqual DEF u, v
      <4> QED BY <2>1, <3>2, <4>1, <4>2
    <3> QED BY <3>4, <3>5, <3>6
  <2> DEFINE x == LastOf(LinesOf(s), n)
             y == LastOf(LinesOf(b), n)
  <2>11. /\ x \in Seq(Seq(S)) /\ Len(x) = n
         /\ \A i \in 1..n : x[i] = LinesOf(s)[(Cardinality(F) - n) + i]
    <3> DEFINE all == LinesOf(s)
    <3>1. all \in Seq(Seq(S)) /\ Len(all) = Cardinality(F) BY <2>8
    <3> HIDE DEF all
    <3>2. /\ LastOf(all, n) \in Seq(Seq(S))
          /\ Len(LastOf(all, n)) = IF Len(all) > n THEN n ELSE Len(all)
          /\ \A i \in 1..Len(LastOf(all, n)) :
                 LastOf(all, n)[i] = all[(Len(all) - Len(LastOf(all, n))) + i]
      BY <3>1, LastOfFacts
    <3>3. x = LastOf(all, n) BY DEF x, all
    <3> HIDE DEF x
    <3>4. Len(x) = n BY <2>5, <3>1, <3>2, <3>3
    <3> QED BY <3>1, <3>2, <3>3, <3>4 DEF all
  <2>12. /\ y \in Seq(Seq(S)) /\ Len(y) = n
         /\ \A i \in 1..n : y[i] = LinesOf(b)[(Cardinality(E) - n) + i]
    <3>1. Cardinality(E) > n /\ Cardinality(E) \in Nat BY <2>4, <2>5, <2>7
    <3> DEFINE all == LinesOf(b)
    <3>2. all \in Seq(Seq(S)) /\ Len(all) = Cardinality(E) BY <2>9
    <3> HIDE DEF all
    <3>3. /\ LastOf(all, n) \in Seq(Seq(S))
          /\ Len(LastOf(all, n)) = IF Len(all) > n THEN n ELSE Len(all)
          /\ \A i \in 1..Len(LastOf(all, n)) :
                 LastOf(all, n)[i] = all[(Len(all) - Len(LastOf(all, n))) + i]
      BY <3>2, LastOfFacts
    <3>4. y = LastOf(all, n) BY DEF y, all
    <3> HIDE DEF y
    <3>5. Len(y) = n BY <3>1, <3>2, <3>3, <3>4
    <3> QED BY <3>2, <3>3, <3>4, <3>5 DEF all
  <2> HIDE DEF x, y
  <2>13. \A i \in 1..n : x[i] = y[i]
    <3> TAKE i \in 1..n
    <3> DEFINE k == (Cardinality(F) - n) + i
    <3>1. k \in 1..Cardinality(F) /\ k # 1 /\ k + j = (Cardinality(E) - n) + i
      BY <2>4, <2>5, <2>7
    <3> HIDE DEF k
    <3>2. LinesOf(s)[k] = LinesOf(b)[k + j] BY <2>10, <3>1
    <3>3. x[i] = LinesOf(s)[k] BY <2>11 DEF k
    <3> QED BY <2>12, <3>1, <3>2, <3>3
  <2>14. x = y BY <2>11, <2>12, <2>13, SeqEqual
  <2> QED BY <2>14 DEF x, y, s
<1> QED BY <1>2, <1>3

\* Reading backwards by blocks finds the last lines of a file, whatever its bytes and
\* however they fall into blocks (tail_path).
LEMMA TailPathIsEnd ==
  ASSUME NEW S, NEW b \in Seq(S), NEW n \in Nat
  PROVE  TailPath(b, n) = LastOf(LinesOf(b), n)
<1> DEFINE starts == {p \in 0..Len(b) :
                         p = 0 \/ \E m \in 0..Len(b) : p = Len(b) - m * BlockSize}
           enough == {p \in starts : p = 0 \/ Feeds(BlocksFrom(b, p)) > n}
           from == CHOOSE p \in enough : \A q \in enough : q <= p
<1>1. Len(b) \in Nat OBVIOUS
<1>2. CASE n = 0
  <2>1. TailPath(b, n) = <<>> BY <1>2 DEF TailPath
  <2>2. LinesOf(b) \in Seq(Seq(S)) BY LinesFacts
  <2>3. LastOf(LinesOf(b), 0) \in Seq(Seq(S)) /\ Len(LastOf(LinesOf(b), 0)) = 0
    BY <2>2, LastOfFacts
  <2>4. LastOf(LinesOf(b), 0) = <<>> BY <2>3
  <2> QED BY <1>2, <2>1, <2>4
<1>3. CASE n # 0
  <2>1. TailPath(b, n) = LastOf(LinesOf(BlocksFrom(b, from)), n) BY <1>3 DEF TailPath
  <2>2. from \in enough
    <3> DEFINE T == {Len(b) - p : p \in enough}
    <3>1. T \in SUBSET Nat /\ T # {}
      <4>1. 0 \in enough BY <1>1
      <4>2. \A p \in enough : Len(b) - p \in Nat BY <1>1
      <4> HIDE DEF enough
      <4> QED BY <4>1, <4>2
    <3> HIDE DEF T
    <3>2. PICK t \in T : \A u \in T : t <= u BY <3>1, LeastNatural
    <3>3. PICK p \in enough : t = Len(b) - p BY DEF T
    <3>4. \A q \in enough : q <= p
      <4> TAKE q \in enough
      <4>1. Len(b) - q \in T BY DEF T
      <4>2. t <= Len(b) - q BY <3>2, <4>1
      <4>3. p \in 0..Len(b) /\ q \in 0..Len(b) OBVIOUS
      <4> HIDE DEF enough
      <4> QED BY <1>1, <3>3, <4>2, <4>3
    <3> HIDE DEF enough
    <3> QED BY <3>4
  <2>3. from \in 0..Len(b) /\ (from = 0 \/ Feeds(BlocksFrom(b, from)) > n)
    <3> HIDE DEF from
    <3> QED BY <2>2
  <2> HIDE DEF from
  <2> QED BY <2>1, <2>3, LastLinesBehind
<1> QED BY <1>2, <1>3

\* Files of some days, with any bytes.
Files(files) ==
    /\ DOMAIN files \in SUBSET Days /\ IsFiniteSet(DOMAIN files)
    /\ \A d \in DOMAIN files : files[d] \in Seq(Nat)

\* The tail of the files is the end of their lines, however many files it takes.
LEMMA TailIsEnd ==
  ASSUME NEW files, Files(files), NEW limit \in Nat
  PROVE  /\ ReadBack(files, limit) = LastOf(LinesIn(files), limit)
         /\ LinesIn(files) \in Seq(Seq(Nat))
<1> DEFINE D == DOMAIN files
           Texts == Seq(Nat)
           n == Cardinality(D)
           up == Rising(D)
           days == Falling(D)
           lists == [i \in DOMAIN up |-> LinesOf(files[up[i]])]
           Value(f, k) ==
               IF k = 0 THEN <<>>
               ELSE TailPath(files[days[k]], limit - Len(f[k - 1])) \o f[k - 1]
           Solves(f, m) == f = [k \in 0..m |-> Value(f, k)]
           Numbers == {m \in Nat : \E f : Solves(f, m)}
           read == CHOOSE f : Solves(f, n)
<1>1. n \in Nat BY FS_CardinalityType DEF Files
<1>2. DOMAIN up = 1..n /\ \A i \in 1..n : up[i] \in D
  <2>1. D \in SUBSET Nat /\ IsFiniteSet(D) BY LogAssumption DEF Files
  <2> HIDE DEF D
  <2>2. ListsOnce(up, D) BY <2>1, Ascending
  <2> QED BY <2>2 DEF ListsOnce
<1>3. DOMAIN days = 1..n /\ \A i, j \in 1..n : i + j = n + 1 => days[i] = up[j]
  <2>1. D \in SUBSET Nat /\ IsFiniteSet(D) BY LogAssumption DEF Files
  <2> HIDE DEF D
  <2> QED BY <2>1, Descending
<1>4. Len(days) = n
  <2>1. days = [i \in 1..n |-> CHOOSE e \in D : Cardinality({d \in D : d > e}) = i - 1]
    BY DEF Falling, Ranked
  <2> HIDE DEF days, n
  <2> QED BY <1>1, <2>1
<1>5. \A d \in D : files[d] \in Texts BY DEF Files
<1>6. lists \in [1..n -> Seq(Texts)]
  <2>1. \A d \in D : LinesOf(files[d]) \in Seq(Texts) BY <1>5, LinesFacts
  <2> HIDE DEF up, n, D, Texts
  <2> QED BY <1>2, <2>1
<1> HIDE DEF Texts
<1>7. PICK flat : Joins(flat, lists, n, Texts)
  <2> HIDE DEF lists, n
  <2> QED BY <1>1, <1>6, FlatSteps
<1>8. LinesIn(files) = flat[n] BY <1>7 DEF LinesIn, Joins
<1>9. \A k \in 0..n : flat[k] \in Seq(Texts)
  <2> HIDE DEF lists, n
  <2> QED BY <1>7 DEF Joins
<1>10. \A i \in 1..n : flat[i] = flat[i - 1] \o LinesOf(files[up[i]])
  <2>1. \A i \in 1..n : lists[i] = LinesOf(files[up[i]]) BY <1>2
  <2> HIDE DEF lists, n, up
  <2> QED BY <1>7, <2>1 DEF Joins
<1>11. 0 \in Numbers
  <2> DEFINE f == [k \in 0..0 |-> Value(<<>>, k)]
  <2>1. \A k \in 0..0 : Value(f, k) = Value(<<>>, k) BY SMT
  <2>2. Solves(f, 0)
    <3> HIDE DEF Value
    <3> QED BY <2>1
  <2> HIDE DEF Solves
  <2> QED BY <2>2
<1>12. ASSUME NEW m \in Nat, m \in Numbers PROVE m + 1 \in Numbers
  <2>1. PICK f : Solves(f, m) BY <1>12
  <2> DEFINE g == [k \in 0..m + 1 |-> Value(f, k)]
  <2>2. \A k \in 0..m : f[k] = g[k]
    <3> HIDE DEF Value
    <3> QED BY <2>1
  <2>3. \A k \in 0..m + 1 : Value(g, k) = Value(f, k)
    <3> TAKE k \in 0..m + 1
    <3>1. CASE k = 0 BY <3>1
    <3>2. CASE k # 0
      <4>1. k - 1 \in 0..m BY <3>2
      <4>2. f[k - 1] = g[k - 1] BY <2>2, <4>1
      <4> HIDE DEF g
      <4> QED BY <4>2
    <3> QED BY <3>1, <3>2
  <2>4. Solves(g, m + 1)
    <3> HIDE DEF Value
    <3> QED BY <2>3
  <2> HIDE DEF Solves, g
  <2> QED BY <2>4
<1>13. Solves(read, n)
  <2> HIDE DEF Numbers, Solves
  <2>1. n \in Numbers BY <1>1, <1>11, <1>12, AllNaturals
  <2>2. \E f : Solves(f, n) BY <2>1 DEF Numbers
  <2> QED BY <2>2
<1>14. ReadBack(files, limit) = read[n]
  <2>1. ReadBack(files, limit) = (CHOOSE f : f = [k \in 0..Len(days) |-> Value(f, k)])[Len(days)]
    BY Zenon DEF ReadBack
  <2> HIDE DEF Value, days
  <2> QED BY <1>4, <2>1
<1>15. \A k \in 0..n : read[k] = Value(read, k)
  <2> HIDE DEF Value, read
  <2> QED BY <1>13
<1> HIDE DEF read
<1> DEFINE Holds(k) ==
               /\ read[k] \in Seq(Texts) /\ limit - Len(read[k]) \in Nat
               /\ LastOf(flat[n], limit) = LastOf(flat[n - k], limit - Len(read[k])) \o read[k]
           K == {k \in Nat : k \in 0..n => Holds(k)}
<1>16. 0 \in K
  <2>1. read[0] = <<>>
    <3>1. 0 \in 0..n
      <4> HIDE DEF n
      <4> QED BY <1>1
    <3>2. read[0] = Value(read, 0)
      <4> HIDE DEF Value, n
      <4> QED BY <1>15, <3>1
    <3> QED BY <3>2
  <2>2. LastOf(flat[n], limit) \in Seq(Texts) /\ n - 0 = n /\ limit - 0 = limit
    <3> HIDE DEF n
    <3> QED BY <1>1, <1>9, LastOfFacts
  <2>3. Holds(0)
    <3> HIDE DEF n
    <3> QED BY <2>1, <2>2
  <2> QED BY <2>3
<1>17. ASSUME NEW k \in Nat, k \in K PROVE k + 1 \in K
  <2> HIDE DEF Holds
  <2> SUFFICES ASSUME k + 1 \in 0..n PROVE Holds(k + 1) OBVIOUS
  <2> USE DEF Holds
  <2> DEFINE rest == limit - Len(read[k])
             i == n - k
             lines == LinesOf(files[up[i]])
             end == LastOf(lines, rest)
  <2>1. k \in 0..n /\ i \in 1..n /\ n - (k + 1) = i - 1 /\ k + 1 \in 1..n /\ (k + 1) - 1 = k
        /\ i - 1 \in 0..n
    <3> HIDE DEF n
    <3> QED BY <1>1
  <2>2. Holds(k)
    <3> HIDE DEF Holds
    <3> QED BY <1>17, <2>1
  <2>3. days[k + 1] = up[i]
    <3>1. (k + 1) + i = n + 1
      <4> HIDE DEF n
      <4> QED BY <1>1
    <3> HIDE DEF days, up, n, i
    <3> QED BY <1>3, <2>1, <3>1
  <2>4. read[k + 1] = TailPath(files[up[i]], rest) \o read[k]
    <3>1. read[k + 1] = Value(read, k + 1)
      <4> HIDE DEF Value, n
      <4> QED BY <1>15, <2>1
    <3>2. k + 1 # 0 OBVIOUS
    <3>3. read[k + 1] = TailPath(files[days[k + 1]], rest) \o read[(k + 1) - 1] BY <2>1, <3>1, <3>2
    <3> HIDE DEF days, up, n, i, rest
    <3> QED BY <2>1, <2>3, <3>3
  <2>5. files[up[i]] \in Seq(Nat) /\ rest \in Nat
    <3>1. files[up[i]] \in Texts
      <4> HIDE DEF up, n, i
      <4> QED BY <1>2, <1>5, <2>1
    <3> QED BY <2>2, <3>1 DEF Texts
  <2>6. TailPath(files[up[i]], rest) = end /\ lines \in Seq(Texts)
    <3> HIDE DEF up, n, i, rest
    <3> QED BY <2>5, TailPathIsEnd, LinesFacts DEF Texts
  <2>7. flat[i] = flat[i - 1] \o lines
    <3> HIDE DEF up, n, i
    <3> QED BY <1>10, <2>1
  <2>8. flat[i - 1] \in Seq(Texts)
    <3> HIDE DEF n, i
    <3> QED BY <1>9, <2>1
  <2> HIDE DEF i, lines, rest, n, up
  <2>9. /\ rest - Len(end) \in Nat
        /\ LastOf(flat[i], rest) = LastOf(flat[i - 1], rest - Len(end)) \o end
    <3> DEFINE before == flat[i - 1]
               left == rest - Len(LastOf(lines, rest))
               both == flat[i]
    <3>1. before \in Seq(Texts) /\ lines \in Seq(Texts) /\ rest \in Nat BY <2>5, <2>6, <2>8
    <3>2. Parted(both, before, lines, rest, left) BY <2>7 DEF Parted
    <3> HIDE DEF before, left, end, both
    <3>3. left \in Nat /\ LastOf(both, rest) = LastOf(before, left) \o LastOf(lines, rest)
      BY <3>1, <3>2, LastOfJoined
    <3> QED BY <3>3 DEF before, end, left, both
  <2>10. end \in Seq(Texts) /\ LastOf(flat[i - 1], rest - Len(end)) \in Seq(Texts)
    BY <2>5, <2>6, <2>8, <2>9, LastOfFacts
  <2> HIDE DEF end
  <2>11. read[k + 1] \in Seq(Texts) /\ Len(read[k + 1]) = Len(end) + Len(read[k])
         /\ read[k + 1] = end \o read[k]
    BY <2>2, <2>4, <2>6, <2>10
  <2>12. limit - Len(read[k + 1]) = rest - Len(end)
    BY <2>2, <2>10, <2>11 DEF rest
  <2>13. LastOf(flat[n], limit)
            = (LastOf(flat[i - 1], rest - Len(end)) \o end) \o read[k]
    BY <2>2, <2>9 DEF i, rest
  <2>14. LastOf(flat[n], limit) = LastOf(flat[i - 1], rest - Len(end)) \o read[k + 1]
    <3> DEFINE x == LastOf(flat[i - 1], rest - Len(end))
               y == read[k]
    <3>1. x \in Seq(Texts) /\ end \in Seq(Texts) /\ y \in Seq(Texts) BY <2>2, <2>10
    <3> HIDE DEF x, y
    <3>2. (x \o end) \o y = x \o (end \o y) BY <3>1, ConcatAssociative
    <3> QED BY <2>11, <2>13, <3>2 DEF x, y
  <2> QED BY <2>1, <2>9, <2>11, <2>12, <2>14
<1>18. Holds(n)
  <2> HIDE DEF K, Holds, n
  <2>1. n \in K BY <1>1, <1>16, <1>17, AllNaturals
  <2> QED BY <1>1, <2>1 DEF K
<1>19. LastOf(flat[0], limit - Len(read[n])) = <<>>
  <2>1. flat[0] = <<>> BY <1>7 DEF Joins
  <2>2. LastOf(<<>>, limit - Len(read[n])) = <<>>
    <3>1. limit - Len(read[n]) \in Nat BY <1>18
    <3> HIDE DEF n
    <3>2. <<>> \in Seq(Texts) /\ Len(<<>>) <= limit - Len(read[n]) BY <3>1
    <3> QED BY <3>1, <3>2, LastOfFacts
  <2> QED BY <2>1, <2>2
<1>20. n - n = 0
  <2> HIDE DEF n
  <2> QED BY <1>1
<1>21. LastOf(flat[n], limit) = <<>> \o read[n] /\ read[n] \in Seq(Texts)
  <2> HIDE DEF n
  <2> QED BY <1>18, <1>19, <1>20
<1>22. LinesIn(files) \in Seq(Texts)
  <2>1. n \in 0..n
    <3> HIDE DEF n
    <3> QED BY <1>1
  <2> HIDE DEF n
  <2> QED BY <1>8, <1>9, <2>1
<1> HIDE DEF n
<1>23. LastOf(flat[n], limit) = read[n] BY <1>21
<1> QED BY <1>8, <1>14, <1>22, <1>23 DEF Texts

\* The last lines are short of the limit when there are too few of them.
LEMMA NeededIsRead ==
  ASSUME Files(daily), NEW d, NEW limit \in Nat
  PROVE  Len(ReadBack(Since(d), limit)) < limit <=> Needed(d, limit)
<1> DEFINE newer == {x \in DOMAIN daily : x > d}
           files == Since(d)
           lines == LinesIn(files)
<1>1. DOMAIN files = newer /\ \A e \in newer : files[e] = daily[e] BY DEF Since
<1>2. IsFiniteSet(newer)
  <2>1. newer \in SUBSET DOMAIN daily OBVIOUS
  <2> QED BY <2>1, FS_Subset DEF Files
<1> HIDE DEF files
<1>3. Files(files) BY <1>1, <1>2 DEF Files
<1>4. ReadBack(files, limit) = LastOf(lines, limit) BY <1>3, TailIsEnd
<1>5. lines \in Seq(Seq(Nat)) BY <1>3, TailIsEnd
<1> HIDE DEF lines
<1>6. Len(LastOf(lines, limit)) = IF Len(lines) > limit THEN limit ELSE Len(lines)
  BY <1>5, LastOfFacts
<1> QED BY <1>4, <1>5, <1>6 DEF files, lines, Needed

-----------------------------------------------------------------------------
(* The log.                                                                *)

Streams == [day : Days \cup {NoDay}, unlinked : BOOLEAN, pending : Seq(Nat)]

\* The parts of the log have the types they should.
LogType ==
    /\ log \in [save : BOOLEAN, retention : Retentions, history : Seq(Nat),
                active : Days \cup {NoDay}, stream : Streams]
    /\ Files(daily) /\ today \in Days /\ troubled \in Nat
    /\ written \in [count : Nat, since : Nat, on : [Days -> Seq(Nat)]]
    /\ listeners \in Seq([on : BOOLEAN, heard : Seq(Nat), since : Nat])

\* What is kept in memory, and what the listeners have heard.
HistoryInv ==
    /\ written.since <= written.count
    /\ log.history = LastOf(Counted(written.since, written.count), HistoryLines)
HeardInv ==
    \A i \in DOMAIN listeners :
        /\ listeners[i].since <= written.count
        /\ listeners[i].on => listeners[i].heard = Counted(listeners[i].since, written.count)

\* The bytes of lines, and the n newest of some days.
BytesOf(lines) == FlattenSeq([i \in DOMAIN lines |-> Bytes(lines[i])])
Newest(days, n) == {d \in days : Cardinality({e \in days : e > d}) < n}

\* The files while nothing went wrong: there is a stream once something was written,
\* to the newest day there is, and nothing is left in it.
StreamInv ==
    /\ log.save /\ log.stream.day = log.active
    /\ ~log.stream.unlinked /\ log.stream.pending = <<>>
    /\ IF log.active = NoDay THEN Logged = {} ELSE log.active \in Logged
    /\ \A d \in Logged : d <= today /\ d <= log.active
FilesInv ==
    /\ DOMAIN daily = Newest(Logged, log.retention)
    /\ \A d \in DOMAIN daily : daily[d] = BytesOf(written.on[d])

LogInv ==
    /\ LogType /\ IsFiniteSet(Logged) /\ HistoryInv /\ HeardInv
    /\ troubled = 0 => StreamInv /\ FilesInv

\* The invariant implies what is to be shown.
LEMMA LogInvShows == LogInv => LogIsTrue
<1> SUFFICES ASSUME LogInv PROVE LogIsTrue OBVIOUS
<1>1. ASSUME log.save, NEW limit \in 0..MaxLines, NEW listed \in BOOLEAN,
             NEW unreadable \in SUBSET DOMAIN daily
      PROVE  LogTail(limit, listed, unreadable) =
                 IF listed /\ \A d \in unreadable : ~Needed(d, limit)
                 THEN LastOf(LinesIn(daily), limit) ELSE RecentLines(limit)
  <2>1. Files(daily) BY DEF LogInv, LogType
  <2>2. limit \in Nat BY LogAssumption
  <2>3. \A d : Len(ReadBack(Since(d), limit)) < limit <=> Needed(d, limit)
    BY <2>1, <2>2, NeededIsRead
  <2>4. ReadBack(daily, limit) = LastOf(LinesIn(daily), limit) BY <2>1, <2>2, TailIsEnd
  <2> QED BY <1>1, <2>3, <2>4 DEF LogTail
<1>2. troubled = 0 =>
        /\ DOMAIN daily = {d \in Logged : Cardinality({e \in Logged : e > d}) < log.retention}
        /\ \A d \in DOMAIN daily : daily[d] = FlattenSeq([i \in DOMAIN written.on[d] |->
                                                              Bytes(written.on[d][i])])
  BY DEF LogInv, FilesInv, Newest, BytesOf
<1> QED BY <1>1, <1>2 DEF LogInv, HistoryInv, HeardInv, LogIsTrue

-----------------------------------------------------------------------------
(* The history.                                                            *)

\* Counting on.
LEMMA CountedFacts ==
  ASSUME NEW from \in Nat, NEW to \in Nat, from <= to
  PROVE  /\ Counted(from, to) \in Seq(Nat)
         /\ Counted(from, to + 1) = Append(Counted(from, to), to + 1)
         /\ Counted(from, from) = <<>>
<1> DEFINE c == Counted(from, to)
           n == to - from
<1>1. n \in Nat /\ (to + 1) - from = n + 1 /\ from + (n + 1) = to + 1 OBVIOUS
<1>2. c = [i \in 1..n |-> from + i] BY DEF Counted
<1>3. Counted(from, to + 1) = [i \in 1..n + 1 |-> from + i] BY <1>1 DEF Counted
<1>4. Counted(from, from) = <<>>
  <2>1. from - from = 0 OBVIOUS
  <2>2. Counted(from, from) = [i \in 1..0 |-> from + i] BY <2>1 DEF Counted
  <2> QED BY <2>2
<1> HIDE DEF c, n
<1>5. c \in Seq(Nat) /\ Len(c) = n BY <1>1, <1>2
<1>6. [i \in 1..n + 1 |-> from + i] = Append(c, to + 1)
  <2> DEFINE x == [i \in 1..n + 1 |-> from + i]
             y == Append(c, to + 1)
  <2>1. x \in Seq(Nat) /\ Len(x) = n + 1 BY <1>1
  <2>2. y \in Seq(Nat) /\ Len(y) = n + 1 BY <1>1, <1>5
  <2>3. \A i \in 1..n + 1 : x[i] = y[i]
    <3> TAKE i \in 1..n + 1
    <3>1. CASE i = n + 1 BY <1>1, <1>5, <3>1
    <3>2. CASE i # n + 1
      <4>1. i \in 1..n BY <1>1, <3>2
      <4>2. y[i] = c[i] BY <1>5, <4>1
      <4> QED BY <1>2, <4>1, <4>2
    <3> QED BY <3>1, <3>2
  <2> HIDE DEF x, y
  <2>4. x = y BY <2>1, <2>2, <2>3, SeqEqual
  <2> QED BY <2>4 DEF x, y
<1> QED BY <1>3, <1>4, <1>5, <1>6 DEF c

\* What at most n are becomes with one more.
Pushed(e, x, n) == Append(IF Len(e) = n THEN Tail(e) ELSE e, x)

\* The last n of a list that gets longer.
LEMMA LastOfMore ==
  ASSUME NEW S, NEW s \in Seq(S), NEW x \in S, NEW n \in Nat \ {0}
  PROVE  LastOf(Append(s, x), n) = Pushed(LastOf(s, n), x, n)
<1> DEFINE e == LastOf(s, n)
           b == IF Len(e) = n THEN Tail(e) ELSE e
           t == Append(s, x)
           v == LastOf(t, n)
           w == Append(b, x)
<1>1. /\ e \in Seq(S) /\ Len(e) = IF Len(s) > n THEN n ELSE Len(s)
      /\ \A i \in 1..Len(e) : e[i] = s[(Len(s) - Len(e)) + i]
  BY LastOfFacts
<1> HIDE DEF e
<1>2. /\ t \in Seq(S) /\ Len(t) = Len(s) + 1 /\ Len(s) \in Nat /\ t[Len(s) + 1] = x
      /\ \A i \in 1..Len(s) : t[i] = s[i]
  OBVIOUS
<1> HIDE DEF t
<1>3. /\ v \in Seq(S) /\ Len(v) = IF Len(t) > n THEN n ELSE Len(t)
      /\ \A i \in 1..Len(v) : v[i] = t[(Len(t) - Len(v)) + i]
  BY <1>2, LastOfFacts
<1>4. b \in Seq(S) /\ Len(b) = Len(v) - 1 /\ Len(v) \in Nat
      /\ \A i \in 1..Len(b) : b[i] = t[(Len(t) - Len(v)) + i]
  <2> HIDE DEF v
  <2>1. CASE Len(e) = n
    <3>1. e # <<>> BY <1>1, <2>1
    <3>2. b = Tail(e) BY <2>1
    <3> HIDE DEF b
    <3>3. b \in Seq(S) /\ Len(b) = n - 1 /\ \A i \in 1..Len(b) : b[i] = e[i + 1]
      BY <1>1, <2>1, <3>1, <3>2
    <3>4. Len(v) = n /\ Len(s) >= n BY <1>1, <1>2, <1>3, <2>1
    <3>5. ASSUME NEW i \in 1..Len(b) PROVE b[i] = t[(Len(t) - Len(v)) + i]
      <4>1. i + 1 \in 1..Len(e) BY <2>1, <3>3
      <4>2. (Len(s) - Len(e)) + (i + 1) = (Len(t) - Len(v)) + i BY <1>2, <2>1, <3>3, <3>4
      <4>3. (Len(t) - Len(v)) + i \in 1..Len(s) BY <1>2, <3>3, <3>4
      <4> QED BY <1>1, <1>2, <3>3, <4>1, <4>2, <4>3
    <3> QED BY <3>3, <3>4, <3>5
  <2>2. CASE Len(e) # n
    <3>1. b = e /\ Len(e) = Len(s) /\ Len(v) = Len(s) + 1 BY <1>1, <1>2, <1>3, <2>2
    <3> HIDE DEF b
    <3>2. ASSUME NEW i \in 1..Len(b) PROVE b[i] = t[(Len(t) - Len(v)) + i]
      <4>1. (Len(s) - Len(e)) + i = i /\ (Len(t) - Len(v)) + i = i /\ i \in 1..Len(s)
        BY <1>2, <3>1
      <4> QED BY <1>1, <1>2, <3>1, <4>1
    <3> QED BY <1>1, <1>2, <3>1, <3>2
  <2> QED BY <2>1, <2>2
<1> HIDE DEF b, v
<1>5. w \in Seq(S) /\ Len(w) = Len(v) /\ w[Len(v)] = x /\ \A i \in 1..Len(b) : w[i] = b[i]
  BY <1>4
<1>6. \A i \in 1..Len(v) : v[i] = w[i]
  <2> TAKE i \in 1..Len(v)
  <2>1. CASE i = Len(v)
    <3>1. (Len(t) - Len(v)) + i = Len(s) + 1 BY <1>2, <1>4, <2>1
    <3> QED BY <1>2, <1>3, <1>5, <2>1, <3>1
  <2>2. CASE i # Len(v)
    <3>1. i \in 1..Len(b) BY <1>4, <2>2
    <3> QED BY <1>3, <1>4, <1>5, <3>1
  <2> QED BY <2>1, <2>2
<1> HIDE DEF w
<1>7. v = w BY <1>3, <1>5, <1>6, SeqEqual
<1> QED BY <1>7 DEF v, w, b, t, e, Pushed

-----------------------------------------------------------------------------
(* The files.                                                              *)

\* The bytes of the lines of a list are those of its lines one after the other.
LEMMA BytesFacts ==
  ASSUME NEW s \in Seq(Nat)
  PROVE  /\ BytesOf(s) \in Seq(Nat) /\ BytesOf(<<>>) = <<>>
         /\ \A x \in Nat : Bytes(x) \in Seq(Nat) /\ BytesOf(Append(s, x)) = BytesOf(s) \o Bytes(x)
<1> DEFINE n == Len(s)
           lists == [i \in DOMAIN s |-> Bytes(s[i])]
<1>1. \A x \in Nat : Bytes(x) \in Seq(Nat) BY DEF Bytes
<1>2. n \in Nat /\ DOMAIN s = 1..n OBVIOUS
<1>3. lists \in [1..n -> Seq(Nat)]
  <2> HIDE DEF n
  <2> QED BY <1>1, <1>2
<1>4. BytesOf(s) \in Seq(Nat)
  <2> HIDE DEF lists, n
  <2>1. FlattenSeq(lists) \in Seq(Nat) BY <1>2, <1>3, FlattenedIn
  <2> QED BY <2>1 DEF BytesOf, lists
<1>5. BytesOf(<<>>) = <<>>
  <2> DEFINE none == [i \in DOMAIN <<>> |-> Bytes(<<>>[i])]
  <2>1. none \in [1..0 -> Seq(Nat)] OBVIOUS
  <2> HIDE DEF none
  <2>2. PICK flat : Joins(flat, none, 0, Nat) BY <2>1, FlatSteps
  <2>3. FlattenSeq(none) = <<>> BY <2>2 DEF Joins
  <2> QED BY <2>3 DEF BytesOf, none
<1>6. ASSUME NEW x \in Nat PROVE BytesOf(Append(s, x)) = BytesOf(s) \o Bytes(x)
  <2> DEFINE t == Append(s, x)
             more == [i \in DOMAIN t |-> Bytes(t[i])]
  <2>1. DOMAIN t = 1..n + 1 /\ t[n + 1] = x /\ \A i \in 1..n : t[i] = s[i] OBVIOUS
  <2>2. \A i \in 1..n + 1 : t[i] \in Nat OBVIOUS
  <2> HIDE DEF n, t
  <2>3. more \in [1..n + 1 -> Seq(Nat)] BY <1>1, <2>1, <2>2
  <2>4. n + 1 \in 1..n + 1 /\ \A i \in 1..n : i \in 1..n + 1 BY <1>2
  <2>5. more[n + 1] = Bytes(x) /\ \A i \in 1..n : more[i] = lists[i]
    BY <1>2, <2>1, <2>4
  <2> HIDE DEF more, lists
  <2>6. FlattenSeq(more) = FlattenSeq(lists) \o more[n + 1]
    BY <1>2, <1>3, <2>3, <2>5, FlattenedMore
  <2> QED BY <2>5, <2>6 DEF BytesOf, t, more, lists
<1> QED BY <1>1, <1>4, <1>5, <1>6

\* Among the n newest of some days and a newer one are that one and the newest of
\* those before; and of what is kept of them the n newest are the n newest of all.
LEMMA NewestFacts ==
  ASSUME NEW D, D \in SUBSET Nat, IsFiniteSet(D), NEW day \in Nat, \A d \in D : d < day,
         NEW n \in Nat \ {0}
  PROVE  /\ Newest(Newest(D, n) \cup {day}, n) = Newest(D \cup {day}, n)
         /\ day \in Newest(D \cup {day}, n)
<1> DEFINE held == Newest(D, n)
           E == D \cup {day}
           F == held \cup {day}
           Later(S, d) == {e \in S : e > d}
<1>1. \A S : Newest(S, n) = {d \in S : Cardinality(Later(S, d)) < n} BY DEF Newest
<1>2. held \in SUBSET D BY <1>1
<1>3. IsFiniteSet(E) /\ E \in SUBSET Nat BY FS_AddElement
<1>4. ASSUME NEW S \in SUBSET E, NEW T \in SUBSET S
      PROVE  IsFiniteSet(T) /\ Cardinality(T) \in Nat /\ Cardinality(T) <= Cardinality(S)
             /\ Cardinality(S) \in Nat
  BY <1>3, FS_Subset, FS_CardinalityType
<1>5. Cardinality(Later(F, day)) < n /\ Cardinality(Later(E, day)) < n
  <2>1. \A e \in E : ~(e > day) OBVIOUS
  <2>2. Later(E, day) = {} /\ Later(F, day) = {}
    <3> HIDE DEF E, held
    <3>1. \A e \in F : e \in E BY <1>2 DEF E
    <3> QED BY <2>1, <3>1
  <2>3. Cardinality({}) < n BY FS_EmptySet
  <2> QED BY <2>2, <2>3
<1> HIDE DEF held
<1>6. ASSUME NEW d \in Newest(E, n) PROVE d \in Newest(F, n)
  <2>1. d \in E /\ Cardinality(Later(E, d)) < n BY <1>1
  <2>2. d \in F
    <3>1. CASE d = day BY <3>1
    <3>2. CASE d # day
      <4>1. Later(D, d) \in SUBSET Later(E, d) /\ Later(E, d) \in SUBSET E OBVIOUS
      <4> HIDE DEF Later
      <4>2. Cardinality(Later(D, d)) < n BY <1>4, <2>1, <4>1
      <4>3. d \in D BY <2>1, <3>2
      <4>4. d \in held BY <1>1, <4>2, <4>3 DEF held
      <4> QED BY <4>4
    <3> QED BY <3>1, <3>2
  <2>3. Later(F, d) \in SUBSET Later(E, d) /\ Later(E, d) \in SUBSET E BY <1>2
  <2> HIDE DEF Later, F, E
  <2>4. Cardinality(Later(F, d)) < n BY <1>4, <2>1, <2>3
  <2> QED BY <1>1, <2>2, <2>4
<1>7. ASSUME NEW d \in Newest(F, n) PROVE d \in Newest(E, n)
  <2>1. d \in F /\ Cardinality(Later(F, d)) < n BY <1>1
  <2>2. d \in E BY <1>2, <2>1
  <2>3. CASE d = day
    <3> HIDE DEF E, F, Later
    <3> QED BY <1>1, <1>5, <2>2, <2>3
  <2>4. CASE d # day
    <3>1. d \in held /\ d \in D BY <1>2, <2>1, <2>4
    <3>2. Cardinality(Later(D, d)) < n BY <1>1, <3>1 DEF held
    <3>3. ASSUME NEW e \in Later(D, d) PROVE e \in held
      <4>1. Later(D, e) \in SUBSET Later(D, d)
        <5>1. d \in Nat /\ e \in Nat /\ e > d BY <3>1
        <5>2. \A f \in D : f \in Nat /\ (f > e => f > d) BY <5>1
        <5> QED BY <5>2
      <4>2. Later(D, d) \in SUBSET E OBVIOUS
      <4>3. e \in D OBVIOUS
      <4> HIDE DEF Later
      <4>4. Cardinality(Later(D, e)) < n BY <1>4, <3>2, <4>1, <4>2
      <4> QED BY <1>1, <4>3, <4>4 DEF held
    <3>4. Later(E, d) = Later(F, d) BY <1>2, <3>3
    <3> HIDE DEF Later, E, F
    <3> QED BY <1>1, <2>1, <2>2, <3>4
  <2> QED BY <2>3, <2>4
<1>8. day \in Newest(E, n)
  <2>1. day \in E OBVIOUS
  <2> HIDE DEF E, Later
  <2> QED BY <1>1, <1>5, <2>1
<1> HIDE DEF E, F
<1>9. Newest(F, n) = Newest(E, n) BY <1>6, <1>7
<1> QED BY <1>8, <1>9 DEF E, F, held

\* What is flushed goes to the file of its day.
LEMMA FlushedFacts ==
  ASSUME NEW files, Files(files), NEW stream \in Streams
  PROVE  /\ Files(Flushed(files, stream)) /\ DOMAIN Flushed(files, stream) = DOMAIN files
         /\ stream.pending = <<>> => \A d \in DOMAIN files : Flushed(files, stream)[d] = files[d]
         /\ stream.day \in Days /\ ~stream.unlinked =>
                \A d \in DOMAIN files : Flushed(files, stream)[d] =
                    IF d = stream.day THEN files[d] \o stream.pending ELSE files[d]
<1> DEFINE after == Flushed(files, stream)
           Same == after = files
<1>1. stream.pending \in Seq(Nat) BY DEF Streams
<1>2. NoDay \notin Days BY LogAssumption
<1>3. CASE stream.day = NoDay \/ stream.unlinked \/ stream.day \notin DOMAIN files
  <2>1. after = files BY <1>3 DEF Flushed
  <2> QED BY <1>2, <1>3, <2>1
<1>4. CASE ~(stream.day = NoDay \/ stream.unlinked \/ stream.day \notin DOMAIN files)
  <2>1. after = [files EXCEPT ![stream.day] = @ \o stream.pending] BY <1>4 DEF Flushed
  <2>2. DOMAIN after = DOMAIN files BY <2>1
  <2>3. \A d \in DOMAIN files : after[d] =
            IF d = stream.day THEN files[d] \o stream.pending ELSE files[d]
    BY <2>1
  <2>4. \A d \in DOMAIN files : files[d] \in Seq(Nat) BY DEF Files
  <2> HIDE DEF after
  <2>5. \A d \in DOMAIN after : after[d] \in Seq(Nat)
    <3> TAKE d \in DOMAIN after
    <3>1. files[d] \in Seq(Nat) /\ files[d] \o stream.pending \in Seq(Nat)
      BY <1>1, <2>2, <2>4, ConcatProperties
    <3> QED BY <2>2, <2>3, <3>1
  <2>6. Files(after) BY <2>2, <2>5 DEF Files
  <2>7. \A q \in Seq(Nat) : q \o <<>> = q OBVIOUS
  <2>8. stream.pending = <<>> => \A d \in DOMAIN files : after[d] = files[d]
    BY <2>3, <2>4, <2>7
  <2> QED BY <2>2, <2>3, <2>6, <2>8 DEF after
<1> QED BY <1>3, <1>4

Buffers == [save : BOOLEAN, retention : Retentions, history : Seq(Nat),
            active : Days \cup {NoDay}, stream : Streams]

\* A stream is opened for today, among the newest files; the one before is flushed.
LEMMA OpenedFacts ==
  ASSUME LogType
  PROVE  /\ Files(Opened.files) /\ Opened.stream \in Streams
         /\ Opened.stream.day = today /\ Opened.stream.pending = <<>>
         /\ Opened.stream.unlinked <=> today \notin DOMAIN Opened.files
         /\ DOMAIN Opened.files = Newest(DOMAIN daily \cup {today}, log.retention)
         /\ \A d \in DOMAIN Opened.files : Opened.files[d] =
                IF d \in DOMAIN daily THEN Flushed(daily, log.stream)[d] ELSE <<>>
<1> DEFINE before == Flushed(daily, log.stream)
           there == [d \in DOMAIN before \cup {today} |->
                        IF d \in DOMAIN before THEN before[d] ELSE <<>>]
           spared == Kept(there, log.retention)
<1>1. Files(daily) /\ log.stream \in Streams /\ today \in Days BY DEF LogType
<1>2. Files(before) /\ DOMAIN before = DOMAIN daily BY <1>1, FlushedFacts
<1>3. Opened = [files |-> [d \in spared |-> there[d]],
                stream |-> [day |-> today, unlinked |-> today \notin spared, pending |-> <<>>]]
  BY DEF Opened
<1> HIDE DEF before
<1>4. DOMAIN there = DOMAIN daily \cup {today} BY <1>2
<1>5. \A d \in DOMAIN there : there[d] \in Seq(Nat)
                              /\ there[d] = IF d \in DOMAIN daily THEN before[d] ELSE <<>>
  BY <1>2 DEF Files
<1> HIDE DEF there
<1>6. spared = Newest(DOMAIN daily \cup {today}, log.retention) BY <1>4 DEF Kept, Newest
<1>7. spared \in SUBSET (DOMAIN daily \cup {today}) BY <1>6 DEF Newest
<1> HIDE DEF spared
<1>8. spared \in SUBSET Days /\ IsFiniteSet(spared)
  <2>1. IsFiniteSet(DOMAIN daily \cup {today}) BY <1>1, FS_AddElement DEF Files
  <2>2. IsFiniteSet(spared) BY <1>7, <2>1, FS_Subset
  <2> QED BY <1>1, <1>7, <2>2 DEF Files
<1>9. /\ DOMAIN Opened.files = spared
      /\ \A d \in spared : Opened.files[d] = there[d]
      /\ Opened.stream = [day |-> today, unlinked |-> today \notin spared, pending |-> <<>>]
  BY <1>3
<1>10. Files(Opened.files) BY <1>4, <1>5, <1>7, <1>8, <1>9 DEF Files
<1>11. Opened.stream \in Streams
  <2>1. (today \notin spared) \in BOOLEAN /\ <<>> \in Seq(Nat) OBVIOUS
  <2> QED BY <1>1, <1>9, <2>1 DEF Streams
<1>12. Opened.stream.unlinked <=> today \notin DOMAIN Opened.files
  <2>1. Opened.stream.unlinked = (today \notin spared) BY <1>9
  <2> QED BY <1>9, <2>1
<1>13. \A d \in DOMAIN Opened.files : Opened.files[d] =
           IF d \in DOMAIN daily THEN before[d] ELSE <<>>
  BY <1>4, <1>5, <1>7, <1>9
<1>14. Opened.stream.day = today /\ Opened.stream.pending = <<>> BY <1>9
<1>15. DOMAIN Opened.files = Newest(DOMAIN daily \cup {today}, log.retention) BY <1>6, <1>9
<1> QED BY <1>10, <1>11, <1>12, <1>13, <1>14, <1>15 DEF before

\* The history takes a line.
LEMMA HistoryFacts ==
  ASSUME LogType, NEW line \in Nat
  PROVE  HistoryWith(line) \in Seq(Nat)
<1>1. log.history \in Seq(Nat) /\ HistoryLines \in Nat \ {0} BY LogAssumption DEF LogType
<1>2. Full(log.history) => log.history # <<>> BY <1>1 DEF Full
<1> QED BY <1>1, <1>2 DEF HistoryWith

\* What writes a line, whether it is written at once or stays in the buffer.
LEMMA ReadyFacts ==
  ASSUME LogType
  PROVE  Files(Ready.files) /\ Ready.stream \in Streams
<1>1. CASE NeedsOpen BY <1>1, OpenedFacts DEF Ready
<1>2. CASE ~NeedsOpen BY <1>2 DEF Ready, LogType
<1> QED BY <1>1, <1>2

\* A line goes to the history, and its bytes to the stream.
LEMMA AppendedTypes ==
  ASSUME LogType, AppendLine
  PROVE  /\ log' \in Buffers /\ log'.history = HistoryWith(written.count + 1)
         /\ Files(daily') /\ troubled' \in Nat
<1> DEFINE line == written.count + 1
<1>1. line \in Nat BY DEF LogType
<1>2. /\ log \in Buffers /\ today \in Days \cup {NoDay} /\ HistoryWith(line) \in Seq(Nat)
      /\ Files(daily) /\ troubled \in Nat /\ log.stream \in Streams
  BY <1>1, HistoryFacts DEF LogType, Buffers
<1>3. ASSUME NoTrouble \/ Trouble PROVE troubled' \in Nat
  BY <1>2, <1>3 DEF NoTrouble, Trouble
<1>5. CASE Write(line)
  <2> DEFINE stream == [Ready.stream EXCEPT !.pending = @ \o Bytes(line)]
  <2>1. Files(Ready.files) /\ Ready.stream \in Streams BY ReadyFacts
  <2>2. Ready.stream.pending \in Seq(Nat) /\ Bytes(line) \in Seq(Nat)
    BY <1>1, <2>1 DEF Streams, Bytes
  <2>3. Ready.stream.pending \o Bytes(line) \in Seq(Nat) BY <2>2, ConcatProperties
  <2>4. stream \in Streams /\ [stream EXCEPT !.pending = <<>>] \in Streams
    <3> DEFINE pending == Ready.stream.pending \o Bytes(line)
    <3>1. stream = [Ready.stream EXCEPT !.pending = pending] OBVIOUS
    <3>2. pending \in Seq(Nat) /\ <<>> \in Seq(Nat) BY <2>3
    <3> HIDE DEF pending, stream
    <3>3. stream \in Streams BY <2>1, <3>1, <3>2 DEF Streams
    <3> QED BY <3>2, <3>3 DEF Streams
  <2>5. \/ /\ daily' = Flushed(Ready.files, stream)
           /\ log' = [log EXCEPT !.history = HistoryWith(line), !.active = today,
                                 !.stream = [stream EXCEPT !.pending = <<>>]]
           /\ NoTrouble
        \/ /\ daily' = Ready.files
           /\ log' = [log EXCEPT !.history = HistoryWith(line), !.active = today,
                                 !.stream = stream]
           /\ Trouble
    BY <1>5 DEF Write
  <2> HIDE DEF stream, line
  <2>6. Files(daily') BY <2>1, <2>4, <2>5, FlushedFacts
  <2>7. log' \in Buffers /\ log'.history = HistoryWith(line) BY <1>2, <2>4, <2>5 DEF Buffers
  <2> QED BY <1>3, <2>5, <2>6, <2>7 DEF line
<1>6. CASE OpenFails(line)
  <2>1. Trouble
        /\ \/ /\ log' = [log EXCEPT !.history = HistoryWith(line)] /\ UNCHANGED daily
           \/ /\ log' = [log EXCEPT !.history = HistoryWith(line), !.active = today,
                                    !.stream = Nothing]
              /\ daily' = Flushed(daily, log.stream)
    BY <1>6 DEF OpenFails
  <2>2. Nothing \in Streams BY DEF Nothing, Streams
  <2> HIDE DEF line
  <2>3. Files(daily') BY <1>2, <2>1, FlushedFacts
  <2>4. log' \in Buffers /\ log'.history = HistoryWith(line)
    BY <1>2, <2>1, <2>2 DEF Buffers
  <2> QED BY <1>3, <2>1, <2>3, <2>4 DEF line
<1>7. CASE log' = [log EXCEPT !.history = HistoryWith(line)] /\ UNCHANGED daily /\ NoTrouble
  <2> HIDE DEF line
  <2>1. log' \in Buffers /\ log'.history = HistoryWith(line) BY <1>2, <1>7 DEF Buffers
  <2> QED BY <1>2, <1>3, <1>7, <2>1 DEF line
<1> QED BY <1>5, <1>6, <1>7 DEF AppendLine

\* Of nothing there is nothing at the end.
LEMMA LastOfNone == \A n \in Nat : LastOf(<<>>, n) = <<>>
<1> TAKE n \in Nat
<1> DEFINE s == <<>>
<1>1. s \in Seq(Nat) /\ Len(s) <= n OBVIOUS
<1> HIDE DEF s
<1>2. LastOf(s, n) = s BY <1>1, LastOfFacts
<1> QED BY <1>2 DEF s

\* Initially there is a day, and nothing else.
LEMMA InitLog == LogInit => LogInv
<1> SUFFICES ASSUME LogInit PROVE LogInv OBVIOUS
<1> USE DEF LogInit
<1>1. Nothing \in Streams /\ Nothing.day = NoDay /\ ~Nothing.unlinked
      /\ Nothing.pending = <<>>
  BY DEF Nothing, Streams
<1>2. today \in Days
  <2>1. \E d \in Days : \A e \in Days : d <= e BY LogAssumption, LeastNatural
  <2> QED BY <2>1
<1>3. /\ log.save = TRUE /\ log.retention \in Retentions /\ log.history = <<>>
      /\ log.active = NoDay /\ log.stream = Nothing
      /\ log \in [save : {TRUE}, retention : Retentions, history : {<<>>}, active : {NoDay},
                 stream : {Nothing}]
  OBVIOUS
<1>16. log \in Buffers
  <2>1. TRUE \in BOOLEAN /\ <<>> \in Seq(Nat) /\ NoDay \in Days \cup {NoDay} OBVIOUS
  <2> QED BY ONLY <1>1, <1>3, <2>1 DEF Buffers
<1>4. DOMAIN daily = {} OBVIOUS
<1>5. IsFiniteSet({}) BY FS_EmptySet
<1>6. Files(daily) BY <1>4, <1>5 DEF Files
<1>7. written \in [count : Nat, since : Nat, on : [Days -> Seq(Nat)]] OBVIOUS
<1>8. LogType BY <1>2, <1>16, <1>6, <1>7 DEF LogType, Buffers
<1>9. Logged = {} BY DEF Logged
<1>10. HistoryInv
  <2>1. Counted(0, 0) = <<>> BY CountedFacts
  <2>2. LastOf(<<>>, HistoryLines) = <<>> BY LogAssumption, LastOfNone
  <2> QED BY <1>3, <2>1, <2>2 DEF HistoryInv
<1>11. HeardInv BY DEF HeardInv
<1>12. StreamInv BY <1>1, <1>3, <1>9 DEF StreamInv
<1>13. FilesInv BY <1>4, <1>9 DEF FilesInv, Newest
<1> QED BY <1>5, <1>8, <1>9, <1>10, <1>11, <1>12, <1>13 DEF LogInv

\* The listeners are a list of what listens.
Ears == [on : BOOLEAN, heard : Seq(Nat), since : Nat]
LEMMA EarsFacts ==
  ASSUME LogType
  PROVE  /\ listeners \in Seq(Ears) /\ DOMAIN listeners = 1..Len(listeners)
         /\ Len(listeners) \in Nat
         /\ \A i \in DOMAIN listeners : listeners[i] \in Ears
<1>1. listeners \in Seq(Ears) BY DEF LogType, Ears
<1> QED BY <1>1

\* So are as many others.
LEMMA AsManyEars ==
  ASSUME NEW n \in Nat, NEW ears \in [1..n -> Ears]
  PROVE  ears \in Seq(Ears)
OBVIOUS

\* Every step keeps the types.
LEMMA LogTypeStep == LogType /\ [LogNext]_logVars => LogType'
<1> SUFFICES ASSUME LogType, [LogNext]_logVars PROVE LogType' OBVIOUS
<1> USE DEF LogType
<1>1. /\ log \in Buffers /\ log.stream \in Streams /\ Nothing \in Streams
      /\ Flushed(daily, log.stream) = Flushed(daily, log.stream)
  BY DEF Buffers, Nothing, Streams
<1>2. Files(Flushed(daily, log.stream)) BY <1>1, FlushedFacts
<1>3. Trouble \/ NoTrouble => troubled' \in Nat BY DEF Trouble, NoTrouble
<1> DEFINE Counts == [count : Nat, since : Nat, on : [Days -> Seq(Nat)]]
<1>4. CASE AppendLine
  <2> DEFINE line == written.count + 1
  <2>1. log' \in Buffers /\ Files(daily') /\ troubled' \in Nat BY <1>4, AppendedTypes
  <2>2. line \in Nat /\ today' = today BY <1>4 DEF AppendLine
  <2>3. written' \in Counts
    <3>1. written' = [written EXCEPT !.count = line, !.on[today] = Append(@, line)]
      BY <1>4 DEF AppendLine
    <3>2. Append(written.on[today], line) \in Seq(Nat) BY <2>2
    <3> HIDE DEF line
    <3> QED BY <2>2, <3>1, <3>2
  <2>4. listeners' \in Seq(Ears)
    <3>1. listeners' = [i \in DOMAIN listeners |->
               IF listeners[i].on THEN [listeners[i] EXCEPT !.heard = Append(@, line)]
                                  ELSE listeners[i]]
      BY <1>4 DEF AppendLine
    <3>2. ASSUME NEW i \in DOMAIN listeners PROVE listeners'[i] \in Ears
      <4>1. listeners[i] \in Ears BY EarsFacts
      <4>2. Append(listeners[i].heard, line) \in Seq(Nat) BY <2>2, <4>1 DEF Ears
      <4> HIDE DEF line
      <4> QED BY <3>1, <4>1, <4>2 DEF Ears
    <3>3. Len(listeners) \in Nat /\ DOMAIN listeners = 1..Len(listeners) BY EarsFacts
    <3>4. listeners' \in [1..Len(listeners) -> Ears] BY <3>1, <3>2, <3>3
    <3> QED BY <3>3, <3>4, AsManyEars
  <2> QED BY <2>1, <2>2, <2>3, <2>4 DEF Buffers, Ears
<1>5. CASE Configure
  <2>1. PICK save \in BOOLEAN, retention \in Retentions :
            /\ Trouble
            /\ IF log.save /\ ~save
               THEN /\ daily' = Flushed(daily, log.stream)
                    /\ log' = [log EXCEPT !.save = save, !.retention = retention,
                                          !.active = NoDay, !.stream = Nothing]
               ELSE /\ UNCHANGED daily
                    /\ log' = [log EXCEPT !.save = save, !.retention = retention]
            /\ UNCHANGED <<today, listeners, written>>
    BY <1>5 DEF Configure
  <2>2. log' \in Buffers BY <1>1, <2>1 DEF Buffers
  <2>3. Files(daily') BY <1>2, <2>1
  <2> QED BY <1>3, <2>1, <2>2, <2>3 DEF Buffers
<1>6. CASE DayChanges BY <1>3, <1>6 DEF DayChanges
<1>7. CASE Subscribe
  <2>1. [on |-> TRUE, heard |-> <<>>, since |-> written.count] \in Ears BY DEF Ears
  <2>2. listeners' \in Seq(Ears) BY <1>7, <2>1, EarsFacts DEF Subscribe
  <2> QED BY <1>7, <2>2 DEF Subscribe, Ears
<1>8. CASE Unsubscribe
  <2>1. PICK i \in DOMAIN listeners : listeners' = [listeners EXCEPT ![i].on = FALSE]
    BY <1>8 DEF Unsubscribe
  <2> DEFINE ear == [listeners[i] EXCEPT !.on = FALSE]
  <2>2. ear \in Ears BY EarsFacts DEF Ears
  <2>3. listeners' = [listeners EXCEPT ![i] = ear] BY <2>1
  <2> HIDE DEF ear
  <2>4. listeners' \in Seq(Ears)
    <3>1. listeners' \in [1..Len(listeners) -> Ears] BY <2>2, <2>3, EarsFacts
    <3> QED BY <3>1, EarsFacts, AsManyEars
  <2> QED BY <1>8, <2>4 DEF Unsubscribe, Ears
<1>9. CASE CloseLog
  <2>1. log' \in Buffers
    <3>1. <<>> \in Seq(Nat) OBVIOUS
    <3> QED BY <1>1, <1>9, <3>1 DEF CloseLog, Buffers
  <2>2. listeners' \in Seq(Ears)
    <3>1. listeners' = [i \in DOMAIN listeners |-> [listeners[i] EXCEPT !.on = FALSE]]
      BY <1>9 DEF CloseLog
    <3>2. \A i \in DOMAIN listeners : [listeners[i] EXCEPT !.on = FALSE] \in Ears
      BY EarsFacts DEF Ears
    <3>3. listeners' \in [1..Len(listeners) -> Ears] BY <3>1, <3>2, EarsFacts
    <3> QED BY <3>3, EarsFacts, AsManyEars
  <2>3. written' \in Counts BY <1>9 DEF CloseLog
  <2> QED BY <1>2, <1>3, <1>9, <2>1, <2>2, <2>3 DEF CloseLog, Buffers, Ears
<1>10. CASE UNCHANGED logVars BY <1>10 DEF logVars, Files
<1> QED BY <1>4, <1>5, <1>6, <1>7, <1>8, <1>9, <1>10 DEF LogNext

\* The history and the listeners have what was written since.
LEMMA HistoryStep ==
  LogType /\ HistoryInv /\ HeardInv /\ [LogNext]_logVars => HistoryInv' /\ HeardInv'
<1> SUFFICES ASSUME LogType, HistoryInv, HeardInv, [LogNext]_logVars
             PROVE  HistoryInv' /\ HeardInv'
  OBVIOUS
<1>1. /\ written.count \in Nat /\ written.since \in Nat /\ HistoryLines \in Nat \ {0}
      /\ written.since <= written.count
      /\ listeners \in Seq(Ears)
  BY LogAssumption, EarsFacts DEF LogType, HistoryInv
<1>2. \A i \in DOMAIN listeners : listeners[i] \in Ears BY EarsFacts
<1>3. CASE AppendLine
  <2> DEFINE line == written.count + 1
  <2>1. log'.history = HistoryWith(line) BY <1>3, AppendedTypes
  <2>2. written'.count = line /\ written'.since = written.since
    BY <1>3 DEF AppendLine, LogType
  <2>3. HistoryInv'
    <3> DEFINE s == Counted(written.since, written.count)
    <3>1. s \in Seq(Nat) /\ Counted(written.since, line) = Append(s, line)
      BY <1>1, CountedFacts
    <3>2. log.history = LastOf(s, HistoryLines) BY DEF HistoryInv
    <3>3. line \in Nat BY <1>1
    <3> HIDE DEF s, line
    <3>4. LastOf(Append(s, line), HistoryLines) =
              Pushed(log.history, line, HistoryLines)
      BY <1>1, <3>1, <3>2, <3>3, LastOfMore
    <3>5. log'.history = LastOf(Counted(written.since, line), HistoryLines)
      BY <2>1, <3>1, <3>4 DEF HistoryWith, Full, Pushed
    <3>6. written.since <= line BY <1>1 DEF line
    <3> QED BY <2>2, <3>5, <3>6 DEF HistoryInv
  <2>4. HeardInv'
    <3>1. listeners' = [i \in DOMAIN listeners |->
               IF listeners[i].on THEN [listeners[i] EXCEPT !.heard = Append(@, line)]
                                  ELSE listeners[i]]
      BY <1>3 DEF AppendLine
    <3> SUFFICES ASSUME NEW i \in DOMAIN listeners
                 PROVE  /\ listeners'[i].since <= line
                        /\ listeners'[i].on =>
                               listeners'[i].heard = Counted(listeners'[i].since, line)
      BY <2>2, <3>1 DEF HeardInv
    <3>2. listeners[i] \in Ears BY <1>2
    <3>3. listeners[i].since \in Nat /\ listeners[i].since <= written.count
      BY <3>2 DEF HeardInv, Ears
    <3>4. Counted(listeners[i].since, line) = Append(Counted(listeners[i].since, written.count), line)
      BY <1>1, <3>3, CountedFacts
    <3>5. listeners[i].since <= line BY <1>1, <3>3
    <3> HIDE DEF line
    <3>6. CASE listeners[i].on
      <4>1. listeners'[i] = [listeners[i] EXCEPT !.heard = Append(@, line)] BY <3>1, <3>6
      <4>2. listeners[i].heard = Counted(listeners[i].since, written.count)
        BY <3>6 DEF HeardInv
      <4>3. listeners'[i].since = listeners[i].since
            /\ listeners'[i].heard = Append(listeners[i].heard, line)
        BY <3>2, <4>1 DEF Ears
      <4> QED BY <3>4, <3>5, <4>2, <4>3
    <3>7. CASE ~listeners[i].on
      <4>1. listeners'[i] = listeners[i] BY <3>1, <3>7
      <4> QED BY <3>5, <3>7, <4>1
    <3> QED BY <3>6, <3>7
  <2> QED BY <2>3, <2>4
<1>4. CASE Configure
  <2>1. log'.history = log.history /\ UNCHANGED <<listeners, written>>
    BY <1>4 DEF Configure, LogType
  <2> QED BY <2>1 DEF HistoryInv, HeardInv
<1>5. CASE DayChanges BY <1>5 DEF DayChanges, HistoryInv, HeardInv
<1>6. CASE Subscribe
  <2>1. UNCHANGED <<log, written>> BY <1>6 DEF Subscribe
  <2> DEFINE new == [on |-> TRUE, heard |-> <<>>, since |-> written.count]
  <2>2. listeners' = Append(listeners, new) BY <1>6 DEF Subscribe
  <2>3. new.since = written.count /\ new.heard = Counted(new.since, written.count)
    <3>1. Counted(written.count, written.count) = <<>>
      <4>1. written.count <= written.count BY <1>1
      <4> QED BY <1>1, <4>1, CountedFacts
    <3> QED BY <3>1
  <2> HIDE DEF new
  <2>4. \A i \in DOMAIN listeners' :
            (i \in DOMAIN listeners /\ listeners'[i] = listeners[i]) \/ listeners'[i] = new
    BY <1>1, <2>2
  <2>5. written.count <= written.count BY <1>1
  <2>6. HeardInv' BY <2>1, <2>3, <2>4, <2>5 DEF HeardInv
  <2> QED BY <2>1, <2>6 DEF HistoryInv
<1>7. CASE Unsubscribe
  <2>1. PICK j \in DOMAIN listeners : listeners' = [listeners EXCEPT ![j].on = FALSE]
    BY <1>7 DEF Unsubscribe
  <2>2. UNCHANGED <<log, written>> BY <1>7 DEF Unsubscribe
  <2>4. DOMAIN listeners' = DOMAIN listeners BY <2>1
  <2>5. \A i \in DOMAIN listeners : listeners'[i].since = listeners[i].since
                                    /\ (listeners'[i].on => listeners'[i] = listeners[i])
    BY <1>2, <2>1 DEF Ears
  <2>6. HeardInv' BY <2>2, <2>4, <2>5 DEF HeardInv
  <2> QED BY <2>2, <2>6 DEF HistoryInv
<1>8. CASE CloseLog
  <2>1. written'.count = written.count /\ written'.since = written.count /\ log'.history = <<>>
    BY <1>8 DEF CloseLog, LogType
  <2>2. HistoryInv'
    <3>1. written.count <= written.count BY <1>1
    <3>2. Counted(written.count, written.count) = <<>> BY <1>1, <3>1, CountedFacts
    <3>3. LastOf(<<>>, HistoryLines) = <<>> BY <1>1, LastOfNone
    <3> QED BY <2>1, <3>1, <3>2, <3>3 DEF HistoryInv
  <2>4. DOMAIN listeners' = DOMAIN listeners
        /\ \A i \in DOMAIN listeners : listeners'[i].since = listeners[i].since
                                       /\ ~listeners'[i].on
    BY <1>2, <1>8 DEF CloseLog, Ears
  <2>5. HeardInv' BY <2>1, <2>4 DEF HeardInv
  <2> QED BY <2>2, <2>5
<1>9. CASE UNCHANGED logVars BY <1>9 DEF logVars, HistoryInv, HeardInv
<1> QED BY <1>3, <1>4, <1>5, <1>6, <1>7, <1>8, <1>9 DEF LogNext

\* A line is of today.
LEMMA LoggedFacts ==
  ASSUME LogType, AppendLine
  PROVE  /\ Logged' = Logged \cup {today} /\ today' = today
         /\ \A d \in Days : written'.on[d] = IF d = today THEN Append(written.on[d], written.count + 1)
                                                          ELSE written.on[d]
<1> DEFINE line == written.count + 1
<1>1. written' = [written EXCEPT !.count = line, !.on[today] = Append(@, line)] /\ today' = today
  BY DEF AppendLine
<1>2. written \in [count : Nat, since : Nat, on : [Days -> Seq(Nat)]] /\ today \in Days
  BY DEF LogType
<1> HIDE DEF line
<1>3. \A d \in Days : written'.on[d] = IF d = today THEN Append(written.on[d], line)
                                                    ELSE written.on[d]
  BY <1>1, <1>2
<1>4. \A d \in Days : written'.on[d] # <<>> <=> d = today \/ written.on[d] # <<>>
  <2> TAKE d \in Days
  <2>1. written.on[d] \in Seq(Nat) BY <1>2
  <2>2. Append(written.on[d], line) # <<>>
    <3>1. line \in Nat BY <1>2 DEF line
    <3> QED BY <2>1, <3>1
  <2> QED BY <1>3, <2>2
<1>5. Logged' = Logged \cup {today} BY <1>2, <1>4 DEF Logged
<1> QED BY <1>1, <1>3, <1>5 DEF line

\* While nothing goes wrong, what writes a line writes today's file, which is there,
\* and the files are those of the newest days with today.
LEMMA ReadyHolds ==
  ASSUME LogType, IsFiniteSet(Logged), StreamInv, FilesInv
  PROVE  /\ Ready.stream.day = today /\ ~Ready.stream.unlinked /\ Ready.stream.pending = <<>>
         /\ DOMAIN Ready.files = Newest(Logged \cup {today}, log.retention)
         /\ today \in DOMAIN Ready.files
         /\ \A d \in DOMAIN Ready.files : Ready.files[d] = BytesOf(written.on[d])
         /\ \A d \in Logged : d <= today
<1>1. /\ Logged \in SUBSET Days /\ Days \in SUBSET Nat /\ today \in Days
      /\ log.retention \in Nat \ {0} /\ log \in Buffers /\ NoDay \notin Days
      /\ Files(daily) /\ log.stream \in Streams
  BY LogAssumption DEF LogType, Logged, Buffers
<1>2. \A d \in Logged : d <= today /\ d <= log.active BY DEF StreamInv
<1>3. DOMAIN daily = Newest(Logged, log.retention) BY DEF FilesInv
<1>4. CASE NeedsOpen
  <2>1. Ready = Opened BY <1>4 DEF Ready
  <2>2. today \notin Logged
    <3>1. CASE log.active = NoDay BY <3>1 DEF StreamInv
    <3>2. CASE log.active # NoDay
      <4>1. log.active \in Logged /\ log.active # today
        BY <1>4, <3>2 DEF StreamInv, NeedsOpen
      <4>2. today \in Logged => today <= log.active /\ log.active <= today BY <1>2, <4>1
      <4>3. today \in Nat /\ log.active \in Nat BY <1>1, <4>1
      <4> QED BY <4>1, <4>2, <4>3
    <3> QED BY <3>1, <3>2
  <2>3. \A d \in Logged : d < today
    <3> TAKE d \in Logged
    <3>1. d \in Nat /\ today \in Nat /\ d <= today /\ d # today BY <1>1, <1>2, <2>2
    <3> QED BY <3>1
  <2>4. /\ Opened.stream.day = today /\ Opened.stream.pending = <<>>
        /\ Opened.stream.unlinked <=> today \notin DOMAIN Opened.files
        /\ Opened.stream \in Streams
        /\ DOMAIN Opened.files = Newest(DOMAIN daily \cup {today}, log.retention)
        /\ \A d \in DOMAIN Opened.files : Opened.files[d] =
               IF d \in DOMAIN daily THEN Flushed(daily, log.stream)[d] ELSE <<>>
    BY OpenedFacts
  <2>5. /\ Newest(DOMAIN daily \cup {today}, log.retention) = Newest(Logged \cup {today}, log.retention)
        /\ today \in Newest(Logged \cup {today}, log.retention)
    <3> DEFINE D == Logged
               n == log.retention
               F == DOMAIN daily
    <3>1. /\ D \in SUBSET Nat /\ IsFiniteSet(D) /\ today \in Nat /\ n \in Nat \ {0}
          /\ \A d \in D : d < today
      BY <1>1, <2>3
    <3>2. F = Newest(D, n) BY <1>3
    <3> HIDE DEF D, n, F
    <3>3. Newest(Newest(D, n) \cup {today}, n) = Newest(D \cup {today}, n)
          /\ today \in Newest(D \cup {today}, n)
      BY <3>1, NewestFacts
    <3> QED BY <3>2, <3>3 DEF D, n, F
  <2>6. log.stream.pending = <<>> BY DEF StreamInv
  <2>7. \A d \in DOMAIN daily : Flushed(daily, log.stream)[d] = daily[d]
    BY <1>1, <2>6, FlushedFacts
  <2>8. ASSUME NEW d \in DOMAIN Opened.files PROVE Opened.files[d] = BytesOf(written.on[d])
    <3>1. CASE d \in DOMAIN daily BY <2>4, <2>7, <3>1 DEF FilesInv
    <3>2. CASE d \notin DOMAIN daily
      <4>1. d = today BY <2>4, <3>2 DEF Newest
      <4>2. written.on[d] = <<>> BY <1>1, <2>2, <4>1 DEF Logged
      <4>3. BytesOf(<<>>) = <<>>
        <5>1. <<>> \in Seq(Nat) OBVIOUS
        <5> QED BY <5>1, BytesFacts
      <4> QED BY <2>4, <3>2, <4>2, <4>3
    <3> QED BY <3>1, <3>2
  <2>9. ~Opened.stream.unlinked BY <2>4, <2>5
  <2> QED BY <1>2, <2>1, <2>4, <2>5, <2>8, <2>9
<1>5. CASE ~NeedsOpen
  <2>1. Ready.files = daily /\ Ready.stream = log.stream BY <1>5 DEF Ready
  <2>2. log.stream.day = today /\ log.active = today
    <3>1. log.active = today BY <1>5 DEF NeedsOpen
    <3> QED BY <3>1 DEF StreamInv
  <2>3. today \in Logged BY <1>1, <2>2 DEF StreamInv
  <2>4. Logged \cup {today} = Logged BY <2>3
  <2>5. today \in Newest(Logged, log.retention)
    <3>1. \A e \in Logged : ~(e > today)
      <4> TAKE e \in Logged
      <4>1. e \in Nat /\ today \in Nat /\ e <= today BY <1>1, <1>2
      <4> QED BY <4>1
    <3>2. {e \in Logged : e > today} = {} BY <3>1
    <3>3. Cardinality({}) = 0 /\ 0 < log.retention BY <1>1, FS_EmptySet
    <3> QED BY <2>3, <3>2, <3>3 DEF Newest
  <2> QED BY <1>2, <1>3, <2>1, <2>2, <2>4, <2>5 DEF StreamInv, FilesInv
<1> QED BY <1>4, <1>5

\* The files of the days there are something of stay as they should.
LEMMA FilesStep ==
  LogInv /\ LogType' /\ [LogNext]_logVars =>
      IsFiniteSet(Logged)' /\ (troubled' = 0 => StreamInv' /\ FilesInv')
<1> SUFFICES ASSUME LogInv, LogType', [LogNext]_logVars
             PROVE  IsFiniteSet(Logged)' /\ (troubled' = 0 => StreamInv' /\ FilesInv')
  OBVIOUS
<1>1. LogType /\ IsFiniteSet(Logged) /\ troubled \in Nat BY DEF LogInv, LogType
<1>2. Trouble => troubled' # 0 BY <1>1 DEF Trouble
<1>3. CASE AppendLine
  <2> DEFINE line == written.count + 1
             stream == [Ready.stream EXCEPT !.pending = @ \o Bytes(line)]
  <2>1. Logged' = Logged \cup {today} /\ today' = today
        /\ \A d \in Days : written'.on[d] = IF d = today THEN Append(written.on[d], line)
                                                         ELSE written.on[d]
    BY <1>1, <1>3, LoggedFacts
  <2>2. IsFiniteSet(Logged') BY <1>1, <2>1, FS_AddElement
  <2>3. ASSUME troubled' = 0 PROVE StreamInv' /\ FilesInv'
    <3>1. ~Trouble BY <1>2, <2>3
    <3>2. CASE troubled = 0
      <4>1. StreamInv /\ FilesInv BY <3>2 DEF LogInv
      <4>2. log.save BY <4>1 DEF StreamInv
      <4>3. Write(line) BY <1>3, <3>1, <4>2 DEF AppendLine, OpenFails
      <4>4. /\ daily' = Flushed(Ready.files, stream)
            /\ log' = [log EXCEPT !.history = HistoryWith(line), !.active = today,
                                  !.stream = [stream EXCEPT !.pending = <<>>]]
        BY <3>1, <4>3 DEF Write
      <4>5. /\ Ready.stream.day = today /\ ~Ready.stream.unlinked /\ Ready.stream.pending = <<>>
            /\ DOMAIN Ready.files = Newest(Logged \cup {today}, log.retention)
            /\ today \in DOMAIN Ready.files
            /\ \A d \in DOMAIN Ready.files : Ready.files[d] = BytesOf(written.on[d])
            /\ \A d \in Logged : d <= today
        BY <1>1, <4>1, ReadyHolds
      <4>6. Files(Ready.files) /\ Ready.stream \in Streams BY <1>1, ReadyFacts
      <4>7. line \in Nat /\ today \in Days /\ log \in Buffers /\ NoDay \notin Days
            /\ written.on \in [Days -> Seq(Nat)] /\ Days \in SUBSET Nat
        <5>1. today \in Days /\ log \in Buffers BY <1>1 DEF LogType, Buffers
        <5>2. written.on \in [Days -> Seq(Nat)] /\ written.count \in Nat BY <1>1 DEF LogType
        <5> QED BY <5>1, <5>2, LogAssumption
      <4>8. Bytes(line) \in Seq(Nat) BY <4>7 DEF Bytes
      <4>9. stream \in Streams /\ stream.day = today /\ ~stream.unlinked
            /\ stream.pending = Bytes(line)
            /\ [stream EXCEPT !.pending = <<>>] \in Streams
            /\ [stream EXCEPT !.pending = <<>>].day = today
            /\ ~[stream EXCEPT !.pending = <<>>].unlinked
            /\ [stream EXCEPT !.pending = <<>>].pending = <<>>
        <5>1. Ready.stream.pending \o Bytes(line) = Bytes(line) BY <4>5, <4>8
        <5>2. stream = [Ready.stream EXCEPT !.pending = Bytes(line)] BY <5>1
        <5>3. <<>> \in Seq(Nat) OBVIOUS
        <5> HIDE DEF stream, line
        <5>4. stream \in Streams /\ stream.day = today /\ ~stream.unlinked
              /\ stream.pending = Bytes(line)
          BY <4>5, <4>6, <4>8, <5>2 DEF Streams
        <5> QED BY <5>3, <5>4 DEF Streams
      <4> HIDE DEF stream, line
      <4>10. log'.save = log.save /\ log'.retention = log.retention /\ log'.active = today
             /\ log'.stream = [stream EXCEPT !.pending = <<>>]
        BY <4>4, <4>7 DEF Buffers
      <4>11. StreamInv'
        <5>1. today # NoDay /\ today <= today BY <4>7
        <5> QED BY <2>1, <4>2, <4>5, <4>9, <4>10, <5>1 DEF StreamInv
      <4>12. DOMAIN daily' = DOMAIN Ready.files
             /\ \A d \in DOMAIN Ready.files : daily'[d] =
                    IF d = today THEN Ready.files[d] \o Bytes(line) ELSE Ready.files[d]
        <5> DEFINE before == Ready.files
        <5>1. /\ stream \in Streams /\ stream.day \in Days /\ ~stream.unlinked
              /\ stream.day = today /\ stream.pending = Bytes(line)
          BY <4>7, <4>9
        <5>2. Files(before) /\ daily' = Flushed(before, stream) BY <4>4, <4>6
        <5> HIDE DEF before
        <5>3. /\ DOMAIN Flushed(before, stream) = DOMAIN before
              /\ \A d \in DOMAIN before : Flushed(before, stream)[d] =
                     IF d = stream.day THEN before[d] \o stream.pending ELSE before[d]
          BY ONLY <5>1, <5>2, FlushedFacts
        <5>4. DOMAIN daily' = DOMAIN before
              /\ \A d \in DOMAIN before : daily'[d] =
                     IF d = today THEN before[d] \o Bytes(line) ELSE before[d]
          BY ONLY <5>1, <5>2, <5>3
        <5> QED BY ONLY <5>4 DEF before
      <4>13. ASSUME NEW d \in DOMAIN Ready.files PROVE daily'[d] = BytesOf(written'.on[d])
        <5>1. d \in Days /\ written.on[d] \in Seq(Nat) BY <4>6, <4>7 DEF Files
        <5>2. Ready.files[d] = BytesOf(written.on[d]) BY <4>5
        <5>3. CASE d = today
          <6>1. BytesOf(Append(written.on[d], line)) = BytesOf(written.on[d]) \o Bytes(line)
            BY <4>7, <5>1, BytesFacts
          <6> QED BY <2>1, <4>12, <5>1, <5>2, <5>3, <6>1
        <5>4. CASE d # today BY <2>1, <4>12, <5>1, <5>2, <5>4
        <5> QED BY <5>3, <5>4
      <4>14. FilesInv' BY <2>1, <4>5, <4>10, <4>12, <4>13 DEF FilesInv
      <4> QED BY <4>11, <4>14
    <3>3. CASE troubled # 0
      <4>1. troubled' = troubled
        BY <1>3, <3>1 DEF AppendLine, Write, OpenFails, NoTrouble
      <4> QED BY <2>3, <3>3, <4>1
    <3> QED BY <3>2, <3>3
  <2> QED BY <2>2, <2>3
<1>4. CASE Configure
  <2>1. UNCHANGED written /\ Trouble BY <1>4 DEF Configure
  <2> QED BY <1>1, <1>2, <2>1 DEF Logged
<1>5. CASE DayChanges
  <2>1. UNCHANGED <<log, daily, written>> /\ today' \in Days
        /\ ((today' > today /\ UNCHANGED troubled) \/ Trouble)
    BY <1>5 DEF DayChanges, NoTrouble
  <2>2. ASSUME troubled' = 0 PROVE StreamInv' /\ FilesInv'
    <3>1. troubled = 0 /\ today' > today BY <1>2, <2>1, <2>2
    <3>2. StreamInv /\ FilesInv BY <3>1 DEF LogInv
    <3>3. today \in Nat /\ today' \in Nat /\ Logged \in SUBSET Nat
      BY <1>1, <2>1, LogAssumption DEF LogType, Logged
    <3>4. \A d \in Logged : d <= today'
      <4> TAKE d \in Logged
      <4>1. d \in Nat /\ d <= today BY <3>2, <3>3 DEF StreamInv
      <4> QED BY <3>1, <3>3, <4>1
    <3>5. Logged' = Logged BY <2>1 DEF Logged
    <3>6. StreamInv' BY <2>1, <3>2, <3>4, <3>5 DEF StreamInv
    <3>7. FilesInv' BY <2>1, <3>2, <3>5 DEF FilesInv
    <3> QED BY <3>6, <3>7
  <2>3. Logged' = Logged BY <2>1 DEF Logged
  <2> QED BY <1>1, <2>2, <2>3
<1>6. CASE Subscribe \/ Unsubscribe \/ UNCHANGED logVars
  <2>1. UNCHANGED <<log, daily, today, written, troubled>>
    BY <1>6 DEF Subscribe, Unsubscribe, logVars
  <2>2. Logged' = Logged BY <2>1 DEF Logged
  <2> QED BY <1>1, <2>1, <2>2 DEF LogInv, StreamInv, FilesInv
<1>7. CASE CloseLog
  <2>1. written'.on = written.on /\ Trouble BY <1>1, <1>7 DEF CloseLog, LogType
  <2>2. Logged' = Logged BY <2>1 DEF Logged
  <2> QED BY <1>1, <1>2, <2>1, <2>2
<1> QED BY <1>3, <1>4, <1>5, <1>6, <1>7 DEF LogNext

\* Every step keeps the invariant.
LEMMA LogStep == LogInv /\ [LogNext]_logVars => LogInv'
  BY LogTypeStep, HistoryStep, FilesStep DEF LogInv

\* What is checked of the log, for any bytes in the files, any size of the blocks and
\* any days: the tail is the end of the files, the history the last lines, no listener
\* misses one, and while nothing goes wrong the files are those of the newest days.
THEOREM LogTellsWhatWasWritten == LogSpec => []LogIsTrue
<1>1. LogInv /\ [LogNext]_logVars => LogInv' BY LogStep
<1>2. LogSpec => []LogInv BY InitLog, <1>1, PTL DEF LogSpec
<1> QED BY <1>2, LogInvShows, PTL

-----------------------------------------------------------------------------
(* The parts of MCTransfers.                                               *)

\* A behaviour of the composition is one of each part: one lives, the others rest.
LEMMA DisplayIsLived == Spec => ProgressSpec /\ WindowSpec
<1>1. Init => ProgressInit /\ WindowInit BY DEF Init
<1>2. [Next]_vars => [ProgressNext]_progressVars /\ [WindowNext]_windowVars
  BY DEF Next, vars, Down, Up, Watched, Saved, Shown, InReport, InWindow, InAnswers, InManifest,
         InNotices, InLog, InScope, Elsewhere
<1> QED BY <1>1, <1>2, PTL DEF Spec, ProgressSpec, WindowSpec

\* What the run checks of the display, for any constants: a line stands for a run,
\* the view in front for the account, its folders and what they report, and a
\* picture for an account that is there.
THEOREM DisplayShowsWhatIsSo == Spec => []DisplayIsTrue
<1>1. DisplayIsTrue <=> LinesAreOfRuns /\ WindowIsTrue BY DEF DisplayIsTrue
<1> QED BY <1>1, DisplayIsLived, LinesStandForRuns, WindowShowsWhatIsThere, PTL

\* The log lives its life among the others, so that the run's log is that log.
LEMMA LogIsLived == Spec => LogSpec
<1>1. Init => LogInit BY DEF Init
<1>2. [Next]_vars => [LogNext]_logVars
  BY DEF Next, vars, answerVars, Down, Up, Watched, Saved, Shown, InReport, InWindow, InAnswers,
         InManifest, InNotices, InLog, InScope, Elsewhere
<1> QED BY <1>1, <1>2, PTL DEF Spec, LogSpec

\* What the run checks of the log, for any constants.
THEOREM LogShowsWhatIsSo == Spec => []LogIsTrue
  BY LogIsLived, LogTellsWhatWasWritten, PTL

=============================================================================
