------------------------------- MODULE Window -------------------------------
(***************************************************************************)
(* The main window of src/ui/main_window.rs with the folder rows of        *)
(* src/ui/folder_status.rs: which account is in front, which page lies     *)
(* over it, which folders it lists and whom it listens to for that, and    *)
(* the pictures of the accounts in the sidebar.                            *)
(*                                                                         *)
(* A folder is named by the runtime it gets, a number; removed and added   *)
(* again, it is another one.  So are accounts: one that comes back has a   *)
(* new id.  Everything runs on the main loop but the pictures, which are   *)
(* fetched and stored by the blocking pool.                                *)
(***************************************************************************)
EXTENDS Integers, SequencesExt

CONSTANTS
    Owners,        \* the accounts there ever are
    FolderStates,  \* what folders and accounts report
    MaxFolders,    \* bound: folders ever configured
    MaxRefreshes,  \* bound: changes of the configuration
    WindowWorlds,  \* whether the servers have pictures; bounds: changes of state,
                   \* reads and writes of the settings that fail
    NoOwner

ASSUME WindowAssumption ==
    /\ {MaxFolders, MaxRefreshes} \subseteq Nat /\ MaxFolders >= 2
    /\ NoOwner \notin Owners
    /\ WindowWorlds \subseteq [pictures : BOOLEAN, reports : Nat, stumbles : Nat]

VARIABLES
    desk,     \* the accounts on disk, the runtimes and what they report
    window,   \* MainWindow
    avatars   \* the cached pictures, those painted, and the fetches under way

windowVars == <<desk, window, avatars>>

FolderIds == 1..MaxFolders
NotRunning == <<0>>
Runs(d, a) == d.runtime[a] # NotRunning

-----------------------------------------------------------------------------
(* What a state looks like.                                                *)

\* folder_status_presentation and render: the glyph, and the bar of a run.
RowIcon(s) ==
    CASE s = "unconfigured" -> "not-configured"
      [] s = "idle_ok" -> "ok"
      [] s = "syncing" -> "syncing"
      [] s = "paused_battery" -> "battery"
      [] s = "offline" -> "offline"
      [] s \in {"error", "auth_required", "keyring_locked", "delete_review"} -> "error"
      [] OTHER -> "paused"

Rendered(f, s) ==
    [folder |-> f, icon |-> RowIcon(s), spins |-> s = "syncing",
     bar |-> s \in {"syncing", "sync_queued"}]

\* summary_light_for and summary_connection_text.
Light(s) ==
    CASE s \in {"idle_ok", "idle_manual_only", "sync_queued", "syncing"} -> "ok"
      [] s \in {"error", "auth_required", "keyring_locked", "delete_review"} -> "error"
      [] s = "unconfigured" -> "offline"
      [] OTHER -> "paused"

ConnectionText(s) ==
    CASE s \in {"offline", "unconfigured"} -> "not connected"
      [] s \in {"error", "auth_required", "keyring_locked", "delete_review"} -> s
      [] OTHER -> "connected"

-----------------------------------------------------------------------------
(* The view of one account.                                                *)

BlankView == [owner |-> NoOwner, rows |-> <<>>]
Listed(view) == {view.rows[i].folder : i \in DOMAIN view.rows}

\* A row hears its folder's state and its progress, the view hears the state
\* for the emblem and the used space.
SubscriptionsPerRow == 3

\* AccountView::new: the rows, and the summary below them.
ViewOf(d, a) ==
    [owner |-> a,
     rows |-> [i \in DOMAIN d.runtime[a] |->
                  Rendered(d.runtime[a][i], d.state[d.runtime[a][i]])],
     light |-> Light(d.mood[a]), text |-> ConnectionText(d.mood[a])]

\* Mutant: the view is dropped and its closures stay registered.
KeptHearing(ears, old, new) ==
    [f \in FolderIds |-> ears[f] + IF f \in Listed(new) THEN SubscriptionsPerRow ELSE 0]

Rehearsed(ears, old, new) ==
    [f \in FolderIds |->
        ears[f] + (IF f \in Listed(new) THEN SubscriptionsPerRow ELSE 0)
                - (IF f \in Listed(old) THEN SubscriptionsPerRow ELSE 0)]

\* reset_settings_view.
SettingsDropped(w) == [w EXCEPT !.settings = NoOwner, !.page = "sync"]

\* present_account: the one asked for if the sidebar has it, or the first.
InFront(d, w, wish) ==
    LET known == Range(w.config)
        a == IF wish \in Range(w.sidebar) THEN wish
             ELSE IF w.config = <<>> THEN NoOwner ELSE Head(w.config)
        view == IF a \in Owners /\ Runs(d, a) THEN ViewOf(d, a) ELSE BlankView
    IN  [SettingsDropped(w) EXCEPT !.active = a, !.selected = a, !.view = view,
                                   !.ears = Rehearsed(@, w.view, view)]

\* retain: ids are unique, so one goes at most.
Retained(s, x) ==
    IF x \in Range(s) THEN RemoveAt(s, CHOOSE i \in DOMAIN s : s[i] = x) ELSE s

\* What load gives: the accounts on disk or, if it fails, the default.
AsRead(d, read) == IF read THEN d.order ELSE <<>>

\* sync_folders for every account that could be read and has a runtime.
Reconciled(d, read) ==
    [d EXCEPT !.runtime = [a \in Owners |->
        IF read /\ a \in Range(d.order) /\ Runs(d, a) THEN d.lists[a] ELSE @[a]]]

\* refresh_after_config_change.
AfterRefresh(d, w, read) ==
    LET now == Reconciled(d, read)
        told == [w EXCEPT !.config = AsRead(d, read), !.sidebar = AsRead(d, read)]
    IN  [desk |-> now, window |-> InFront(now, told, w.active)]

-----------------------------------------------------------------------------
(* The pictures of the sidebar.                                            *)

\* refresh_sidebar paints what is cached and sends for the rest; a fetch that
\* comes to nothing has no effect.
SidebarPainted(pics, w) ==
    LET missing == IF w.world.pictures THEN Range(w.sidebar) \ pics.cached ELSE {}
    IN  [pics EXCEPT !.painted = pics.cached \cap Range(w.sidebar),
                     !.asked = [a \in Owners |-> @[a] + IF a \in missing THEN 1 ELSE 0]]

\* The pool stores a picture, if the server has one and the password is there.
AvatarStored(a) ==
    /\ avatars.asked[a] > 0
    /\ \/ avatars' = [avatars EXCEPT !.asked[a] = @ - 1]
       \/ avatars' = [avatars EXCEPT !.asked[a] = @ - 1, !.stored[a] = @ + 1,
                                     !.cached = @ \cup {a}]
    /\ UNCHANGED <<desk, window>>

\* Back on the main loop: whichever row the account has by now is painted.
AvatarPainted(a) ==
    /\ avatars.stored[a] > 0
    /\ avatars' = [avatars EXCEPT !.stored[a] = @ - 1,
                                  !.painted = @ \cup ({a} \cap Range(window.sidebar))]
    /\ UNCHANGED <<desk, window>>

\* delete_avatar; `overtaken' is history: a fetch was under way.
PictureDeleted(pics, a) == [pics EXCEPT !.cached = @ \ {a}, !.overtaken = @ \cup
                            (IF pics.asked[a] > 0 THEN {a} ELSE {})]

-----------------------------------------------------------------------------
(* The launch.                                                             *)

FirstLists == {<<>>, <<1>>, <<1, 2>>}

WindowInit ==
    \E order \in {<<>>} \cup {<<a>> : a \in Owners}, list \in FirstLists,
       cached \in BOOLEAN, world \in WindowWorlds :
        LET d == [order |-> order, used |-> Range(order),
                  lists |-> [a \in Owners |-> IF a \in Range(order) THEN list ELSE <<>>],
                  runtime |-> [a \in Owners |->
                      IF a \in Range(order) THEN list ELSE NotRunning],
                  state |-> [f \in FolderIds |-> "idle_not_synced"],
                  mood |-> [a \in Owners |-> "idle_not_synced"],
                  born |-> IF order = <<>> THEN 0 ELSE Len(list)]
            w == [active |-> NoOwner, selected |-> NoOwner, settings |-> NoOwner,
                  page |-> "sync", wizard |-> FALSE, view |-> BlankView,
                  ears |-> [f \in FolderIds |-> 0], config |-> order, sidebar |-> order,
                  world |-> world,
                  reports |-> 0, refreshes |-> 0, stumbles |-> 0]
            p == [cached |-> IF cached THEN Range(order) ELSE {}, painted |-> {},
                  asked |-> [a \in Owners |-> 0], stored |-> [a \in Owners |-> 0],
                  overtaken |-> {}]
        IN  /\ desk = d
            /\ window = InFront(d, w, NoOwner)
            /\ avatars = SidebarPainted(p, w)

-----------------------------------------------------------------------------
(* The folders and accounts report.                                        *)

Reported(w) == [w EXCEPT !.reports = @ + 1]
Reporting == window.reports < window.world.reports

\* A state controller calls its subscribers.
FolderTurns(f) ==
    \E s \in FolderStates \ {desk.state[f]} :
        /\ Reporting
        /\ desk' = [desk EXCEPT !.state[f] = s]
        /\ window' = Reported([window EXCEPT !.view.rows = [i \in DOMAIN @ |->
                         IF @[i].folder = f THEN Rendered(f, s) ELSE @[i]]])
        /\ UNCHANGED avatars

\* So does the aggregate of an account: the light of the summary.
AccountTurns(a) ==
    \E s \in FolderStates \ {desk.mood[a]} :
        /\ Reporting
        /\ desk' = [desk EXCEPT !.mood[a] = s]
        /\ window' = Reported(IF window.view.owner # a THEN window
                              ELSE [window EXCEPT !.view.light = Light(s),
                                                  !.view.text = ConnectionText(s)])
        /\ UNCHANGED avatars

-----------------------------------------------------------------------------
(* The user navigates.                                                     *)

SelectRow(a) ==
    /\ window.page = "sync" /\ a \in Range(window.sidebar)
    /\ window' = InFront(desk, window, a)
    /\ UNCHANGED <<desk, avatars>>

\* show_add_account: the wizard that was left, or a fresh one.
ShowAddAccount ==
    /\ window.page # "add-account"
    /\ window' = [window EXCEPT !.wizard = TRUE, !.page = "add-account"]
    /\ UNCHANGED <<desk, avatars>>

\* show_settings_page: of the active account, if the configuration has it.
SettingsShown(w) ==
    IF w.active \notin Range(w.config) THEN w
    ELSE [w EXCEPT !.settings = IF @ = NoOwner THEN w.active ELSE @, !.page = "settings"]

ShowPreferences ==
    /\ window.page # "settings"
    /\ window' = SettingsShown(window)
    /\ UNCHANGED <<desk, avatars>>

\* on_account_selected: another account, and its page.
SelectInSettings(a) ==
    /\ window.page = "settings" /\ a \in Range(desk.order) \ {window.settings}
    /\ window' = SettingsShown(InFront(desk, window, a))
    /\ UNCHANGED <<desk, avatars>>

\* back_from_overlay.
BackFromOverlay ==
    /\ window.page # "sync"
    /\ window' = [window EXCEPT !.page = "sync",
                                !.wizard = IF window.page = "add-account" THEN FALSE ELSE @]
    /\ UNCHANGED <<desk, avatars>>

-----------------------------------------------------------------------------
(* The configuration changes.                                              *)

Stumbling(n) == window.stumbles + n <= window.world.stumbles
Stumbles(b) == IF b THEN 0 ELSE 1

\* Who changes the configuration refreshes the window afterwards.
Changed(d, w, pics, read) ==
    LET now == AfterRefresh(d, w, read)
    IN  /\ w.refreshes < MaxRefreshes
        /\ desk' = now.desk
        /\ window' = [now.window EXCEPT !.refreshes = @ + 1]
        /\ avatars' = SidebarPainted(pics, now.window)

\* A folder is added to the active account, or one of its folders is removed:
\* from a row, from the menu or in Settings.
EditFolderList ==
    \E read \in BOOLEAN :
        LET a == window.active
            w == [window EXCEPT !.stumbles = @ + Stumbles(read)]
        IN  /\ a \in Range(desk.order) /\ window.page # "add-account"
            /\ Stumbling(Stumbles(read))
            /\ \/ /\ desk.born < MaxFolders
                  /\ Changed([desk EXCEPT !.born = @ + 1,
                                          !.lists[a] = Append(@, desk.born + 1)],
                             w, avatars, read)
               \/ \E f \in Range(desk.lists[a]) :
                      Changed([desk EXCEPT !.lists[a] = Retained(@, f)],
                              w, avatars, read)

\* finish_setup: the account is stored and read back, a runtime starts, the
\* window refreshes, and the wizard is gone.
AddOwner(a) ==
    /\ window.page = "add-account" /\ a \notin desk.used /\ desk.born < MaxFolders
    /\ \E back, read \in BOOLEAN :
           LET list == <<desk.born + 1>>
               stored == [desk EXCEPT !.order = Append(@, a), !.used = @ \cup {a},
                                      !.lists[a] = list, !.born = @ + 1]
               w == [window EXCEPT !.wizard = FALSE, !.page = "sync",
                                   !.stumbles = @ + Stumbles(back) + Stumbles(read)]
           IN  /\ Stumbling(Stumbles(back) + Stumbles(read))
               /\ \/ /\ back
                     /\ Changed([stored EXCEPT !.runtime[a] = list], w, avatars, read)
                  \/ /\ ~back /\ read
                     /\ desk' = stored /\ window' = w /\ UNCHANGED avatars

\* remove_active_account: the runtime and the picture go, whether or not the
\* settings could be written.
RemoveOwner ==
    /\ window.page = "settings" /\ window.active \in Owners
    /\ \E written, read \in BOOLEAN :
           LET a == window.active
               gone == [desk EXCEPT !.runtime[a] = NotRunning,
                            !.order = IF written THEN Retained(@, a) ELSE @]
           IN  /\ Stumbling(Stumbles(written) + Stumbles(read))
               /\ Changed(gone,
                          [window EXCEPT !.stumbles = @ + Stumbles(written) + Stumbles(read)],
                          PictureDeleted(avatars, a), read)

\* reconfigure_active_account: a setting of the account changed; the window is
\* not built again.
Reconfigure ==
    /\ window.page = "settings" /\ window.refreshes < MaxRefreshes
    /\ \E read \in BOOLEAN :
           /\ Stumbling(Stumbles(read))
           /\ window' = [window EXCEPT !.config = AsRead(desk, read),
                                       !.stumbles = @ + Stumbles(read),
                                       !.refreshes = @ + 1]
           /\ desk' = IF read /\ window.active \in Range(desk.order) /\ Runs(desk, window.active)
                      THEN [desk EXCEPT !.runtime[window.active] = desk.lists[window.active]]
                      ELSE desk
    /\ UNCHANGED avatars

Navigates == ShowAddAccount \/ ShowPreferences \/ BackFromOverlay \/ Reconfigure

WindowNext ==
    \/ \E a \in Owners : \E f \in Range(desk.runtime[a]) \cap FolderIds : FolderTurns(f)
    \/ \E a \in Owners : Runs(desk, a) /\ AccountTurns(a)
    \/ \E a \in Owners : AvatarStored(a) \/ AvatarPainted(a)
    \/ \E a \in Owners : SelectRow(a) \/ SelectInSettings(a) \/ AddOwner(a)
    \/ EditFolderList \/ RemoveOwner \/ Navigates

WindowSpec == WindowInit /\ [][WindowNext]_windowVars

-----------------------------------------------------------------------------
\* The window shows what is there.  In front is the selected account with the
\* folders its runtime runs, in their order, each as it reports itself; nobody
\* else is listened to, however the window came there; the page in front exists
\* and Settings are those of the account in front.  While the settings could be
\* read and written, that account is one of those on disk, all of them listed
\* and running.
PagesAreTrue ==
    LET w == window
        shown == Listed(w.view)
    IN  /\ w.selected = w.active
        /\ w.view = BlankView <=> ~(w.active \in Owners /\ Runs(desk, w.active))
        /\ w.view # BlankView =>
               w.view = ViewOf(desk, w.active)
        /\ \A f \in FolderIds : w.ears[f] = IF f \in shown THEN SubscriptionsPerRow ELSE 0
        /\ w.page = "settings" => w.settings # NoOwner
        /\ w.page = "add-account" => w.wizard
        /\ w.settings \in {NoOwner, w.active}
        /\ w.stumbles = 0 =>
               /\ w.sidebar = desk.order /\ w.config = desk.order
               /\ w.active = NoOwner <=> desk.order = <<>>
               /\ \A a \in Range(desk.order) : desk.runtime[a] = desk.lists[a]

\* No picture of an account outlives it, unless a fetch of it was under way when
\* the account was removed; and a picture is painted only for an account that
\* has one.  That is while the settings could be written.
PicturesAreTrue ==
    window.stumbles = 0 =>
        /\ avatars.painted \subseteq avatars.cached \cap Range(desk.order)
        /\ avatars.cached \subseteq Range(desk.order) \cup avatars.overtaken

\* What the window shows is so, its pages and its pictures.
WindowIsTrue == PagesAreTrue /\ PicturesAreTrue

=============================================================================
