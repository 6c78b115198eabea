------------------------------ MODULE Windows ------------------------------
(***************************************************************************)
(* The filer windows of one ROX-Filer2 process (filer.c) in the Modern     *)
(* interface (modern_ui.c): their histories, tabs and split panes, the     *)
(* list of all windows and the walks over it, the unique-window policy,    *)
(* the count of windows that keeps the process alive, the offer to         *)
(* unmount, and the session that one owner window saves for the next run.  *)
(*                                                                         *)
(* A handler of the main loop is one action, except the two walks over     *)
(* all_filer_windows, which take one step per window so that the saved     *)
(* next pointer can be seen; no other handler runs during a walk.          *)
(***************************************************************************)
EXTENDS Naturals, Sequences, SequencesExt, FiniteSets

CONSTANTS
    Win,            \* identities of FilerWindow structures
    Paths,          \* directories
    Below,          \* [Paths -> SUBSET Paths]: each one with what is under it
    Parent,         \* [Paths -> Paths]
    Mount,          \* the directory on which the user mounts a device
    None,           \* no window, no path
    HistoryLimit,   \* FILER_HISTORY_LIMIT
    MaxTabs,        \* bound: tabs of a window
    MaxSteps        \* bound: operations of the user and of the file system

ASSUME WindowsAssumption ==
    /\ None \notin Win \cup Paths
    /\ Below \in [Paths -> SUBSET Paths] /\ Parent \in [Paths -> Paths] /\ Mount \in Paths
    /\ HistoryLimit \in Nat \ {0} /\ MaxTabs \in Nat \ {0} /\ MaxSteps \in Nat

VARIABLES
    win,        \* [Win -> window record], Closed when it does not exist
    all,        \* all_filer_windows, newest first
    modern,     \* modern_windows, oldest first
    owner,      \* modern_session_owner
    promote,    \* modern_promote_session_owner_idle is queued
    once,       \* modern_session_restored_once
    count,      \* number_of_windows
    run,        \* "on" while the main loop runs, else "off"
    saved,      \* modern-session.ini
    dialogs,    \* open questions of may_offer_unmount
    jobs,       \* windows of the mount actions those questions started
    exists,     \* the directories that exist
    userMounted,\* Mount was mounted by the filer (mount_is_user_mounted)
    walk,       \* the walk over all_filer_windows in progress
    unique,     \* the option o_unique_filer_windows
    steps       \* operations done so far

vars == <<win, all, modern, owner, promote, once, count, run, saved, dialogs,
          jobs, exists, userMounted, walk, unique, steps>>

Closed == [path |-> None, back |-> <<>>, fwd |-> <<>>, tabs |-> <<>>, act |-> 0,
           host |-> None, right |-> None, split |-> FALSE, idle |-> {}]

NoWalk == [kind |-> "none", path |-> None, next |-> None]
NoSession == [tabs |-> <<>>, act |-> 0, split |-> FALSE, right |-> None]

----------------------------------------------------------------------------
(* Histories, tabs and windows as values *)

\* filer_history_push: no entry twice in a row, the oldest one is dropped.
Push(h, p) ==
    IF h # <<>> /\ Head(h) = p THEN h
    ELSE LET longer == <<p>> \o h IN SubSeq(longer, 1,
             IF Len(longer) > HistoryLimit THEN HistoryLimit ELSE Len(longer))

\* modern_tab_capture_state and modern_tabs_sync_current: the active tab takes
\* the path and the histories of its window.
Recorded(v) ==
    IF v.act = 0 THEN v
    ELSE [v EXCEPT !.tabs[v.act] = [id |-> @.id, path |-> v.path,
                                    back |-> v.back, fwd |-> v.fwd]]

NewTabId(v) == CHOOSE i \in 1..MaxTabs : \A k \in DOMAIN v.tabs : v.tabs[k].id # i

\* modern_tabs_add_connected, without activation.
NewTab(i, p) == [id |-> i, path |-> p, back |-> <<>>, fwd |-> <<>>]
WithTab(v, p) == [v EXCEPT !.tabs = Append(@, NewTab(NewTabId(v), p))]

\* What a handler may change of the windows, as a value: the handlers below
\* call one another, as the C functions do.
Ui == [win |-> win, all |-> all, modern |-> modern, owner |-> owner,
       promote |-> promote, once |-> once, count |-> count, run |-> run,
       saved |-> saved]

Become(S) ==
    /\ win' = S.win /\ all' = S.all /\ modern' = S.modern /\ owner' = S.owner
    /\ promote' = S.promote /\ once' = S.once /\ count' = S.count
    /\ run' = S.run /\ saved' = S.saved

\* g_list_remove, of lists that have an element once.
Unlinked(list, w) ==
    IF w \in Range(list)
    THEN RemoveAt(list, CHOOSE k \in DOMAIN list : list[k] = w) ELSE list

IsOpen(S, w) == S.win[w].path # None
Host(S, w) == IF S.win[w].host = None THEN w ELSE S.win[w].host

\* one_less_window.
OneLess(S) == [S EXCEPT !.count = @ - 1, !.run = IF S.count <= 1 THEN "off" ELSE @]

\* filer_window_destroyed.
Destroyed(S, w) ==
    OneLess([S EXCEPT !.all = Unlinked(@, w), !.win[w] = Closed])

\* modern_save_session of the owner; the path of the second pane stays in the
\* file when the window has none.
SessionOf(S, w) ==
    LET v == Recorded(S.win[w])
    IN  [tabs |-> [k \in DOMAIN v.tabs |-> v.tabs[k].path], act |-> v.act,
         split |-> v.split,
         right |-> IF v.right = None THEN S.saved.right
                   ELSE S.win[v.right].path]

\* Mutant: the owner is forgotten, nobody is queued to be the next one.
DestroyHost_NoHeir(S, w) ==
    LET S1 == IF S.win[w].right = None THEN S ELSE Destroyed(S, S.win[w].right)
    IN  Destroyed([S1 EXCEPT !.modern = Unlinked(@, w),
                             !.owner = IF @ = w THEN None ELSE @], w)

\* gtk_widget_destroy of a host: modern_window_destroy, then
\* filer_window_destroyed, in the order the signals were connected.
DestroyHost(S, w) ==
    LET owned == S.owner = w
        S1 == IF owned THEN [S EXCEPT !.saved = SessionOf(S, w)] ELSE S
        S2 == IF S.win[w].right = None THEN S1
              ELSE Destroyed(S1, S.win[w].right)
        rest == Unlinked(S2.modern, w)
        S3 == [S2 EXCEPT !.modern = rest,
                         !.owner = IF owned THEN None ELSE @,
                         !.promote = @ \/ (owned /\ rest # <<>>)]
    IN  Destroyed(S3, w)

\* Mutant: a pane is closed as if it were a window of its own.
CloseVisible_Pane(S, w) == DestroyHost(S, w)

\* filer_close_visible_window.
CloseVisible(S, w) == DestroyHost(S, Host(S, w))

\* find_filer_window, of unique windows: there is one on the path at most.
Twin(S, p, diff) ==
    LET same == {o \in Range(S.all) \ {diff} : /\ S.win[o].host = None
                                             /\ S.win[o].path = p}
    IN  IF same = {} THEN None ELSE CHOOSE o \in same : TRUE

\* Mutant: walking the history or the tabs does not look for a twin.
ChangeTo_History(S, w, p, nav) ==
    LET v == S.win[w]
        v1 == IF nav \/ v.path = p THEN v
              ELSE [v EXCEPT !.back = Push(v.back, v.path), !.fwd = <<>>]
        twin == IF nav THEN None ELSE Twin(S, p, w)
        S1 == IF unique /\ v.host = None /\ twin # None
              THEN DestroyHost(S, twin) ELSE S
    IN  [S1 EXCEPT !.win[w] = Recorded([v1 EXCEPT !.path = p])]

\* filer_change_to; nav is history_navigation.
ChangeTo(S, w, p, nav) ==
    LET v == S.win[w]
        v1 == IF nav \/ v.path = p THEN v
              ELSE [v EXCEPT !.back = Push(v.back, v.path), !.fwd = <<>>]
        twin == Twin(S, p, w)
        S1 == IF unique /\ v.host = None /\ twin # None
              THEN DestroyHost(S, twin) ELSE S
    IN  [S1 EXCEPT !.win[w] = Recorded([v1 EXCEPT !.path = p])]

\* Mutant: the window keeps the histories of the tab it leaves.
Restore_Path(S, w) ==
    LET t == S.win[w].tabs[S.win[w].act]
        S1 == IF t.path = S.win[w].path THEN S ELSE ChangeTo(S, w, t.path, TRUE)
    IN  [S1 EXCEPT !.win[w] = Recorded(@)]

\* modern_tab_restore_state of the active tab.
Restore(S, w) ==
    LET t == S.win[w].tabs[S.win[w].act]
        S1 == [S EXCEPT !.win[w].back = t.back, !.win[w].fwd = t.fwd]
        S2 == IF t.path = S.win[w].path THEN S1
              ELSE ChangeTo(S1, w, t.path, TRUE)
    IN  [S2 EXCEPT !.win[w] = Recorded(@)]

\* The saved tabs whose directories are there, in their order.
Kept(tabs) ==
    LET here == {k \in DOMAIN tabs : tabs[k] \in exists}
        n == Cardinality(here)
        place == CHOOSE f \in [1..n -> here] : \A i, j \in 1..n : i < j => f[i] < f[j]
    IN  [k \in 1..n |-> tabs[place[k]]]

\* modern_tabs_restore_session, then the capture at the end of
\* modern_tabs_build.
WithTabs(S, v) ==
    LET kept == Kept(S.saved.tabs)
        v1 == IF S.once \/ kept = <<>> THEN WithTab(v, v.path)
              ELSE [v EXCEPT !.tabs = [k \in DOMAIN kept |-> NewTab(k, kept[k])]]
        act == IF S.once \/ S.saved.act \notin 1..Len(v1.tabs) THEN 1
               ELSE S.saved.act
    IN  Recorded([v1 EXCEPT !.act = act])

Free(S) == {w \in Win : ~IsOpen(S, w)}

\* filer_opendir of a new window: modern_ui_build, modern_ui_finalize_content.
Opened(S, w, p) ==
    LET v == WithTabs(S, [Closed EXCEPT !.path = p])
        idle == (IF S.once THEN {} ELSE {"tab"}) \cup
                (IF S.saved.split THEN {"split"} ELSE {})
    IN  [S EXCEPT !.win[w] = [v EXCEPT !.idle = idle],
                  !.all = <<w>> \o @, !.modern = Append(@, w),
                  !.owner = IF @ = None THEN w ELSE @,
                  !.once = TRUE, !.count = @ + 1]

\* modern_split_create_right, with filer_opendir_embedded.
WithRight(S, w, r) ==
    LET p == IF S.saved.right \in exists THEN S.saved.right ELSE S.win[w].path
    IN  [S EXCEPT !.win[r] = [Closed EXCEPT !.path = p, !.host = w],
                  !.win[w].right = r,
                  !.all = <<r>> \o @, !.count = @ + 1]

\* modern_split_toggle.
Toggled(S, w, r) ==
    LET S1 == IF S.win[w].right = None THEN WithRight(S, w, r) ELSE S
    IN  [S1 EXCEPT !.win[w].split = ~@]

----------------------------------------------------------------------------
Init ==
    /\ win = [w \in Win |-> Closed]
    /\ all = <<>> /\ modern = <<>> /\ owner = None
    /\ promote = FALSE /\ once = FALSE /\ count = 0 /\ run = "off"
    /\ saved = NoSession
    /\ dialogs = 0 /\ jobs = 0
    /\ exists = Paths /\ userMounted \in BOOLEAN
    /\ walk = NoWalk
    /\ unique \in BOOLEAN
    /\ steps = 0

\* The main loop dispatches a handler: nothing else is running.
Idle == run = "on" /\ walk = NoWalk

Step == steps < MaxSteps /\ steps' = steps + 1

\* The user works on a window that has been shown, its idles have run by then.
Shown(w) ==
    /\ IsOpen(Ui, w)
    /\ win[Host(Ui, w)].idle = {}
    /\ win[w].host # None => win[win[w].host].split

Rest == UNCHANGED <<dialogs, jobs, exists, userMounted, walk, unique>>

\* main: a process starts and opens its first window.
Start(p) ==
    /\ run = "off" /\ walk = NoWalk /\ Step /\ p \in exists
    /\ \E w \in Free(Ui) :
          Become(Opened([Ui EXCEPT !.run = "on", !.once = FALSE,
                                   !.promote = FALSE], w, p))
    /\ Rest

\* filer_opendir for the user or a remote call; a window that is there already
\* is only presented.
OpenDir(p) ==
    /\ Idle /\ Step /\ p \in exists
    /\ ~(unique /\ Twin(Ui, p, None) # None)
    /\ \E w \in Free(Ui) : Become(Opened(Ui, w, p))
    /\ Rest

\* modern_ui_open_path_in_new_tab: it cancels the idle that would restore the
\* session's tab.
OpenTab(w, p) ==
    /\ Idle /\ Step /\ p \in exists
    /\ IsOpen(Ui, w) /\ win[w].host = None
    /\ Len(win[w].tabs) < MaxTabs
    /\ LET v == WithTab(Recorded(win[w]), p)
           v1 == [v EXCEPT !.act = Len(v.tabs), !.back = <<>>, !.fwd = <<>>,
                           !.idle = @ \ {"tab"}]
           S == [Ui EXCEPT !.win[w] = v1]
           S1 == IF v.path = p THEN S ELSE ChangeTo(S, w, p, TRUE)
       IN  Become([S1 EXCEPT !.win[w] = Recorded(@)])
    /\ Rest

\* modern_tab_activate, by a click, Ctrl+Tab or a drag that hovers.
Activate(w, i) ==
    /\ Idle /\ Step /\ Shown(w)
    /\ i \in DOMAIN win[w].tabs /\ i # win[w].act
    /\ Become(Restore([Ui EXCEPT !.win[w] = [Recorded(win[w]) EXCEPT !.act = i]], w))
    /\ Rest

\* modern_tab_close of one of several tabs: the active one hands over to the
\* tab after it, else to the one before it.
CloseTab(w, i) ==
    /\ Idle /\ Step /\ Shown(w)
    /\ Len(win[w].tabs) > 1 /\ i \in DOMAIN win[w].tabs
    /\ LET v == win[w]
           left == [v EXCEPT !.tabs = RemoveAt(@, i),
                             !.act = IF i < v.act \/ (i = v.act /\ i = Len(v.tabs))
                                     THEN v.act - 1 ELSE v.act]
           S == [Ui EXCEPT !.win[w] = left]
       IN  Become(IF i = v.act THEN Restore(S, w) ELSE S)
    /\ Rest

\* modern_tab_close of the last tab destroys the window.
CloseLastTab(w) ==
    /\ Idle /\ Step /\ Shown(w) /\ Len(win[w].tabs) = 1
    /\ Become(DestroyHost(Ui, w))
    /\ Rest

\* modern_duplicate_tab.
Duplicate(w) ==
    /\ Idle /\ Step /\ Shown(w) /\ win[w].host = None
    /\ Len(win[w].tabs) < MaxTabs
    /\ LET v == Recorded(win[w])
           v1 == WithTab(v, v.path)
           new == Len(v1.tabs)
           v2 == [v1 EXCEPT !.act = new, !.tabs[new].back = v.tabs[v.act].back,
                            !.tabs[new].fwd = v.tabs[v.act].fwd]
       IN  Become(Restore([Ui EXCEPT !.win[w] = v2], w))
    /\ Rest

\* modern_close_other_tabs and modern_close_tabs_right.
CloseTabs(w, kept) ==
    /\ Idle /\ Step /\ Shown(w) /\ win[w].host = None
    /\ kept \in {"active", "left"} /\ Len(win[w].tabs) > 1
    /\ LET v == win[w]
           from == IF kept = "active" THEN v.act ELSE 1
       IN  Become([Ui EXCEPT !.win[w].tabs = SubSeq(@, from, v.act),
                             !.win[w].act = IF kept = "active" THEN 1 ELSE @])
    /\ Rest

\* The user follows a link, a place or a typed path.
Navigate(w, p) ==
    /\ Idle /\ Step /\ Shown(w)
    /\ p \in exists \ {win[w].path}
    /\ Become(ChangeTo(Ui, w, p, FALSE))
    /\ Rest

\* filer_history_go.
GoBack(w) ==
    /\ Idle /\ Step /\ Shown(w) /\ win[w].back # <<>>
    /\ LET v == win[w]
           S == [Ui EXCEPT !.win[w].back = Tail(@),
                           !.win[w].fwd = Push(@, v.path)]
       IN  Become(ChangeTo(S, w, Head(v.back), TRUE))
    /\ Rest

GoForward(w) ==
    /\ Idle /\ Step /\ Shown(w) /\ win[w].fwd # <<>>
    /\ LET v == win[w]
           S == [Ui EXCEPT !.win[w].fwd = Tail(@),
                           !.win[w].back = Push(@, v.path)]
       IN  Become(ChangeTo(S, w, Head(v.fwd), TRUE))
    /\ Rest

\* modern_split_toggle (F3); the first time it makes the second pane.
SplitToggle(w) ==
    /\ Idle /\ Step /\ Shown(w) /\ win[w].host = None
    /\ \E r \in Free(Ui) \cup {win[w].right} :
          /\ r # None /\ (win[w].right # None => r = win[w].right)
          /\ Become(Toggled(Ui, w, r))
    /\ Rest

\* modern_tab_restore_state_idle_cb.
TabIdle(w) ==
    /\ Idle /\ "tab" \in win[w].idle
    /\ Become(Restore([Ui EXCEPT !.win[w].idle = @ \ {"tab"}], w))
    /\ Rest /\ UNCHANGED steps

\* modern_split_restore_idle.
SplitIdle(w) ==
    /\ Idle /\ "split" \in win[w].idle
    /\ LET S == [Ui EXCEPT !.win[w].idle = @ \ {"split"}]
       IN  IF win[w].split THEN Become(S)
           ELSE \E r \in Free(Ui) : Become(Toggled(S, w, r))
    /\ Rest /\ UNCHANGED steps

\* modern_promote_session_owner_idle.
PromoteIdle ==
    /\ Idle /\ promote
    /\ Become([Ui EXCEPT !.promote = FALSE,
                         !.owner = IF @ = None /\ modern # <<>> THEN Head(modern)
                                   ELSE @])
    /\ Rest /\ UNCHANGED steps

\* may_offer_unmount: asked when w is the last window under Mount.
Offers(w, at) ==
    /\ userMounted /\ win[w].path \in at
    /\ \A o \in Range(all) \ {w} : win[o].path \notin Below[Mount]

\* Mutant: the open question does not keep the process.
Asked_Free(S, offer) == S

Asked(S, offer) == IF offer THEN [S EXCEPT !.count = @ + 1] ELSE S

\* The delete event, the Close button and the menu: filer_window_delete, then
\* the visible window goes.
Close(w) ==
    /\ Idle /\ Step /\ Shown(w)
    /\ LET offer == Offers(w, Below[Mount])
       IN  /\ Become(CloseVisible(Asked(Ui, offer), w))
           /\ dialogs' = IF offer THEN dialogs + 1 ELSE dialogs
    /\ UNCHANGED <<jobs, exists, userMounted, walk, unique>>

\* change_to_parent.
Up(w) ==
    /\ Idle /\ Step /\ Shown(w)
    /\ Parent[win[w].path] # win[w].path
    /\ LET offer == Offers(w, {Mount})
       IN  /\ Become(ChangeTo(Asked(Ui, offer), w, Parent[win[w].path], FALSE))
           /\ dialogs' = IF offer THEN dialogs + 1 ELSE dialogs
    /\ UNCHANGED <<jobs, exists, userMounted, walk, unique>>

\* unmount_dialog_response: action_mount or action_eject opens the window of
\* an action before the dialog goes.
Answer(yes) ==
    /\ Idle /\ dialogs > 0
    /\ dialogs' = dialogs - 1
    /\ jobs' = IF yes THEN jobs + 1 ELSE jobs
    /\ Become(OneLess(IF yes THEN [Ui EXCEPT !.count = @ + 1] ELSE Ui))
    /\ UNCHANGED <<exists, userMounted, walk, unique, steps>>

First(seq) == IF seq = <<>> THEN None ELSE Head(seq)

\* process_message M of such an action: filer_check_mounted(Mount).
Unmounted ==
    /\ Idle /\ jobs > 0 /\ userMounted
    /\ userMounted' = FALSE
    /\ exists' \in {exists, exists \ Below[Mount]}
    /\ walk' = [kind |-> "check", path |-> Mount, next |-> First(all)]
    /\ UNCHANGED <<win, all, modern, owner, promote, once, count, run, saved,
                   dialogs, jobs, unique, steps>>

\* The action has ended and its window closes.
JobEnds ==
    /\ Idle /\ jobs > 0
    /\ jobs' = jobs - 1
    /\ Become(OneLess(Ui))
    /\ UNCHANGED <<dialogs, exists, userMounted, walk, unique, steps>>

\* A directory goes (deleted, unmounted by somebody else).
Vanish(p) ==
    /\ Step /\ p \in exists /\ p # Parent[p]
    /\ exists' = exists \ Below[p]
    /\ UNCHANGED <<win, all, modern, owner, promote, once, count, run, saved,
                   dialogs, jobs, userMounted, walk, unique>>

\* filer_check_mounted (an action's M, a refresh of a mount point) and
\* filer_close_recursive (an action's X, the scan of a directory that is gone,
\* the remote call CloseDir) begin to walk over the windows.
StartWalk(kind, p) ==
    /\ Idle /\ Step /\ all # <<>>
    /\ walk' = [kind |-> kind, path |-> p, next |-> Head(all)]
    /\ UNCHANGED <<win, all, modern, owner, promote, once, count, run, saved,
                   dialogs, jobs, exists, userMounted, unique>>

NextOf(w) ==
    LET i == CHOOSE k \in DOMAIN all : all[k] = w
    IN  IF i = Len(all) THEN None ELSE all[i + 1]

\* One turn of the loop: next is taken before the window is looked at.
WalkStep ==
    /\ walk.next \in Range(all)
    /\ LET w == walk.next
           goes == /\ win[w].path \in Below[walk.path]
                   /\ walk.kind = "close" \/ win[w].path \notin exists
           next == NextOf(w)
       IN  /\ Become(IF goes THEN CloseVisible(Ui, w) ELSE Ui)
           /\ walk' = IF next = None THEN NoWalk ELSE [walk EXCEPT !.next = next]
    /\ UNCHANGED <<dialogs, jobs, exists, userMounted, unique, steps>>

\* The process is gone: its windows with it, the session file stays.
Dead ==
    /\ win' = [w \in Win |-> Closed] /\ all' = <<>> /\ modern' = <<>>
    /\ owner' = None /\ promote' = FALSE /\ once' = FALSE /\ count' = 0
    /\ run' = "off" /\ walk' = NoWalk /\ dialogs' = 0 /\ jobs' = 0
    /\ UNCHANGED <<saved, exists, userMounted, unique>>

\* The saved next is a link of the list that has been freed, and its data a
\* freed window: reading them kills the process, or finds the end of a list.
WalkLost ==
    /\ walk.next \notin Range(all) \cup {None}
    /\ \/ Dead
       \/ /\ walk' = NoWalk
          /\ UNCHANGED <<win, all, modern, owner, promote, once, count, run,
                         saved, dialogs, jobs, exists, userMounted, unique>>
    /\ UNCHANGED steps

\* SIGKILL, a power cut.
Kill == run = "on" /\ Step /\ Dead

WindowAction(w) ==
    \/ \E p \in Paths : OpenTab(w, p) \/ Navigate(w, p)
    \/ \E i \in 1..MaxTabs : Activate(w, i) \/ CloseTab(w, i)
    \/ \E kept \in {"active", "left"} : CloseTabs(w, kept)
    \/ CloseLastTab(w) \/ Duplicate(w) \/ GoBack(w) \/ GoForward(w)
    \/ SplitToggle(w) \/ TabIdle(w) \/ SplitIdle(w) \/ Close(w) \/ Up(w)

Next ==
    \/ \E w \in Win : WindowAction(w)
    \/ \E p \in Paths : Start(p) \/ OpenDir(p) \/ Vanish(p)
    \/ \E p \in Paths, kind \in {"check", "close"} : StartWalk(kind, p)
    \/ \E yes \in BOOLEAN : Answer(yes)
    \/ Unmounted \/ JobEnds \/ WalkStep \/ WalkLost \/ PromoteIdle \/ Kill

Spec == Init /\ [][Next]_vars

----------------------------------------------------------------------------
(* Properties *)

Open == {w \in Win : IsOpen(Ui, w)}
Hosts == {w \in Open : win[w].host = None}

\* Types of the variables; the windows of the list are those that exist.
TypeOK ==
    /\ \A w \in Win :
          /\ win[w].path \in Paths \cup {None}
          /\ win[w].act \in 0..Len(win[w].tabs) /\ Len(win[w].tabs) <= MaxTabs
          /\ Len(win[w].back) <= HistoryLimit /\ Len(win[w].fwd) <= HistoryLimit
          /\ win[w].host \in Win \cup {None} /\ win[w].right \in Win \cup {None}
    /\ Range(all) = Open /\ Len(all) = Cardinality(Open)
    /\ owner \in Win \cup {None} /\ walk.next \in Win \cup {None}
    /\ count \in Nat /\ dialogs \in Nat /\ jobs \in Nat

\* "The tab already owns its own history": a tab in the background keeps path
\* and histories through everything done to the others, and when it comes to
\* the front the window shows exactly those.
TabsKeepTheirPlace ==
    [][\A w \in Hosts : \A i \in DOMAIN win[w].tabs \ {win[w].act} :
          \A j \in DOMAIN win'[w].tabs :
             win'[w].tabs[j].id = win[w].tabs[i].id =>
                /\ win'[w].tabs[j] = win[w].tabs[i]
                /\ j = win'[w].act => win'[w].path = win[w].tabs[i].path]_vars

\* A second pane lives and dies with its host: neither is left behind by a
\* close, a destroyed twin or a directory that has gone.
PanesGoTogether ==
    \A w \in Open :
       /\ win[w].host # None => win[w].host \in Hosts /\ win[win[w].host].right = w
       /\ win[w].right # None => win[w].right \in Open /\ win[win[w].right].host = w

\* number_of_windows counts what is open, panes, questions and actions
\* included: the process ends when the last of them has gone and not before.
CountIsWindows ==
    /\ run = "on" => count = Len(all) + dialogs + jobs /\ count > 0
    /\ run = "off" => all = <<>> /\ dialogs = 0 /\ jobs = 0

\* Whoever owns the session is an open window, and when the owner has gone
\* while others live an idle is queued that gives them one: otherwise nobody
\* would save the session again.
OwnerServed ==
    /\ owner # None => owner \in Hosts
    /\ Range(modern) = Hosts
    /\ modern # <<>> /\ owner = None => promote

\* o_unique_filer_windows: no two windows (panes apart) on one directory,
\* however they came to it: opened, navigated, by a tab or by the history.
OneWindowPerPath ==
    unique => \A v, w \in Hosts : win[v].path = win[w].path => v = w

\* "Updating directory may remove it from list -- stop sending patches to move
\* this line!" (filer.c:3059): next is saved first so that the walk goes on
\* over the windows that are left.
NextIsListed == walk.next # None => walk.next \in Range(all)
============================================================================
