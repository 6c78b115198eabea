----------------------------- MODULE Directory -----------------------------
(***************************************************************************)
(* dir.c: one Directory object of the dir_cache, its scan in the           *)
(* background, and what the filer windows attached to it display           *)
(* (update_display in filer.c).  The main loop runs each handler to its    *)
(* end, so a handler is one action; files change between any two handlers. *)
(* `dir' is struct _Directory, with the windows' side of it in `view' and  *)
(* `busy'.  A DirItem is <<leafname, k>>: k tells apart the allocations    *)
(* of items of the same name, so that a freed item is known as such.       *)
(***************************************************************************)
EXTENDS Naturals, Sequences, FiniteSets, Functions

CONSTANTS
    Names,             \* leaf names
    Users,             \* filer windows, each attached at most once
    Shows,             \* Shows[u]: the names filer_match_filter lets through
    Versions,          \* what a restat compares: size, mode, times, type...
    Copies,            \* bound: items of one name that exist at a time
    MaxChanges,        \* bound: changes made to the file system
    CloseWhenMissing   \* option close_dir_when_missing

Absent == 0            \* no such file (on disk); not yet examined (an item)

ASSUME DirectoryAssumption ==
    /\ IsFiniteSet(Names)
    /\ Shows \in [Users -> SUBSET Names]
    /\ Versions \subseteq Nat \ {Absent}
    /\ Copies \in Nat \ {0, 1}
    /\ MaxChanges \in Nat
    /\ CloseWhenMissing \in BOOLEAN

VARIABLES
    dir,      \* the Directory
    disk,     \* [Names -> version or Absent]: the files
    path,     \* the directory itself: "ok", "noaccess" (unreadable), "missing"
    event,    \* a GFileMonitor event is on its way to monitorcb
    changes   \* changes made so far

vars == <<dir, disk, path, event, changes>>

Items == Names \X (1..Copies)
Name(i) == i[1]
Blank == [ver |-> Absent, need |-> FALSE]   \* need: ITEM_FLAG_NEED_RESCAN_QUEUE

\* diritem_restat's lstat
Lstat(n) == IF path = "missing" THEN Absent ELSE disk[n]

Init ==
    /\ dir = [users |-> {}, known_items |-> {}, new_items |-> <<>>,
              up_items |-> {}, gone_items |-> {}, recheck_list |-> {},
              scanning |-> FALSE, idle_callback |-> FALSE,
              needs_update |-> TRUE, rescan_timeout |-> FALSE,
              notify_active |-> FALSE, error |-> FALSE, closing |-> FALSE,
              item |-> [i \in Items |-> Blank], freed |-> {},
              view |-> [u \in Users |-> {}], busy |-> {}, missed |-> FALSE,
              dangling |-> FALSE]
    /\ disk \in [Names -> Versions \cup {Absent}]
    /\ path = "ok" /\ event = FALSE /\ changes = 0

-----------------------------------------------------------------------------
(* The callbacks of the attached windows: update_display.  A view is a set *)
(* of <<item, version drawn>>.  `dangling' remembers that a window was      *)
(* given, or met in its view, an item that had been freed.                 *)

Draw(d, u, S) == {<<i, d.item[i].ver>> : i \in {j \in S : Name(j) \in Shows[u]}}

InViews(d, to) == {p[1] : p \in UNION {d.view[u] : u \in to}}

Uses(d, S) == d.dangling \/ S \cap d.freed # {}

NotifyAdd(d, to, S) ==
    [d EXCEPT !.view = [u \in Users |->
        IF u \in to THEN d.view[u] \cup Draw(d, u, S) ELSE d.view[u]],
              !.dangling = Uses(d, S)]

NotifyUpdate(d, S) ==
    [d EXCEPT !.view = [u \in Users |->
        IF u \in d.users
        THEN {IF p[1] \in S THEN <<p[1], d.item[p[1]].ver>> ELSE p : p \in d.view[u]}
        ELSE d.view[u]],
              !.dangling = Uses(d, S)]

\* if_deleted compares leaf names, not items
NotifyRemove(d, S) ==
    [d EXCEPT !.view = [u \in Users |->
        IF u \in d.users
        THEN {p \in d.view[u] : \A i \in S : Name(i) # Name(p[1])}
        ELSE d.view[u]],
              !.dangling = Uses(d, S \cup InViews(d, d.users))]

\* sync_complete_directory_view: rebuilt or redrawn from known_items
NotifyEndScan(d, to) ==
    [d EXCEPT !.view = [u \in Users |->
                  IF u \in to THEN Draw(d, u, d.known_items) ELSE d.view[u]],
              !.busy = @ \ to]

\* mutant: what an earlier window queued is dropped
QueueInteresting_Replace(d, to) ==
    LET due == {i \in InViews(d, to) : d.item[i].need}
    IN  [d EXCEPT !.recheck_list = {Name(i) : i \in due},
                  !.item = [i \in Items |->
                      IF i \in due THEN [d.item[i] EXCEPT !.need = FALSE]
                      ELSE d.item[i]]]

\* DIR_QUEUE_INTERESTING: queue_interesting, dir_queue_recheck
QueueInteresting(d, to) ==
    LET shown == InViews(d, to)
        due == {i \in shown : d.item[i].need}
    IN  [d EXCEPT !.recheck_list = @ \cup {Name(i) : i \in due},
                  !.item = [i \in Items |->
                      IF i \in due THEN [d.item[i] EXCEPT !.need = FALSE]
                      ELSE d.item[i]],
                  !.dangling = Uses(d, shown)]

-----------------------------------------------------------------------------
(* Items.                                                                  *)

\* every item some list or some view still points to
Referenced(d) ==
    d.known_items \cup Range(d.new_items) \cup d.up_items \cup d.gone_items
        \cup InViews(d, Users)

\* diritem_new: memory nothing points to any more may be used again
NewItem(d, n) ==
    <<n, CHOOSE k \in 1..Copies : <<n, k>> \notin Referenced(d)>>

\* diritem_free: what is remembered of a freed item is that it is still pointed to
Free(d, S) == [d EXCEPT !.freed = @ \cup (S \cap Referenced(d)),
                        !.item = [i \in Items |-> IF i \in S THEN Blank ELSE d.item[i]]]

Known(d, n) == {i \in d.known_items : Name(i) = n}

\* the item g_hash_table_insert leaves for each name when `s' is added in order
LastOfEachName(s) ==
    {s[j] : j \in {j \in DOMAIN s : \A k \in DOMAIN s : k > j => Name(s[k]) # Name(s[j])}}

-----------------------------------------------------------------------------
(* dir.c, from the leaves of the call graph up.                            *)

dir_set_scanning(d, scanning) ==
    IF scanning = d.scanning THEN d
    ELSE IF scanning
         THEN [d EXCEPT !.scanning = TRUE, !.busy = @ \cup d.users]
         ELSE NotifyEndScan([d EXCEPT !.scanning = FALSE], d.users)

dir_merge_new(d) ==
    LET new == Range(d.new_items)
        told == NotifyRemove(NotifyUpdate(NotifyAdd(d, d.users, new), d.up_items),
                             d.gone_items)
        merged == [told EXCEPT
            !.known_items = {i \in @ : \A j \in new : Name(j) # Name(i)}
                                \cup LastOfEachName(d.new_items),
            !.new_items = <<>>, !.up_items = {}, !.gone_items = {}]
    IN  Free(merged, d.gone_items)

remove_missing(d, keep) ==
    LET deleted == {i \in d.known_items : Name(i) \notin keep}
    IN  Free([NotifyRemove(d, deleted) EXCEPT !.known_items = @ \ deleted], deleted)

delayed_notify(d) == [d EXCEPT !.notify_active = TRUE]

\* stat the leaf: add it, update it, or remove it
insert_item(d, leaf) ==
    LET now == Lstat(leaf)
        restat(i) == [ver |-> now, need |-> FALSE]
    IN  IF Known(d, leaf) = {}
        THEN IF now = Absent THEN d
             ELSE LET i == NewItem(d, leaf)
                  IN  delayed_notify([d EXCEPT !.new_items = Append(@, i),
                                               !.up_items = @ \cup {i},
                                               !.freed = @ \ {i},
                                               !.item[i] = restat(i)])
        ELSE LET i == CHOOSE i \in Known(d, leaf) : TRUE
                 looked == [d EXCEPT !.item[i] = restat(i)]
             IN  IF now = Absent
                 THEN delayed_notify([looked EXCEPT !.known_items = @ \ {i},
                                                    !.gone_items = @ \cup {i}])
                 ELSE IF d.item[i] = restat(i) THEN looked
                 ELSE delayed_notify([looked EXCEPT !.up_items = @ \cup {i}])

\* recheck_callback up to its last test: take one name off the list (in the
\* order of some fixed sort of the view) and, when it was the last, end the scan
RecheckOne(d) ==
    LET leaf == CHOOSE n \in d.recheck_list : TRUE
        looked == insert_item([d EXCEPT !.recheck_list = @ \ {leaf}], leaf)
    IN  IF looked.recheck_list # {} THEN looked
        ELSE [dir_set_scanning(dir_merge_new(looked), FALSE)
                  EXCEPT !.idle_callback = FALSE]

\* its first recheck_callback cannot go on to dir_rescan: every caller either
\* has just cleared needs_update or finds the scan idle with it clear
set_idle_callback(d) ==
    IF d.recheck_list # {} /\ d.users # {}
    THEN LET s == dir_set_scanning(d, TRUE)
         IN  IF s.idle_callback THEN s
             ELSE RecheckOne([s EXCEPT !.idle_callback = TRUE])
    ELSE [dir_set_scanning(d, FALSE) EXCEPT !.idle_callback = FALSE]

\* dir_rescan once the names have been read: drop what is missing, flag what
\* is known, add blank items for the rest, and queue what the windows show
ScanNames(d, names) ==
    LET kept == remove_missing(d, names)
        old == kept.known_items
        add == {NewItem(kept, n) : n \in {m \in names : Known(kept, m) = {}}}
        flagged == [kept EXCEPT
            !.recheck_list = {},
            !.new_items = CHOOSE s \in [1..Cardinality(add) -> add] : Range(s) = add,
            !.freed = @ \ add,
            !.item = [i \in Items |->
                IF i \in add THEN [Blank EXCEPT !.need = TRUE]
                ELSE IF i \in old THEN [kept.item[i] EXCEPT !.need = TRUE]
                ELSE kept.item[i]],
            !.missed = FALSE]
        merged == dir_merge_new(flagged)
    IN  dir_merge_new(set_idle_callback(QueueInteresting(merged, merged.users)))

\* mutant: what is pending is not merged before the names are read
dir_rescan_NoMerge(d) ==
    LET begun == [d EXCEPT !.needs_update = FALSE, !.error = FALSE]
        names == {n \in Names : disk[n] # Absent}
    IN  IF path = "ok" THEN ScanNames(dir_set_scanning(begun, TRUE), names)
        ELSE [begun EXCEPT !.error = TRUE, !.closing = (path = "missing")]

dir_rescan(d) ==
    LET begun == [d EXCEPT !.needs_update = FALSE, !.error = FALSE]
        names == {n \in Names : disk[n] # Absent}
    IN  CASE path = "missing" /\ CloseWhenMissing -> [begun EXCEPT !.closing = TRUE]
          [] path = "missing" /\ ~CloseWhenMissing ->
                 remove_missing([begun EXCEPT !.error = TRUE], {})
          [] path = "noaccess" -> [begun EXCEPT !.error = TRUE]
          [] path = "ok" ->
                 ScanNames(dir_merge_new(dir_set_scanning(begun, TRUE)), names)

\* mutant: needs_update is forgotten when the scan ends
recheck_callback_Forget(d) == RecheckOne(d)

recheck_callback(d) ==
    LET e == RecheckOne(d)
    IN  IF e.recheck_list = {} /\ e.needs_update THEN dir_rescan(e) ELSE e

update(d) == IF d.scanning THEN [d EXCEPT !.needs_update = TRUE] ELSE dir_rescan(d)

dir_attach(d, u) ==
    LET joined == [d EXCEPT !.users = @ \cup {u}, !.busy = @ \cup {u},
                            !.view = [@ EXCEPT ![u] = {}]]
        added == NotifyAdd(joined, {u}, d.known_items)
        asked == IF d.needs_update /\ ~d.scanning THEN dir_rescan(added)
                 ELSE QueueInteresting(added, {u})
        set == set_idle_callback(asked)
    IN  IF set.scanning THEN set ELSE NotifyEndScan(set, {u})

\* mutant: the scan goes on when nobody watches
dir_detach_Go(d, u) ==
    [d EXCEPT !.users = @ \ {u}, !.busy = @ \ {u}, !.view = [@ EXCEPT ![u] = {}]]

dir_detach(d, u) ==
    set_idle_callback([d EXCEPT !.users = @ \ {u}, !.busy = @ \ {u},
                                !.view = [@ EXCEPT ![u] = {}]])

-----------------------------------------------------------------------------
(* The actions: what the main loop runs.                                   *)

\* a window opens on the directory; its g_fscache_lookup may have called
\* update() just before, when the cache saw the directory change (a lookup
\* that finds no directory gives the window a Directory of its own)
Attach(u) ==
    /\ u \notin dir.users
    /\ \E looked \in {dir} \cup (IF path = "missing" THEN {} ELSE {update(dir)}) :
        dir' = dir_attach(looked, u)
    /\ UNCHANGED <<disk, path, event, changes>>

\* a window closes or goes elsewhere; the last one drops the monitor, and
\* with it any event still on its way
Detach(u) ==
    /\ u \in dir.users
    /\ LET left == dir_detach(dir, u)
       IN  IF left.users = {}
           THEN dir' = [left EXCEPT !.missed = @ \/ event] /\ event' = FALSE
           ELSE dir' = left /\ UNCHANGED event
    /\ UNCHANGED <<disk, path, changes>>

\* the idle source of a scan
Recheck ==
    /\ dir.idle_callback
    /\ dir' = recheck_callback(dir)
    /\ UNCHANGED <<disk, path, event, changes>>

\* mutant: events are ignored while a scan is under way
MonitorEvent_Ignore ==
    /\ event
    /\ event' = FALSE
    /\ dir' = IF dir.scanning THEN dir
              ELSE [dir EXCEPT !.needs_update = TRUE, !.rescan_timeout = TRUE]
    /\ UNCHANGED <<disk, path, changes>>

\* mutant: the timer is not armed
MonitorEvent_NoTimer ==
    /\ event
    /\ event' = FALSE
    /\ dir' = [dir EXCEPT !.needs_update = TRUE]
    /\ UNCHANGED <<disk, path, changes>>

\* monitorcb, then rescan_soon
MonitorEvent ==
    /\ event
    /\ event' = FALSE
    /\ dir' = [dir EXCEPT !.needs_update = TRUE, !.rescan_timeout = TRUE]
    /\ UNCHANGED <<disk, path, changes>>

\* rescan_timeout_cb, 300 ms later and then as long as a scan goes on
RescanTimeout ==
    /\ dir.rescan_timeout
    /\ LET d == IF ~dir.scanning /\ dir.needs_update THEN dir_rescan(dir) ELSE dir
       IN  dir' = [d EXCEPT !.rescan_timeout = d.scanning]
    /\ UNCHANGED <<disk, path, event, changes>>

\* notify_timeout, 1500 ms after delayed_notify
NotifyTimeout ==
    /\ dir.notify_active
    /\ dir' = [dir_merge_new(dir) EXCEPT !.notify_active = FALSE]
    /\ UNCHANGED <<disk, path, event, changes>>

\* dir_update, refresh_dirs: the user or a finished operation asks
Update ==
    /\ dir' = update(dir)
    /\ UNCHANGED <<disk, path, event, changes>>

\* bound: leave room for the items a scan may have to allocate
Room(n) == Cardinality({i \in Referenced(dir) : Name(i) = n}) + 2 <= Copies

\* dir_check_this: an operation says something happened to this file
CheckThis(n) ==
    /\ Room(n)
    /\ dir' = insert_item(dir, n)
    /\ UNCHANGED <<disk, path, event, changes>>

\* dir_update_item: a window has its own file examined, and all told at once
UpdateItem(n) ==
    /\ dir.users # {} /\ Room(n)
    /\ dir' = dir_merge_new(insert_item(dir, n))
    /\ UNCHANGED <<disk, path, event, changes>>

\* dir_force_update_path: a thumbnail or an emblem is ready
ForceUpdate(n) ==
    /\ dir' = NotifyUpdate(dir, Known(dir, n))
    /\ UNCHANGED <<disk, path, event, changes>>

\* the idle call of filer_close_recursive closes every window on this path
CloseMissing ==
    /\ dir.closing
    /\ dir' = [set_idle_callback([dir EXCEPT !.users = {}, !.busy = {},
                                             !.view = [u \in Users |-> {}]])
                   EXCEPT !.closing = FALSE, !.missed = @ \/ event]
    /\ event' = FALSE
    /\ UNCHANGED <<disk, path, changes>>

\* the monitor exists while somebody is attached; a change made while nobody
\* is goes unseen until the next scan
Noticed ==
    /\ changes < MaxChanges
    /\ changes' = changes + 1
    /\ event' = (event \/ dir.users # {})
    /\ dir' = [dir EXCEPT !.missed = @ \/ dir.users = {}]

\* external: another program creates, modifies or deletes a file
ChangeFile(n) ==
    /\ path # "missing"
    /\ \E v \in (Versions \cup {Absent}) \ {disk[n]} : disk' = [disk EXCEPT ![n] = v]
    /\ Noticed
    /\ UNCHANGED path

\* external: the directory is removed, made again, or loses its read permission
ChangePath ==
    /\ \E p \in {"ok", "noaccess", "missing"} \ {path} :
        /\ path' = p
        /\ disk' = IF p = "missing" THEN [n \in Names |-> Absent] ELSE disk
    /\ Noticed

Next ==
    \/ \E u \in Users : Attach(u) \/ Detach(u)
    \/ Recheck \/ MonitorEvent \/ RescanTimeout \/ NotifyTimeout \/ CloseMissing
    \/ Update
    \/ \E n \in Names : CheckThis(n) \/ UpdateItem(n) \/ ForceUpdate(n) \/ ChangeFile(n)
    \/ ChangePath

\* The main loop dispatches every source that stays ready: the idle source of
\* the scan, the timers and the monitor.  This is WF_vars of each handler with
\* its ENABLED written out: a handler changes something whenever it is ready.
Fairness ==
    /\ []<>~dir.idle_callback \/ []<><<Recheck>>_vars
    /\ []<>~event \/ []<><<MonitorEvent>>_vars
    /\ []<>(~dir.rescan_timeout \/ dir.scanning) \/ []<><<RescanTimeout>>_vars
    /\ []<>~dir.notify_active \/ []<><<NotifyTimeout>>_vars
    /\ []<>~dir.closing \/ []<><<CloseMissing>>_vars

Spec == Init /\ [][Next]_vars
FairSpec == Spec /\ Fairness

-----------------------------------------------------------------------------
(* Properties.                                                             *)

TypeOK ==
    /\ disk \in [Names -> Versions \cup {Absent}]
    /\ path \in {"ok", "noaccess", "missing"}
    /\ event \in BOOLEAN
    /\ changes \in 0..MaxChanges
    /\ dir.users \subseteq Users
    /\ dir.busy \subseteq Users
    /\ dir.recheck_list \subseteq Names
    /\ dir.known_items \subseteq Items
    /\ \A i, j \in dir.known_items : Name(i) = Name(j) => i = j
    /\ dir.up_items \subseteq Items
    /\ dir.gone_items \subseteq Items
    /\ dir.freed \subseteq Items
    /\ dir.new_items \in Seq(Items)
    /\ dir.item \in [Items -> [ver : Versions \cup {Absent}, need : BOOLEAN]]
    /\ dir.view \in [Users -> SUBSET (Items \X (Versions \cup {Absent}))]
    /\ {dir.scanning, dir.idle_callback, dir.needs_update, dir.rescan_timeout,
        dir.notify_active, dir.error, dir.closing, dir.missed, dir.dangling} \subseteq BOOLEAN

\* A scan is under way, with its idle source, exactly while there are names
\* left to examine and a window is attached: it neither stalls nor runs for
\* nobody, whatever attaches, detaches or fails in between (set_idle_callback).
ScanIffWork ==
    /\ dir.scanning = (dir.recheck_list # {} /\ dir.users # {})
    /\ dir.idle_callback = dir.scanning

\* dir.h: "If scanning finishes when this is set, or if someone attaches and
\* scanning is not in progress, a rescan is triggered": while a window is
\* attached, an update that is owed has something that will perform it.
RescanIsComing ==
    dir.needs_update /\ dir.users # {} => dir.scanning \/ dir.rescan_timeout

\* What insert_item has found and not yet told has a timer that will tell it.
PendingIsFlushed ==
    dir.new_items # <<>> \/ dir.up_items # {} \/ dir.gone_items # {}
        => dir.notify_active

\* No window is given an item diritem_free has freed, or finds one in its view,
\* and no list holds one to hand out later.
NoFreedItemUsed ==
    /\ ~dir.dangling
    /\ dir.freed \cap (dir.known_items \cup Range(dir.new_items) \cup dir.up_items
                           \cup dir.gone_items \cup InViews(dir, dir.users)) = {}

\* A window shows its "scanning" state exactly while its directory is scanned.
BusyIffScanning == dir.busy = (IF dir.scanning THEN dir.users ELSE {})

\* nothing is under way, nothing is owed
Quiet ==
    /\ ~dir.scanning /\ ~dir.rescan_timeout /\ ~dir.notify_active /\ ~dir.closing
    /\ ~event

Shown(u) == {Name(p[1]) : p \in dir.view[u]}
ShouldShow(u) == {n \in Shows[u] : disk[n] # Absent}

\* the windows whose contents everything done so far should have settled: the
\* directory can be read and nothing changed while nobody watched it
Settled == IF path = "ok" /\ ~dir.missed THEN dir.users ELSE {}

\* Once everything is quiet each window shows each file it should, once,
\* whatever was lost, repeated or told out of order on the way.
QuietMeansComplete ==
    Quiet => \A u \in Settled :
        /\ Shown(u) = ShouldShow(u)
        /\ \A p, q \in dir.view[u] : Name(p[1]) = Name(q[1]) => p = q

\* Once everything is quiet an item that no scan still means to examine is
\* displayed as the file is on disk: no restat result and no redraw is lost.
QuietMeansFresh ==
    Quiet => \A u \in Settled : \A p \in dir.view[u] :
        ~dir.item[p[1]].need => p[2] = disk[Name(p[1])]

\* dir_rescan: "mark it as needing to be put on the rescan list at some point
\* in the future": once everything is quiet, every item shown has been examined.
QuietMeansExamined ==
    Quiet => \A u \in Settled : \A p \in dir.view[u] : ~dir.item[p[1]].need

\* dir.h: known_items is "What our users know about": when no scan is under
\* way and no news is pending, a window displays the known items it lets through.
UsersKnowKnownItems ==
    ~dir.scanning /\ dir.new_items = <<>> /\ dir.gone_items = {} =>
        \A u \in dir.users :
            {p[1] : p \in dir.view[u]} = {i \in dir.known_items : Name(i) \in Shows[u]}

\* An attached window comes to show the files there are, once they stop
\* changing and unless it is closed first.
Converges ==
    \A u \in Users :
        (u \in Settled /\ changes = MaxChanges)
            ~> (u \notin Settled \/ Shown(u) = ShouldShow(u))
=============================================================================
