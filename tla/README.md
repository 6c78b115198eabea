# ROX-Filer2: a TLA+ verification project

This directory holds TLA+ models of the parts of ROX-Filer2 where the order of events matters,
the TLC configurations that check them on small instances, and TLAPS proofs of theorems about
them for every value of their constants. Source paths below are relative to
`src/ROX-Filer/src/` unless they begin with `src/`.

Contents: 1 inventory, 2 modules and how they correspond to the code, 3 runs, bounds and
fairness, 4 proofs, 5 disagreements found, 6 observations, 7 what is not modelled, 8 plan.

## 1. Inventory

ROX-Filer2 is one GTK process (per user, found again by remote call), whose main loop runs
every handler to its end. Around it are: action children, forked and connected by two pipes;
worker threads (GTask) that run commands; forked workers for thumbnails; other instances of the
program, which share the disk, the trash and lock files; and other programs, which change files.

| component | state it keeps | operations | hard behaviour | what makes it correct |
|---|---|---|---|---|
| Directory scanning (`dir.c`) | `Directory`: known items, three pending arrays, recheck list, flags, timers, users | attach, detach, rescan, recheck one, merge, monitor event, timers, check this, force update | scans, attaches and deletions between any two handlers; 300 ms and 1500 ms timers; a directory that goes | no rescan or notification owed is lost; a quiet window shows what is there; no freed item reaches a window |
| Action protocol (`action.c`, `abox.c`) | child: item, flags, policy; GUIside and ABox: question, flags, timers; two pipes | question, answer, flag, handshake before an unmount, abort, exit | two processes and a user interleave; a flag arrives where an answer is awaited; kill | an answer belongs to its question; nothing refused is done; windows close before umount |
| Copy and move (`action.c`) | conflict policy, recursion, files at both ends | conflict check, classic engine, rsync engine, clear, prune, abort | any step fails, any moment is the last, answers for all | no content lost except by agreement; silence means success |
| Child reaping (`main.c`, `support.c`, `drives.c`, ...) | flag and wake-up pipe, callback tables, mutex, retry timer | SIGCHLD, waitpid(-1), synchronous waits in threads, fork with a held mutex | a status is taken by the wrong waiter; pids are used again | every waiter gets its status; callbacks belong to their process; each death is heard |
| Drive monitor (`drives_monitor.c`, `desktop.c`, `modern_ui.c`) | snapshot, scan flags, subscribers, poll, desktop's signature | request, scan, done, subscribe, owner dies, settings | coalesced requests of threads, missed events, failed scans | shown is the snapshot; a quiet snapshot is the drives |
| Thumbnails (`pixmaps.c`, `fscache.c`, `filer.c`) | queue and bar of each window, cache with marks, files on disk | queue, fork, load, save, reap, purge, change directory | two chains of workers in one window, two windows on one file, a file that changes | a queue is worked off; what is on disk is shown |
| Startup automount (`drives.c`) | option, timer, lock, queue | schedule, lock, scan, mount next, free | several processes start at once | drives mounted once and one after another |
| Image mounter (`image_mounter.c`) | jobs, loop devices, state files | set up, choose, mount, save, abort, rollback, unmount, scan | a window dies under a job; a command fails, or works and is reported failed; mounts undone from outside | no loop device is forgotten; what is mounted can be unmounted; a state names its own image |
| Trash (`trash.c`) | `files/` and `info/`, shared by processes | trash, restore, empty | several processes; failure or death between info and move | nothing is destroyed but by emptying; all goes back to where it was |
| Filer windows (`filer.c`) | list of windows, history, count, questions | open, change, back, forward, close, close subtree, check mounted | closing changes the list that is walked; one counter ends the process | one window for a path; the count is what is open |
| Modern interface (`modern_ui.c`) | tabs, second pane, session and its owner | open, close, switch, split, save, restore, promote | three copies of a path and its histories; the owner of the session closes first | a tab keeps its place; panes live and die together; somebody saves the session |
| Desktop, panel (`desktop*.c`, `panel.c`, `icon.c`) | icons in files, positions | place, save, refresh | settings changed while icons follow the drives | icons follow settings and drives |
| Transfer progress (`transfer_progress.c`) | snapshot, entries by inode, pending list, counters, syncer | begin, track, scan, confirm, service, end, finish | files renamed, replaced and rewritten while they are counted; a process to wait for | an operation ends when all is on the device; what is counted is what was confirmed; the end comes |
| Views, menus, drag and drop, dialogs, options, types, search, network, vendored `xdgmime` | widgets and tables | - | little: one thread, no history | covered by tests, or pure |

How they interact: `filer.c` attaches windows to a `Directory` (callbacks `DIR_ADD` ...
`DIR_END_SCAN`); the end of a scan queues thumbnails; a finished thumbnail comes back through
`on_child_death` and `dir_force_update_path`. Menus start an action child; what it did comes
back as messages, of which `mount_update` and `m` refresh directories and `X` closes windows.
Every thread that waits for a command shares `child_reap_mutex` with the main loop's reaper.
After a mount, `drives.c` asks `drives_monitor.c` for a scan, which tells side bars, popovers and
the desktop. The full list, with the hazards at their lines, is in `PROJECT.json`.

## 2. Modules

| module | models | proofs | model for TLC |
|---|---|---|---|
| `Directory` | `dir.c` and its users in `filer.c`, `view_collection.c` | `DirectoryProofs` | `MCDirectory` |
| `Action` | the pipes, the child, the GUIside, the ABox | `ActionProofs` | `MCAction` |
| `Transfer` | abstract: what a copy or move promises about contents | - | - |
| `CopyMove` | what the child of a copy or move does; implements `Transfer` | `CopyMoveProofs` | `MCCopyMove` |
| `ChildReaper` | who collects a dead child | `ThreadsProofs` | `MCChildReaper` |
| `DrivesMonitor` | the shared scan and its subscribers, the desktop's drive icons | `ThreadsProofs` | `MCDrivesMonitor` |
| `Thumbnails` | queues, workers, cache | `ThumbnailsProofs` | `MCThumbnails` |
| `Windows` | filer windows, histories, tabs, panes, the session | `WindowsProofs` | `MCWindows` |
| `TrashStore` | abstract: what the Trash promises about contents | - | - |
| `Trash` | trashing, restoring and emptying by several processes; implements `TrashStore` | `TrashProofs` | `MCTrash` |
| `Images` | disk images, loop devices, state files | `ThreadsProofs` | `MCImages` |
| `Progress` | what is counted, confirmed and flushed of a copy | `ProgressProofs` | `MCProgress` |

In all of them a handler of the main loop is one action: GTK runs it to its end. Threads,
forked children, other programs and the user are actions of their own, so they come between any
two handlers. Names of actions are those of the functions where one action is one function.
Operators whose name ends in a suffix after an underscore, under a comment "mutant", are wrong
variants of the definition below them; they are used to show that a property can fail.

**Directory.** The record `dir` is `struct _Directory` field by field (`known_items`,
`new_items`, `up_items`, `gone_items`, `recheck_list`, `scanning`, `needs_update`,
`idle_callback`, `rescan_timeout`, `notify_active`, `users`), with `view` and `busy` for what
each window displays. An item is `<<leafname, k>>`, `k` telling one allocation from another, so
that an item freed and used afterwards (`freed`, `dangling`) is seen. `missed` is a ghost: the
directory changed after the scan listed it and no event is on its way. Helpers that the code
calls from several handlers (`dir_merge_new`, `insert_item`, `set_idle_callback`,
`remove_missing`) are functions from record to record, composed in the code's order. The hash
table's order of the recheck list is any order. A missing path has one dummy `Directory`.

**Action.** `child.pc` runs through `list_cb` for each item: flags (`check_flags`), look (the
decision and the question), wait (the `read` for an answer), handshake, act. `toChild` and
`toParent` are the pipes. `gui` holds what `ABox` and `GUIside` hold. Answers, flags, aborts,
the end of the filer and SIGTERM come at any time. `hist` is a ghost that records what the user
said and what was done for each item, for the properties. What an item is (file, folder, read
only) is a choice; what is done with files is `CopyMove`.

**CopyMove and Transfer.** The state is two trees of depth two, the policy, and `todo`, the
child's call stack flattened: `Top`, `Existing`, `Fresh`, `Answer`, `PutFolder`, `Cp`, `Mv`,
`Rmdir`, `Clear` are the pieces of `do_copy2` and `do_move2` between two system calls or
questions; `Rename`, `Fast`, `Rsync`, `Prune` those of the rsync engine. Each external command
may do its work, part of it, or fail. The refinement mapping sends the trees to, for each
content, the ends where a whole copy of it exists; `Transfers` says each step is one of
`Transfer` or a stutter: a source is given up only for a whole copy at the destination, what
has arrived stays, and what was at the destination goes only by agreement.

**ChildReaper.** A process is free, running or a zombie; its pid can be used again once it was
reaped. The main thread is cut at every system call of `child_died_callback` and of the retry
timer. Threads differ by how they wait: `Spawners` (`rox_spawn_sync`, the mutex held
throughout), `Capturers` (`spawn_capture_timeout`, with its deadline and kill) and `Bare` (a
`g_spawn_sync` of its own, `image_mounter.c:112`). A forked action child inherits the mutex as
it is.

**DrivesMonitor.** `world` is what a scan would find; the flags are those of the code. Owners
subscribe, die, and are compacted out of the array later. The desktop rebuilds its icons only
when `drive_signature` changes; `Signature` is a constant, for the code's choice of what it
compares.

**Thumbnails.** A window's `queue`, whether its `bar` is visible, and how many
`filer_next_thumb_real` sources it has; `cache` entries carry the times of the file they were
made for, and are images or marks of a thumbnail being made; `disk` has the thumbnails with
their labels. A worker reads the file, later labels and saves the image, and is
reaped. The scan of the directory is reduced to what `Directory` shows of it: a change is followed by a scan. Files that cannot have a
thumbnail leave the queue at once and are left out; the option for videos is a constant.

**Windows.** A window is a record of its path, histories, tabs, active tab, host and second
pane, and the idles queued for it; `all` is `all_filer_windows` (newest first), `count` is
`number_of_windows`, `saved` the session file. The helpers that several handlers call
(`filer_history_push`, `modern_tab_capture_state`, `filer_change_to`, the destruction of a
window with its pane) are functions from state to state, composed in the code's order. The two
walks over all windows (`filer_close_recursive`, `filer_check_mounted`) are cut at each window,
because they save the next link first; nothing else runs during one. A kill leaves the session
file as it is, and a new process starts from it.

**Trash and TrashStore.** All files have one base name, the hard case: they compete for `base`,
`base.1`, ... (the slots). `op[q]` is where process `q` is: choosing a name, writing the
information, moving, undoing, restoring, forgetting the information, or emptying item by item.
A move to another file system is a copy and then a removal, with a step between. A process may
die at any step. `origin` is a ghost, the place a content was trashed from; `clashed` a
ghost that says two operations met on one name, met an emptying, or a copying move could not
remove its source. The refinement mapping sends the state to the
contents that are at home and in the Trash (on one file system `g_file_move` is taken to be one
step that fails when the target is there, an assumption about GIO); `IsStore` says that every step is one of
`TrashStore`, in which only emptying destroys.

**Images.** `loop`, `mount` and `lazy` are the kernel's: which image a loop device has, where it
is mounted, which devices it detaches once they are free. `state` are the state files. A job
runs through the thread that sets up the device, the chooser on the main thread, the thread that
mounts and saves, or their undoing; or it is an unmounting, from the menu or from the device
list, or a scan that drops stale states. Each command may fail, and may do its work and be
reported failed; a dialog's parent may go; the process may die; the user may unmount from
outside. As root the mount point is the image's name, without its folder, and the loop device
(`safe_mount_name`): `BaseName` gives the names, so that two images may have one, and with it, on
the same device, one mount point. Ghosts record which device a failure was met on (`broken`), that
jobs of one image met (`met`), that a mount was undone without the filer's knowing (`undone`), and
that a death left the state of a device already detached (`orphaned`).

**Progress.** The disk is files by inode, with size, times and the chunks that are not on the
device yet, and names for them; commands create, extend, truncate, rename over and restamp
them, and the user deletes and renames. The child's loop is cut where the code scans a name,
confirms a file or asks for the flusher's state (`tp_run`, `tp_pump`, `confirm_one`,
`tp_track_end`, `tp_finish`). `seen` is the table by inode, `pending` its list, `done` and
`logical` the two counters. What the kernel writes back of itself is left out: the worst case.
`full` is whether the bar of the window shows 100%: `tp_send` sends what is counted wherever the
code calls it, or holds it back by its rate limit, and `abox_set_byte_progress` shows 100% for the
total unless `flushing` (`Full`); on FUSE the device's counter may keep the bar behind.
`fresh` (what the command wrote after the snapshot), `missed` (the last flush did not happen),
`counted` (how many chunks of each very file were counted last, in whichever entry) and `strayed`
(a file was confirmed at the path of another's entry) are ghosts.

## 3. Runs

| run | configuration and bounds | states, time | shows |
|---|---|---|---|
| `directory` | 1 window, 2 names, 2 versions, 2 changes, fair | 839 000, 2 min | `RescanIsComing`: no rescan owed is lost; `QuietMeansFresh`; `Converges` |
| `directory_two` | 2 windows (one hides a name), 2 changes | 100 s | `ScanIffWork`: the idle source is there when there is work, and only then; `NoFreedItemUsed`; `QuietMeansComplete` |
| `action` | five operations, 2 items, 2 toggles, fair | 685 000, 20 s | refusals kept, risky things agreed to, nothing left untold, windows closed before umount, what was agreed is tried, `Ends` |
| `copymove` | a folder of two files and a file, any destination, both engines, any policy | 256 000, 16 s | `Transfers` (the refinement), `SilentMeansDone`, `DeclinedIsLeft` |
| `reaper` | 2 pids, 1 spawner, 2 capturers, an action child, fair | 175 000, 94 s | `NoStatusLost`, `CallbacksAreTheirs`, `DeathIsNoticed`, `DeathIsHeard`, `ActionEnds` |
| `drives` | 2 lists and the desktop, 3 states of the drives, 2 changes, 1 setting, fair | 225 000, 20 s | `ShownIsSnapshot`, `QuietMeansFresh`, `Converges` |
| `thumbs` | 2 windows, 2 files, 2 directories, 2 workers, 2 versions, 3 steps of the user | 2.2 million, 1 min | `QueueIsServed`, `QuietMeansShown` |
| `windows` | 3 windows, 2 tabs each, 3 nested directories, histories of 2, 6 steps | 3.0 million, 83 s | `PanesGoTogether`, `CountIsWindows`, `OwnerServed`, `OneWindowPerPath`, `TabsKeepTheirPlace` |
| `trash` | 2 processes, a place here and one on another file system, 3 contents, 2 names | 1.6 million, 46 s | `Restorable`, `BackWhereItWas`, `IsStore` (the refinement) |
| `images` | 2 images of one name, 2 devices, 2 jobs, 2 labels, root and udisks | 1.4 million, 51 s | `NoLoopForgotten`, `MountedIsManaged`, `StateNamesItsImage` |
| `progress` | 2 inodes, 2 names, files of 2 chunks, 2 commands, 3 changes, fair | 3.5 million, 135 s | `SafeToRemove` (when `tp_finish` has returned, and 100% shown since it began), `CountedOnce`, `NothingLeftBehind`, `Ends` |
| `windows_walk` | as `windows`, 3 steps | seconds | an expected violation, section 5 |

The type invariants (`TypeOK` of each module) are not properties of a run: each is a theorem of
its proof module (`TypeCorrect`, `ReaperTypeOKHolds`, `MonitorTypeOKHolds`), and so are
`PollWhileWatched` and `NeverBothWait`, which TLC found to hold on the same instances. The
statements that section 5 calls violated, and those named in section 6, are defined in the
modules; adding them to the configuration shows the behaviour.

**Why the bounds are enough.** Two names let one change while the scan is at the other, and let
one hide what happens to the other; two versions with two changes let a file change back, or
change again during the scan its first change caused (three changes were explored once without
error, 5.8 million states). Two items in an action give an answer, a flag or an X that belongs
to the item before. Two sources of which one is a folder with two files give an answer for all
inside a folder and a conflict after it; two folders were explored once without error (2.9
million states). Two pids with three waiters force pids to be used again. Two windows and three
steps let both show the directory, or one leave it and come back while its worker runs, which is
how a window gets two chains of workers. Three windows are a host, its pane and a twin or a
successor to the session; six steps let a tab be opened, left, taken elsewhere by a tab of the
other pane, its directory unmounted, and come back. Two processes with three contents let one be
trashed while a second of the same name is restored over it and a third is new. Two jobs let a
scan or an unmounting meet a mount; two labels let udisks use a name again, and two images of one
name share a mount point (the three properties were explored once with two names, too, 1.4 million
states). Two commands let a
file already confirmed be written again; two inodes with two names let one replace the other
(rsync's temporary is a name), and three changes let the user come between.

**Deadlock** is checked wherever the system should be able to go on or says that it has ended
(`Terminated` in `Action`). It is off in `thumbs`, `windows` and `windows_walk`, whose steps
are all bounded, and in `trash`, which ends when every content has been destroyed by emptying.

**Undisturbed.** The properties of the X handshake in `Action` are stated for operations in
which no flag is toggled; with one they do not hold (section 5).

**Fairness and why the code justifies it.**
`Directory`: weak fairness for the idle source, the timers and delivery of the monitor's event;
GLib runs every source
that stays ready, the idle source of the scan too once the timers and events before it are dealt
with.
`Action`: the child's steps, the delivery of its messages and of its hang-up, and a user who
answers the question he is asked; nothing is assumed of toggles, aborts or exits.
`ChildReaper`: the main loop's sources, strongly for those that need the mutex, since the retry
timer tries for ever while threads take it again and again; children exit. `DeathIsHeard` says
that a death is heard provided the threads do not hold the mutex for ever.
`DrivesMonitor`: queued sources, the poll timer, and a scan thread that ends and does not fail
each time.
`Progress`: the child's own steps and the flushing process; the commands end because their
changes are bounded, which stands for a copy of finite length. Changes of the outside world are
never fair.

## 4. Proofs

Each proof module extends its component, proves an inductive invariant with one step for each
action, and ends with theorems of `Spec`. Where an action is large the step is a lemma of its
own, and what many actions leave alone is a lemma about the fields they leave unchanged.

* `DirectoryProofs`: `ScanIffWorkHolds`, `RescanIsComingHolds`, `PendingIsFlushedHolds`,
  `BusyIffScanningHolds`. Handlers are compositions of helpers, so the proof is too: each helper
  preserves `Shape` (the fields' types) and has a lemma that says which parts of `Good` it
  establishes; a scan and its idle source go together only at the end of each handler, where
  the code calls `set_idle_callback`.
  `NoFreedItemUsedHolds`, `QuietMeansCompleteHolds`, `QuietMeansFreshHolds` rest on a second
  invariant (`Sound`), of the items, which `Tidy` keeps in order in the middle of handlers too:
  lists with no name twice (`Apart`), every view entry with the name of something known or still to
  be reported gone, which is what lets a removal by name leave no freed item behind (`Told`), and
  memory for what is still to be examined (`Roomy`). `Right` says that unless a scan is owed or a
  change went unseen the lists are those of the files, but for the names on the recheck list
  (`Content`), and the windows show the lists, or will be painted at the end of the scan
  (`Painted`). Each helper has one lemma that it keeps `Tidy` and one that it keeps `Caught`; a
  rescan establishes `Caught` from any `Tidy` record. `NoFreedItemUsedHolds` has the hypothesis
  `CloseWhenMissing`: with the option off it is false (section 5). `TypeCorrect` puts the types
  of both invariants together.
* `ThreadsProofs`, the three components whose threads run beside the main loop.
  `ReaperTypeOKHolds`, `NoStatusLostHolds`, `CallbacksAreTheirsHold`, `DeathIsNoticedHolds`:
  `ReaperIInv` says who owns each pid and that whoever holds the mutex cannot lose his child.
  `NoStatusLostHolds` assumes `Bare = {}`: with a thread outside the mutex it is false (section
  5). `ShownIsSnapshotHolds`, `QuietMeansFreshHolds`, `PollWhileWatchedHolds`: the strengthening
  says that a scan's result that is not the world's is owed another scan, and that a signature
  that is kept is that of what the desktop shows.
  Mounting of images: `LoopsAccounted` and `TypeCorrect`. `NoLoopForgotten` is not inductive, since a
  job may hold a device another job detaches: only the jobs at the steps that mount or detach
  answer for what they hold, and, as root, a mount point tells its device (`RootPoints`).
  `ManagedHolds` and `NamesHold` rest on a second invariant (`SInv`): as long as the jobs are
  `Orderly`, each can count on certain facts about its device, mount point and state (`JobOK`),
  a state is of a mount or is being undone (`StateOK`), and a mounted device is in a job's
  grip or has its state (`LoopOK`). Images of one name share a mount point on a device. Where they
  may, `Tethered` is needed as root: a state's device is attached to its image until a job is
  about to forget the state, so the other image cannot get that device while the state is there.
  A mount undone outside keeps the device, and so the theorems stand; a death between `losetup -d`
  and the removal of the state (`orphaned`) does not, and there `Orderly` asks that no two names
  be alike.
* `ActionProofs`: `ProtocolHolds`, `AnswersHold`, `RefusedHolds`, and each of the other
  invariants of the run. That a refused item is left alone does not carry from step to step by
  itself: it rests on an answer being read for the item it was given about. `IInv` follows a
  question on its way (`Asked`), on show (`OnShow`), and its answer on its way back (`Told`):
  there is one at most of the three, it is about the child's item, and the child waits for it;
  `Order` says that items behind the child's are the only ones anything was done to, and those
  before it not yet asked about. On it rest six more invariants, each inductive together with
  `IInv`: `Consent`, that what the user's Yes or "replace all" stands for reaches the child only
  as an answer to the question of that item (`RiskyNeedsYesHolds`); `Reported`, that what is done
  is told or in the pipe ahead of the `D` (`ToldHolds`); `Shaken`, that between `X` and its answer
  the pipes hold nothing else (`ClosedHolds`); `Tried` (`TriedHolds`); `Moves`, that what a waiting
  child needs is sent, before the user or in its pipe, and that an open window has its child and
  is alive (`NeverBothWaitHolds`, the safety half of `Ends`: what it leaves to TLC is that the
  user and the main loop go on); and `Named`, that messages name items of the operation
  (`TypeCorrect`).
* `CopyMoveProofs`: `TransfersHolds`, that the child implements `Transfer`, with
  `SilentMeansDoneHolds` and `DeclinedIsLeftHolds`. The invariant (`Inv`) reads the call stack:
  `OneOf` says that no two tasks are about one file and that a folder is swept after what is in
  it, `Below2` that only the top of the stack may be in the middle of an item, `Ready` what each
  task counts on. `Fate` says of each source file that it is untouched while a task for it or a
  folder above it waits, or where it was declined, never both, and that otherwise it has arrived
  unless an error or a stop is recorded. Each action has a lemma that it keeps `Inv` and makes only
  the changes `Moves` allows, from which the step of `Transfer` follows, and `NothingIsLost`: over
  a whole behaviour a content is at its source or whole at its destination, and what the
  destination had goes only by agreement. `TypeCorrect`: no file is in a folder that is not
  there. Hypothesis `Distinct`: the sources have leafnames of their own. Without it the statement is false: two sources with one leafname
  overwrite each other (`MCSameLeaf`, section 6). Folders may have any finite number of files.
* `TrashProofs`: `StoreKept`, the refinement, for any processes, places, contents and names, and
  `TypeCorrect`, the types it rests on. Each action is mapped to one of `TrashStore`'s, by the
  contents that a changed place or name held before. `NothingIsDestroyed` follows for whole
  behaviours: with no emptying and no disturbed move a file is at a place or in the Trash for ever.
  `RestorableHolds` and `BackHolds`: under `~clashed`, what is in the Trash has its information, and an operation's own step tells which of
  the two is still to come for the name it holds. The ghost `clashed` is set by the steps that
  find another operation on their name, so these are statements about every behaviour.
* `ProgressProofs`: `DoneIsSafe`, that when `tp_finish` has returned all is on the device, and that
  from its beginning on the bar shows 100% only then (`Capped`); it says nothing of a 100% shown
  before (section 5). The invariant
  follows the last start of the flusher, after which nothing writes any more (`Attended`,
  `Pushed`). `NothingLeftBehindHolds`: `Survey` follows the last scan of a command from name to name and
  says of each name it has passed (`Reached`) that what is there is known by that name, counted
  or waiting to be; after the scan, across the renames of untracked commands, of all names.
  `CountedOnceHolds`: what is counted is the number of chunks the entries have confirmed; and as
  long as no file was confirmed at the path of another's entry, these are the chunks that were
  counted last of each very file (`Attributed`). As a set of chunks
  (`Confirmed`) rather than a sum over the table its size is found, when the entry of one file
  changes, from what is of other files (`Recounted`), whatever the table holds. `TypeCorrect` gives
  the types of the variables and of the table.
* `ThumbnailsProofs`: `QueueIsServedHolds`. The code decides whether to start a source by the
  visibility of a progress bar. The strengthening is what makes that right: where the bar is
  visible somebody is at work, and a queue outside a scan shows its bar. Two chains in one
  window share a queue and a bar, and the one that ends hides the bar only when the queue is
  empty. `ShownHolds`: what is on disk is shown once all is quiet. `Good` says of each
  file a window should show that it is shown, queued, in a worker's hands or to be examined
  again (`ViewOK`), and of a file without an entry in the cache that it is queued or has no
  thumbnail (`QueueOK`).
* `WindowsProofs`: `PanesGoTogetherHolds`, `CountIsWindowsHolds`, `OwnerServedHolds`,
  `OneWindowPerPathHolds` and the action property `TabsKeepTheirPlaceHolds`. None of the
  invariants is inductive alone: the count follows the list of windows only while no window is in it
  twice and it has all that are open; a closed host takes its pane along only if each names the
  other. `Fit` is all of this for the windows as one value: `Formed` of each window (a host has an
  active tab, a pane none, no two tabs of a window have one number), `Listed` (the lists name what is
  open, once), `Paired`, `Owned`, `Twinless`. `Counts` ties the count to the list, the questions
  and the actions, and the main loop to the count; `Outside` types the rest. Since the handlers
  call one another as values, each helper has a lemma that takes a `Fit` value to a `Fit` one and
  says what it keeps (`DestroyHostIs`, `ChangeToIs`, `RestoreIs`, `OpenedIs`, ...), and each action
  one that ends in `Safe`: the invariant, and every tab in the background where it was
  (`KeepAll`). That a tab is given a number no other has (`NewTabIdIs`) is the pigeonhole principle;
  that the saved tabs whose directories are left can be put in their order (`KeptIs`) goes through
  the rank of each, the number of those up to it. `TypeCorrect`: `all` counts what is open, since
  it is a bijection onto it, and a history is a value of `Hist` wherever a handler puts it, so none
  outgrows its limit.

Assumptions are the named `ASSUME` of each module: distinct markers, finite sets, natural
bounds. The bounds are constants of the theorems too, so they hold for all of them.

Leaves are small and cite little, so that each is proved in a fraction of the provers' time limit.

Only model-checked: all liveness (`Converges`, `Ends`, `DeathIsHeard`, `ActionEnds`), which needs
fairness and `ENABLED`. Every invariant, action property and refinement that a passing run checks
has its theorem.

The modules with proofs have no `RECURSIVE` operator.

## 5. Disagreements found

The first is shown by a run that checks one property, which the code violates; the others by
adding the definition named to a configuration of the module, with which TLC finds the counterexample
(`HundredIsSafe`, `NoneTwice` and `MountedIsItself` within seconds).

* `windows_walk` (`filer.c:3158`): `filer_close_recursive` and `filer_check_mounted` save the next
  link before they look at a window, and closing the host of a second pane destroys both: the walk
  may go on in a window that is freed. A pane is in the list before its host, so the saved link
  of a pane is its host.
* `Action` (`action.c:2688`): `ClosedBeforeUnmount`. A Quiet toggled during the X handshake is read
  as the X: the device is passed over without a word, and the next one is unmounted on the X of
  the first, before its windows are closed (the code: "Need to close all sub-directories now, or
  we can't unmount").
* `Progress` (`transfer_progress.c:552`): `HundredIsSafe`. `tp_send` tells what is counted
  as it is: when the last chunk has been confirmed, before `tp_finish` begins, that is the total, and
  the bar shows 100% although directory entries and tables are not flushed (at once where the
  total is 0); `tp_finish` takes it back to 99%. `abox.c:1010` says "100% only once the operation is
  really finished", `transfer_progress.h:13` "100% means "safe to remove"". What holds is
  `SafeToRemove`: once `tp_finish` has begun, 100% is shown only when all is on the device.
* `Progress` (`transfer_progress.c:491`): `NoneTwice`. `confirm_one` opens the path of an entry
  without a look at its inode: a file renamed onto the path of one that still waits is confirmed
  in both entries, and its bytes are added twice (`abox.c:980`: "'done' only counts bytes confirmed
  on the destination device"). `CountedOnce` says what holds, with `strayed` for this case.
* `Images` (`image_mounter.c:1047`): `MountedIsItself`. The mount point of an image is made
  of its leafname and the loop device. While an image is unmounted in the background, between
  `losetup -d` and the removal of its state, an image of the same name in another folder may get
  the device and the mount point, and the first is reported mounted (`image_mounter.h:42`:
  "Returns TRUE only for mounts created by Rox-Filer2 which are still active"). After a death in
  that moment the state stays, until the other image is unmounted.
* `Directory` (`dir.c:923`): with `CloseWhenMissing = FALSE` in `MCDirectoryTwo.cfg`,
  `NoFreedItemUsed` is violated: a rescan of a directory that has gone frees items that still
  wait in `up_items`, and `notify_timeout` hands them to the windows.
* `ChildReaper` (`image_mounter.c:112`): with a thread in `Bare`, `NoStatusLost` is violated: a
  `g_spawn_sync` outside the mutex may lose its child's status to the main loop.
* `DrivesMonitor` (`desktop.c:2440`): `DesktopFollowsSettings`. Changed settings of the desktop's
  drive icons are applied only when a drive changes.
* `Thumbnails` (`pixmaps.c:644`): `ThumbIsUpToDate`. The label of a thumbnail is the file's time
  after it was read: a file that changes in between keeps the old image.

## 6. Observations

Behaviour met while modelling, for which no document promises otherwise, or which lies outside
the bounds of a run. Those with a definition can be seen by adding it to a configuration.

* `QuietMeansExamined` (`Directory`, `dir.c:1001`): a file deleted and made again within 1500 ms
  may be left unexamined. `UsersKnowKnownItems` (`dir.c:438`): between merges windows show items the
  Directory no longer knows.
* `Details = TRUE` (`Action`): the Details button sends a `D` the child does not know
  (`abox.c:1073`, `action.c:862`). `action_delete` has no caller left. A SIGTERM to the group
  before the child's `setpgid` is lost.
* `DesktopFollowsDrives` (`DrivesMonitor`, `desktop.c:2405`): the signature leaves out label and
  size, so a drive icon keeps an old label.
* `MCSameLeaf` (`CopyMove`): two sources with one leafname: the second replaces the first without
  a question, conflicts having been looked for before the fork.
* Classic "Newer" lets a folder replace a newer file (`action.c:2266`). The option "Merge
  directories by default" has no effect on copying and moving. `do_copy_fast` and `do_move_fast`
  do not look whether an object is put into itself.
* A window that changes directory while its worker runs starts a second chain beside the first;
  nothing bounds their number. An image loaded from disk by `pixmap_background_thumb` keeps the
  reference of the caller, so its cache entry is never purged.
* The main thread blocks in `rox_child_reap_lock` (`support.c:1470`) while a thread waits for a
  mount or for smbclient. The automount lock (`drives.c:3655`) is released when its owner has
  done, so a process started later mounts again what the user unmounted in between.
* `Trash`: two processes that choose the same free name between the look and the move may lose
  one's information or restore to the other's place (`trash.c:101`): `Restorable` and
  `BackWhereItWas` except them by `clashed`, `IsStore` does not.
* `Windows`: after a restored session, the active tab's path is overwritten by the directory the
  window was opened on, because `modern_tabs_build` records the window right after restoring
  (`CHANGELOG`, line 541, speaks of the session being restored); the number of the active tab
  in the saved session is not adjusted for tabs whose directories have gone.
* `Images`: an image unmounted outside the filer keeps its loop device attached. With udisks, a
  stale state whose mount point's name was used again stands for the wrong mount. The scan may
  remove a state that was saved while it read the old one. Two jobs may run for one image once
  the parent of the modal dialog has gone. These, and the state a death has left where images have
  one name (section 5), are what `Orderly` and `broken` except.
* `Progress`: a failed
  fork of the flusher, a failed open or a failing `syncfs` is ignored and the last 100% is sent all the
  same (the ghost `missed`). `syncfs` is for the destination's file system, not for one mounted
  below it. An outside program that makes a file grow for ever keeps `tp_finish` from ending.
* `Progress`, the bar alone: the snapshot is taken after the command has started, so a small file
  it wrote before counts as old; `cp -a` can restore the time of a file it rewrote with the same
  size; a confirmed inode rewritten with the same size is not confirmed again before the final
  flush.

## 7. What is not modelled

Layout, drawing, wording and parsing. The outside: mount, rsync, cp, mv, losetup, GIO's monitor
are choices over what they may do to the state. The abstractions that matter to a reader: trees of
depth two, symbolic links as files, rsync as one step that
leaves any of its files done and at most one in part; scans of the
drives that find one of three worlds; thumbnails that take less than the cache's 20 minutes;
directories in the Trash that are removed in part; partitions of an image and how they are
found; how far the sector counter keeps the progress bar behind; selection, filters and settings per
directory of a window; sidebar, breadcrumbs and preview of the Modern interface. `AutoMount`
(`drives.c:3635-3940`) is one queue worked off once by a thread after another; its lock, shared
with processes that start later, is in section 6.
Components without a module are listed with reasons in `PROJECT.json`.

## 8. Plan

Done, in this order: Directory, Action, ChildReaper, DrivesMonitor, Transfer and CopyMove,
Thumbnails; then Windows, TrashStore and Trash, Images, Progress, and the proofs of Trash, Images,
Progress and Action; CopyMove's refinement of Transfer, and the second invariants of Action, Trash,
Images, Thumbnails and Progress; the five properties of Windows; the items of Directory.

Next models: the startup automount with two processes, a lock and a user who unmounts, composed
with `DrivesMonitor` through the scan it requests at its end; the settings a window keeps for each
directory.

Next theorems: for each next model its invariants; the liveness of the present ones is left to
the runs.
