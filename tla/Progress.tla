------------------------------ MODULE Progress ------------------------------
(***************************************************************************)
(* The byte progress of a copy or a move (transfer_progress.c), in the     *)
(* action child: the files that cp, mv or rsync writes are found by their  *)
(* inodes while the command runs and confirmed on the device chunk by      *)
(* chunk; at the end the destination file system is flushed, by a process  *)
(* of its own, before the window may close.  Files are renamed and         *)
(* replaced by the commands and deleted by the user meanwhile.  What the   *)
(* kernel writes back by itself is left out: the worst case.               *)
(***************************************************************************)
EXTENDS Naturals, Sequences, SequencesExt, FiniteSets

CONSTANTS
    Inodes, Paths,  \* of the destination; a temporary of rsync's is a path
    MaxSize,        \* bound: chunks of a file
    Total,          \* what was counted before
    MaxCommands,    \* bound: commands of one operation
    MaxChanges,     \* bound: what they and the user change in the destination
    None

ASSUME MaxAssumption ==
    /\ {MaxSize, MaxCommands, MaxChanges, Total} \subseteq Nat
    /\ MaxSize > 0
ASSUME NoneAssumption == None \notin Inodes \cup Paths
ASSUME InodesAssumption == IsFiniteSet(Inodes)

VARIABLES
    fuse,       \* the destination is a FUSE file system
    names,      \* [Paths -> Inodes \cup {None}]
    file,       \* [Inodes -> size, mtime and the chunks not on the device]
    meta,       \* directory entries and tables are not on the device
    command,    \* cp, mv or rsync runs
    started,    \* commands started
    changes,    \* what was changed in the destination
    pc,         \* the action child
    tracks,     \* the command's destinations are tracked
    flushing,   \* tp_finish has begun
    full,       \* the bar of the window shows 100%
    left,       \* paths the last scan has not reached
    before,     \* what was there before the command: [Inodes -> state]
    seen,       \* [Inodes -> Pending record, or NoEntry]
    pending,    \* inodes still to confirm, in order
    at,         \* index of the pass through pending
    done, logical,  \* counted: confirmed here, handed to FUSE
    fuse_dirty, \* FUSE data written since the last push
    syncer,     \* the process that flushes: "none", "runs" or "flushed"
    fresh,      \* ghost: inodes the tracked command wrote after the snapshot
    missed,     \* ghost: the last flush did not happen
    counted,    \* ghost: [Inodes -> chunks of the file that were counted last]
    strayed     \* ghost: a file was confirmed in another's place

disk == <<names, file, meta>>
writer == <<command, started, changes, fresh>>
window == <<flushing, full>>
totals == <<done, logical, counted, strayed>>
book == <<before, seen, pending, at, totals, fuse_dirty>>
vars == <<fuse, disk, writer, pc, tracks, window, left, book, syncer, missed>>

States == (0..MaxSize) \X {"old", "new"}
File == [size : 0..MaxSize, mtime : {"old", "new"}, dirty : SUBSET (1..MaxSize)]
NoEntry == [path |-> None, confirmed |-> 0, in_pending |-> FALSE,
            writer_done |-> FALSE]
Entry == [path : Paths, confirmed : 0..MaxSize, in_pending : BOOLEAN,
          writer_done : BOOLEAN]

\* file_state
State(i) == <<file[i].size, file[i].mtime>>
Named == {names[p] : p \in Paths} \ {None}

\* abox_set_byte_progress: 100% of what is counted, unless tp_finish has begun.
Full(d) == ~flushing /\ d >= Total

\* tp_send, or not yet; on FUSE the counter of the device may be behind.
Sends == full' \in {full, Full(done + logical)} \cup (IF fuse THEN {FALSE} ELSE {})

\* tp_begin and tp_counted: some files may be in the destination already.
Init ==
    /\ fuse \in BOOLEAN
    /\ names \in [Paths -> Inodes \cup {None}]
    /\ \A p, q \in Paths : names[p] = names[q] => p = q \/ names[p] = None
    /\ file = [i \in Inodes |-> [size |-> 1, mtime |-> "old", dirty |-> {}]]
    /\ meta = FALSE /\ command = FALSE /\ started = 0 /\ changes = 0
    /\ pc = "idle" /\ tracks = FALSE /\ flushing = FALSE /\ left = {}
    /\ before = [i \in Inodes |-> None] /\ seen = [i \in Inodes |-> NoEntry]
    /\ pending = <<>> /\ at = 0
    /\ done = 0 /\ logical = 0 /\ fuse_dirty = FALSE
    /\ full = Full(0)
    /\ syncer = "none" /\ fresh = {} /\ missed = FALSE
    /\ counted = [i \in Inodes |-> 0] /\ strayed = FALSE

Goes(to) == pc' = to

----------------------------------------------------------------------------
(* The commands *)

Changes == changes < MaxChanges /\ changes' = changes + 1

Works ==
    /\ command /\ Changes
    /\ UNCHANGED <<fuse, command, started, pc, tracks, window, left, book, syncer,
                   missed>>

\* A command that is not tracked moves within the file system.
Writes == Works /\ (tracks \/ pc = "begin")

Touches(i) == fresh' = IF tracks THEN fresh \cup {i} ELSE fresh

\* A file is made at a free name; the inode may be one that was seen before.
Create(p) ==
    /\ Writes /\ names[p] = None
    /\ \E i \in Inodes \ Named :
          /\ names' = [names EXCEPT ![p] = i]
          /\ file' = [file EXCEPT ![i] = [size |-> 0, mtime |-> "new", dirty |-> {}]]
          /\ Touches(i)
    /\ meta' = TRUE

Truncate(p) ==
    /\ Writes /\ names[p] # None
    /\ LET i == names[p] IN
          /\ file' = [file EXCEPT ![i] = [size |-> 0, mtime |-> "new", dirty |-> {}]]
          /\ Touches(i)
    /\ meta' = TRUE /\ UNCHANGED names

Extend(p) ==
    /\ Writes /\ names[p] # None
    /\ LET i == names[p]
           n == file[i].size + 1 IN
          /\ n <= MaxSize
          /\ file' = [file EXCEPT ![i] = [size |-> n, mtime |-> "new",
                                          dirty |-> @.dirty \cup {n}]]
          /\ Touches(i)
    /\ meta' = TRUE /\ UNCHANGED names

\* cp -a gives a file the time of its source.
Restamp(p) ==
    /\ Writes /\ names[p] # None
    /\ file' = [file EXCEPT ![names[p]].mtime = "old"]
    /\ meta' = TRUE /\ UNCHANGED <<names, fresh>>

\* rsync gives its temporary the final name; what had that name is gone.
Rename(p, q) ==
    /\ Writes /\ names[p] # None /\ p # q
    /\ names' = [names EXCEPT ![q] = names[p], ![p] = None]
    /\ meta' = TRUE /\ UNCHANGED <<file, fresh>>

\* mv renames a file of elsewhere on the file system.
MoveIn(p) ==
    /\ Works /\ ~tracks /\ pc # "begin"
    /\ \E i \in Inodes \ Named :
          seen[i] = NoEntry /\ names' = [names EXCEPT ![p] = i]
    /\ meta' = TRUE /\ UNCHANGED <<file, fresh>>

Exit ==
    /\ command /\ command' = FALSE
    /\ UNCHANGED <<fuse, disk, started, changes, fresh, pc, tracks, window, left, book,
                   syncer, missed>>

\* The user deletes what was copied.
Delete(p) ==
    /\ names[p] # None /\ Changes
    /\ names' = [names EXCEPT ![p] = None]
    /\ UNCHANGED <<fuse, file, meta, command, started, fresh, pc, tracks, window, left,
                   book, syncer, missed>>

----------------------------------------------------------------------------
(* Tracking *)

\* tp_run and run_rsync_with_progress start the command first; a move within
\* the file system is not tracked.
Start ==
    /\ pc = "idle" /\ started < MaxCommands
    /\ command' = TRUE /\ started' = started + 1 /\ fresh' = {}
    /\ pc' \in {"begin", "scan"}
    /\ UNCHANGED <<fuse, disk, changes, tracks, window, left, book, syncer, missed>>

\* tp_track_begin, snapshot_tree
TrackBegin ==
    /\ pc = "begin" /\ Goes("scan")
    /\ tracks' = TRUE
    /\ before' = [i \in Inodes |-> IF i \in Named /\ seen[i] = NoEntry
                                   THEN State(i) ELSE None]
    /\ UNCHANGED <<fuse, disk, writer, window, left, seen, pending, at, totals,
                   fuse_dirty, syncer, missed>>

\* register_file: what was there before and is untouched does not count.
Register(p) ==
    LET i == names[p] IN
    CASE i = None -> UNCHANGED <<seen, pending>>
      [] i # None /\ seen[i] = NoEntry ->
            IF before[i] = State(i)
            THEN UNCHANGED <<seen, pending>>
            ELSE /\ seen' = [seen EXCEPT ![i] =
                                [path |-> p, confirmed |-> 0,
                                 in_pending |-> TRUE, writer_done |-> FALSE]]
                 /\ pending' = Append(pending, i)
      [] i # None /\ seen[i] # NoEntry ->
            LET again == ~seen[i].in_pending /\ file[i].size # seen[i].confirmed IN
            /\ seen' = [seen EXCEPT ![i].path = p,
                                    ![i].in_pending = @ \/ again,
                                    ![i].writer_done = @ /\ ~again]
            /\ pending' = IF again THEN Append(pending, i) ELSE pending

\* scan_tracks: the walk and the scan for temporaries meet one file after
\* the other; a walk may not be due yet.
Scan(p) ==
    /\ pc = "scan" /\ tracks
    /\ Register(p)
    /\ UNCHANGED <<fuse, disk, writer, pc, tracks, window, left, before, at, totals,
                   fuse_dirty, syncer, missed>>

ScanEnds ==
    /\ pc = "scan" /\ Goes("confirm") /\ at' = 1
    /\ UNCHANGED <<fuse, disk, writer, tracks, window, left, before, seen, pending,
                   totals, fuse_dirty, syncer, missed>>

----------------------------------------------------------------------------
(* Confirming *)

\* What confirm_one goes on from: a shorter file starts again.
Base(i, s) == IF s < seen[i].confirmed THEN 0 ELSE seen[i].confirmed

\* Mutant: what was counted of a file that was truncated stays counted.
Recount_Keeps(i, n) ==
    IF fuse THEN logical' = logical + n - Base(i, n) /\ done' = done
            ELSE done' = done + n - Base(i, n) /\ logical' = logical

\* n chunks of the file are counted now.
Recount(i, n) ==
    IF fuse THEN logical' = logical + n - seen[i].confirmed /\ done' = done
            ELSE done' = done + n - seen[i].confirmed /\ logical' = logical

\* confirm_pending: a complete file leaves, else the next one is taken.
Confirm(i, n, complete) ==
    /\ Recount(i, n)
    /\ seen' = [seen EXCEPT ![i].confirmed = n, ![i].in_pending = ~complete]
    /\ IF complete THEN pending' = RemoveAt(pending, at) /\ at' = at
                   ELSE pending' = pending /\ at' = at + 1

\* n chunks of the file j were counted in the entry of i.
CountsIn(i, j, n) ==
    /\ counted' = [counted EXCEPT ![j] = n]
    /\ strayed' = (strayed \/ j # i)

\* Mutant: a file that cannot be opened stays to be confirmed.
Unopened_Waits(i, j) ==
    /\ Confirm(i, seen[i].confirmed, FALSE)
    /\ UNCHANGED <<file, fuse_dirty, full, counted, strayed>>

\* confirm_one: the file is gone or cannot be read.
Unopened(i, j) ==
    /\ UNCHANGED <<file, fuse_dirty, full>>
    /\ IF j # None /\ file[j].size > seen[i].confirmed
       THEN /\ Confirm(i, file[j].size, seen[i].writer_done)
            /\ CountsIn(i, j, file[j].size)
       ELSE /\ Confirm(i, seen[i].confirmed, seen[i].writer_done)
            /\ UNCHANGED <<counted, strayed>>

\* confirm_one: the data is with the FUSE daemon.
Handed(i, j) ==
    LET s == file[j].size IN
    /\ fuse
    /\ Confirm(i, s, seen[i].writer_done) /\ CountsIn(i, j, s)
    /\ fuse_dirty' = (fuse_dirty \/ s > Base(i, s))
    /\ UNCHANGED <<file, full>>

\* confirm_one: chunks are written to the device and waited for, until the
\* deadline; where that is not supported the file is flushed, or not.
Synced(i, j) ==
    LET s == file[j].size
        c == Base(i, s) IN
    /\ ~fuse /\ UNCHANGED fuse_dirty
    /\ \E n \in c..s :
          /\ c < s => c < n
          /\ Confirm(i, n, seen[i].writer_done /\ n = s) /\ CountsIn(i, j, n)
          /\ full' \in {full} \cup {Full(done + m - seen[i].confirmed) : m \in (c + 1)..n}
          /\ \/ file' = [file EXCEPT ![j].dirty = @ \ ((c + 1)..n)]
             \/ n = s /\ UNCHANGED file

\* One file of a pass; its path may name another inode than was seen there.
ConfirmOne ==
    /\ pc = "confirm" /\ at \in 1..Len(pending)
    /\ LET i == pending[at]
           j == names[seen[i].path] IN
          \/ Unopened(i, j)
          \/ j # None /\ (Handed(i, j) \/ Synced(i, j))
    /\ pc' \in {"confirm", "service"}
    /\ UNCHANGED <<fuse, names, meta, writer, tracks, flushing, left, before, syncer,
                   missed>>

PassEnds ==
    /\ pc = "confirm" /\ at > Len(pending) /\ Goes("service")
    /\ UNCHANGED <<fuse, disk, writer, tracks, window, left, book, syncer, missed>>

----------------------------------------------------------------------------
(* The flusher *)

\* start_syncer: nothing while one runs; the fork may fail.
StartSyncer(s) == syncer' \in IF s = "none" THEN {"runs", "none"} ELSE {s}

\* service_fuse, with the end of tp_pump; one that has flushed may not have
\* exited yet.
Service ==
    /\ pc = "service" /\ Goes(IF flushing THEN "flush" ELSE "poll")
    /\ Sends
    /\ \E s \in {syncer, IF syncer = "flushed" THEN "none" ELSE syncer} :
          IF s = "none" /\ fuse_dirty
          THEN fuse_dirty' = FALSE /\ StartSyncer(s)
          ELSE fuse_dirty' = fuse_dirty /\ syncer' = s
    /\ UNCHANGED <<fuse, disk, writer, tracks, flushing, left, before, seen, pending,
                   at, totals, missed>>

\* syncfs takes what was written before it; the process exits later.
SyncerFlushes ==
    /\ syncer = "runs" /\ syncer' = "flushed"
    /\ file' = [i \in Inodes |-> [file[i] EXCEPT !.dirty = {}]]
    /\ meta' = FALSE
    /\ UNCHANGED <<fuse, names, writer, pc, tracks, window, left, book, missed>>

\* The directory cannot be opened, or syncfs fails: nobody is told.
SyncerFails ==
    /\ syncer = "runs" /\ syncer' = "flushed"
    /\ missed' = (missed \/ pc = "rewait")
    /\ UNCHANGED <<fuse, disk, writer, pc, tracks, window, left, book>>

----------------------------------------------------------------------------
(* The end of a command, and of the operation *)

\* Mutant: the files are left as the last pump found them.
Poll_NoScan ==
    /\ pc = "poll" /\ UNCHANGED tracks
    /\ Goes(IF command THEN "scan" ELSE IF tracks THEN "last" ELSE "idle")
    /\ left' = {}
    /\ UNCHANGED <<fuse, disk, writer, window, book, syncer, missed>>

\* tp_run: waitpid; tp_track_end scans again, by force.
Poll ==
    /\ pc = "poll" /\ UNCHANGED tracks
    /\ Goes(IF command THEN "scan" ELSE IF tracks THEN "last" ELSE "idle")
    /\ left' = IF ~command /\ tracks THEN Paths ELSE {}
    /\ UNCHANGED <<fuse, disk, writer, window, book, syncer, missed>>

LastScan(p) ==
    /\ pc = "last" /\ p \in left /\ left' = left \ {p}
    /\ Register(p)
    /\ UNCHANGED <<fuse, disk, writer, pc, tracks, window, before, at, totals,
                   fuse_dirty, syncer, missed>>

WritersAreDone ==
    seen' = [i \in Inodes |->
                [seen[i] EXCEPT !.writer_done = @ \/ seen[i].in_pending]]

TrackEnd ==
    /\ pc = "last" /\ left = {} /\ Goes("idle") /\ tracks' = FALSE
    /\ WritersAreDone /\ Sends
    /\ UNCHANGED <<fuse, disk, writer, flushing, left, before, pending, at, totals,
                   fuse_dirty, syncer, missed>>

Finish ==
    /\ pc = "idle" /\ Goes("flush") /\ flushing' = TRUE /\ full' = FALSE
    /\ WritersAreDone
    /\ UNCHANGED <<fuse, disk, writer, tracks, left, before, pending, at, totals,
                   fuse_dirty, syncer, missed>>

\* Mutant: the end does not wait for a flush that runs.
FlushLoop_NoWait ==
    /\ pc = "flush"
    /\ IF pending = <<>> THEN Goes("sync") /\ at' = at
                         ELSE Goes("confirm") /\ at' = 1
    /\ UNCHANGED <<fuse, disk, writer, tracks, window, left, before, seen, pending,
                   totals, fuse_dirty, syncer, missed>>

FlushLoop ==
    /\ pc = "flush"
    /\ IF pending = <<>> THEN Goes("wait") /\ at' = at
                         ELSE Goes("confirm") /\ at' = 1
    /\ UNCHANGED <<fuse, disk, writer, tracks, window, left, before, seen, pending,
                   totals, fuse_dirty, syncer, missed>>

WaitSyncer(from, to) ==
    /\ pc = from /\ Goes(to)
    /\ syncer \in {"none", "flushed"} /\ syncer' = "none"

\* wait_syncer: a push may still run.
WaitPush ==
    /\ WaitSyncer("wait", "sync")
    /\ UNCHANGED <<fuse, disk, writer, tracks, window, left, book, missed>>

FinalSync ==
    /\ pc = "sync" /\ Goes("rewait")
    /\ StartSyncer(syncer)
    /\ missed' = (missed \/ syncer' = "none")
    /\ UNCHANGED <<fuse, disk, writer, tracks, window, left, book>>

\* The end of tp_finish, and the last %100 that closes the window.
Report ==
    /\ WaitSyncer("rewait", "done")
    /\ done' = Total /\ logical' = 0 /\ full' = TRUE
    /\ UNCHANGED <<fuse, disk, writer, tracks, flushing, left, before, seen, pending,
                   at, counted, strayed, fuse_dirty, missed>>

----------------------------------------------------------------------------

Command ==
    \/ \E p \in Paths : Create(p) \/ Truncate(p) \/ Extend(p) \/ Restamp(p)
                        \/ MoveIn(p)
    \/ \E p, q \in Paths : Rename(p, q)
    \/ Exit

Child ==
    \/ TrackBegin \/ ScanEnds \/ ConfirmOne \/ PassEnds \/ Service \/ Poll
    \/ \E p \in Paths : LastScan(p)
    \/ TrackEnd \/ FlushLoop \/ WaitPush \/ FinalSync \/ Report

Syncer == SyncerFlushes \/ SyncerFails

Over == pc = "done" /\ UNCHANGED vars

Next ==
    \/ Command \/ Child \/ Syncer \/ Start \/ Finish \/ Over
    \/ \E p \in Paths : Scan(p) \/ Delete(p)

\* The child and the flusher run on once the operation is at its end.
Fairness == WF_vars(Child) /\ WF_vars(Syncer)

Spec == Init /\ [][Next]_vars /\ Fairness

----------------------------------------------------------------------------
(* Properties *)

\* The states the variables of transfer_progress.c are in.
TypeOK ==
    /\ fuse \in BOOLEAN /\ names \in [Paths -> Inodes \cup {None}]
    /\ file \in [Inodes -> File] /\ meta \in BOOLEAN
    /\ command \in BOOLEAN /\ started \in 0..MaxCommands
    /\ changes \in 0..MaxChanges
    /\ tracks \in BOOLEAN /\ flushing \in BOOLEAN /\ left \subseteq Paths
    /\ full \in BOOLEAN
    /\ before \in [Inodes -> States \cup {None}]
    /\ seen \in [Inodes -> Entry \cup {NoEntry}]
    /\ pending \in Seq(Inodes) /\ at \in Nat
    /\ done \in Nat /\ logical \in Nat /\ fuse_dirty \in BOOLEAN
    /\ syncer \in {"none", "runs", "flushed"}
    /\ fresh \subseteq Inodes /\ missed \in BOOLEAN
    /\ counted \in [Inodes -> 0..MaxSize] /\ strayed \in BOOLEAN

OnDevice == ~meta /\ \A i \in Named : file[i].dirty = {}

\* When tp_finish has returned, and the window is let close, everything the
\* operation wrote is on the device, whatever was confirmed, overwritten or
\* pushed before, unless the last flush itself did not happen; and from the time
\* tp_finish has begun, the bar shows 100% only then.
SafeToRemove == (pc = "done" \/ (flushing /\ full)) /\ ~missed => OnDevice

\* "100% means safe to remove" (transfer_progress.h:13), "100% only once the
\* operation is really finished" (abox.c:1010).  The code fails this: tp_send
\* tells all of the bytes before the flush has begun.
HundredIsSafe == full /\ ~missed => OnDevice

\* the chunks that a number for each file stands for
Chunks(n) == UNION {{i} \X (1..n[i]) : i \in Inodes}
Confirmed == Chunks([i \in Inodes |-> seen[i].confirmed])

\* What the bar counts is what the entries have confirmed, however often a file was
\* written again, shorter or longer; and that is what was counted last of each very
\* file, until another file takes the path of one and is confirmed in its place.
CountedOnce ==
    pc # "done" =>
        /\ done + logical = Cardinality(Confirmed)
        /\ ~strayed => Confirmed = Chunks(counted)

\* "'done' only counts bytes confirmed on the destination device" (abox.c:980),
\* so no chunk twice.  The code fails this: confirm_one does not look whether the
\* path still names the entry's inode.
NoneTwice == pc # "done" => done + logical <= Cardinality(Chunks(counted))

\* Between two commands, and when the flush begins, every file the command
\* wrote is known, and one that needs no confirming any more was counted
\* whole; what pending holds and what the entries say agree.
NothingLeftBehind ==
    /\ pc \in {"idle", "flush"} =>
          \A i \in Named :
             /\ i \in fresh => seen[i] # NoEntry \/ before[i] = State(i)
             /\ seen[i] # NoEntry /\ ~seen[i].in_pending =>
                   seen[i].confirmed >= file[i].size
    /\ \A i \in Inodes : seen[i].in_pending <=> Contains(pending, i)

\* Once flushing begins the end comes: files that are gone, unreadable or
\* replaced, and flushes that fail, do not keep the window waiting.
Ends == flushing ~> pc = "done"
=============================================================================
