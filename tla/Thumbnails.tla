----------------------------- MODULE Thumbnails -----------------------------
(***************************************************************************)
(* Thumbnails: the queue of each window (filer.c), the worker it forks for *)
(* each file (pixmaps.c) and the cache all windows share (fscache.c).  The *)
(* handlers of the main loop are atomic; the workers run beside them.      *)
(***************************************************************************)
EXTENDS Naturals, SequencesExt, FiniteSetsExt

CONSTANTS
    Files, Dirs, DirOf,   \* DirOf[f]: the directory a file is in
    Windows, Slots,       \* Slots: workers that can run at once (bound)
    None, Closed,
    Marked,               \* in the cache without an image
    MaxVersion, MaxMoves  \* bounds: versions of a file, steps of the user

Images == 0 .. MaxVersion
Workers == [for : Windows, file : Files, read : Images \cup {None}, done : BOOLEAN]
Entries == [at : Images, image : Images \cup {Marked}]
Thumbs == [label : Images, image : Images]

ASSUME ThumbnailsAssumption ==
    /\ IsFiniteSet(Files) /\ DirOf \in [Files -> Dirs]
    /\ {None, Closed} \cap Dirs = {} /\ None # Closed
    /\ MaxVersion \in Nat /\ MaxMoves \in Nat
    /\ None \notin Workers \cup Entries \cup Thumbs
    /\ None \notin Nat /\ Marked \notin Nat /\ None # Marked

VARIABLES
    version,   \* [Files -> contents and times of the file]
    known,     \* [Files -> the version the Directory has examined, None at first]
    dirty,     \* directories that will be scanned again
    scanning,  \* directories being scanned
    cache,     \* pixmap_cache: [Files -> None, or an image for a version]
    disk,      \* ~/.cache/thumbnails: [Files -> None, or an image labelled with a version]
    at,        \* [Windows -> the directory it shows, None before it is opened]
    shows,     \* show_thumbs
    queue,     \* thumb_queue
    bar,       \* thumb_bar is visible
    idle,      \* filer_next_thumb_real sources that are queued
    view,      \* [Windows -> [Files -> the thumbnail shown, None for the icon of the type]]
    worker,    \* [Slots -> None, or a forked child]
    moves      \* bound

store == <<cache, disk>>
lists == <<queue, bar, idle>>
folder == <<version, known, dirty, scanning>>
vars == <<version, known, dirty, scanning, cache, disk, at, shows, queue, bar, idle,
          view, worker, moves>>

Of(d) == {f \in Files : DirOf[f] = d}
Running(w) == {s \in Slots : worker[s] # None /\ worker[s].for = w}
Move == moves < MaxMoves /\ moves' = moves + 1

Init ==
    /\ version = [f \in Files |-> 0] /\ known = [f \in Files |-> None]
    /\ dirty = Dirs /\ scanning = {}
    /\ cache = [f \in Files |-> None] /\ disk = [f \in Files |-> None]
    /\ at = [w \in Windows |-> None] /\ shows = [w \in Windows |-> TRUE]
    /\ queue = [w \in Windows |-> <<>>] /\ bar = [w \in Windows |-> FALSE]
    /\ idle = [w \in Windows |-> 0] /\ view = [w \in Windows |-> [f \in Files |-> None]]
    /\ worker = [s \in Slots |-> None] /\ moves = 0

-----------------------------------------------------------------------------
(* The cache: an entry has the times of the file it was made for.          *)

UpToDate(f) == cache[f] # None /\ cache[f].at = version[f]

Image(c, f) ==
    IF c[f] # None /\ c[f].at = version[f] /\ c[f].image # Marked THEN c[f].image ELSE None

Entry(f, i) == [cache EXCEPT ![f] = [at |-> version[f], image |-> i]]

Insert(f, i) == IF cache[f] = None THEN cache ELSE [cache EXCEPT ![f].image = i]

\* A thumbnail counts if it has the time of the file, or one less than 5 s ago.
Usable(f, recent) == disk[f] # None /\ (disk[f].label = version[f] \/ recent)

\* What the windows show once the items fs have been drawn again.
Redrawn(c, fs) ==
    [w \in Windows |-> [f \in Files |->
        IF f \notin fs \/ DirOf[f] # at[w] THEN view[w][f]
        ELSE IF shows[w] THEN Image(c, f) ELSE None]]

-----------------------------------------------------------------------------
(* The queues.                                                             *)

\* mutant: a file with an entry is left out, be it of an older version
Wanted_Found(w, d) ==
    LET new == {f \in Of(d) : cache[f] = None /\ ~Contains(queue[w], f)} IN
    IF shows[w] THEN queue[w] \o SetToSeq(new) ELSE queue[w]

\* filer_create_thumb for each file without an up-to-date entry.
Wanted(w, d) ==
    LET new == {f \in Of(d) : ~UpToDate(f) /\ ~Contains(queue[w], f)} IN
    IF shows[w] THEN queue[w] \o SetToSeq(new) ELSE queue[w]

\* A list that is worked off already shows its bar, and gets no second source.
Starts(ws, q) == {w \in ws : q[w] # <<>> /\ ~bar[w]}

CreateThumbs(ws, d) ==
    LET q == [w \in Windows |-> IF w \in ws THEN Wanted(w, d) ELSE queue[w]] IN
    /\ queue' = q
    /\ bar' = [w \in Windows |-> bar[w] \/ w \in Starts(ws, q)]
    /\ idle' = [w \in Windows |-> idle[w] + (IF w \in Starts(ws, q) THEN 1 ELSE 0)]

\* mutant: the list goes, the bar stays
Cancel_Bar(w) == queue' = [queue EXCEPT ![w] = <<>>] /\ UNCHANGED bar

Cancel(w) ==
    /\ queue' = [queue EXCEPT ![w] = <<>>]
    /\ bar' = [bar EXCEPT ![w] = FALSE]

-----------------------------------------------------------------------------
(* The files and their directory: every change is followed by a scan.      *)

Change(f) ==
    /\ version[f] < MaxVersion
    /\ version' = [version EXCEPT ![f] = @ + 1]
    /\ dirty' = dirty \cup {DirOf[f]}
    /\ UNCHANGED <<known, scanning, store, at, shows, lists, view, worker, moves>>

StartScan(d) ==
    /\ d \in dirty \ scanning /\ \E w \in Windows : at[w] = d
    /\ dirty' = dirty \ {d} /\ scanning' = scanning \cup {d}
    /\ UNCHANGED <<version, known, store, at, shows, lists, view, worker, moves>>

EndScan(d) ==
    /\ d \in scanning
    /\ scanning' = scanning \ {d}
    /\ known' = [f \in Files |-> IF DirOf[f] = d THEN version[f] ELSE known[f]]
    /\ view' = Redrawn(cache, {f \in Of(d) : known[f] # version[f]})
    /\ CreateThumbs({w \in Windows : at[w] = d}, d)
    /\ UNCHANGED <<version, dirty, store, at, shows, worker, moves>>

-----------------------------------------------------------------------------
(* The user.                                                               *)

\* filer_opendir or filer_change_to: DIR_END_SCAN comes at once if nothing is to be scanned.
ChangeTo(w, d) ==
    /\ Move /\ at[w] \notin {d, Closed}
    /\ at' = [at EXCEPT ![w] = d]
    /\ view' = [view EXCEPT ![w] = [f \in Files |->
            IF DirOf[f] = d /\ known[f] # None /\ shows[w] THEN Image(cache, f) ELSE None]]
    /\ dirty' = IF d \in scanning THEN dirty ELSE dirty \ {d}
    /\ scanning' = IF d \in dirty THEN scanning \cup {d} ELSE scanning
    /\ LET q == IF d \in dirty \cup scanning \/ ~shows[w] THEN <<>>
                ELSE SetToSeq({f \in Of(d) : ~UpToDate(f)}) IN
        /\ queue' = [queue EXCEPT ![w] = q]
        /\ bar' = [bar EXCEPT ![w] = q # <<>>]
        /\ idle' = [idle EXCEPT ![w] = @ + (IF q # <<>> THEN 1 ELSE 0)]
    /\ UNCHANGED <<version, known, store, shows, worker>>

SetThumbs(w) ==
    /\ Move /\ at[w] \in Dirs
    /\ shows' = [shows EXCEPT ![w] = ~@]
    /\ view' = [view EXCEPT ![w] = [f \in Files |->
            IF DirOf[f] = at[w] /\ ~shows[w] THEN Image(cache, f) ELSE None]]
    /\ IF shows[w] THEN Cancel(w) /\ UNCHANGED idle
       ELSE LET q == SetToSeq({f \in Of(at[w]) : known[f] # None /\ ~UpToDate(f)})
                go == q # <<>> /\ at[w] \notin scanning /\ ~bar[w] IN
            /\ queue' = [queue EXCEPT ![w] = q]
            /\ bar' = [bar EXCEPT ![w] = @ \/ go]
            /\ idle' = [idle EXCEPT ![w] = @ + (IF go THEN 1 ELSE 0)]
    /\ UNCHANGED <<folder, store, at, worker>>

Close(w) ==
    /\ Move /\ at[w] \in Dirs
    /\ at' = [at EXCEPT ![w] = Closed]
    /\ queue' = [queue EXCEPT ![w] = <<>>]
    /\ bar' = [bar EXCEPT ![w] = FALSE]
    /\ view' = [view EXCEPT ![w] = [f \in Files |-> None]]
    /\ UNCHANGED <<folder, store, shows, idle, worker>>

InUse(f) ==
    /\ cache[f] # None
    /\ \E w \in Windows : view[w][f] # None /\ view[w][f] = cache[f].image

\* Delete thumbnails: the files, the entries not in use, and a refresh of all windows.
DeleteThumbs ==
    /\ Move
    /\ disk' = [f \in Files |-> None]
    /\ \E recent \in SUBSET Files :
        cache' = [f \in Files |-> IF InUse(f) \/ f \in recent THEN cache[f] ELSE None]
    /\ dirty' = dirty \cup {d \in Dirs \ scanning : \E w \in Windows : at[w] = d}
    /\ UNCHANGED <<version, known, scanning, at, shows, lists, view, worker>>

\* The timer drops what was not looked up for 20 minutes; no worker takes that long.
Purge(f) ==
    /\ Move /\ cache[f] # None /\ ~InUse(f)
    /\ ~\E s \in Slots : worker[s] # None /\ worker[s].file = f
    /\ cache' = [cache EXCEPT ![f] = None]
    /\ UNCHANGED <<folder, disk, at, shows, lists, view, worker>>

-----------------------------------------------------------------------------
(* Working off a queue: filer_next_thumb_real and pixmap_background_thumb. *)

FreeSlots == {s \in Slots : worker[s] = None}

Fork(w, f) ==
    /\ FreeSlots # {}
    /\ worker' = [worker EXCEPT ![CHOOSE s \in FreeSlots : TRUE] =
            [for |-> w, file |-> f, read |-> None, done |-> FALSE]]
    /\ idle' = [idle EXCEPT ![w] = @ - 1]

NothingLeft(w) ==
    /\ idle[w] > 0 /\ queue[w] = <<>>
    /\ idle' = [idle EXCEPT ![w] = @ - 1]
    /\ Cancel(w)
    /\ UNCHANGED <<folder, store, at, shows, view, worker, moves>>

NextThumb(w) ==
    /\ idle[w] > 0 /\ queue[w] # <<>>
    /\ queue' = [queue EXCEPT ![w] = Tail(@)]
    /\ LET f == Head(queue[w]) IN
        \/ /\ Image(cache, f) # None
           /\ view' = Redrawn(cache, {f})
           /\ UNCHANGED <<cache, idle, worker>>
        \/ /\ Image(cache, f) = None
           /\ \E recent \in BOOLEAN : Usable(f, recent)
           /\ cache' = Entry(f, disk[f].image)
           /\ view' = Redrawn(cache', {f})
           /\ UNCHANGED <<idle, worker>>
        \/ /\ UpToDate(f) /\ Image(cache, f) = None /\ ~Usable(f, FALSE)
           /\ UNCHANGED <<cache, view, idle, worker>>
        \/ /\ ~UpToDate(f) /\ ~Usable(f, FALSE)
           /\ cache' = Entry(f, Marked)
           /\ Fork(w, f) \/ UNCHANGED <<worker, idle>>
           /\ UNCHANGED view
    /\ UNCHANGED <<folder, disk, at, shows, bar, moves>>

-----------------------------------------------------------------------------
(* A worker, and the callback when it was reaped.                          *)

Load(s) ==
    /\ worker[s] # None /\ worker[s].read = None /\ ~worker[s].done
    /\ worker' = [worker EXCEPT ![s].read = version[worker[s].file]]
    /\ UNCHANGED <<folder, store, at, shows, lists, view, moves>>

\* The label is the time the file has now, not the one it had when it was read.
Save(s) ==
    /\ worker[s] # None /\ worker[s].read # None /\ ~worker[s].done
    /\ worker' = [worker EXCEPT ![s].done = TRUE]
    /\ LET f == worker[s].file IN
        disk' = [disk EXCEPT ![f] = [label |-> version[f], image |-> worker[s].read]]
    /\ UNCHANGED <<folder, cache, at, shows, lists, view, moves>>

\* ffmpeg's worker removes the old file too.
Fail(s) ==
    /\ worker[s] # None /\ worker[s].read = None /\ ~worker[s].done
    /\ worker' = [worker EXCEPT ![s].done = TRUE]
    /\ disk' \in {disk, [disk EXCEPT ![worker[s].file] = None]}
    /\ UNCHANGED <<folder, cache, at, shows, lists, view, moves>>

Done(s) ==
    /\ worker[s] # None /\ worker[s].done
    /\ LET f == worker[s].file IN
        \/ /\ \E recent \in BOOLEAN : Usable(f, recent)
           /\ cache' = Insert(f, disk[f].image)
           /\ view' = Redrawn(cache', {f})
        \/ ~Usable(f, FALSE) /\ UNCHANGED <<cache, view>>
    /\ worker' = [worker EXCEPT ![s] = None]
    /\ idle' = [idle EXCEPT ![worker[s].for] = @ + 1]
    /\ UNCHANGED <<folder, disk, at, shows, queue, bar, moves>>

-----------------------------------------------------------------------------

Next ==
    \/ \E f \in Files : Change(f) \/ Purge(f)
    \/ \E d \in Dirs : StartScan(d) \/ EndScan(d)
    \/ \E w \in Windows :
        \/ \E d \in Dirs : ChangeTo(w, d)
        \/ SetThumbs(w) \/ Close(w) \/ NothingLeft(w) \/ NextThumb(w)
    \/ DeleteThumbs
    \/ \E s \in Slots : Load(s) \/ Save(s) \/ Fail(s) \/ Done(s)

Spec == Init /\ [][Next]_vars

-----------------------------------------------------------------------------
(* Properties.                                                             *)

TypeOK ==
    /\ version \in [Files -> Images] /\ known \in [Files -> Images \cup {None}]
    /\ dirty \subseteq Dirs /\ scanning \subseteq Dirs
    /\ cache \in [Files -> Entries \cup {None}]
    /\ disk \in [Files -> Thumbs \cup {None}]
    /\ at \in [Windows -> Dirs \cup {None, Closed}] /\ shows \in [Windows -> BOOLEAN]
    /\ queue \in [Windows -> Seq(Files)] /\ bar \in [Windows -> BOOLEAN]
    /\ idle \in [Windows -> Nat] /\ view \in [Windows -> [Files -> Images \cup {None}]]
    /\ worker \in [Slots -> Workers \cup {None}]
    /\ moves \in 0 .. MaxMoves

\* A list of thumbnails to be made is worked off by someone: outside a scan, a window
\* with a queue has an idle source or a worker that will queue one.  The bar alone
\* decides whether a source is started (start_thumb_scanning).
QueueIsServed ==
    \A w \in Windows :
        queue[w] # <<>> /\ at[w] \notin scanning => idle[w] > 0 \/ Running(w) # {}

Quiet(w) ==
    /\ at[w] \in Dirs /\ shows[w] /\ at[w] \notin dirty \cup scanning
    /\ \A v \in Windows : queue[v] = <<>> /\ idle[v] = 0 /\ Running(v) = {}

\* When everything has been worked off, a window shows the thumbnail of each file whose
\* current one is in the thumbnail directory, whoever made it and whatever was opened,
\* toggled, deleted or changed meanwhile (filer_create_thumbs, thumbnail_child_done).
QuietMeansShown ==
    \A w \in Windows : Quiet(w) =>
        \A f \in Of(at[w]) : Usable(f, FALSE) => view[w][f] = disk[f].image

\* What a window shows when everything has been worked off is a picture of the file as
\* it is: "Check if we have an up-to-date thumbnail" (get_thumbnail_for, pixmaps.c:913).
ThumbIsUpToDate ==
    \A w \in Windows : Quiet(w) =>
        \A f \in Of(at[w]) : view[w][f] # None => view[w][f] = version[f]
=============================================================================
