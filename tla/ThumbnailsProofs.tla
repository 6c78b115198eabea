------------------------- MODULE ThumbnailsProofs -------------------------
(***************************************************************************)
(* A queue of thumbnails is always worked off by somebody, and then what   *)
(* the disk has is shown: for any files, windows and workers.              *)
(***************************************************************************)
EXTENDS Thumbnails, FiniteSetTheorems, TLAPS

\* Of the types only what the argument needs.
Types ==
    /\ at \in [Windows -> Dirs \cup {None, Closed}]
    /\ queue \in [Windows -> Seq(Files)] /\ bar \in [Windows -> BOOLEAN]
    /\ idle \in [Windows -> Nat]

WorkersOK == version \in [Files -> Images] /\ worker \in [Slots -> Workers \cup {None}]

\* start_thumb_scanning trusts the bar: where it is visible somebody is at work.
BarMeansWork == \A w \in Windows : bar[w] => idle[w] > 0 \/ Running(w) # {}

\* A queue outside a scan shows its bar.
QueueShowsBar ==
    \A w \in Windows : queue[w] # <<>> /\ at[w] \notin scanning => bar[w]

IInv == Types /\ WorkersOK /\ BarMeansWork /\ QueueShowsBar

LEMMA SetToSeqIsSeq == ASSUME NEW S \in SUBSET Files PROVE SetToSeq(S) \in Seq(Files)
<1> DEFINE n == Cardinality(S)
<1>1. IsFiniteSet(S)
  BY ThumbnailsAssumption, FS_Subset
<1>2. n \in Nat /\ ExistsBijection(1 .. n, S)
  BY <1>1, FS_CardinalityType
<1>3. PICK f \in [1 .. n -> S] : IsInjective(f)
  BY <1>2 DEF ExistsBijection, Bijection, Injection, IsInjective
<1>4. SetToSeq(S) \in [1 .. n -> S]
  BY <1>3 DEF SetToSeq
<1> QED BY <1>2, <1>4

LEMMA WantedIsSeq ==
    ASSUME Types, NEW w \in Windows, NEW d PROVE Wanted(w, d) \in Seq(Files)
<1> DEFINE new == {f \in Of(d) : ~UpToDate(f) /\ ~Contains(queue[w], f)}
<1>1. SetToSeq(new) \in Seq(Files)
  BY SetToSeqIsSeq DEF Of
<1>2. queue[w] \in Seq(Files)
  BY DEF Types
<1> QED BY <1>1, <1>2 DEF Wanted

LEMMA InitIInv == Init => IInv
BY ThumbnailsAssumption
DEF Init, IInv, Types, WorkersOK, BarMeansWork, QueueShowsBar, Images

LEMMA NextIInv == IInv /\ [Next]_vars => IInv'
<1> SUFFICES ASSUME IInv, [Next]_vars PROVE IInv'
  OBVIOUS
<1> USE DEF IInv, Types, BarMeansWork, QueueShowsBar, Running
<1>0. ASSUME UNCHANGED <<at, queue, bar, idle, worker>>, scanning \subseteq scanning',
             WorkersOK'
      PROVE IInv'
  BY <1>0
<1>a. ASSUME UNCHANGED <<version, worker>> PROVE WorkersOK'
  BY <1>a DEF WorkersOK
<1>1. CASE UNCHANGED vars
  BY <1>0, <1>1, <1>a DEF vars
<1>2. ASSUME NEW f \in Files, Change(f) \/ Purge(f) PROVE IInv'
  <2>1. UNCHANGED <<at, queue, bar, idle, worker, scanning>>
    BY <1>2 DEF Change, Purge, lists, folder
  <2>2. version' \in [Files -> Images]
    BY <1>2, ThumbnailsAssumption DEF Change, Purge, folder, Images, WorkersOK
  <2> QED BY <1>0, <2>1, <2>2 DEF WorkersOK
<1>3. ASSUME NEW d \in Dirs, StartScan(d) PROVE IInv'
  BY <1>0, <1>3, <1>a DEF StartScan, lists
<1>4. ASSUME NEW d \in Dirs, EndScan(d) PROVE IInv'
  <2> DEFINE ws == {w \in Windows : at[w] = d}
             q == [w \in Windows |-> IF w \in ws THEN Wanted(w, d) ELSE queue[w]]
  <2>1. queue' = q
    BY <1>4 DEF EndScan, CreateThumbs
  <2>2. bar' = [w \in Windows |-> bar[w] \/ w \in Starts(ws, q)]
    BY <1>4 DEF EndScan, CreateThumbs
  <2>3. idle' = [w \in Windows |-> idle[w] + (IF w \in Starts(ws, q) THEN 1 ELSE 0)]
    BY <1>4 DEF EndScan, CreateThumbs
  <2>4. /\ at' = at /\ worker' = worker /\ scanning' = scanning \ {d} /\ WorkersOK'
    BY <1>4, <1>a DEF EndScan
  <2>5. queue' \in [Windows -> Seq(Files)]
    <3>1. \A w \in Windows : Wanted(w, d) \in Seq(Files)
      BY WantedIsSeq
    <3> QED BY <2>1, <3>1
  <2>6. Types'
    BY <2>2, <2>3, <2>4, <2>5
  <2>7. BarMeansWork'
    <3> SUFFICES ASSUME NEW w \in Windows, bar'[w] PROVE idle'[w] > 0 \/ Running(w)' # {}
      OBVIOUS
    <3>1. CASE w \in Starts(ws, q)
      BY <2>3, <3>1
    <3>2. CASE w \notin Starts(ws, q)
      <4>1. bar[w] /\ idle'[w] = idle[w]
        BY <2>2, <2>3, <3>2
      <4> QED BY <2>4, <4>1
    <3> QED BY <3>1, <3>2
  <2>8. QueueShowsBar'
    <3> SUFFICES ASSUME NEW w \in Windows, queue'[w] # <<>>, at'[w] \notin scanning'
                 PROVE bar'[w]
      OBVIOUS
    <3>1. CASE at[w] = d
      BY <2>1, <2>2, <3>1 DEF Starts
    <3>2. CASE at[w] # d
      BY <2>1, <2>2, <2>4, <3>2
    <3> QED BY <3>1, <3>2
  <2> QED BY <2>4, <2>6, <2>7, <2>8
<1>5. ASSUME NEW w \in Windows, NEW d \in Dirs, ChangeTo(w, d) PROVE IInv'
  <2> DEFINE q == IF d \in dirty \cup scanning \/ ~shows[w] THEN <<>>
                  ELSE SetToSeq({f \in Of(d) : ~UpToDate(f)})
  <2>1. /\ queue' = [queue EXCEPT ![w] = q]
        /\ bar' = [bar EXCEPT ![w] = q # <<>>]
        /\ idle' = [idle EXCEPT ![w] = @ + (IF q # <<>> THEN 1 ELSE 0)]
        /\ at' = [at EXCEPT ![w] = d] /\ worker' = worker
        /\ scanning \subseteq scanning' /\ WorkersOK'
    BY <1>5, <1>a DEF ChangeTo
  <2>2. q \in Seq(Files)
    BY SetToSeqIsSeq DEF Of
  <2> HIDE DEF q
  <2>3. Types'
    BY <2>1, <2>2
  <2>4. BarMeansWork'
    BY <2>1
  <2>5. QueueShowsBar'
    BY <2>1
  <2> QED BY <2>1, <2>3, <2>4, <2>5
<1>6. ASSUME NEW w \in Windows, SetThumbs(w) PROVE IInv'
  <2> DEFINE q == SetToSeq({f \in Of(at[w]) : known[f] # None /\ ~UpToDate(f)})
             go == q # <<>> /\ at[w] \notin scanning /\ ~bar[w]
  <2>1. /\ at' = at /\ worker' = worker /\ scanning' = scanning /\ WorkersOK'
    BY <1>6, <1>a DEF SetThumbs, folder
  <2>2. CASE shows[w]
    <3>1. /\ queue' = [queue EXCEPT ![w] = <<>>] /\ bar' = [bar EXCEPT ![w] = FALSE]
          /\ idle' = idle
      BY <1>6, <2>2 DEF SetThumbs, Cancel
    <3> QED BY <2>1, <3>1
  <2>3. CASE ~shows[w]
    <3>1. /\ queue' = [queue EXCEPT ![w] = q]
          /\ bar' = [bar EXCEPT ![w] = @ \/ go]
          /\ idle' = [idle EXCEPT ![w] = @ + (IF go THEN 1 ELSE 0)]
      BY <1>6, <2>3 DEF SetThumbs
    <3>2. q \in Seq(Files)
      BY SetToSeqIsSeq DEF Of
    <3> HIDE DEF q
    <3>3. Types'
      BY <2>1, <3>1, <3>2
    <3>4. BarMeansWork'
      BY <2>1, <3>1
    <3>5. QueueShowsBar'
      BY <2>1, <3>1
    <3> QED BY <2>1, <3>3, <3>4, <3>5
  <2> QED BY <2>2, <2>3
<1>7. ASSUME NEW w \in Windows, Close(w) PROVE IInv'
  <2>1. /\ at' = [at EXCEPT ![w] = Closed] /\ queue' = [queue EXCEPT ![w] = <<>>]
        /\ bar' = [bar EXCEPT ![w] = FALSE] /\ UNCHANGED <<idle, worker, scanning>>
        /\ WorkersOK'
    BY <1>7, <1>a DEF Close, folder
  <2>2. Types'
    BY <2>1
  <2>3. BarMeansWork'
    BY <2>1
  <2>4. QueueShowsBar'
    BY <2>1
  <2> QED BY <2>1, <2>2, <2>3, <2>4
<1>8. ASSUME NEW w \in Windows, NothingLeft(w) PROVE IInv'
  BY <1>8, <1>a DEF NothingLeft, Cancel, folder
<1>9. ASSUME NEW w \in Windows, NextThumb(w) PROVE IInv'
  <2>1. /\ queue' = [queue EXCEPT ![w] = Tail(@)] /\ queue[w] # <<>> /\ idle[w] > 0
        /\ at' = at /\ bar' = bar /\ scanning' = scanning /\ version' = version
    BY <1>9 DEF NextThumb, folder
  <2>2. queue' \in [Windows -> Seq(Files)]
    BY <2>1
  <2>3. (worker' = worker /\ idle' = idle) \/ Fork(w, Head(queue[w]))
    BY <1>9 DEF NextThumb
  <2>4. CASE worker' = worker /\ idle' = idle
    BY <1>a, <2>1, <2>2, <2>4
  <2>5. CASE Fork(w, Head(queue[w]))
    <3> DEFINE s == CHOOSE s \in FreeSlots : TRUE
    <3>1. s \in Slots /\ worker[s] = None
      BY <2>5 DEF Fork, FreeSlots
    <3>2. /\ worker' = [worker EXCEPT ![s] =
                [for |-> w, file |-> Head(queue[w]), read |-> None, done |-> FALSE]]
          /\ idle' = [idle EXCEPT ![w] = @ - 1]
      BY <2>5 DEF Fork
    <3> HIDE DEF s
    <3>a. [for |-> w, file |-> Head(queue[w]), read |-> None, done |-> FALSE] \in Workers
      BY <2>1 DEF Workers
    <3>b. WorkersOK'
      BY <2>1, <3>2, <3>a DEF WorkersOK
    <3>3. s \in Running(w)'
      BY <3>1, <3>2, <3>a, ThumbnailsAssumption DEF WorkersOK
    <3>4. \A v \in Windows \ {w} : Running(v) \subseteq Running(v)'
      BY <3>1, <3>2 DEF WorkersOK
    <3>5. Types'
      BY <2>1, <2>2, <3>2
    <3>6. BarMeansWork'
      BY <2>1, <3>2, <3>3, <3>4
    <3> QED BY <2>1, <3>5, <3>6, <3>b
  <2> QED BY <2>3, <2>4, <2>5
<1>10. CASE DeleteThumbs
  BY <1>0, <1>10, <1>a DEF DeleteThumbs, lists
<1>11. ASSUME NEW s \in Slots, Load(s) \/ Save(s) \/ Fail(s) PROVE IInv'
  <2>1. UNCHANGED <<at, queue, bar, idle, scanning>> /\ worker[s] # None
    BY <1>11 DEF Load, Save, Fail, lists, folder
  <2>2. version' = version /\ version[worker[s].file] \in Images /\ worker[s] \in Workers
    BY <1>11, <2>1 DEF Load, Save, Fail, folder, WorkersOK, Workers
  <2> DEFINE r == [worker[s] EXCEPT !.read = version[worker[s].file]]
             t == [worker[s] EXCEPT !.done = TRUE]
  <2>3. r \in Workers /\ t \in Workers /\ r.for = worker[s].for /\ t.for = worker[s].for
    BY <2>2 DEF Workers
  <2>4. worker' = [worker EXCEPT ![s] = r] \/ worker' = [worker EXCEPT ![s] = t]
    BY <1>11 DEF Load, Save, Fail
  <2> HIDE DEF r, t
  <2>5. WorkersOK'
    BY <2>2, <2>3, <2>4 DEF WorkersOK
  <2>6. \A w \in Windows : Running(w) \subseteq Running(w)'
    BY <2>1, <2>3, <2>4, ThumbnailsAssumption DEF WorkersOK
  <2> QED BY <2>1, <2>5, <2>6
<1>12. ASSUME NEW s \in Slots, Done(s) PROVE IInv'
  <2> DEFINE w == worker[s].for
  <2>1. /\ UNCHANGED <<at, queue, bar, scanning, version>> /\ worker[s] # None
        /\ worker' = [worker EXCEPT ![s] = None] /\ idle' = [idle EXCEPT ![w] = @ + 1]
    BY <1>12 DEF Done, folder
  <2>2. w \in Windows /\ WorkersOK'
    BY <2>1 DEF Workers, WorkersOK
  <2>3. \A v \in Windows \ {w} : Running(v) \subseteq Running(v)'
    BY <2>1, <2>2 DEF WorkersOK
  <2> HIDE DEF w
  <2>4. Types'
    BY <2>1, <2>2
  <2>5. BarMeansWork'
    BY <2>1, <2>2, <2>3
  <2> QED BY <2>1, <2>2, <2>4, <2>5
<1> QED
  BY <1>1, <1>2, <1>3, <1>4, <1>5, <1>6, <1>7, <1>8, <1>9, <1>10, <1>11, <1>12 DEF Next

\* For any files, windows and workers, a queue outside a scan has an idle source or a
\* worker that will go on with it (start_thumb_scanning, filer_next_thumb_real).
THEOREM QueueIsServedHolds == Spec => []QueueIsServed
<1>1. IInv => QueueIsServed
  BY DEF IInv, BarMeansWork, QueueShowsBar, QueueIsServed
<1> QED BY <1>1, InitIInv, NextIInv, PTL DEF Spec

-----------------------------------------------------------------------------
(* What is shown when everything has been worked off.                       *)

Pictures ==
    /\ known \in [Files -> Images \cup {None}]
    /\ dirty \subseteq Dirs /\ scanning \subseteq Dirs
    /\ cache \in [Files -> Entries \cup {None}]
    /\ disk \in [Files -> Thumbs \cup {None}]
    /\ shows \in [Windows -> BOOLEAN]
    /\ view \in [Windows -> [Files -> Images \cup {None}]]
    /\ moves \in 0 .. MaxMoves

Typed == Types /\ WorkersOK /\ Pictures

Busy(f) == \E s \in Slots : worker[s] # None /\ worker[s].file = f

\* The thumbnail directory has the current picture of the file.
Current(f) == disk[f] # None /\ disk[f].label = version[f]

Shows(w, f) == at[w] = DirOf[f] /\ shows[w]

Scanned(f) == DirOf[f] \notin dirty \cup scanning

KnownOK == \A f \in Files : Scanned(f) => known[f] = version[f]

\* No thumbnail is labelled with a version still to come.
LabelOK(f) == disk[f] # None => disk[f].label <= version[f]

\* An up-to-date entry is the thumbnail on disk, unless a worker will tell.
CacheOK(f) ==
    UpToDate(f) /\ Current(f) => cache[f].image = disk[f].image \/ Busy(f)

\* A window shows it, unless something is still to come for the file.
ViewOK(w, f) ==
    Shows(w, f) /\ UpToDate(f) /\ Current(f) =>
        \/ view[w][f] = disk[f].image
        \/ Busy(f) \/ Contains(queue[w], f) \/ known[f] # version[f]

\* A file without an entry is queued by the window itself, or it was purged when
\* there was nothing to be shown.
QueueOK(w, f) ==
    Shows(w, f) /\ Scanned(f) /\ ~UpToDate(f) =>
        Contains(queue[w], f) \/ (~Current(f) /\ ~Busy(f))

FileOK(f) == LabelOK(f) /\ CacheOK(f) /\ \A w \in Windows : ViewOK(w, f) /\ QueueOK(w, f)

Good == KnownOK /\ \A f \in Files : FileOK(f)

LEMMA Constants ==
    /\ None \notin Images /\ Marked \notin Images /\ None # Marked /\ None \notin Entries
    /\ \A f \in Files : DirOf[f] \in Dirs
    /\ None \notin Dirs /\ Closed \notin Dirs
  BY ThumbnailsAssumption DEF Images

LEMMA UsableIsCurrent == \A f : Usable(f, FALSE) <=> Current(f)
  BY DEF Usable, Current

LEMMA InSetToSeq ==
    ASSUME NEW S \in SUBSET Files, NEW f \in S PROVE Contains(SetToSeq(S), f)
<1> DEFINE n == Cardinality(S)
           q == SetToSeq(S)
<1>1. IsFiniteSet(S)
  BY ThumbnailsAssumption, FS_Subset
<1>2. n \in Nat /\ ExistsBijection(1 .. n, S)
  BY <1>1, FS_CardinalityType
<1>3. PICK g \in [1 .. n -> S] : IsInjective(g)
  BY <1>2 DEF ExistsBijection, Bijection, Injection, IsInjective
<1>4. q \in [1 .. n -> S] /\ IsInjective(q)
  BY <1>3 DEF SetToSeq
<1> HIDE DEF q, n
<1>5. q \in Injection(1 .. n, S)
  BY <1>4 DEF Injection
<1>6. Cardinality(1 .. n) = n
  BY <1>2, FS_Interval
<1>7. q \in Surjection(1 .. n, S)
  BY <1>1, <1>5, <1>6, FS_Injection DEF n
<1>8. PICK i \in 1 .. n : q[i] = f
  BY <1>7 DEF Surjection
<1>9. Len(q) = n
  BY <1>2, <1>4
<1>10. QED
  BY <1>8, <1>9 DEF Contains, q

LEMMA InConcat ==
    ASSUME NEW s \in Seq(Files), NEW t \in Seq(Files), NEW f,
           Contains(s, f) \/ Contains(t, f)
    PROVE  Contains(s \o t, f)
<1>1. CASE Contains(s, f)
  <2>1. PICK i \in 1 .. Len(s) : s[i] = f
    BY <1>1 DEF Contains
  <2>2. (s \o t)[i] = f /\ i \in 1 .. Len(s \o t)
    BY <2>1
  <2>3. QED
    BY <2>2 DEF Contains
<1>2. CASE Contains(t, f)
  <2>1. PICK i \in 1 .. Len(t) : t[i] = f
    BY <1>2 DEF Contains
  <2>2. (s \o t)[Len(s) + i] = f /\ Len(s) + i \in 1 .. Len(s \o t)
    BY <2>1
  <2>3. QED
    BY <2>2 DEF Contains
<1>3. QED
  BY <1>1, <1>2

LEMMA InTail ==
    ASSUME NEW s \in Seq(Files), s # <<>>, NEW f, Contains(s, f), f # Head(s)
    PROVE  Contains(Tail(s), f)
<1>1. PICK i \in 1 .. Len(s) : s[i] = f
  BY DEF Contains
<1>2. i # 1
  BY <1>1
<1>3. Tail(s)[i - 1] = f /\ i - 1 \in 1 .. Len(Tail(s))
  BY <1>1, <1>2
<1>4. QED
  BY <1>3 DEF Contains

\* What a window shows of an item that was drawn again, and of the others.
LEMMA RedrawnShows ==
    ASSUME Typed, NEW c, NEW fs, view' = Redrawn(c, fs), NEW w \in Windows, NEW f \in Files
    PROVE  /\ f \notin fs => view'[w][f] = view[w][f]
           /\ f \in fs /\ Shows(w, f) => view'[w][f] = Image(c, f)
  BY DEF Redrawn, Shows, Typed, Pictures

LEMMA RedrawnType ==
    ASSUME Typed, NEW c \in [Files -> Entries \cup {None}], NEW fs
    PROVE  Redrawn(c, fs) \in [Windows -> [Files -> Images \cup {None}]]
<1>1. ASSUME NEW f \in Files PROVE Image(c, f) \in Images \cup {None}
  <2>1. c[f] # None => c[f].image \in Images \cup {Marked}
    BY DEF Entries
  <2>2. QED
    BY <2>1 DEF Image
<1>2. \A w \in Windows : \A f \in Files : view[w][f] \in Images \cup {None}
  BY DEF Typed, Pictures
<1>3. QED
  BY <1>1, <1>2 DEF Redrawn

LEMMA PicturesInit == Init => Pictures
  BY ThumbnailsAssumption DEF Init, Pictures, Images

LEMMA PicturesStep == IInv /\ Pictures /\ [Next]_vars => Pictures'
<1> SUFFICES ASSUME Typed, [Next]_vars PROVE Pictures'
  BY DEF IInv, Typed
<1> USE DEF Entries, Thumbs
<1>0. /\ moves' \in 0 .. MaxMoves
      /\ version \in [Files -> Images]
  <2>1. moves' = moves \/ Move
    BY DEF Next, Change, Purge, StartScan, EndScan, ChangeTo, SetThumbs, Close, NothingLeft,
           NextThumb, DeleteThumbs, Load, Save, Fail, Done, vars
  <2>2. QED
    BY <2>1, ThumbnailsAssumption DEF Move, Typed, Pictures, WorkersOK
<1>1. ASSUME NEW f \in Files, Change(f) \/ Purge(f) PROVE Pictures'
  <2>1. UNCHANGED <<known, disk, shows, view, scanning>>
    BY <1>1 DEF Change, Purge, store, folder
  <2>2. cache' \in [Files -> Entries \cup {None}]
    BY <1>1 DEF Change, Purge, store, Typed, Pictures
  <2>3. dirty' \subseteq Dirs
    BY <1>1, Constants DEF Change, Purge, folder, Typed, Pictures
  <2>4. QED
    BY <1>0, <2>1, <2>2, <2>3 DEF Typed, Pictures
<1>2. ASSUME NEW d \in Dirs, StartScan(d) PROVE Pictures'
  BY <1>0, <1>2 DEF StartScan, store, Typed, Pictures
<1>3. ASSUME NEW d \in Dirs, EndScan(d) PROVE Pictures'
  <2>1. /\ UNCHANGED <<dirty, cache, disk, shows>> /\ scanning' = scanning \ {d}
        /\ view' = Redrawn(cache, {f \in Of(d) : known[f] # version[f]})
    BY <1>3 DEF EndScan, store
  <2>2. known' \in [Files -> Images \cup {None}]
    BY <1>0, <1>3 DEF EndScan, Typed, Pictures
  <2>3. view' \in [Windows -> [Files -> Images \cup {None}]]
    BY <2>1, RedrawnType DEF Typed, Pictures
  <2>4. QED
    BY <1>0, <2>1, <2>2, <2>3 DEF Typed, Pictures
<1>4. ASSUME NEW w \in Windows,
             \/ \E d \in Dirs : ChangeTo(w, d)
             \/ SetThumbs(w) \/ Close(w) \/ NothingLeft(w)
      PROVE  Pictures'
  <2>1. UNCHANGED <<known, cache, disk>>
    BY <1>4 DEF ChangeTo, SetThumbs, Close, NothingLeft, store, folder
  <2>2. shows' \in [Windows -> BOOLEAN]
    BY <1>4 DEF ChangeTo, SetThumbs, Close, NothingLeft, Typed, Pictures
  <2>3. dirty' \subseteq Dirs /\ scanning' \subseteq Dirs
    BY <1>4 DEF ChangeTo, SetThumbs, Close, NothingLeft, folder, Typed, Pictures
  <2>4. \A f \in Files : Image(cache, f) \in Images \cup {None}
    <3>1. ASSUME NEW f \in Files, cache[f] # None
          PROVE  cache[f].image \in Images \cup {Marked}
      BY <3>1 DEF Typed, Pictures
    <3>2. QED
      BY <3>1 DEF Image
  <2>5. view' \in [Windows -> [Files -> Images \cup {None}]]
    <3>1. ASSUME NEW g \in [Files -> Images \cup {None}], view' = [view EXCEPT ![w] = g]
          PROVE  view' \in [Windows -> [Files -> Images \cup {None}]]
      BY <3>1 DEF Typed, Pictures
    <3>2. ASSUME NEW d \in Dirs, ChangeTo(w, d)
          PROVE  view' \in [Windows -> [Files -> Images \cup {None}]]
      BY <2>4, <3>1, <3>2 DEF ChangeTo
    <3>3. CASE SetThumbs(w)
      BY <2>4, <3>1, <3>3 DEF SetThumbs
    <3>4. CASE Close(w)
      BY <3>1, <3>4 DEF Close
    <3>5. CASE NothingLeft(w)
      BY <3>5 DEF NothingLeft, Typed, Pictures
    <3>6. QED
      BY <1>4, <3>2, <3>3, <3>4, <3>5
  <2>6. QED
    BY <1>0, <2>1, <2>2, <2>3, <2>5 DEF Typed, Pictures
<1>5. ASSUME NEW w \in Windows, NextThumb(w) PROVE Pictures'
  <2> DEFINE f == Head(queue[w])
  <2>1. UNCHANGED <<known, dirty, scanning, disk, shows>>
    BY <1>5 DEF NextThumb, folder
  <2>2. f \in Files
    BY <1>5 DEF NextThumb, Typed, Types
  <2>3. /\ \/ cache' = cache
           \/ disk[f] # None /\ cache' = Entry(f, disk[f].image)
           \/ cache' = Entry(f, Marked)
        /\ view' = view \/ (cache' = cache /\ view' = Redrawn(cache, {f}))
           \/ view' = Redrawn(cache', {f})
    BY <1>5 DEF NextThumb, Usable
  <2> HIDE DEF f
  <2>4. cache' \in [Files -> Entries \cup {None}]
    BY <1>0, <2>2, <2>3 DEF Entry, Typed, Pictures
  <2>5. view' \in [Windows -> [Files -> Images \cup {None}]]
    BY <2>3, <2>4, RedrawnType DEF Typed, Pictures
  <2>6. QED
    BY <1>0, <2>1, <2>4, <2>5 DEF Typed, Pictures
<1>6. CASE DeleteThumbs
  <2>1. /\ UNCHANGED <<known, scanning, shows, view>>
        /\ disk' = [f \in Files |-> None]
        /\ dirty' \subseteq Dirs
    BY <1>6 DEF DeleteThumbs, Typed, Pictures
  <2>2. cache' \in [Files -> Entries \cup {None}]
    BY <1>6 DEF DeleteThumbs, Typed, Pictures
  <2>3. QED
    BY <1>0, <2>1, <2>2 DEF Typed, Pictures
<1>7. ASSUME NEW s \in Slots, Load(s) \/ Save(s) \/ Fail(s) PROVE Pictures'
  <2>1. /\ UNCHANGED <<known, dirty, scanning, cache, shows, view>>
        /\ worker[s] \in Workers
    BY <1>7 DEF Load, Save, Fail, folder, store, Typed, WorkersOK
  <2>2. worker[s].file \in Files /\ worker[s].read \in Images \cup {None}
    BY <2>1 DEF Workers
  <2>3. disk' \in [Files -> Thumbs \cup {None}]
    <3>1. CASE Load(s)
      BY <3>1 DEF Load, store, Typed, Pictures
    <3>2. CASE Save(s)
      BY <1>0, <2>2, <3>2 DEF Save, Typed, Pictures
    <3>3. CASE Fail(s)
      BY <2>2, <3>3 DEF Fail, Typed, Pictures
    <3>4. QED
      BY <1>7, <3>1, <3>2, <3>3
  <2>4. QED
    BY <1>0, <2>1, <2>3 DEF Typed, Pictures
<1>8. ASSUME NEW s \in Slots, Done(s) PROVE Pictures'
  <2> DEFINE f == worker[s].file
  <2>1. /\ UNCHANGED <<known, dirty, scanning, disk, shows>> /\ worker[s] \in Workers
    BY <1>8 DEF Done, folder, Typed, WorkersOK
  <2>2. f \in Files
    BY <2>1 DEF Workers
  <2>3. \/ disk[f] # None /\ cache' = Insert(f, disk[f].image) /\ view' = Redrawn(cache', {f})
        \/ UNCHANGED <<cache, view>>
    BY <1>8 DEF Done, Usable
  <2> HIDE DEF f
  <2>4. cache' \in [Files -> Entries \cup {None}]
    BY <2>2, <2>3 DEF Insert, Typed, Pictures
  <2>5. view' \in [Windows -> [Files -> Images \cup {None}]]
    BY <2>3, <2>4, RedrawnType DEF Typed, Pictures
  <2>6. QED
    BY <1>0, <2>1, <2>4, <2>5 DEF Typed, Pictures
<1>9. CASE UNCHANGED vars
  BY <1>9 DEF vars, Typed, Pictures
<1>10. QED
  BY <1>1, <1>2, <1>3, <1>4, <1>5, <1>6, <1>7, <1>8, <1>9 DEF Next

LEMMA TypedStep == IInv /\ Pictures /\ [Next]_vars => Typed /\ Typed'
  BY NextIInv, PicturesStep DEF IInv, Typed

-----------------------------------------------------------------------------
\* A step about one file: what is said of the others stays.
LEMMA OtherFiles ==
    ASSUME Typed, Good, NEW f \in Files,
           UNCHANGED <<version, known, dirty, scanning, at, shows>>,
           \A g \in Files : g # f =>
              /\ cache'[g] = cache[g] /\ disk'[g] = disk[g]
              /\ Busy(g)' <=> Busy(g)
              /\ \A w \in Windows : view'[w][g] = view[w][g]
              /\ \A w \in Windows : Contains(queue[w], g) => Contains(queue'[w], g),
           LabelOK(f)', CacheOK(f)', \A w \in Windows : ViewOK(w, f)' /\ QueueOK(w, f)'
    PROVE  Good'
<1>1. KnownOK'
  BY DEF Good, KnownOK, Scanned
<1>2. ASSUME NEW g \in Files, g # f PROVE FileOK(g)'
  <2>1. FileOK(g)
    BY DEF Good
  <2>2. /\ (UpToDate(g)' <=> UpToDate(g)) /\ (Current(g)' <=> Current(g))
        /\ (Scanned(g)' <=> Scanned(g)) /\ (Busy(g)' <=> Busy(g))
        /\ \A w \in Windows : Shows(w, g)' <=> Shows(w, g)
        /\ cache'[g] = cache[g] /\ disk'[g] = disk[g] /\ known' = known /\ version' = version
    BY <1>2 DEF UpToDate, Current, Scanned, Shows
  <2>3. LabelOK(g)' /\ CacheOK(g)'
    BY <2>1, <2>2 DEF FileOK, LabelOK, CacheOK
  <2>4. ASSUME NEW w \in Windows PROVE ViewOK(w, g)' /\ QueueOK(w, g)'
    <3>1. view'[w][g] = view[w][g] /\ (Contains(queue[w], g) => Contains(queue'[w], g))
      BY <1>2
    <3>2. ViewOK(w, g) /\ QueueOK(w, g)
      BY <2>1 DEF FileOK
    <3>3. QED
      BY <2>2, <3>1, <3>2 DEF ViewOK, QueueOK
  <2>5. QED
    BY <2>3, <2>4 DEF FileOK
<1>3. FileOK(f)'
  BY DEF FileOK
<1>4. QED
  BY <1>1, <1>2, <1>3 DEF Good

\* A step of one window that touches neither cache nor files.
LEMMA OtherWindows ==
    ASSUME Typed, Good, NEW w \in Windows,
           UNCHANGED <<version, known, cache, disk, worker>>,
           \A f \in Files : Scanned(f)' => Scanned(f),
           \A v \in Windows : v # w =>
              /\ at'[v] = at[v] /\ shows'[v] = shows[v]
              /\ view'[v] = view[v] /\ queue'[v] = queue[v],
           \A f \in Files : ViewOK(w, f)' /\ QueueOK(w, f)'
    PROVE  Good'
<1>1. KnownOK'
  BY DEF Good, KnownOK
<1>2. ASSUME NEW f \in Files PROVE FileOK(f)'
  <2>1. FileOK(f)
    BY DEF Good
  <2>2. /\ (UpToDate(f)' <=> UpToDate(f)) /\ (Current(f)' <=> Current(f))
        /\ (Busy(f)' <=> Busy(f)) /\ (Scanned(f)' => Scanned(f))
        /\ cache'[f] = cache[f] /\ disk'[f] = disk[f] /\ known' = known /\ version' = version
    BY DEF UpToDate, Current, Busy
  <2>3. LabelOK(f)' /\ CacheOK(f)'
    BY <2>1, <2>2 DEF FileOK, LabelOK, CacheOK
  <2>4. ASSUME NEW v \in Windows, v # w PROVE ViewOK(v, f)' /\ QueueOK(v, f)'
    <3>1. /\ (Shows(v, f)' <=> Shows(v, f)) /\ view'[v][f] = view[v][f]
          /\ queue'[v] = queue[v]
      BY <2>4 DEF Shows
    <3>2. ViewOK(v, f) /\ QueueOK(v, f)
      BY <2>1 DEF FileOK
    <3>3. Contains(queue[v], f)' <=> Contains(queue[v], f)
      BY <3>1
    <3>4. QED
      BY <2>2, <3>1, <3>2, <3>3 DEF ViewOK, QueueOK
  <2>5. QED
    BY <2>3, <2>4 DEF FileOK
<1>3. QED
  BY <1>1, <1>2 DEF Good

LEMMA PurgeGood == ASSUME Typed, Good, NEW f \in Files, Purge(f) PROVE Good'
<1>1. /\ UNCHANGED <<version, known, dirty, scanning, at, shows, disk, view, worker, queue>>
      /\ cache' = [cache EXCEPT ![f] = None]
      /\ cache[f] # None /\ ~InUse(f) /\ ~Busy(f)
  BY DEF Purge, folder, lists, Busy
<1>2. cache'[f] = None /\ \A g \in Files : g # f => cache'[g] = cache[g]
  BY <1>1 DEF Typed, Pictures
<1>3. ~UpToDate(f)' /\ (Busy(f)' <=> Busy(f)) /\ (Current(f)' <=> Current(f))
  BY <1>1, <1>2 DEF UpToDate, Busy, Current
<1>4. FileOK(f) /\ KnownOK
  BY DEF Good
<1>5. LabelOK(f)' /\ CacheOK(f)'
  BY <1>1, <1>3, <1>4 DEF FileOK, LabelOK, CacheOK
<1>6. ASSUME NEW w \in Windows PROVE ViewOK(w, f)' /\ QueueOK(w, f)'
  <2>1. ASSUME Shows(w, f), Scanned(f), Current(f) PROVE Contains(queue[w], f)
    <3>1. ViewOK(w, f) /\ QueueOK(w, f)
      BY <1>4 DEF FileOK
    <3>2. known[f] = version[f]
      BY <1>4, <2>1 DEF KnownOK
    <3>3. CASE UpToDate(f)
      <4>1. cache[f].image = disk[f].image
        BY <1>1, <1>4, <2>1, <3>3 DEF FileOK, CacheOK
      <4>2. view[w][f] # disk[f].image
        <5>1. disk[f].image # None
          BY <2>1, Constants DEF Current, Typed, Pictures, Thumbs
        <5>2. QED
          BY <1>1, <4>1, <5>1 DEF InUse
      <4>3. QED
        BY <1>1, <2>1, <3>1, <3>2, <3>3, <4>2 DEF ViewOK
    <3>4. CASE ~UpToDate(f)
      BY <2>1, <3>1, <3>4 DEF QueueOK
    <3>5. QED
      BY <3>3, <3>4
  <2>2. (Shows(w, f)' <=> Shows(w, f)) /\ (Scanned(f)' <=> Scanned(f)) /\ queue' = queue
    BY <1>1 DEF Shows, Scanned
  <2>3. QED
    BY <1>1, <1>3, <2>1, <2>2 DEF ViewOK, QueueOK
<1>7. ASSUME NEW g \in Files PROVE Busy(g)' <=> Busy(g)
  BY <1>1 DEF Busy
<1>8. QED
  BY <1>1, <1>2, <1>5, <1>6, <1>7, OtherFiles

LEMMA ChangeGood == ASSUME Typed, Good, NEW f \in Files, Change(f) PROVE Good'
<1> USE DEF Typed, WorkersOK
<1>1. /\ UNCHANGED <<known, scanning, at, shows, cache, disk, view, worker, queue>>
      /\ version' = [version EXCEPT ![f] = @ + 1]
      /\ dirty' = dirty \cup {DirOf[f]}
  BY DEF Change, store, lists
<1>2. version'[f] = version[f] + 1 /\ \A g \in Files : g # f => version'[g] = version[g]
  BY <1>1
<1>3. version[f] \in Nat
  BY DEF Images
<1>4. \A g \in Files : Scanned(g)' => Scanned(g) /\ g # f
  BY <1>1 DEF Scanned
<1>5. KnownOK'
  BY <1>1, <1>2, <1>4 DEF Good, KnownOK
<1>6. ASSUME NEW g \in Files PROVE FileOK(g)'
  <2>1. FileOK(g) /\ (Busy(g)' <=> Busy(g)) /\ \A w \in Windows : Shows(w, g)' <=> Shows(w, g)
    BY <1>1 DEF Good, Busy, Shows
  <2>2. CASE g = f
    <3>1. disk[f] # None => disk[f].label \in Nat /\ disk[f].label <= version[f]
      BY <2>1, <2>2 DEF FileOK, LabelOK, Pictures, Images, Thumbs
    <3>2. LabelOK(f)' /\ ~Current(f)'
      BY <1>1, <1>2, <1>3, <3>1 DEF LabelOK, Current
    <3>3. QED
      BY <1>4, <2>2, <3>2 DEF FileOK, CacheOK, ViewOK, QueueOK
  <2>3. CASE g # f
    <3>1. /\ (UpToDate(g)' <=> UpToDate(g)) /\ (Current(g)' <=> Current(g))
          /\ version'[g] = version[g] /\ (Scanned(g)' => Scanned(g))
      BY <1>1, <1>2, <1>4, <2>3 DEF UpToDate, Current
    <3>2. LabelOK(g)' /\ CacheOK(g)'
      BY <1>1, <2>1, <3>1 DEF FileOK, LabelOK, CacheOK
    <3>3. ASSUME NEW w \in Windows PROVE ViewOK(w, g)' /\ QueueOK(w, g)'
      <4>1. ViewOK(w, g) /\ QueueOK(w, g)
        BY <2>1 DEF FileOK
      <4>2. QED
        BY <1>1, <2>1, <3>1, <4>1 DEF ViewOK, QueueOK
    <3>4. QED
      BY <3>2, <3>3 DEF FileOK
  <2>4. QED
    BY <2>2, <2>3
<1>7. QED
  BY <1>5, <1>6 DEF Good

\* A step that touches nothing the argument is about, or makes a scan due.
LEMMA SameGood ==
    ASSUME Typed, Good,
           UNCHANGED <<version, known, at, shows, cache, disk, view, worker, queue>>,
           \A f \in Files : Scanned(f)' => Scanned(f)
    PROVE  Good'
<1>1. KnownOK'
  BY DEF Good, KnownOK
<1>2. ASSUME NEW f \in Files PROVE FileOK(f)'
  <2>1. /\ FileOK(f) /\ (Busy(f)' <=> Busy(f)) /\ (UpToDate(f)' <=> UpToDate(f))
        /\ (Current(f)' <=> Current(f)) /\ \A w \in Windows : Shows(w, f)' <=> Shows(w, f)
    BY DEF Good, Busy, Shows, UpToDate, Current
  <2>2. LabelOK(f)' /\ CacheOK(f)'
    BY <2>1 DEF FileOK, LabelOK, CacheOK
  <2>3. ASSUME NEW w \in Windows PROVE ViewOK(w, f)' /\ QueueOK(w, f)'
    <3>1. ViewOK(w, f) /\ QueueOK(w, f)
      BY <2>1 DEF FileOK
    <3>2. QED
      BY <2>1, <3>1 DEF ViewOK, QueueOK
  <2>4. QED
    BY <2>2, <2>3 DEF FileOK
<1>3. QED
  BY <1>1, <1>2 DEF Good

LEMMA StartScanGood == ASSUME Typed, Good, NEW d \in Dirs, StartScan(d) PROVE Good'
<1>1. /\ UNCHANGED <<version, known, at, shows, cache, disk, view, worker, queue>>
      /\ dirty' = dirty \ {d} /\ scanning' = scanning \cup {d}
  BY DEF StartScan, store, lists
<1>2. \A f \in Files : Scanned(f)' => Scanned(f)
  BY <1>1 DEF Scanned
<1>3. QED
  BY <1>1, <1>2, SameGood

LEMMA DeleteGood == ASSUME Typed, Good, DeleteThumbs PROVE Good'
<1>1. /\ UNCHANGED <<version, known, at, shows, scanning>>
      /\ \A f \in Files : disk'[f] = None
      /\ dirty' = dirty \cup {d \in Dirs \ scanning : \E w \in Windows : at[w] = d}
  BY DEF DeleteThumbs
<1>2. \A f \in Files : Scanned(f)' => Scanned(f) /\ \A w \in Windows : ~Shows(w, f)
  BY <1>1, Constants DEF Scanned, Shows
<1>3. KnownOK'
  BY <1>1, <1>2 DEF Good, KnownOK
<1>4. ASSUME NEW f \in Files PROVE FileOK(f)'
  <2>1. ~Current(f)' /\ LabelOK(f)'
    BY <1>1 DEF Current, LabelOK
  <2>2. \A w \in Windows : Scanned(f)' => ~Shows(w, f)'
    BY <1>1, <1>2 DEF Shows
  <2>3. QED
    BY <2>1, <2>2 DEF FileOK, CacheOK, ViewOK, QueueOK
<1>5. QED
  BY <1>3, <1>4 DEF Good

LEMMA NextThumbGood ==
    ASSUME Typed, Good, NEW w \in Windows, NextThumb(w) PROVE Good'
<1>0. PICK f : f = Head(queue[w])
  OBVIOUS
<1>1. /\ UNCHANGED <<version, known, dirty, scanning, at, shows, disk>>
      /\ queue[w] # <<>> /\ queue' = [queue EXCEPT ![w] = Tail(@)]
  BY DEF NextThumb, folder
<1>2. queue[w] \in Seq(Files) /\ f \in Files
  BY <1>0, <1>1 DEF Typed, Types
<1>3. FileOK(f)
  BY <1>2 DEF Good
<1>4. ASSUME NEW v \in Windows, NEW g \in Files, g # f, Contains(queue[v], g)
      PROVE  Contains(queue'[v], g)
  <2>1. CASE v = w
    <3>1. queue'[w] = Tail(queue[w])
      BY <1>1 DEF Typed, Types
    <3>2. QED
      BY <1>0, <1>1, <1>2, <1>4, <2>1, <3>1, InTail
  <2>2. CASE v # w
    BY <1>1, <1>4, <2>2 DEF Typed, Types
  <2>3. QED
    BY <2>1, <2>2
<1>5. LabelOK(f)' /\ (Current(f)' <=> Current(f))
  BY <1>1, <1>3 DEF FileOK, LabelOK, Current
<1>6. \A v \in Windows : (Shows(v, f)' <=> Shows(v, f))
  BY <1>1 DEF Shows
\* The file has an entry afterwards; that is enough, once it is drawn again.
<1>7. ASSUME UpToDate(f)',
             \A g \in Files : g # f => cache'[g] = cache[g] /\ (Busy(g)' <=> Busy(g)),
             CacheOK(f)',
             \/ view' = view /\ ~Current(f)
             \/ view' = Redrawn(cache', {f}) /\ (Current(f) => Image(cache', f) = cache'[f].image)
      PROVE  Good'
  <2>1. \A g \in Files : g # f => \A v \in Windows : view'[v][g] = view[v][g]
    BY <1>7, RedrawnShows
  <2>2. ASSUME NEW v \in Windows PROVE ViewOK(v, f)' /\ QueueOK(v, f)'
    <3>1. ASSUME Shows(v, f), Current(f) PROVE view'[v][f] = cache'[f].image
      BY <1>2, <1>7, <3>1, RedrawnShows
    <3>2. QED
      BY <1>1, <1>5, <1>6, <1>7, <3>1 DEF ViewOK, QueueOK, CacheOK
  <2>3. QED
    BY <1>1, <1>2, <1>4, <1>5, <1>7, <2>1, <2>2, OtherFiles
<1>8. CASE /\ Image(cache, f) # None
           /\ view' = Redrawn(cache, {f})
           /\ UNCHANGED <<cache, idle, worker>>
  <2>1. UpToDate(f)' /\ Image(cache', f) = cache'[f].image /\ view' = Redrawn(cache', {f})
    BY <1>1, <1>8 DEF Image, UpToDate
  <2>2. \A g : Busy(g)' <=> Busy(g)
    BY <1>8 DEF Busy
  <2>3. CacheOK(f)'
    BY <1>1, <1>3, <1>5, <1>8, <2>1, <2>2 DEF FileOK, CacheOK, UpToDate
  <2>4. QED
    BY <1>7, <1>8, <2>1, <2>2, <2>3
<1>9. CASE /\ disk[f] # None /\ cache' = Entry(f, disk[f].image)
           /\ view' = Redrawn(cache', {f})
           /\ UNCHANGED <<idle, worker>>
  <2>1. /\ cache'[f] = [at |-> version[f], image |-> disk[f].image]
        /\ \A g \in Files : g # f => cache'[g] = cache[g]
    BY <1>2, <1>9 DEF Entry, Typed, Pictures
  <2>2. \A g : Busy(g)' <=> Busy(g)
    BY <1>9 DEF Busy
  <2>3. cache'[f] # None /\ cache'[f].at = version[f] /\ cache'[f].image = disk[f].image
        /\ disk[f].image # Marked
    <3>1. cache'[f].at = version[f] /\ cache'[f].image = disk[f].image
      BY <2>1
    <3>2. disk[f].image \in Images
      BY <1>2, <1>9 DEF Typed, Pictures, Thumbs
    <3>3. cache'[f] \in Entries
      BY <1>2, <2>1, <3>2 DEF Entries, Typed, WorkersOK
    <3>4. QED
      BY <3>1, <3>2, <3>3, Constants
  <2>4. UpToDate(f)' /\ Image(cache', f) = cache'[f].image
    BY <1>1, <2>3 DEF UpToDate, Image
  <2>5. CacheOK(f)'
    BY <1>1, <2>3 DEF CacheOK
  <2>6. QED
    BY <1>7, <1>9, <2>1, <2>2, <2>4, <2>5
<1>10. CASE /\ UpToDate(f) /\ Image(cache, f) = None /\ ~Usable(f, FALSE)
            /\ UNCHANGED <<cache, view, idle, worker>>
  <2>1. UpToDate(f)' /\ ~Current(f)
    BY <1>1, <1>10, UsableIsCurrent DEF UpToDate
  <2>2. \A g : Busy(g)' <=> Busy(g)
    BY <1>10 DEF Busy
  <2>3. CacheOK(f)'
    BY <1>5, <2>1 DEF CacheOK
  <2>4. QED
    BY <1>7, <1>10, <2>1, <2>2, <2>3
<1>11. CASE /\ ~Usable(f, FALSE)
            /\ cache' = Entry(f, Marked)
            /\ Fork(w, f) \/ UNCHANGED <<worker, idle>>
            /\ UNCHANGED view
  <2>1. /\ cache'[f] = [at |-> version[f], image |-> Marked]
        /\ \A g \in Files : g # f => cache'[g] = cache[g]
    BY <1>2, <1>11 DEF Entry, Typed, Pictures
  <2>2. UpToDate(f)'
    <3>1. cache'[f].at = version[f]
      BY <2>1
    <3>2. cache'[f] \in Entries
      BY <1>2, <2>1 DEF Entries, Typed, WorkersOK
    <3>3. QED
      BY <1>1, <3>1, <3>2, Constants DEF UpToDate
  <2>3. \A g \in Files : g # f => (Busy(g)' <=> Busy(g))
    <3>1. CASE UNCHANGED worker
      BY <3>1 DEF Busy
    <3>2. CASE Fork(w, f)
      <4>1. PICK s \in Slots : /\ worker[s] = None
                              /\ worker' = [worker EXCEPT ![s] = [for |-> w, file |-> f,
                                                        read |-> None, done |-> FALSE]]
        BY <3>2 DEF Fork, FreeSlots
      <4>2. worker'[s].file = f /\ \A t \in Slots : t # s => worker'[t] = worker[t]
        BY <4>1 DEF Typed, WorkersOK
      <4>3. QED
        BY <4>1, <4>2 DEF Busy
    <3>3. QED
      BY <1>11, <3>1, <3>2
  <2>4. ~Current(f) /\ CacheOK(f)'
    BY <1>5, <1>11, UsableIsCurrent DEF CacheOK
  <2>5. QED
    BY <1>7, <1>11, <2>1, <2>2, <2>3, <2>4
<1>12. QED
  BY <1>0, <1>8, <1>9, <1>10, <1>11 DEF NextThumb, Usable

\* A worker at work: its file is busy before and after.
LEMMA WorkGood ==
    ASSUME Typed, Typed', Good, NEW s \in Slots, Load(s) \/ Save(s) \/ Fail(s) PROVE Good'
<1>0. PICK f : f = worker[s].file
  OBVIOUS
<1>1. /\ UNCHANGED <<version, known, dirty, scanning, at, shows, cache, view, queue>>
      /\ worker[s] # None /\ worker[s] \in Workers
  BY DEF Load, Save, Fail, folder, lists, store, Typed, WorkersOK
<1>2. f \in Files /\ worker[s].read \in Images \cup {None} /\ version[f] \in Images
  BY <1>0, <1>1 DEF Workers, Typed, WorkersOK
<1>3. /\ worker'[s] # None /\ worker'[s].file = f
      /\ \A t \in Slots : t # s => worker'[t] = worker[t]
  <2>1. \/ worker' = [worker EXCEPT ![s].read = version[f]]
        \/ worker' = [worker EXCEPT ![s].done = TRUE]
    BY <1>0 DEF Load, Save, Fail
  <2>2. worker'[s].file = f /\ \A t \in Slots : t # s => worker'[t] = worker[t]
    BY <1>0, <1>1, <2>1 DEF Typed, WorkersOK, Workers
  <2>3. worker'[s] \in Workers
    <3>1. \/ worker'[s] = [worker[s] EXCEPT !.read = version[f]]
          \/ worker'[s] = [worker[s] EXCEPT !.done = TRUE]
      BY <2>1 DEF Typed, WorkersOK
    <3>2. QED
      BY <1>1, <1>2, <3>1 DEF Workers
  <2>4. QED
    BY <2>2, <2>3, ThumbnailsAssumption
<1>4. \A g : Busy(g)' <=> Busy(g)
  BY <1>0, <1>1, <1>3 DEF Busy
<1>5. Busy(f) /\ FileOK(f)
  BY <1>0, <1>1, <1>2 DEF Busy, Good
<1>6. /\ \A g \in Files : g # f => disk'[g] = disk[g]
      /\ disk'[f] \in {disk[f], None} \/ (disk'[f].label = version[f])
  <2>1. CASE Load(s)
    BY <2>1 DEF Load, store
  <2>2. CASE Save(s)
    BY <1>0, <1>2, <2>2 DEF Save, Typed, Pictures
  <2>3. CASE Fail(s)
    BY <1>0, <1>2, <2>3 DEF Fail, Typed, Pictures
  <2>4. QED
    BY <2>1, <2>2, <2>3
<1>7. LabelOK(f)' /\ CacheOK(f)'
  BY <1>1, <1>2, <1>4, <1>5, <1>6 DEF FileOK, LabelOK, CacheOK, Images
<1>8. ASSUME NEW w \in Windows PROVE ViewOK(w, f)' /\ QueueOK(w, f)'
  <2>1. QueueOK(w, f)
    BY <1>5 DEF FileOK
  <2>2. /\ (Shows(w, f)' <=> Shows(w, f)) /\ (Scanned(f)' <=> Scanned(f))
        /\ (UpToDate(f)' <=> UpToDate(f)) /\ queue' = queue
    BY <1>1 DEF Shows, Scanned, UpToDate
  <2>3. QED
    BY <1>4, <1>5, <2>1, <2>2 DEF ViewOK, QueueOK
<1>9. QED
  BY <1>1, <1>2, <1>4, <1>6, <1>7, <1>8, OtherFiles

\* A worker's result goes to the cache, and to every window that shows the file.
LEMMA DoneGood == ASSUME Typed, Good, NEW s \in Slots, Done(s) PROVE Good'
<1>0. PICK f : f = worker[s].file
  OBVIOUS
<1>1. /\ UNCHANGED <<version, known, dirty, scanning, at, shows, disk, queue>>
      /\ worker[s] # None /\ worker[s] \in Workers
      /\ worker' = [worker EXCEPT ![s] = None]
  BY DEF Done, folder, Typed, WorkersOK
<1>2. f \in Files
  BY <1>0, <1>1 DEF Workers
<1>3. Busy(f) /\ FileOK(f)
  BY <1>0, <1>1, <1>2 DEF Busy, Good
<1>4. \A g \in Files : g # f => (Busy(g)' <=> Busy(g))
  BY <1>0, <1>1 DEF Busy, Typed, WorkersOK
<1>5. \/ /\ disk[f] # None /\ cache' = Insert(f, disk[f].image)
         /\ view' = Redrawn(cache', {f})
      \/ ~Current(f) /\ UNCHANGED <<cache, view>>
  BY <1>0, UsableIsCurrent DEF Done, Usable
<1>6. /\ \A g \in Files : g # f => cache'[g] = cache[g]
      /\ \A g \in Files : g # f => \A w \in Windows : view'[w][g] = view[w][g]
      /\ UpToDate(f)' <=> UpToDate(f)
      /\ UpToDate(f) /\ Current(f) => cache'[f].image = disk[f].image
  <2>1. CASE UNCHANGED <<cache, view>> /\ ~Current(f)
    BY <1>1, <2>1 DEF UpToDate
  <2>2. CASE /\ disk[f] # None /\ cache' = Insert(f, disk[f].image)
             /\ view' = Redrawn(cache', {f})
    <3>1. \A g \in Files : g # f => \A w \in Windows : view'[w][g] = view[w][g]
      BY <2>2, RedrawnShows
    <3>2. CASE cache[f] = None
      BY <1>1, <2>2, <3>1, <3>2 DEF Insert, UpToDate
    <3>3. CASE cache[f] # None
      <4>1. disk[f].image \in Images /\ cache[f] \in Entries
        BY <1>2, <2>2, <3>3 DEF Typed, Pictures, Thumbs
      <4>2. /\ cache'[f] = [cache[f] EXCEPT !.image = disk[f].image]
            /\ \A g \in Files : g # f => cache'[g] = cache[g]
        BY <1>2, <2>2, <3>3 DEF Insert, Typed, Pictures
      <4>3. /\ cache'[f] \in Entries /\ cache'[f].at = cache[f].at
            /\ cache'[f].image = disk[f].image
        BY <4>1, <4>2 DEF Entries
      <4>4. QED
        BY <1>1, <3>1, <3>3, <4>2, <4>3, Constants DEF UpToDate
    <3>4. QED
      BY <3>2, <3>3
  <2>3. QED
    BY <1>5, <2>1, <2>2
<1>7. Current(f)' <=> Current(f)
  BY <1>1 DEF Current
<1>8. LabelOK(f)' /\ CacheOK(f)'
  BY <1>1, <1>3, <1>6, <1>7 DEF FileOK, LabelOK, CacheOK
<1>9. ASSUME NEW w \in Windows PROVE ViewOK(w, f)' /\ QueueOK(w, f)'
  <2>1. QueueOK(w, f)
    BY <1>3 DEF FileOK
  <2>2. (Shows(w, f)' <=> Shows(w, f)) /\ (Scanned(f)' <=> Scanned(f)) /\ queue' = queue
    BY <1>1 DEF Shows, Scanned
  <2>3. ASSUME Shows(w, f), UpToDate(f), Current(f) PROVE view'[w][f] = disk[f].image
    <3>1. view' = Redrawn(cache', {f})
      BY <1>5, <2>3
    <3>2. view'[w][f] = Image(cache', f)
      BY <1>2, <2>3, <3>1, RedrawnShows
    <3>3. disk[f].image # Marked
      BY <1>2, <2>3, Constants DEF Current, Typed, Pictures, Thumbs
    <3>4. QED
      BY <1>1, <1>6, <2>3, <3>2, <3>3 DEF Image, UpToDate
  <2>4. QED
    BY <1>1, <1>3, <1>6, <1>7, <2>1, <2>2, <2>3 DEF ViewOK, QueueOK
<1>10. QED
  BY <1>1, <1>2, <1>4, <1>6, <1>8, <1>9, OtherFiles

\* A file that was drawn from the cache shows its thumbnail, or a worker has it.
LEMMA DrawnOK ==
    ASSUME Typed, NEW f \in Files, FileOK(f), UNCHANGED <<version, cache, disk, worker>>,
           NEW w \in Windows, view'[w][f] = Image(cache, f)
    PROVE  ViewOK(w, f)'
<1>1. SUFFICES ASSUME UpToDate(f), Current(f), ~Busy(f) PROVE view'[w][f] = disk'[f].image
  BY DEF ViewOK, UpToDate, Current, Busy
<1>2. cache[f].image = disk[f].image
  BY <1>1 DEF FileOK, CacheOK
<1>3. disk[f].image # Marked
  BY <1>1, Constants DEF Current, Typed, Pictures, Thumbs
<1>4. QED
  BY <1>1, <1>2, <1>3 DEF Image, UpToDate

LEMMA ChangeToGood ==
    ASSUME Typed, Good, NEW w \in Windows, NEW d \in Dirs, ChangeTo(w, d) PROVE Good'
<1> DEFINE new == {f \in Of(d) : ~UpToDate(f)}
<1>1. /\ UNCHANGED <<version, known, cache, disk, shows, worker>>
      /\ at' = [at EXCEPT ![w] = d]
      /\ view' = [view EXCEPT ![w] = [f \in Files |->
            IF DirOf[f] = d /\ known[f] # None /\ shows[w] THEN Image(cache, f) ELSE None]]
      /\ dirty' = IF d \in scanning THEN dirty ELSE dirty \ {d}
      /\ scanning' = IF d \in dirty THEN scanning \cup {d} ELSE scanning
      /\ queue' = [queue EXCEPT ![w] = IF d \in dirty \cup scanning \/ ~shows[w] THEN <<>>
                                       ELSE SetToSeq(new)]
  BY DEF ChangeTo, store
<1>2. \A f \in Files : Scanned(f)' => Scanned(f)
  BY <1>1 DEF Scanned
<1>3. /\ at'[w] = d
      /\ \A f \in Files : view'[w][f] =
            IF DirOf[f] = d /\ known[f] # None /\ shows[w] THEN Image(cache, f) ELSE None
      /\ queue'[w] = IF d \in dirty \cup scanning \/ ~shows[w] THEN <<>> ELSE SetToSeq(new)
      /\ \A v \in Windows : v # w =>
            at'[v] = at[v] /\ view'[v] = view[v] /\ queue'[v] = queue[v]
  BY <1>1 DEF Typed, Types, Pictures
<1>4. ASSUME NEW f \in Files PROVE ViewOK(w, f)' /\ QueueOK(w, f)'
  <2>1. FileOK(f)
    BY DEF Good
  <2>2. CASE Shows(w, f)'
    <3>1. DirOf[f] = d /\ shows[w]
      BY <1>1, <1>3, <2>2 DEF Shows
    <3>2. ViewOK(w, f)'
      <4>1. CASE known[f] # None
        BY <1>1, <1>3, <2>1, <3>1, <4>1, DrawnOK
      <4>2. CASE known[f] = None
        <5>1. version[f] # None
          BY Constants DEF Typed, WorkersOK
        <5>2. QED
          BY <1>1, <4>2, <5>1 DEF ViewOK
      <4>3. QED
        BY <4>1, <4>2
    <3>3. ASSUME Scanned(f)', ~UpToDate(f)' PROVE Contains(queue'[w], f)
      <4>1. d \notin dirty \cup scanning /\ ~UpToDate(f)
        BY <1>1, <1>2, <3>1, <3>3 DEF Scanned, UpToDate
      <4>2. queue'[w] = SetToSeq(new) /\ f \in new /\ new \in SUBSET Files
        BY <1>3, <3>1, <4>1 DEF Of
      <4> HIDE DEF new
      <4>3. QED
        BY <4>2, InSetToSeq
    <3>4. QED
      BY <3>2, <3>3 DEF QueueOK
  <2>3. CASE ~Shows(w, f)'
    BY <2>3 DEF ViewOK, QueueOK
  <2>4. QED
    BY <2>2, <2>3
<1>5. QED
  BY <1>1, <1>2, <1>3, <1>4, OtherWindows

LEMMA SetThumbsGood ==
    ASSUME Typed, Good, NEW w \in Windows, SetThumbs(w) PROVE Good'
<1> DEFINE new == {f \in Of(at[w]) : known[f] # None /\ ~UpToDate(f)}
<1>1. /\ UNCHANGED <<version, known, cache, disk, worker, at, dirty, scanning>>
      /\ shows' = [shows EXCEPT ![w] = ~@]
      /\ view' = [view EXCEPT ![w] = [f \in Files |->
            IF DirOf[f] = at[w] /\ ~shows[w] THEN Image(cache, f) ELSE None]]
      /\ IF shows[w] THEN Cancel(w) ELSE queue' = [queue EXCEPT ![w] = SetToSeq(new)]
  BY DEF SetThumbs, store, folder
<1>2. \A f \in Files : Scanned(f)' <=> Scanned(f)
  BY <1>1 DEF Scanned
<1>3. /\ shows'[w] = ~shows[w]
      /\ \A f \in Files : view'[w][f] =
            IF DirOf[f] = at[w] /\ ~shows[w] THEN Image(cache, f) ELSE None
      /\ ~shows[w] => queue'[w] = SetToSeq(new)
      /\ \A v \in Windows : v # w =>
            shows'[v] = shows[v] /\ view'[v] = view[v] /\ queue'[v] = queue[v]
  <2>1. /\ ~shows[w] => queue'[w] = SetToSeq(new)
        /\ \A v \in Windows : v # w => queue'[v] = queue[v]
    BY <1>1 DEF Cancel, Typed, Types
  <2>2. QED
    BY <1>1, <2>1 DEF Typed, Pictures
<1>4. ASSUME NEW f \in Files PROVE ViewOK(w, f)' /\ QueueOK(w, f)'
  <2>1. FileOK(f) /\ KnownOK
    BY DEF Good
  <2>2. CASE Shows(w, f)'
    <3>1. DirOf[f] = at[w] /\ ~shows[w]
      BY <1>1, <1>3, <2>2 DEF Shows
    <3>2. ViewOK(w, f)'
      BY <1>1, <1>3, <2>1, <3>1, DrawnOK
    <3>3. ASSUME Scanned(f)', ~UpToDate(f)' PROVE Contains(queue'[w], f)
      <4>1. known[f] = version[f] /\ ~UpToDate(f)
        BY <1>1, <1>2, <2>1, <3>3 DEF KnownOK, UpToDate
      <4>2. known[f] # None
        BY <4>1, Constants DEF Typed, WorkersOK
      <4>3. queue'[w] = SetToSeq(new) /\ f \in new /\ new \in SUBSET Files
        BY <1>3, <3>1, <4>1, <4>2 DEF Of
      <4> HIDE DEF new
      <4>4. QED
        BY <4>3, InSetToSeq
    <3>4. QED
      BY <3>2, <3>3 DEF QueueOK
  <2>3. CASE ~Shows(w, f)'
    BY <2>3 DEF ViewOK, QueueOK
  <2>4. QED
    BY <2>2, <2>3
<1>5. QED
  BY <1>1, <1>2, <1>3, <1>4, OtherWindows

LEMMA CloseGood ==
    ASSUME Typed, Good, NEW w \in Windows, Close(w) \/ NothingLeft(w) PROVE Good'
<1>1. CASE Close(w)
  <2>1. /\ UNCHANGED <<version, known, cache, disk, worker, shows, dirty, scanning>>
        /\ at'[w] = Closed
        /\ \A v \in Windows : v # w =>
              at'[v] = at[v] /\ view'[v] = view[v] /\ queue'[v] = queue[v]
    BY <1>1 DEF Close, store, folder, Typed, Types, Pictures
  <2>2. \A f \in Files : ~Shows(w, f)' /\ (Scanned(f)' <=> Scanned(f))
    BY <2>1, Constants DEF Shows, Scanned
  <2>3. \A f \in Files : ViewOK(w, f)' /\ QueueOK(w, f)'
    BY <2>2 DEF ViewOK, QueueOK
  <2>4. QED
    BY <2>1, <2>2, <2>3, OtherWindows
<1>2. CASE NothingLeft(w)
  <2>1. /\ UNCHANGED <<version, known, at, shows, cache, disk, view, worker, dirty, scanning>>
        /\ queue[w] = <<>> /\ queue' = [queue EXCEPT ![w] = <<>>]
    BY <1>2 DEF NothingLeft, Cancel, folder, store
  <2>2. queue' = queue
    BY <2>1 DEF Typed, Types
  <2>3. QED
    BY <2>1, <2>2, SameGood DEF Scanned
<1>3. QED
  BY <1>1, <1>2

LEMMA EndScanGood ==
    ASSUME Typed, Good, NEW d \in Dirs, EndScan(d) PROVE Good'
<1> DEFINE changed == {f \in Of(d) : known[f] # version[f]}
<1>1. /\ UNCHANGED <<version, dirty, cache, disk, at, shows, worker>>
      /\ scanning' = scanning \ {d}
      /\ \A f \in Files : known'[f] = IF DirOf[f] = d THEN version[f] ELSE known[f]
      /\ view' = Redrawn(cache, changed)
      /\ queue' = [w \in Windows |-> IF at[w] = d THEN Wanted(w, d) ELSE queue[w]]
  BY DEF EndScan, CreateThumbs, store
<1>2. KnownOK'
  BY <1>1 DEF Good, KnownOK, Scanned
<1>3. ASSUME NEW w \in Windows, NEW f \in Files, Contains(queue[w], f)
      PROVE  Contains(queue'[w], f)
  <2> DEFINE new == {g \in Of(d) : ~UpToDate(g) /\ ~Contains(queue[w], g)}
  <2>1. SetToSeq(new) \in Seq(Files) /\ queue[w] \in Seq(Files)
    BY SetToSeqIsSeq DEF Of, Typed, Types
  <2>2. queue'[w] \in {queue[w], queue[w] \o SetToSeq(new)}
    BY <1>1 DEF Wanted
  <2> HIDE DEF new
  <2>3. QED
    BY <1>3, <2>1, <2>2, InConcat
<1>4. ASSUME NEW w \in Windows, NEW f \in Files, DirOf[f] = d, Shows(w, f), ~UpToDate(f)
      PROVE  Contains(queue'[w], f)
  <2> DEFINE new == {g \in Of(d) : ~UpToDate(g) /\ ~Contains(queue[w], g)}
  <2>1. SetToSeq(new) \in Seq(Files) /\ queue[w] \in Seq(Files) /\ new \in SUBSET Files
    BY SetToSeqIsSeq DEF Of, Typed, Types
  <2>2. queue'[w] = queue[w] \o SetToSeq(new)
    BY <1>1, <1>4 DEF Wanted, Shows
  <2>3. Contains(queue[w], f) \/ f \in new
    BY <1>4 DEF Of
  <2> HIDE DEF new
  <2>4. QED
    BY <2>1, <2>2, <2>3, InSetToSeq, InConcat
<1>5. ASSUME NEW f \in Files PROVE FileOK(f)'
  <2>1. /\ FileOK(f) /\ (UpToDate(f)' <=> UpToDate(f)) /\ (Current(f)' <=> Current(f))
        /\ (Busy(f)' <=> Busy(f)) /\ \A w \in Windows : (Shows(w, f)' <=> Shows(w, f))
    BY <1>1 DEF Good, UpToDate, Current, Busy, Shows
  <2>2. LabelOK(f)' /\ CacheOK(f)'
    BY <1>1, <2>1 DEF FileOK, LabelOK, CacheOK
  <2>3. ASSUME NEW w \in Windows PROVE ViewOK(w, f)'
    <3>1. CASE ~Shows(w, f)
      BY <2>1, <3>1 DEF ViewOK
    <3>2. CASE Shows(w, f) /\ f \in changed
      <4>1. view'[w][f] = Image(cache, f)
        BY <1>1, <3>2, RedrawnShows
      <4>2. QED
        BY <1>1, <2>1, <4>1, DrawnOK
    <3>3. CASE f \notin changed
      <4>1. view'[w][f] = view[w][f]
        BY <1>1, <3>3, RedrawnShows
      <4>2. known[f] = version[f] => known'[f] = version[f]
        BY <1>1
      <4>3. known[f] # version[f] => DirOf[f] # d /\ known'[f] = known[f]
        BY <1>1, <3>3 DEF Of
      <4>4. ViewOK(w, f)
        BY <2>1 DEF FileOK
      <4>5. QED
        BY <1>1, <1>3, <2>1, <4>1, <4>2, <4>3, <4>4 DEF ViewOK
    <3>4. QED
      BY <3>1, <3>2, <3>3
  <2>4. ASSUME NEW w \in Windows PROVE QueueOK(w, f)'
    <3>1. CASE DirOf[f] = d
      BY <1>4, <2>1, <3>1 DEF QueueOK
    <3>2. CASE DirOf[f] # d
      <4>1. Scanned(f)' => Scanned(f)
        BY <1>1, <3>2 DEF Scanned
      <4>2. QueueOK(w, f)
        BY <2>1 DEF FileOK
      <4>3. QED
        BY <1>3, <2>1, <4>1, <4>2 DEF QueueOK
    <3>3. QED
      BY <3>1, <3>2
  <2>5. QED
    BY <2>2, <2>3, <2>4 DEF FileOK
<1>6. QED
  BY <1>2, <1>5 DEF Good

LEMMA GoodInit == Init => Good
<1> SUFFICES ASSUME Init PROVE Good
  OBVIOUS
<1>1. \A f \in Files : ~Scanned(f) /\ ~UpToDate(f) /\ ~Current(f)
  BY Constants DEF Init, Scanned, UpToDate, Current
<1>2. \A f \in Files : LabelOK(f)
  BY DEF Init, LabelOK
<1>3. QED
  BY <1>1, <1>2 DEF Good, KnownOK, FileOK, CacheOK, ViewOK, QueueOK

LEMMA GoodStep == IInv /\ Pictures /\ Good /\ [Next]_vars => Good'
<1> SUFFICES ASSUME Typed, Typed', Good, [Next]_vars PROVE Good'
  BY TypedStep
<1>1. ASSUME NEW f \in Files, Change(f) \/ Purge(f) PROVE Good'
  BY <1>1, ChangeGood, PurgeGood
<1>2. ASSUME NEW d \in Dirs, StartScan(d) \/ EndScan(d) PROVE Good'
  BY <1>2, StartScanGood, EndScanGood
<1>3. ASSUME NEW w \in Windows, NEW d \in Dirs, ChangeTo(w, d) PROVE Good'
  BY <1>3, ChangeToGood
<1>4. ASSUME NEW w \in Windows, SetThumbs(w) \/ Close(w) \/ NothingLeft(w) \/ NextThumb(w)
      PROVE  Good'
  BY <1>4, SetThumbsGood, CloseGood, NextThumbGood
<1>5. CASE DeleteThumbs
  BY <1>5, DeleteGood
<1>6. ASSUME NEW s \in Slots, Load(s) \/ Save(s) \/ Fail(s) \/ Done(s) PROVE Good'
  BY <1>6, WorkGood, DoneGood
<1>7. CASE UNCHANGED vars
  BY <1>7, SameGood DEF vars, Scanned
<1>8. QED
  BY <1>1, <1>2, <1>3, <1>4, <1>5, <1>6, <1>7 DEF Next

LEMMA GoodShown == Typed /\ Good => QuietMeansShown
<1> SUFFICES ASSUME Typed, Good, NEW w \in Windows, Quiet(w), NEW f \in Of(at[w]),
                    Usable(f, FALSE)
             PROVE  view[w][f] = disk[f].image
  BY DEF QuietMeansShown
<1>1. f \in Files /\ Shows(w, f) /\ Scanned(f) /\ Current(f)
  BY UsableIsCurrent DEF Of, Quiet, Shows, Scanned
<1>2. ~Busy(f)
  <2>1. SUFFICES ASSUME NEW s \in Slots, worker[s] # None PROVE FALSE
    BY DEF Busy
  <2>2. worker[s].for \in Windows
    BY <2>1 DEF Typed, WorkersOK, Workers
  <2>3. s \in Running(worker[s].for)
    BY <2>1 DEF Running
  <2>4. QED
    BY <2>2, <2>3 DEF Quiet
<1>3. ~Contains(queue[w], f)
  BY DEF Quiet, Contains
<1>4. FileOK(f) /\ known[f] = version[f]
  BY <1>1 DEF Good, KnownOK
<1>5. ViewOK(w, f) /\ QueueOK(w, f)
  BY <1>4 DEF FileOK
<1>6. QED
  BY <1>1, <1>2, <1>3, <1>4, <1>5 DEF ViewOK, QueueOK

\* For any files, directories, windows and workers: when everything has been worked
\* off, a window shows the current thumbnail of each file that has one on disk,
\* whatever was closed, toggled, purged, deleted or changed meanwhile.
THEOREM ShownHolds == Spec => []QuietMeansShown
<1>1. Init => IInv /\ Pictures /\ Good
  BY InitIInv, PicturesInit, GoodInit
<1>2. IInv /\ Pictures /\ Good /\ [Next]_vars => (IInv /\ Pictures /\ Good)'
  BY NextIInv, PicturesStep, GoodStep
<1>3. IInv /\ Pictures /\ Good => QuietMeansShown
  BY GoodShown DEF IInv, Typed
<1>4. QED
  BY <1>1, <1>2, <1>3, PTL DEF Spec

\* The types of the cache, the thumbnail directory, the queues and the workers hold in
\* every state.
THEOREM TypeCorrect == Spec => []TypeOK
<1>1. Init => IInv /\ Pictures
  BY InitIInv, PicturesInit
<1>2. IInv /\ Pictures /\ [Next]_vars => (IInv /\ Pictures)'
  BY NextIInv, PicturesStep
<1>3. IInv /\ Pictures => TypeOK
  BY DEF IInv, Types, WorkersOK, Pictures, TypeOK
<1>4. QED
  BY <1>1, <1>2, <1>3, PTL DEF Spec
=============================================================================
