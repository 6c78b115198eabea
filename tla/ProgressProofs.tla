--------------------------- MODULE ProgressProofs ---------------------------
(***************************************************************************)
(* What the end of tp_finish means: the flush that is waited for last began*)
(* after the last command had ended; no file the command wrote is left out *)
(* of the books; and what is counted is what the entries have confirmed.   *)
(* For any files, names, sizes and number of commands.                     *)
(***************************************************************************)
EXTENDS Progress, FiniteSetTheorems, TLAPS

\* A command runs only while the child looks after it.
Attended ==
    command => ~flushing /\ pc \in {"begin", "scan", "confirm", "service", "poll"}

Written == ~meta /\ \A i \in Inodes : file[i].dirty = {}

\* From the last start of the flusher on, it runs, has done its work, or is missed.
Pushed ==
    /\ pc = "sync" => syncer = "none"
    /\ pc = "rewait" => missed \/ syncer = "runs" \/ Written
    /\ pc = "done" => missed \/ Written

Phases ==
    /\ pc \in {"flush", "wait", "sync", "rewait", "done"} => flushing
    /\ pc \in {"idle", "begin", "scan", "poll", "last"} => ~flushing
    /\ pc \in {"idle", "last"} => ~command
    /\ syncer \in {"none", "runs", "flushed"}
    /\ names \in [Paths -> Inodes \cup {None}]
    /\ file \in [Inodes -> File]

IInv == Attended /\ Pushed /\ Phases

LEMMA InitIInv == Init => IInv
BY MaxAssumption DEF Init, IInv, Attended, Pushed, Phases, File

LEMMA CommandKeeps ==
    ASSUME IInv, Command PROVE IInv'
<1>1. CASE \E p \in Paths : Create(p) \/ Truncate(p) \/ Extend(p) \/ Restamp(p) \/ MoveIn(p)
    <2>1. command /\ UNCHANGED <<command, flushing, pc, syncer, missed>>
        BY <1>1 DEF Create, Truncate, Extend, Restamp, MoveIn, Writes, Works, window
    <2>2. names' \in [Paths -> Inodes \cup {None}]
        BY <1>1 DEF IInv, Phases, Create, Truncate, Extend, Restamp, MoveIn
    <2>3. file' \in [Inodes -> File]
        <3>1. CASE \E p \in Paths : Create(p) \/ Truncate(p)
            BY <3>1, MaxAssumption DEF IInv, Phases, Create, Truncate, File
        <3>2. CASE \E p \in Paths : Extend(p)
            BY <3>2, MaxAssumption DEF IInv, Phases, Extend, File
        <3>3. CASE \E p \in Paths : Restamp(p)
            BY <3>3 DEF IInv, Phases, Restamp, File
        <3>4. CASE \E p \in Paths : MoveIn(p)
            BY <3>4 DEF IInv, Phases, MoveIn
        <3>. QED BY <1>1, <3>1, <3>2, <3>3, <3>4
    <2>. QED BY <2>1, <2>2, <2>3 DEF IInv, Attended, Pushed, Phases
<1>2. CASE \E p, q \in Paths : Rename(p, q)
    <2>1. command /\ UNCHANGED <<command, flushing, pc, syncer, missed>>
        BY <1>2 DEF Rename, Writes, Works, window
    <2>2. names' \in [Paths -> Inodes \cup {None}] /\ file' = file
        BY <1>2 DEF IInv, Phases, Rename
    <2>. QED BY <2>1, <2>2 DEF IInv, Attended, Pushed, Phases
<1>3. CASE Exit
    BY <1>3 DEF Exit, disk, window, totals, book, IInv, Attended, Pushed, Phases, Written
<1>. QED BY <1>1, <1>2, <1>3 DEF Command

LEMMA SyncerKeeps ==
    ASSUME IInv, Syncer PROVE IInv'
<1>1. CASE SyncerFlushes
    <2>1. Written' /\ file' \in [Inodes -> File]
        BY <1>1 DEF SyncerFlushes, Written, IInv, Phases, File
    <2>. QED BY <1>1, <2>1 DEF SyncerFlushes, writer, window, totals, book, IInv, Attended,
                    Pushed, Phases
<1>2. CASE SyncerFails
    BY <1>2 DEF SyncerFails, disk, writer, window, totals, book, IInv, Attended, Pushed, Phases,
                Written
<1>. QED BY <1>1, <1>2 DEF Syncer

\* Steps of the child that leave the disk, the commands and the flusher alone.
LEMMA QuietKeeps ==
    ASSUME IInv, UNCHANGED <<disk, command, flushing, syncer, missed>>,
           pc' \in {"confirm", "service"} \/
           (~flushing /\ pc' \in {"begin", "scan", "poll"}) \/
           (~flushing /\ ~command /\ pc' \in {"idle", "last"}) \/
           (flushing /\ pc' \in {"flush", "wait"})
    PROVE  IInv'
BY DEF disk, window, totals, IInv, Attended, Pushed, Phases

LEMMA ChildKeeps ==
    ASSUME IInv, Child PROVE IInv'
<1>1. CASE TrackBegin
    BY <1>1, QuietKeeps DEF TrackBegin, Goes, disk, writer, window, totals, IInv, Phases
<1>2. CASE ScanEnds
    BY <1>2, QuietKeeps DEF ScanEnds, Goes, disk, writer, window, totals
<1>3. CASE ConfirmOne
    <2>1. UNCHANGED <<names, meta, command, flushing, syncer, missed>>
          /\ pc = "confirm" /\ pc' \in {"confirm", "service"}
        BY <1>3 DEF ConfirmOne, writer, window, totals
    <2>2. file' \in [Inodes -> File]
        <3>1. PICK j, n, c : \/ UNCHANGED file
                             \/ file' = [file EXCEPT ![j].dirty = @ \ ((c + 1)..n)]
            BY <1>3 DEF ConfirmOne, Unopened, Handed, Synced
        <3>. QED BY <3>1 DEF IInv, Phases, File
    <2>. QED BY <2>1, <2>2 DEF IInv, Attended, Pushed, Phases
<1>4. CASE PassEnds
    BY <1>4, QuietKeeps DEF PassEnds, Goes, disk, writer, window, totals, book
<1>5. CASE Service
    BY <1>5 DEF Service, Goes, StartSyncer, disk, writer, window, totals, IInv, Attended, Pushed,
                Phases
<1>6. CASE Poll
    BY <1>6, QuietKeeps DEF Poll, Goes, disk, writer, window, totals, book, IInv, Phases
<1>7. CASE \E p \in Paths : LastScan(p)
    BY <1>7, QuietKeeps DEF LastScan, disk, writer, window, totals, IInv, Phases
<1>8. CASE TrackEnd
    BY <1>8, QuietKeeps DEF TrackEnd, Goes, disk, writer, window, totals, IInv, Phases
<1>9. CASE FlushLoop
    BY <1>9, QuietKeeps DEF FlushLoop, Goes, disk, writer, window, totals, IInv, Phases
<1>10. CASE WaitPush
    BY <1>10 DEF WaitPush, WaitSyncer, Goes, disk, writer, window, totals, book, IInv, Attended,
                 Pushed, Phases
<1>11. CASE FinalSync
    BY <1>11 DEF FinalSync, Goes, StartSyncer, disk, writer, window, totals, book, IInv,
                 Attended, Pushed,
                 Phases
<1>12. CASE Report
    BY <1>12 DEF Report, WaitSyncer, Goes, disk, writer, window, totals, IInv, Attended, Pushed,
                 Phases,
                 Written
<1>. QED BY <1>1, <1>2, <1>3, <1>4, <1>5, <1>6, <1>7, <1>8, <1>9, <1>10, <1>11, <1>12
         DEF Child

LEMMA NextKeeps ==
    ASSUME IInv, [Next]_vars PROVE IInv'
<1>1. CASE Start
    BY <1>1 DEF Start, disk, window, totals, book, IInv, Attended, Pushed, Phases
<1>2. CASE Finish
    BY <1>2 DEF Finish, Goes, disk, writer, window, totals, IInv, Attended, Pushed, Phases
<1>3. CASE \E p \in Paths : Scan(p)
    BY <1>3, QuietKeeps DEF Scan, disk, writer, window, totals, IInv, Phases
<1>4. CASE \E p \in Paths : Delete(p)
    BY <1>4 DEF Delete, IInv, Attended, Pushed, Phases, Written, book, window, totals
<1>5. CASE UNCHANGED vars
    BY <1>5 DEF vars, disk, writer, window, totals, IInv, Attended, Pushed, Phases, Written
<1>. QED BY <1>1, <1>2, <1>3, <1>4, <1>5, CommandKeeps, ChildKeeps, SyncerKeeps DEF Next, Over

\* Once tp_finish has begun abox_set_byte_progress stops at 99%.
Capped == flushing /\ full => pc = "done"

LEMMA CappedStep ==
    ASSUME IInv, Capped, [Next]_vars PROVE Capped'
<1>1. ASSUME UNCHANGED <<flushing, full, pc>> PROVE Capped'
    BY <1>1 DEF Capped
<1>2. ASSUME flushing' = flushing, full' = full, pc # "done" PROVE Capped'
    BY <1>2 DEF Capped
<1>3. ASSUME flushing' = flushing, flushing => full' = full \/ ~full', pc # "done" PROVE Capped'
    BY <1>3 DEF Capped
<1>4. CASE Command \/ Syncer \/ \E p \in Paths : Scan(p) \/ LastScan(p) \/ Delete(p)
    BY <1>1, <1>4 DEF Command, Create, Truncate, Extend, Restamp, MoveIn, Rename, Exit, Writes,
                      Works, Syncer, SyncerFlushes, SyncerFails, Scan, LastScan, Delete, window
<1>5. CASE \/ TrackBegin \/ ScanEnds \/ PassEnds \/ Poll \/ FlushLoop \/ WaitPush \/ FinalSync
           \/ Start
    BY <1>2, <1>5 DEF TrackBegin, ScanEnds, PassEnds, Poll, FlushLoop, WaitPush, FinalSync, Start,
                      WaitSyncer, window
<1>6. CASE Service \/ TrackEnd
    BY <1>3, <1>6 DEF Service, TrackEnd, Sends, Full
<1>7. CASE ConfirmOne
    <2>1. flushing' = flushing /\ pc # "done"
        BY <1>7 DEF ConfirmOne
    <2>2. ASSUME NEW i, NEW j, Unopened(i, j) \/ Handed(i, j) \/ Synced(i, j), flushing
          PROVE  full' = full \/ ~full'
        BY <2>2 DEF Unopened, Handed, Synced, Full
    <2>. QED BY <1>3, <1>7, <2>1, <2>2 DEF ConfirmOne
<1>8. CASE Finish \/ Report
    BY <1>8 DEF Finish, Report, WaitSyncer, Goes, Capped
<1>9. CASE Over \/ UNCHANGED vars
    BY <1>1, <1>9 DEF Over, vars, window
<1>. QED BY <1>4, <1>5, <1>6, <1>7, <1>8, <1>9 DEF Next, Child

LEMMA SafeIsIn == IInv /\ Capped => SafeToRemove
BY NoneAssumption DEF IInv, Pushed, Phases, Capped, Written, SafeToRemove, OnDevice, Named

\* When tp_finish has returned, all that the operation wrote is on the device,
\* unless the last flush did not happen; and from the time tp_finish has begun the
\* bar shows 100% only then.  It may have shown 100% before.
THEOREM DoneIsSafe == Spec => []SafeToRemove
<1>1. Init => IInv /\ Capped
    BY InitIInv DEF Init, Capped
<1>2. IInv /\ Capped /\ [Next]_vars => IInv' /\ Capped'
    BY NextKeeps, CappedStep
<1>3. IInv /\ Capped => SafeToRemove
    BY SafeIsIn
<1>. QED BY <1>1, <1>2, <1>3, PTL DEF Spec


----------------------------------------------------------------------------
(* What is known of the files between two commands.  A walk of the scan     *)
(* only takes one path after the other, and a command or the user may have  *)
(* given a path another file since: what holds of every path once tracking  *)
(* has ended holds, while the last scan goes on, of the paths it has        *)
(* reached.                                                                 *)

OneName == \A p, q \in Paths : names[p] = names[q] => p = q \/ names[p] = None

Once(s) == \A j, k \in 1..Len(s) : s[j] = s[k] => j = k

\* The entries and the queue of those to confirm agree.
Records ==
    /\ seen \in [Inodes -> Entry \cup {NoEntry}]
    /\ pending \in Seq(Inodes)
    /\ Once(pending)
    /\ \A i \in Inodes : seen[i].in_pending <=> Contains(pending, i)

\* A file is made by a tracked command only: another one moves files.
Tracking ==
    /\ pc \in {"idle", "begin"} => ~tracks
    /\ pc = "last" => tracks
    /\ flushing => ~tracks
    /\ command /\ ~tracks => fresh = {}

\* What was written at p is known by that name, and counted if it does not
\* wait to be.
Known(p) ==
    LET i == names[p] IN
    i # None =>
        /\ i \in fresh => seen[i] # NoEntry \/ before[i] = State(i)
        /\ seen[i] # NoEntry =>
              /\ seen[i].path = p
              /\ ~seen[i].in_pending => seen[i].confirmed >= file[i].size

Reached(p) == (~tracks /\ pc # "begin") \/ (pc = "last" /\ p \notin left)

Surveyed == \A p \in Paths : Reached(p) => Known(p)

Survey == IInv /\ OneName /\ Records /\ Tracking /\ Surveyed

\* A sequence without repetitions stays so with a new element at its end.
LEMMA AppendedOnce ==
    ASSUME NEW S, NEW s \in Seq(S), Once(s), NEW e \in S, ~Contains(s, e)
    PROVE  /\ Append(s, e) \in Seq(S) /\ Once(Append(s, e))
           /\ \A x \in S : Contains(Append(s, e), x) <=> Contains(s, x) \/ x = e
<1> DEFINE t == Append(s, e)
<1>1. /\ t \in Seq(S) /\ Len(t) = Len(s) + 1 /\ Len(s) \in Nat /\ t[Len(s) + 1] = e
      /\ \A k \in 1..Len(s) : t[k] = s[k]
    OBVIOUS
<1> HIDE DEF t
<1>2. Once(t)
    BY <1>1 DEF Once, Contains
<1>3. \A x \in S : Contains(t, x) <=> Contains(s, x) \/ x = e
    BY <1>1 DEF Contains
<1>. QED BY <1>1, <1>2, <1>3 DEF t

LEMMA Concatenated ==
    ASSUME NEW S, NEW u \in Seq(S), NEW v \in Seq(S)
    PROVE  /\ u \o v \in Seq(S) /\ Len(u \o v) = Len(u) + Len(v)
           /\ \A k \in 1..Len(u) : (u \o v)[k] = u[k]
           /\ \A k \in 1..Len(v) : (u \o v)[Len(u) + k] = v[k]
<1>1. u \o v \in Seq(S) /\ Len(u \o v) = Len(u) + Len(v) /\ Len(u) \in Nat /\ Len(v) \in Nat
    OBVIOUS
<1>2. ASSUME NEW k \in 1..Len(u) PROVE (u \o v)[k] = u[k]
    BY <1>1
<1>3. ASSUME NEW k \in 1..Len(v) PROVE (u \o v)[Len(u) + k] = v[k]
    <2>1. Len(u) + k \in 1..(Len(u) + Len(v)) /\ ~(Len(u) + k <= Len(u))
          /\ Len(u) + k - Len(u) = k
        BY <1>1
    <2>. QED BY <1>1, <2>1
<1>. QED BY <1>1, <1>2, <1>3

\* RemoveAt takes one element out of it.
LEMMA RemovedOnce ==
    ASSUME NEW S, NEW s \in Seq(S), Once(s), NEW a \in 1..Len(s)
    PROVE  /\ RemoveAt(s, a) \in Seq(S) /\ Once(RemoveAt(s, a))
           /\ \A x \in S : Contains(RemoveAt(s, a), x) <=> Contains(s, x) /\ x # s[a]
<1> DEFINE t == RemoveAt(s, a)
           u == SubSeq(s, 1, a - 1)
           v == SubSeq(s, a + 1, Len(s))
<1>1. /\ u \in Seq(S) /\ Len(u) = a - 1 /\ \A k \in 1..(a - 1) : u[k] = s[k]
      /\ v \in Seq(S) /\ Len(v) = Len(s) - a /\ \A k \in 1..(Len(s) - a) : v[k] = s[a + k]
      /\ Len(s) \in Nat
    OBVIOUS
<1>2. t = u \o v
    BY DEF RemoveAt
<1> HIDE DEF t, u, v
<1>3. /\ t \in Seq(S) /\ Len(t) = Len(s) - 1
      /\ \A k \in 1..(a - 1) : t[k] = s[k]
      /\ \A k \in 1..(Len(s) - a) : t[a - 1 + k] = s[a + k]
    <2>1. /\ u \o v \in Seq(S) /\ Len(u \o v) = Len(u) + Len(v)
          /\ \A k \in 1..Len(u) : (u \o v)[k] = u[k]
          /\ \A k \in 1..Len(v) : (u \o v)[Len(u) + k] = v[k]
        <3>1. u \in Seq(S) /\ v \in Seq(S)
            BY <1>1
        <3>. QED BY ONLY <3>1, Concatenated
    <2>2. t \in Seq(S) /\ Len(t) = Len(s) - 1
        BY ONLY <1>1, <1>2, <2>1, a \in 1..Len(s)
    <2>3. \A k \in 1..(a - 1) : t[k] = s[k]
        BY ONLY <1>1, <1>2, <2>1
    <2>4. \A k \in 1..(Len(s) - a) : t[a - 1 + k] = s[a + k]
        BY ONLY <1>1, <1>2, <2>1
    <2>. QED BY ONLY <2>2, <2>3, <2>4
<1>4. \A k \in a..(Len(s) - 1) : t[k] = s[k + 1]
    <2> SUFFICES ASSUME NEW k \in a..(Len(s) - 1) PROVE t[k] = s[k + 1]
        OBVIOUS
    <2>1. PICK n \in Nat : n = Len(s)
        BY <1>1
    <2>2. PICK i \in 1..(n - a) : i = k - a + 1
        BY ONLY <2>1, a \in 1..Len(s), k \in a..(Len(s) - 1)
    <2>3. a - 1 + i = k /\ a + i = k + 1
        BY ONLY <2>1, <2>2, a \in 1..Len(s), k \in a..(Len(s) - 1)
    <2>4. t[a - 1 + i] = s[a + i]
        BY ONLY <1>3, <2>1, <2>2
    <2>. QED BY ONLY <2>3, <2>4
<1>5. Once(t)
    <2>1. PICK n \in Nat : n = Len(s) /\ a \in 1..n /\ Len(t) = n - 1
        BY <1>1, <1>3
    <2>2. ASSUME NEW j \in 1..(n - 1)
          PROVE  \E i \in 1..n : i = (IF j < a THEN j ELSE j + 1) /\ t[j] = s[i]
        <3>1. CASE j < a
            <4>1. j \in 1..(a - 1) /\ j \in 1..n
                BY ONLY <2>1, <3>1, j \in 1..(n - 1)
            <4>. QED BY ONLY <1>3, <3>1, <4>1
        <3>2. CASE ~(j < a)
            <4>1. j \in a..(n - 1) /\ j + 1 \in 1..n
                BY ONLY <2>1, <3>2, j \in 1..(n - 1)
            <4>. QED BY ONLY <1>4, <2>1, <3>2, <4>1
        <3>. QED BY <3>1, <3>2
    <2>3. ASSUME NEW j \in 1..(n - 1), NEW k \in 1..(n - 1), t[j] = t[k] PROVE j = k
        <3>1. PICK x \in 1..n : x = (IF j < a THEN j ELSE j + 1) /\ t[j] = s[x]
            BY ONLY <2>2, j \in 1..(n - 1)
        <3>2. PICK y \in 1..n : y = (IF k < a THEN k ELSE k + 1) /\ t[k] = s[y]
            BY ONLY <2>2, k \in 1..(n - 1)
        <3>3. x = y
            BY <2>1, <2>3, <3>1, <3>2 DEF Once
        <3>. QED BY ONLY <2>1, <3>1, <3>2, <3>3, j \in 1..(n - 1), k \in 1..(n - 1)
    <2>. QED BY <2>1, <2>3 DEF Once
<1>6. ASSUME NEW x \in S, Contains(t, x) PROVE Contains(s, x) /\ x # s[a]
    <2>1. PICK k \in 1..Len(t) : t[k] = x
        BY <1>6 DEF Contains
    <2>. QED BY <1>1, <1>3, <1>4, <2>1 DEF Contains, Once
<1>7. ASSUME NEW x \in S, Contains(s, x), x # s[a] PROVE Contains(t, x)
    <2>1. PICK k \in 1..Len(s) : s[k] = x
        BY <1>7 DEF Contains
    <2>2. CASE k < a
        BY <1>1, <1>3, <2>1, <2>2 DEF Contains
    <2>3. CASE k > a
        <3>1. k - 1 \in a..(Len(s) - 1) /\ k - 1 \in 1..Len(t) /\ t[k - 1] = s[k]
            BY <1>1, <1>3, <1>4, <2>3
        <3>. QED BY <2>1, <3>1 DEF Contains
    <2>. QED BY <1>1, <1>7, <2>1, <2>2, <2>3
<1>. QED BY <1>3, <1>5, <1>6, <1>7 DEF t


----------------------------------------------------------------------------
(* register_file and confirm_one on the records *)

LEMMA RegisterKeeps ==
    ASSUME Survey, NEW p \in Paths, Register(p), UNCHANGED <<names, file, fresh, before>>
    PROVE  /\ Records' /\ Known(p)'
           /\ \A q \in Paths : Known(q) => Known(q)'
<1> DEFINE i == names[p]
           again == ~seen[i].in_pending /\ file[i].size # seen[i].confirmed
<1>1. /\ names \in [Paths -> Inodes \cup {None}] /\ file \in [Inodes -> File]
      /\ seen \in [Inodes -> Entry \cup {NoEntry}] /\ Records /\ i \in Inodes \cup {None}
      /\ OneName
    BY DEF Survey, IInv, Phases, Records
<1>2. ASSUME NEW q \in Paths, q # p, Known(q), i # None,
             \A j \in Inodes : j # i => seen'[j] = seen[j]
      PROVE  Known(q)'
    <2>1. names[q] # i /\ names[q] \in Inodes \cup {None}
        BY <1>1, <1>2 DEF OneName
    <2>2. names[q] # None => seen'[names[q]] = seen[names[q]]
        BY <1>2, <2>1
    <2>. QED BY <1>2, <2>2 DEF Known, State
<1>3. CASE i = None
    BY <1>1, <1>3 DEF Register, Known, Records, State
<1>4. CASE i # None /\ seen[i] = NoEntry /\ before[i] = State(i)
    <2>1. UNCHANGED <<seen, pending>>
        BY <1>4 DEF Register
    <2>. QED BY <1>1, <1>4, <2>1 DEF Known, Records, State
<1>5. CASE i # None /\ seen[i] = NoEntry /\ before[i] # State(i)
    <2> DEFINE new == [path |-> p, confirmed |-> 0, in_pending |-> TRUE, writer_done |-> FALSE]
    <2>1. seen' = [seen EXCEPT ![i] = new] /\ pending' = Append(pending, i)
        BY <1>5 DEF Register
    <2>2. i \in Inodes /\ ~Contains(pending, i)
        BY <1>1, <1>5 DEF Records, NoEntry
    <2>3. new \in Entry /\ new # NoEntry /\ new.in_pending /\ new.path = p
        BY MaxAssumption DEF Entry, NoEntry
    <2> HIDE DEF new
    <2>4. /\ pending' \in Seq(Inodes) /\ Once(pending')
          /\ \A x \in Inodes : Contains(pending', x) <=> Contains(pending, x) \/ x = i
        BY <1>1, <2>1, <2>2, AppendedOnce DEF Records
    <2>5. /\ seen' \in [Inodes -> Entry \cup {NoEntry}] /\ seen'[i] = new
          /\ \A j \in Inodes : j # i => seen'[j] = seen[j]
        BY <1>1, <2>1, <2>2, <2>3
    <2>6. Records'
        BY <1>1, <2>2, <2>3, <2>4, <2>5 DEF Records
    <2>7. Known(p)'
        BY <1>5, <2>3, <2>5 DEF Known
    <2>. QED BY <1>2, <1>5, <2>5, <2>6, <2>7
<1>6. CASE i # None /\ seen[i] # NoEntry
    <2> DEFINE new == [seen[i] EXCEPT !.path = p, !.in_pending = @ \/ again,
                                      !.writer_done = @ /\ ~again]
    <2>1. /\ seen' = [seen EXCEPT ![i].path = p, ![i].in_pending = @ \/ again,
                                  ![i].writer_done = @ /\ ~again]
          /\ pending' = IF again THEN Append(pending, i) ELSE pending
        BY <1>6 DEF Register
    <2>2. i \in Inodes /\ (again => ~Contains(pending, i)) /\ seen[i] \in Entry
        BY <1>1, <1>6 DEF Records
    <2>3. /\ new \in Entry /\ new # NoEntry /\ new.path = p
          /\ new.in_pending <=> seen[i].in_pending \/ again
          /\ new.confirmed = seen[i].confirmed
        BY <2>2, NoneAssumption DEF Entry, NoEntry
    <2>4. /\ seen' \in [Inodes -> Entry \cup {NoEntry}] /\ seen'[i] = new
          /\ \A j \in Inodes : j # i => seen'[j] = seen[j]
        <3>1. seen' = [seen EXCEPT ![i] = new]
            BY <1>1, <2>1, <2>2 DEF Entry
        <3> HIDE DEF new
        <3>. QED BY <1>1, <2>2, <2>3, <3>1
    <2>5. ~new.in_pending => new.confirmed >= file[i].size
        BY <1>1, <2>2, <2>3 DEF Entry, File
    <2> HIDE DEF new
    <2>6. /\ pending' \in Seq(Inodes) /\ Once(pending')
          /\ \A x \in Inodes : Contains(pending', x) <=> Contains(pending, x) \/ (again /\ x = i)
        BY <1>1, <2>1, <2>2, AppendedOnce DEF Records
    <2>7. Records'
        BY <1>1, <2>2, <2>3, <2>4, <2>6 DEF Records
    <2>8. Known(p)'
        BY <1>6, <2>3, <2>4, <2>5 DEF Known
    <2>. QED BY <1>2, <1>6, <2>4, <2>7, <2>8
<1>. QED BY <1>3, <1>4, <1>5, <1>6

\* A complete file leaves the queue; whatever is counted of it, it is known.
LEMMA ConfirmKeeps ==
    ASSUME Survey, at \in 1..Len(pending), NEW n \in 0..MaxSize, NEW complete \in BOOLEAN,
           Confirm(pending[at], n, complete)
    PROVE  /\ Records'
           /\ \A j \in Inodes : j # pending[at] => seen'[j] = seen[j]
           /\ LET i == pending[at] IN
                 /\ i \in Inodes /\ seen[i] # NoEntry /\ seen'[i] # NoEntry
                 /\ seen'[i].path = seen[i].path /\ seen'[i].confirmed = n
                 /\ seen'[i].in_pending <=> ~complete
<1> DEFINE i == pending[at]
           new == [seen[i] EXCEPT !.confirmed = n, !.in_pending = ~complete]
<1>1. /\ seen \in [Inodes -> Entry \cup {NoEntry}] /\ pending \in Seq(Inodes) /\ Once(pending)
      /\ \A j \in Inodes : seen[j].in_pending <=> Contains(pending, j)
    BY DEF Survey, Records
<1>2. i \in Inodes /\ Contains(pending, i)
    BY <1>1 DEF Contains
<1>3. seen[i] \in Entry /\ seen[i] # NoEntry
    BY <1>1, <1>2, NoneAssumption DEF NoEntry, Entry
<1>4. /\ new \in Entry /\ new # NoEntry /\ new.path = seen[i].path /\ new.confirmed = n
      /\ new.in_pending <=> ~complete
    BY <1>3, NoneAssumption DEF Entry, NoEntry
<1>5. seen' = [seen EXCEPT ![i] = new]
    BY <1>1, <1>2, <1>3 DEF Confirm, Entry
<1>6. pending' = IF complete THEN RemoveAt(pending, at) ELSE pending
    BY DEF Confirm
<1> HIDE DEF new
<1>7. /\ seen' \in [Inodes -> Entry \cup {NoEntry}] /\ seen'[i] = new
      /\ \A j \in Inodes : j # i => seen'[j] = seen[j]
    BY <1>1, <1>2, <1>4, <1>5
<1>8. /\ pending' \in Seq(Inodes) /\ Once(pending')
      /\ \A x \in Inodes : Contains(pending', x) <=> Contains(pending, x) /\ ~(complete /\ x = i)
    BY <1>1, <1>6, RemovedOnce
<1>9. Records'
    BY <1>1, <1>2, <1>4, <1>7, <1>8 DEF Records
<1>. QED BY <1>2, <1>3, <1>4, <1>7, <1>9


----------------------------------------------------------------------------
(* The survey, step by step *)

LEMMA InitSurvey == Init => Survey
<1> SUFFICES ASSUME Init PROVE Survey
    OBVIOUS
<1>1. OneName /\ Tracking
    BY DEF Init, OneName, Tracking
<1>2. Records
    BY DEF Init, Records, Once, Contains, NoEntry
<1>3. Surveyed
    <2>1. \A i \in Inodes : seen[i] = NoEntry
        BY DEF Init
    <2>2. names \in [Paths -> Inodes \cup {None}] /\ fresh = {}
        BY DEF Init
    <2>. QED BY <2>1, <2>2 DEF Surveyed, Known
<1>. QED BY <1>1, <1>2, <1>3, InitIInv DEF Survey

\* Steps that leave every path its file, its size and its time.
LEMMA SameFiles ==
    ASSUME Survey, UNCHANGED <<names, before, seen, pending>>,
           \A i \in Inodes : file'[i].size = file[i].size /\ file'[i].mtime = file[i].mtime,
           fresh' \subseteq fresh,
           \A p \in Paths : Reached(p)' => Reached(p)
    PROVE  OneName' /\ Records' /\ Surveyed'
<1>1. names \in [Paths -> Inodes \cup {None}]
    BY DEF Survey, IInv, Phases
<1>2. ASSUME NEW p \in Paths, Known(p) PROVE Known(p)'
    BY <1>1, <1>2 DEF Known, State
<1>. QED BY <1>2 DEF Survey, OneName, Records, Surveyed

LEMMA WritesSurvey ==
    ASSUME Survey, NEW p \in Paths, NEW q \in Paths,
           Create(p) \/ Truncate(p) \/ Extend(p) \/ Restamp(p) \/ Rename(p, q)
    PROVE  OneName' /\ Records' /\ Tracking' /\ Surveyed'
<1>1. /\ UNCHANGED <<command, pc, tracks, flushing, left, before, seen, pending>>
      /\ command /\ (tracks \/ pc = "begin")
    BY DEF Create, Truncate, Extend, Restamp, Rename, Writes, Works, book, window, totals
<1>2. Records'
    BY <1>1 DEF Survey, Records
<1>3. Tracking'
    <2>1. tracks \/ fresh' = fresh
        BY DEF Create, Truncate, Extend, Restamp, Rename, Touches
    <2>. QED BY <1>1, <2>1 DEF Survey, Tracking
<1>4. Surveyed'
    BY <1>1 DEF Survey, IInv, Attended, Surveyed, Reached
<1>5. OneName'
    <2>1. names \in [Paths -> Inodes \cup {None}] /\ OneName
        BY DEF Survey, IInv, Phases
    <2>2. CASE Create(p)
        <3>1. PICK i \in Inodes \ Named : names' = [names EXCEPT ![p] = i]
            BY <2>2 DEF Create
        <3>. QED BY <2>1, <3>1, NoneAssumption DEF OneName, Named
    <2>3. CASE Rename(p, q)
        BY <2>1, <2>3 DEF Rename, OneName
    <2>4. CASE Truncate(p) \/ Extend(p) \/ Restamp(p)
        BY <2>1, <2>4 DEF Truncate, Extend, Restamp, OneName
    <2>. QED BY <2>2, <2>3, <2>4
<1>. QED BY <1>2, <1>3, <1>4, <1>5

LEMMA MoveInSurvey ==
    ASSUME Survey, NEW p \in Paths, MoveIn(p)
    PROVE  OneName' /\ Records' /\ Tracking' /\ Surveyed'
<1>1. /\ UNCHANGED <<command, pc, tracks, flushing, left, before, seen, pending, file, fresh>>
      /\ command /\ ~tracks /\ pc # "begin"
    BY DEF MoveIn, Works, book, window, totals
<1>2. PICK i \in Inodes \ Named : seen[i] = NoEntry /\ names' = [names EXCEPT ![p] = i]
    BY DEF MoveIn
<1>3. names \in [Paths -> Inodes \cup {None}] /\ OneName /\ fresh = {}
    BY <1>1 DEF Survey, IInv, Phases, Tracking
<1>4. OneName'
    BY <1>2, <1>3, NoneAssumption DEF OneName, Named
<1>5. Records' /\ Tracking'
    BY <1>1 DEF Survey, Records, Tracking
<1>6. ASSUME NEW q \in Paths PROVE Known(q)'
    <2>1. CASE q = p
        BY <1>1, <1>2, <1>3, <2>1 DEF Known
    <2>2. CASE q # p
        <3>1. Known(q) /\ names'[q] = names[q]
            BY <1>1, <1>2, <1>3, <2>2 DEF Survey, Surveyed, Reached
        <3>. QED BY <1>1, <3>1 DEF Known, State
    <2>. QED BY <2>1, <2>2
<1>. QED BY <1>4, <1>5, <1>6 DEF Surveyed

LEMMA DeleteSurvey ==
    ASSUME Survey, NEW p \in Paths, Delete(p)
    PROVE  OneName' /\ Records' /\ Tracking' /\ Surveyed'
<1>1. /\ UNCHANGED <<command, pc, tracks, flushing, left, before, seen, pending, file, fresh>>
      /\ names' = [names EXCEPT ![p] = None]
    BY DEF Delete, book, window, totals
<1>2. names \in [Paths -> Inodes \cup {None}] /\ OneName
    BY DEF Survey, IInv, Phases
<1>3. OneName'
    BY <1>1, <1>2 DEF OneName
<1>4. Records' /\ Tracking'
    BY <1>1 DEF Survey, Records, Tracking
<1>5. ASSUME NEW q \in Paths, Known(q) PROVE Known(q)'
    <2>1. CASE q = p
        BY <1>1, <1>2, <2>1 DEF Known
    <2>2. CASE q # p
        BY <1>1, <1>2, <1>5, <2>2 DEF Known, State
    <2>. QED BY <2>1, <2>2
<1>6. \A q \in Paths : Reached(q)' => Reached(q)
    BY <1>1 DEF Reached
<1>. QED BY <1>3, <1>4, <1>5, <1>6 DEF Survey, Surveyed

LEMMA CommandSurvey ==
    ASSUME Survey, Command PROVE OneName' /\ Records' /\ Tracking' /\ Surveyed'
<1>1. CASE Exit
    <2>1. /\ UNCHANGED <<names, file, before, seen, pending, fresh, pc, tracks, flushing, left>>
          /\ ~command'
        BY <1>1 DEF Exit, disk, window, totals, book
    <2>2. Tracking'
        BY <2>1 DEF Survey, Tracking
    <2>. QED BY <2>1, <2>2, SameFiles DEF Reached
<1>. QED BY <1>1, WritesSurvey, MoveInSurvey DEF Command

LEMMA SyncerSurvey ==
    ASSUME Survey, Syncer PROVE OneName' /\ Records' /\ Tracking' /\ Surveyed'
<1>1. /\ UNCHANGED <<names, before, seen, pending, fresh, pc, tracks, flushing, left, command>>
      /\ file' = file \/ file' = [i \in Inodes |-> [file[i] EXCEPT !.dirty = {}]]
    BY DEF Syncer, SyncerFlushes, SyncerFails, disk, writer, window, totals, book
<1>2. \A i \in Inodes : file'[i].size = file[i].size /\ file'[i].mtime = file[i].mtime
    BY <1>1 DEF Survey, IInv, Phases, File
<1>3. Tracking'
    BY <1>1 DEF Survey, Tracking
<1>. QED BY <1>1, <1>2, <1>3, SameFiles DEF Reached


\* A file that is complete was counted up to its size: when no command writes
\* any more, the path in its entry is where it is.
LEMMA ConfirmOneSurvey ==
    ASSUME Survey, ConfirmOne PROVE OneName' /\ Records' /\ Tracking' /\ Surveyed'
<1> DEFINE i == pending[at]
           j == names[seen[i].path]
<1>1. /\ pc = "confirm" /\ pc' \in {"confirm", "service"} /\ at \in 1..Len(pending)
      /\ UNCHANGED <<names, before, command, fresh, tracks, flushing, left>>
    BY DEF ConfirmOne, writer, window, totals
<1>2. /\ names \in [Paths -> Inodes \cup {None}] /\ file \in [Inodes -> File]
      /\ seen \in [Inodes -> Entry \cup {NoEntry}] /\ OneName
      /\ i \in Inodes /\ seen[i] \in Entry
    <2>1. /\ names \in [Paths -> Inodes \cup {None}] /\ file \in [Inodes -> File]
          /\ seen \in [Inodes -> Entry \cup {NoEntry}] /\ OneName
          /\ pending \in Seq(Inodes)
          /\ \A k \in Inodes : seen[k].in_pending <=> Contains(pending, k)
        BY DEF Survey, IInv, Phases, Records
    <2>2. i \in Inodes /\ Contains(pending, i)
        BY <1>1, <2>1 DEF Contains
    <2>. QED BY <2>1, <2>2 DEF NoEntry
<1>3. j \in Inodes \cup {None}
    BY <1>2 DEF Entry
<1>4. /\ \A k \in Inodes : file[k].size \in 0..MaxSize
      /\ seen[i].confirmed \in 0..MaxSize /\ seen[i].writer_done \in BOOLEAN
    BY <1>2 DEF File, Entry
<1>5. PICK n \in 0..MaxSize, complete \in BOOLEAN :
           Confirm(i, n, complete) /\ (complete /\ j # None => n >= file[j].size)
    <2>1. CASE Unopened(i, j)
        <3> DEFINE n == IF j # None /\ file[j].size > seen[i].confirmed
                        THEN file[j].size ELSE seen[i].confirmed
        <3>1. Confirm(i, n, seen[i].writer_done)
            BY <2>1 DEF Unopened
        <3>2. n \in 0..MaxSize /\ (j # None => n >= file[j].size)
            <4>1. CASE j # None /\ file[j].size > seen[i].confirmed
                <5>1. PICK s \in 0..MaxSize : s = file[j].size
                    BY <1>3, <1>4, <4>1
                <5>2. n = s /\ s >= s
                    BY <4>1, <5>1, MaxAssumption
                <5> HIDE DEF n
                <5>. QED BY <5>1, <5>2
            <4>2. CASE ~(j # None /\ file[j].size > seen[i].confirmed)
                <5>1. n = seen[i].confirmed
                    BY <4>2
                <5>2. j # None => file[j].size \in 0..MaxSize
                    BY <1>3, <1>4
                <5> HIDE DEF n
                <5>. QED BY <1>4, <4>2, <5>1, <5>2, MaxAssumption
            <4>. QED BY <4>1, <4>2
        <3> HIDE DEF n
        <3>. QED BY ONLY <1>4, <3>1, <3>2
    <2>2. CASE j # None /\ Handed(i, j)
        <3>1. PICK n \in 0..MaxSize : n = file[j].size
            BY <1>3, <1>4, <2>2
        <3>2. Confirm(i, n, seen[i].writer_done)
            BY <2>2, <3>1 DEF Handed
        <3>3. n >= file[j].size
            BY <3>1, MaxAssumption
        <3>. QED BY ONLY <1>4, <3>2, <3>3
    <2>3. CASE j # None /\ Synced(i, j)
        <3>1. PICK n \in Base(i, file[j].size)..file[j].size :
                  Confirm(i, n, seen[i].writer_done /\ n = file[j].size)
            BY <2>3 DEF Synced
        <3>2. n \in 0..MaxSize
            <4>1. PICK s \in 0..MaxSize : s = file[j].size
                BY <1>3, <1>4, <2>3
            <4>2. PICK b \in 0..MaxSize : b = Base(i, s)
                <5>1. PICK c \in 0..MaxSize : c = seen[i].confirmed
                    BY <1>4
                <5>2. Base(i, s) \in {0, c}
                    BY <5>1 DEF Base
                <5>3. 0 \in 0..MaxSize
                    BY MaxAssumption
                <5>. QED BY <5>1, <5>2, <5>3
            <4>3. n \in b..s
                BY <3>1, <4>1, <4>2
            <4>. QED BY ONLY <4>3, MaxAssumption
        <3> DEFINE complete == seen[i].writer_done /\ n = file[j].size
        <3>3. complete \in BOOLEAN /\ Confirm(i, n, complete)
            BY <3>1
        <3>4. complete => n >= file[j].size
            <4>1. n >= n
                BY <3>2, MaxAssumption
            <4>2. complete => n = file[j].size
                OBVIOUS
            <4> HIDE DEF complete
            <4>. QED BY ONLY <4>1, <4>2
        <3> HIDE DEF complete
        <3>. QED BY <3>2, <3>3, <3>4
    <2>. QED BY <2>1, <2>2, <2>3 DEF ConfirmOne
<1>6. /\ Records'
      /\ \A k \in Inodes : k # i => seen'[k] = seen[k]
      /\ seen[i] # NoEntry /\ seen'[i] # NoEntry /\ seen'[i].path = seen[i].path
      /\ seen'[i].confirmed = n /\ (seen'[i].in_pending <=> ~complete)
    BY <1>1, <1>5, ConfirmKeeps
<1>7. \A k \in Inodes : file'[k].size = file[k].size /\ file'[k].mtime = file[k].mtime
    <2>1. PICK m, d, c : \/ UNCHANGED file
                         \/ file' = [file EXCEPT ![m].dirty = @ \ ((c + 1)..d)]
        BY DEF ConfirmOne, Unopened, Handed, Synced
    <2>. QED BY <1>2, <2>1 DEF File
<1>8. ASSUME NEW p \in Paths, Known(p) PROVE Known(p)'
    <2>1. CASE names[p] = i
        BY <1>1, <1>2, <1>5, <1>6, <1>7, <1>8, <2>1, NoneAssumption DEF Known
    <2>2. CASE names[p] # i
        BY <1>1, <1>2, <1>6, <1>7, <1>8, <2>2 DEF Known, State
    <2>. QED BY <2>1, <2>2
<1>9. \A p \in Paths : Reached(p)' => Reached(p)
    BY <1>1 DEF Reached
<1>10. OneName' /\ Tracking'
    BY <1>1, <1>2 DEF Survey, OneName, Tracking
<1>. QED BY <1>6, <1>8, <1>9, <1>10 DEF Survey, Surveyed

LEMMA LastScanSurvey ==
    ASSUME Survey, NEW p \in Paths, LastScan(p)
    PROVE  OneName' /\ Records' /\ Tracking' /\ Surveyed'
<1>1. /\ pc = "last" /\ left' = left \ {p} /\ Register(p)
      /\ UNCHANGED <<names, file, fresh, before, command, pc, tracks, flushing>>
    BY DEF LastScan, disk, writer, window, totals
<1>2. /\ Records' /\ Known(p)'
      /\ \A q \in Paths : Known(q) => Known(q)'
    BY <1>1, RegisterKeeps
<1>3. \A q \in Paths : Reached(q)' => Reached(q) \/ q = p
    BY <1>1 DEF Reached
<1>4. OneName' /\ Tracking'
    BY <1>1 DEF Survey, OneName, Tracking
<1>. QED BY <1>2, <1>3, <1>4 DEF Survey, Surveyed

LEMMA ScanSurvey ==
    ASSUME Survey, NEW p \in Paths, Scan(p)
    PROVE  OneName' /\ Records' /\ Tracking' /\ Surveyed'
<1>1. /\ pc = "scan" /\ tracks /\ Register(p)
      /\ UNCHANGED <<names, file, fresh, before, command, pc, tracks, flushing, left>>
    BY DEF Scan, disk, writer, window, totals
<1>2. Records'
    BY <1>1, RegisterKeeps
<1>3. OneName' /\ Tracking' /\ Surveyed'
    BY <1>1 DEF Survey, OneName, Tracking, Surveyed, Reached
<1>. QED BY <1>2, <1>3

\* tp_track_end and tp_finish: the entries differ in writer_done only.
LEMMA WritersAreDoneSurvey ==
    ASSUME Survey, WritersAreDone,
           UNCHANGED <<names, file, fresh, before, pending>>,
           \A p \in Paths : Reached(p)' => Reached(p)
    PROVE  OneName' /\ Records' /\ Surveyed'
<1>1. /\ seen \in [Inodes -> Entry \cup {NoEntry}] /\ OneName
      /\ names \in [Paths -> Inodes \cup {None}]
    BY DEF Survey, IInv, Phases, Records
<1>2. ASSUME NEW i \in Inodes
      PROVE  /\ seen'[i] \in Entry \cup {NoEntry}
             /\ seen'[i].path = seen[i].path /\ seen'[i].confirmed = seen[i].confirmed
             /\ seen'[i].in_pending = seen[i].in_pending
             /\ seen'[i] = NoEntry <=> seen[i] = NoEntry
    <2>1. seen'[i] = [seen[i] EXCEPT !.writer_done = @ \/ seen[i].in_pending]
        BY DEF WritersAreDone
    <2>2. CASE seen[i] = NoEntry
        <3>1. seen[i].writer_done = FALSE /\ seen[i].in_pending = FALSE
            BY <2>2 DEF NoEntry
        <3>2. seen'[i] = [seen[i] EXCEPT !.writer_done = FALSE]
            BY <2>1, <3>1
        <3>3. [NoEntry EXCEPT !.writer_done = FALSE] = NoEntry
            <4> DEFINE Set == [path : {None}, confirmed : {0}, in_pending : BOOLEAN,
                               writer_done : BOOLEAN]
                       r == [NoEntry EXCEPT !.writer_done = FALSE]
            <4>1. \A t \in Set : t.in_pending = FALSE /\ t.writer_done = FALSE => t = NoEntry
                BY DEF NoEntry
            <4>2. r \in Set /\ r.in_pending = FALSE /\ r.writer_done = FALSE
                BY DEF NoEntry
            <4> HIDE DEF Set, r
            <4>3. r = NoEntry
                BY <4>1, <4>2
            <4>. QED BY <4>3 DEF r
        <3>4. seen'[i] = seen[i]
            BY <2>2, <3>2, <3>3
        <3>. QED BY <2>2, <3>4
    <2>3. CASE seen[i] \in Entry
        BY <2>1, <2>3, NoneAssumption DEF NoEntry, Entry
    <2>. QED BY <1>1, <2>2, <2>3
<1>3. seen' \in [Inodes -> Entry \cup {NoEntry}]
    <2>1. seen' = [i \in Inodes |-> seen'[i]]
        BY DEF WritersAreDone
    <2>. QED BY <1>2, <2>1
<1>4. OneName' /\ Records'
    BY <1>1, <1>2, <1>3 DEF Survey, OneName, Records
<1>5. ASSUME NEW p \in Paths, Known(p) PROVE Known(p)'
    BY <1>1, <1>2, <1>5 DEF Known, State
<1>. QED BY <1>4, <1>5 DEF Survey, Surveyed

LEMMA ChildSurvey ==
    ASSUME Survey, Child PROVE OneName' /\ Records' /\ Tracking' /\ Surveyed'
<1>1. CASE TrackBegin
    <2>1. /\ UNCHANGED <<names, file, command, fresh, flushing, seen, pending>>
          /\ pc' = "scan" /\ tracks' /\ pc = "begin"
        BY <1>1 DEF TrackBegin, Goes, disk, writer, window, totals
    <2>. QED BY <2>1 DEF Survey, IInv, Phases, OneName, Records, Tracking, Surveyed, Reached
<1>2. CASE ScanEnds \/ PassEnds \/ Service \/ FlushLoop \/ WaitPush \/ FinalSync \/ Report
    <2>1. /\ UNCHANGED <<names, file, command, fresh, flushing, before, seen, pending, tracks,
                         left>>
          /\ pc # "begin" /\ pc' \notin {"idle", "begin", "last"}
        BY <1>2 DEF ScanEnds, PassEnds, Service, FlushLoop, WaitPush, FinalSync, Report,
                    WaitSyncer, Goes, disk, writer, window, totals, book
    <2>2. Tracking'
        BY <2>1 DEF Survey, Tracking
    <2>. QED BY <2>1, <2>2, SameFiles DEF Reached
<1>3. CASE ConfirmOne
    BY <1>3, ConfirmOneSurvey
<1>4. CASE Poll
    <2>1. /\ UNCHANGED <<names, file, command, fresh, flushing, before, seen, pending, tracks>>
          /\ pc = "poll" /\ pc' = IF command THEN "scan" ELSE IF tracks THEN "last" ELSE "idle"
          /\ left' = IF ~command /\ tracks THEN Paths ELSE {}
        BY <1>4 DEF Poll, Goes, disk, writer, window, totals, book
    <2>2. Tracking'
        BY <2>1 DEF Survey, Tracking
    <2>3. \A p \in Paths : Reached(p)' => Reached(p)
        BY <2>1 DEF Reached
    <2>. QED BY <2>1, <2>2, <2>3, SameFiles
<1>5. CASE \E p \in Paths : LastScan(p)
    BY <1>5, LastScanSurvey
<1>6. CASE TrackEnd
    <2>1. /\ UNCHANGED <<names, file, fresh, before, pending, command, flushing>>
          /\ WritersAreDone /\ pc = "last" /\ left = {} /\ pc' = "idle" /\ ~tracks'
        BY <1>6 DEF TrackEnd, Goes, disk, writer, window, totals
    <2>2. Tracking'
        BY <2>1 DEF Survey, IInv, Phases, Tracking
    <2>3. \A p \in Paths : Reached(p)
        BY <2>1 DEF Reached
    <2>. QED BY <2>1, <2>2, <2>3, WritersAreDoneSurvey
<1>. QED BY <1>1, <1>2, <1>3, <1>4, <1>5, <1>6 DEF Child

LEMMA SurveyStep ==
    ASSUME Survey, [Next]_vars PROVE Survey'
<1>1. IInv'
    BY NextKeeps DEF Survey
<1>2. CASE Start
    <2>1. /\ UNCHANGED <<names, file, flushing, before, seen, pending, tracks, left>>
          /\ pc = "idle" /\ pc' \in {"begin", "scan"} /\ fresh' = {}
        BY <1>2 DEF Start, disk, window, totals, book
    <2>2. Tracking'
        BY <2>1 DEF Survey, Tracking
    <2>. QED BY <1>1, <2>1, <2>2, SameFiles DEF Reached, Survey
<1>3. CASE Finish
    <2>1. /\ UNCHANGED <<names, file, fresh, before, pending, command, tracks, left>>
          /\ WritersAreDone /\ pc = "idle" /\ pc' = "flush"
        BY <1>3 DEF Finish, Goes, disk, writer, window, totals
    <2>2. Tracking'
        BY <2>1 DEF Survey, Tracking
    <2>. QED BY <1>1, <2>1, <2>2, WritersAreDoneSurvey DEF Reached, Survey
<1>4. CASE \E p \in Paths : Scan(p) \/ Delete(p)
    BY <1>1, <1>4, ScanSurvey, DeleteSurvey DEF Survey
<1>5. CASE UNCHANGED vars
    BY <1>1, <1>5 DEF vars, disk, writer, window, totals, book, Survey, OneName, Records,
                    Tracking, Surveyed,
                      Known, Reached, State
<1>. QED BY <1>1, <1>2, <1>3, <1>4, <1>5, CommandSurvey, ChildSurvey, SyncerSurvey
         DEF Next, Over, Survey

LEMMA SurveyMeans == Survey => NothingLeftBehind
<1> SUFFICES ASSUME Survey PROVE NothingLeftBehind
    OBVIOUS
<1>1. \A i \in Inodes : seen[i].in_pending <=> Contains(pending, i)
    BY DEF Survey, Records
<1>2. ASSUME pc \in {"idle", "flush"}, NEW i \in Named
      PROVE  /\ i \in fresh => seen[i] # NoEntry \/ before[i] = State(i)
             /\ seen[i] # NoEntry /\ ~seen[i].in_pending => seen[i].confirmed >= file[i].size
    <2>1. PICK p \in Paths : names[p] = i /\ i # None
        BY DEF Named
    <2>2. Reached(p)
        BY <1>2 DEF Survey, IInv, Phases, Tracking, Reached
    <2>. QED BY <2>1, <2>2 DEF Survey, Surveyed, Known
<1>. QED BY <1>1, <1>2 DEF NothingLeftBehind

\* Between two commands, and when the flush begins, every file the command
\* wrote is known, and what needs no confirming was counted whole; the queue
\* and the entries agree at all times (scan_tracks, confirm_pending).
THEOREM NothingLeftBehindHolds == Spec => []NothingLeftBehind
<1>1. Init => Survey
    BY InitSurvey
<1>2. Survey /\ [Next]_vars => Survey'
    BY SurveyStep
<1>3. Survey => NothingLeftBehind
    BY SurveyMeans
<1>. QED BY <1>1, <1>2, <1>3, PTL DEF Spec

----------------------------------------------------------------------------
(* What is counted: chunks of files.                                       *)

\* A file of which n chunks are confirmed now adds those, less what it had.
LEMMA Recounted ==
    ASSUME NEW f \in [Inodes -> 0..MaxSize], NEW g \in [Inodes -> 0..MaxSize],
           NEW i \in Inodes, \A j \in Inodes : j # i => g[j] = f[j]
    PROVE  Cardinality(Chunks(g)) = Cardinality(Chunks(f)) + g[i] - f[i]
<1> DEFINE R == {c \in Chunks(f) : c[1] # i}
           Of(n) == {i} \X (1..n)
<1>1. MaxSize \in Nat
    BY MaxAssumption
<1>2. IsFiniteSet(R) /\ Cardinality(R) \in Nat
    <2>1. IsFiniteSet(Inodes \X (1..MaxSize))
        <3>1. IsFiniteSet(1..MaxSize)
            BY <1>1, FS_Interval
        <3>. QED BY <3>1, InodesAssumption, FS_Product
    <2>2. R \in SUBSET (Inodes \X (1..MaxSize))
        BY <1>1 DEF Chunks
    <2> HIDE DEF R
    <2>. QED BY <2>1, <2>2, FS_Subset, FS_CardinalityType
<1>3. ASSUME NEW n \in 0..MaxSize
      PROVE  IsFiniteSet(Of(n)) /\ Cardinality(Of(n)) = n
    <2>1. IsFiniteSet({i}) /\ Cardinality({i}) = 1
        BY FS_Singleton
    <2>2. IsFiniteSet(1..n) /\ Cardinality(1..n) = n
        <3>1. 1 \in Int /\ n \in Int /\ n >= 0
            BY <1>1
        <3>2. IsFiniteSet(1..n) /\ Cardinality(1..n) = IF 1 > n THEN 0 ELSE n - 1 + 1
            BY ONLY <3>1, FS_Interval
        <3>. QED BY <3>1, <3>2
    <2>3. IsFiniteSet({i} \X (1..n)) /\ Cardinality({i} \X (1..n)) = 1 * n
        BY <2>1, <2>2, FS_Product
    <2>. QED BY <1>1, <2>3
<1>4. ASSUME NEW h \in [Inodes -> 0..MaxSize], \A j \in Inodes : j # i => h[j] = f[j]
      PROVE  Cardinality(Chunks(h)) = Cardinality(R) + h[i]
    <2>1. Chunks(h) = R \cup Of(h[i])
        BY <1>4 DEF Chunks
    <2>2. R \cap Of(h[i]) = {}
        OBVIOUS
    <2>3. IsFiniteSet(Of(h[i])) /\ Cardinality(Of(h[i])) = h[i] /\ h[i] \in Nat
        BY <1>1, <1>3
    <2> HIDE DEF R, Of
    <2>4. Cardinality({}) = 0
        BY FS_EmptySet
    <2>5. Cardinality(R \cup Of(h[i]))
            = Cardinality(R) + Cardinality(Of(h[i])) - Cardinality(R \cap Of(h[i]))
        BY <1>2, <2>3, FS_Union
    <2>. QED BY <1>2, <2>1, <2>2, <2>3, <2>4, <2>5
<1>5. Cardinality(Chunks(g)) = Cardinality(R) + g[i]
    BY <1>4
<1>6. Cardinality(Chunks(f)) = Cardinality(R) + f[i]
    BY <1>4
<1>7. f[i] \in Nat /\ g[i] \in Nat
    BY <1>1
<1> HIDE DEF R
<1>. QED BY <1>2, <1>5, <1>6, <1>7

\* The chunks confirmed in each entry; what is counted is an integer, and theirs.
Counts == [i \in Inodes |-> seen[i].confirmed]
Summed == pc # "done" => done + logical = Cardinality(Confirmed)
\* What was counted last of each file is what its own entry has, until one strays.
Attributed ==
    /\ counted \in [Inodes -> 0..MaxSize] /\ strayed \in BOOLEAN
    /\ strayed \/ \A i \in Inodes : counted[i] = seen[i].confirmed
Counting == Survey /\ done \in Int /\ logical \in Int /\ Summed /\ Attributed

LEMMA CountsAre ==
    ASSUME Records
    PROVE  Counts \in [Inodes -> 0..MaxSize] /\ Confirmed = Chunks(Counts)
<1>1. \A i \in Inodes : seen[i].confirmed \in 0..MaxSize
    BY MaxAssumption DEF Records, Entry, NoEntry
<1>2. Counts \in [Inodes -> 0..MaxSize]
    BY <1>1 DEF Counts
<1>. QED BY <1>2 DEF Counts, Confirmed

\* Steps that count nothing.
LEMMA CountedAsBefore ==
    ASSUME Counting, UNCHANGED totals, pc' # "done" => pc # "done",
           \A i \in Inodes : seen'[i].confirmed = seen[i].confirmed
    PROVE  done' \in Int /\ logical' \in Int /\ Summed' /\ Attributed'
<1>1. Confirmed' = Confirmed
    BY DEF Confirmed, Chunks
<1>2. UNCHANGED <<done, logical, counted, strayed>>
    BY DEF totals
<1>3. Summed'
    BY <1>1, <1>2 DEF Counting, Summed
<1>4. Attributed'
    BY <1>2 DEF Counting, Attributed
<1>. QED BY <1>2, <1>3, <1>4 DEF Counting

\* An entry that is made has nothing confirmed, and one that is found again what it had.
LEMMA RegisterCounts ==
    ASSUME Survey, NEW p \in Paths, Register(p)
    PROVE  \A i \in Inodes : seen'[i].confirmed = seen[i].confirmed
<1> DEFINE i == names[p]
<1>1. seen \in [Inodes -> Entry \cup {NoEntry}] /\ i \in Inodes \cup {None}
    BY DEF Survey, IInv, Phases, Records
<1>2. CASE seen' = seen
    BY <1>2
<1>3. CASE i # None /\ seen[i] = NoEntry
           /\ seen' = [seen EXCEPT ![i] = [path |-> p, confirmed |-> 0,
                                          in_pending |-> TRUE, writer_done |-> FALSE]]
    BY <1>1, <1>3 DEF NoEntry
<1>4. CASE i # None /\ seen[i] # NoEntry
    <2>1. seen[i] \in Entry /\ i \in Inodes
        BY <1>1, <1>4
    <2>2. PICK a, b : seen' = [seen EXCEPT ![i].path = p, ![i].in_pending = a,
                                           ![i].writer_done = b]
        BY <1>4 DEF Register
    <2>. QED BY <1>1, <2>1, <2>2 DEF Entry
<1>. QED BY <1>2, <1>3, <1>4 DEF Register

LEMMA WritersCount ==
    ASSUME Survey, WritersAreDone
    PROVE  \A i \in Inodes : seen'[i].confirmed = seen[i].confirmed
<1>1. seen \in [Inodes -> Entry \cup {NoEntry}]
    BY DEF Survey, Records
<1>2. ASSUME NEW i \in Inodes PROVE seen'[i].confirmed = seen[i].confirmed
    <2>1. PICK b : seen'[i] = [seen[i] EXCEPT !.writer_done = b]
        BY DEF WritersAreDone
    <2>. QED BY <1>1, <2>1 DEF Entry, NoEntry
<1>. QED BY <1>2

LEMMA ConfirmOneCounts ==
    ASSUME Counting, Records', ConfirmOne
    PROVE  done' \in Int /\ logical' \in Int /\ Summed' /\ Attributed'
<1> DEFINE i == pending[at]
           j == names[seen[i].path]
<1>1. /\ pc = "confirm" /\ at \in 1..Len(pending) /\ pending \in Seq(Inodes)
      /\ seen \in [Inodes -> Entry \cup {NoEntry}] /\ Records
      /\ done \in Int /\ logical \in Int /\ done + logical = Cardinality(Confirmed)
    BY DEF ConfirmOne, Counting, Survey, Records, Summed
<1>2. i \in Inodes
    BY <1>1
<1>3. PICK n, complete : /\ Confirm(i, n, complete)
                         /\ \/ j \in Inodes /\ CountsIn(i, j, n)
                            \/ n = seen[i].confirmed /\ UNCHANGED <<counted, strayed>>
    <2>. j # None => j \in Inodes
        <3>1. seen[i] = NoEntry \/ seen[i] \in Entry
            BY <1>1, <1>2
        <3>2. seen[i].path \in Paths \/ seen[i] = NoEntry
            BY <3>1 DEF Entry
        <3>3. \A p \in Paths : names[p] \in Inodes \cup {None}
            BY DEF Counting, Survey, IInv, Phases
        <3>4. seen[i] # NoEntry
            <4>1. Contains(pending, i)
                BY <1>1 DEF Contains
            <4>. QED BY <1>1, <1>2, <4>1 DEF Records, NoEntry
        <3>. QED BY <3>2, <3>3, <3>4
    <2>1. CASE Unopened(i, j)
        BY <2>1 DEF Unopened
    <2>2. CASE j # None /\ Handed(i, j)
        BY <2>2 DEF Handed
    <2>3. CASE j # None /\ Synced(i, j)
        BY <2>3 DEF Synced
    <2>. QED BY <2>1, <2>2, <2>3 DEF ConfirmOne
<1>4. seen' = [seen EXCEPT ![i].confirmed = n, ![i].in_pending = ~complete]
    BY <1>3 DEF Confirm
<1>5. /\ seen'[i].confirmed = n
      /\ \A k \in Inodes : k # i => seen'[k].confirmed = seen[k].confirmed
    BY <1>1, <1>2, <1>4 DEF Entry, NoEntry
<1>6. PICK f, g : f = Counts /\ g = Counts'
    OBVIOUS
<1>7. /\ f \in [Inodes -> 0..MaxSize] /\ Confirmed = Chunks(f)
      /\ g \in [Inodes -> 0..MaxSize] /\ Confirmed' = Chunks(g)
      /\ f[i] = seen[i].confirmed /\ g[i] = n
      /\ \A k \in Inodes : k # i => g[k] = f[k]
    <2>1. f \in [Inodes -> 0..MaxSize] /\ Confirmed = Chunks(f)
        BY <1>1, <1>6, CountsAre
    <2>2. \A k \in Inodes : seen'[k].confirmed \in 0..MaxSize
        BY MaxAssumption DEF Records, Entry, NoEntry
    <2>3. \A k \in Inodes : g[k] = seen'[k].confirmed
        BY <1>6 DEF Counts
    <2>4. g = [k \in Inodes |-> seen'[k].confirmed]
        BY <1>6 DEF Counts
    <2>5. g \in [Inodes -> 0..MaxSize]
        BY <2>2, <2>4
    <2>6. Confirmed' = Chunks(g)
        BY <2>3, <2>4 DEF Confirmed
    <2>. QED BY <1>2, <1>5, <1>6, <2>1, <2>3, <2>5, <2>6 DEF Counts
<1>8. Cardinality(Confirmed') = Cardinality(Confirmed) + n - seen[i].confirmed
    <2>1. Cardinality(Chunks(g)) = Cardinality(Chunks(f)) + g[i] - f[i]
        BY <1>2, <1>7, Recounted
    <2>. QED BY <1>7, <2>1
<1>9. n \in Int /\ seen[i].confirmed \in Int
    BY <1>2, <1>7, MaxAssumption
<1>10. \/ logical' = logical + n - seen[i].confirmed /\ done' = done
       \/ done' = done + n - seen[i].confirmed /\ logical' = logical
    BY <1>3 DEF Confirm, Recount
<1>11. done' \in Int /\ logical' \in Int
       /\ done' + logical' = done + logical + n - seen[i].confirmed
    BY <1>1, <1>9, <1>10
<1>12. Attributed'
    <2>1. n \in 0..MaxSize
        BY <1>2, <1>7
    <2>2. /\ counted \in [Inodes -> 0..MaxSize] /\ strayed \in BOOLEAN
          /\ strayed \/ \A k \in Inodes : counted[k] = seen[k].confirmed
        BY DEF Counting, Attributed
    <2>3. CASE j \in Inodes /\ CountsIn(i, j, n)
        BY <1>2, <1>5, <2>1, <2>2, <2>3 DEF CountsIn, Attributed
    <2>4. CASE n = seen[i].confirmed /\ UNCHANGED <<counted, strayed>>
        BY <1>2, <1>5, <2>2, <2>4 DEF Attributed
    <2>. QED BY <1>3, <2>3, <2>4
<1>13. Summed'
    BY <1>1, <1>8, <1>11 DEF Summed
<1>. QED BY <1>11, <1>12, <1>13

LEMMA CountingStep ==
    ASSUME Counting, [Next]_vars PROVE Counting'
<1>1. Survey /\ Survey' /\ Records'
    BY SurveyStep DEF Counting, Survey
<1>2. CASE ConfirmOne
    BY <1>1, <1>2, ConfirmOneCounts DEF Counting
<1>3. CASE Report
    <2>1. done' \in Int /\ logical' \in Int /\ pc' = "done"
        BY <1>3, MaxAssumption DEF Report, WaitSyncer, Goes
    <2>2. UNCHANGED <<seen, counted, strayed>>
        BY <1>3 DEF Report
    <2>3. Attributed'
        BY <2>2 DEF Counting, Attributed
    <2>. QED BY <1>1, <2>1, <2>3 DEF Counting, Summed
<1>4. CASE \E p \in Paths : LastScan(p) \/ Scan(p)
    <2>1. PICK p \in Paths : Register(p)
        BY <1>4 DEF LastScan, Scan
    <2>2. UNCHANGED <<totals, pc>>
        BY <1>4 DEF LastScan, Scan
    <2>. QED BY <1>1, <2>1, <2>2, RegisterCounts, CountedAsBefore DEF Counting
<1>5. CASE TrackEnd \/ Finish
    <2>1. WritersAreDone /\ UNCHANGED totals /\ pc # "done"
        BY <1>5 DEF TrackEnd, Finish
    <2>. QED BY <1>1, <2>1, WritersCount, CountedAsBefore DEF Counting
<1>6. ASSUME UNCHANGED <<seen, totals>>, pc' # "done" => pc # "done"
      PROVE  Counting'
    BY <1>1, <1>6, CountedAsBefore DEF Counting
<1>7. CASE Command \/ \E p \in Paths : Delete(p)
    <2>1. UNCHANGED <<seen, totals, pc>>
        BY <1>7 DEF Command, Create, Truncate, Extend, Restamp, MoveIn, Rename, Exit, Delete,
                    Writes, Works, book
    <2>. QED BY <1>6, <2>1
<1>8. CASE Syncer
    BY <1>6, <1>8 DEF Syncer, SyncerFlushes, SyncerFails, book
<1>9. CASE \/ TrackBegin \/ ScanEnds \/ PassEnds \/ Service \/ Poll \/ FlushLoop \/ WaitPush
           \/ FinalSync \/ Start
    <2>1. UNCHANGED <<seen, totals>> /\ pc # "done"
        BY <1>9 DEF TrackBegin, ScanEnds, PassEnds, Service, Poll, FlushLoop, WaitPush,
                    FinalSync, Start, WaitSyncer, book
    <2>. QED BY <1>6, <2>1
<1>10. CASE Over \/ UNCHANGED vars
    BY <1>6, <1>10 DEF Over, vars, book
<1>. QED BY <1>2, <1>3, <1>4, <1>5, <1>7, <1>8, <1>9, <1>10 DEF Next, Child

LEMMA InitCounting == Init => Counting
<1> SUFFICES ASSUME Init PROVE Counting
    OBVIOUS
<1>1. Survey /\ done = 0 /\ logical = 0
    BY InitSurvey DEF Init
<1>2. \A i \in Inodes : seen[i].confirmed = 0 /\ counted[i] = 0
    BY DEF Init, NoEntry
<1>3. Confirmed = {}
    BY <1>2 DEF Confirmed, Chunks
<1>4. Attributed
    <2>1. counted \in [Inodes -> 0..MaxSize]
        BY MaxAssumption DEF Init
    <2>. QED BY <1>2, <2>1 DEF Init, Attributed
<1>. QED BY <1>1, <1>3, <1>4, FS_EmptySet DEF Counting, Summed

\* What the bar counts is what the entries have confirmed, however often a file was written
\* again, truncated or renamed; and as long as no file was confirmed at the path of another's
\* entry, that is what was counted last of each very file (confirm_one, confirm_pending).
THEOREM CountedOnceHolds == Spec => []CountedOnce
<1>1. Counting => CountedOnce
    <2> SUFFICES ASSUME Counting, pc # "done" PROVE
                        /\ done + logical = Cardinality(Confirmed)
                        /\ ~strayed => Confirmed = Chunks(counted)
        BY DEF CountedOnce
    <2>1. done + logical = Cardinality(Confirmed)
        BY DEF Counting, Summed
    <2>2. ASSUME ~strayed PROVE Confirmed = Chunks(counted)
        <3>1. \A i \in Inodes : counted[i] = seen[i].confirmed
            BY <2>2 DEF Counting, Attributed
        <3>. QED BY <3>1 DEF Confirmed, Chunks
    <2>. QED BY <2>1, <2>2
<1>. QED BY <1>1, InitCounting, CountingStep, PTL DEF Spec

----------------------------------------------------------------------------
(* The types.  That neither counter is ever negative rests on the other    *)
(* staying at nought: a chunk is given back to the counter it was added to.*)

Counters ==
    /\ fuse \in BOOLEAN
    /\ pc # "done" => (fuse => done = 0) /\ (~fuse => logical = 0)
    /\ pc = "done" => done \in Nat /\ logical \in Nat

Plain ==
    /\ meta \in BOOLEAN /\ command \in BOOLEAN
    /\ started \in 0..MaxCommands /\ changes \in 0..MaxChanges
    /\ tracks \in BOOLEAN /\ flushing \in BOOLEAN /\ left \subseteq Paths
    /\ full \in BOOLEAN
    /\ before \in [Inodes -> States \cup {None}]
    /\ at \in Nat /\ fuse_dirty \in BOOLEAN
    /\ fresh \subseteq Inodes /\ missed \in BOOLEAN

Typed == Counting /\ Counters /\ Plain

LEMMA TypedMeans == Typed => TypeOK
<1> SUFFICES ASSUME Typed PROVE TypeOK
    OBVIOUS
<1>1. done \in Nat /\ logical \in Nat
    <2>1. CASE pc = "done"
        BY <2>1 DEF Typed, Counters
    <2>2. CASE pc # "done"
        <3>1. PICK f : f = Counts
            OBVIOUS
        <3>2. f \in [Inodes -> 0..MaxSize] /\ Confirmed = Chunks(f)
            BY <3>1, CountsAre DEF Typed, Counting, Survey
        <3>3. IsFiniteSet(1..MaxSize)
            BY MaxAssumption, FS_Interval
        <3>4. IsFiniteSet(Inodes \X (1..MaxSize))
            BY <3>3, InodesAssumption, FS_Product
        <3>5. Confirmed \in SUBSET (Inodes \X (1..MaxSize))
            BY <3>2, MaxAssumption DEF Chunks
        <3>6. Cardinality(Confirmed) \in Nat
            BY <3>4, <3>5, FS_Subset, FS_CardinalityType
        <3>7. done + logical \in Nat /\ (done = 0 \/ logical = 0) /\ done \in Int /\ logical \in Int
            BY <2>2, <3>6 DEF Typed, Counting, Counters, Summed
        <3>. QED BY <3>7
    <2>. QED BY <2>1, <2>2
<1>2. /\ names \in [Paths -> Inodes \cup {None}] /\ file \in [Inodes -> File]
      /\ syncer \in {"none", "runs", "flushed"}
    BY DEF Typed, Counting, Survey, IInv, Phases
<1>3. seen \in [Inodes -> Entry \cup {NoEntry}] /\ pending \in Seq(Inodes)
    BY DEF Typed, Counting, Survey, Records
<1>4. counted \in [Inodes -> 0..MaxSize] /\ strayed \in BOOLEAN
    BY DEF Typed, Counting, Attributed
<1>. QED BY <1>1, <1>2, <1>3, <1>4 DEF Typed, Counters, Plain, TypeOK

LEMMA InitTyped == Init => Typed
<1> SUFFICES ASSUME Init PROVE Typed
    OBVIOUS
<1>1. Counters
    BY DEF Init, Counters
<1>2. Plain
    <2>1. before \in [Inodes -> States \cup {None}]
        BY DEF Init
    <2>2. started \in 0..MaxCommands /\ changes \in 0..MaxChanges /\ at \in Nat
        BY MaxAssumption DEF Init
    <2>3. full \in BOOLEAN
        BY DEF Init, Full
    <2>. QED BY <2>1, <2>2, <2>3 DEF Init, Plain
<1>. QED BY <1>1, <1>2, InitCounting DEF Typed

LEMMA CommandPlain ==
    ASSUME Typed, Command \/ \E p \in Paths : Delete(p) PROVE Plain'
<1>1. /\ changes \in Nat /\ MaxChanges \in Nat
    BY MaxAssumption DEF Typed, Plain
<1>2. ASSUME Changes PROVE changes' \in 0..MaxChanges
    BY <1>1, <1>2 DEF Changes
<1>3. ASSUME NEW p \in Paths, names[p] # None PROVE names[p] \in Inodes
    BY <1>3 DEF Typed, Counting, Survey, IInv, Phases
<1>4. ASSUME NEW i \in Inodes, Touches(i) PROVE fresh' \subseteq Inodes
    BY <1>4 DEF Typed, Plain, Touches
<1>5. CASE \E p \in Paths : Create(p) \/ Truncate(p) \/ Extend(p) \/ Restamp(p) \/ MoveIn(p)
    <2>1. Works /\ meta' = TRUE
        BY <1>5 DEF Create, Truncate, Extend, Restamp, MoveIn, Writes
    <2>2. fresh' \subseteq Inodes
        <3>1. CASE \E p \in Paths : Create(p)
            BY <1>4, <3>1 DEF Create
        <3>2. CASE \E p \in Paths : Truncate(p) \/ Extend(p)
            BY <1>3, <1>4, <3>2 DEF Truncate, Extend
        <3>3. CASE \E p \in Paths : Restamp(p) \/ MoveIn(p)
            BY <3>3 DEF Restamp, MoveIn, Typed, Plain
        <3>. QED BY <1>5, <3>1, <3>2, <3>3
    <2>. QED BY <1>2, <2>1, <2>2 DEF Works, book, window, totals, Typed, Plain
<1>6. CASE \E p, q \in Paths : Rename(p, q)
    BY <1>2, <1>6 DEF Rename, Writes, Works, book, window, totals, Typed, Plain
<1>7. CASE Exit
    BY <1>7 DEF Exit, disk, window, totals, book, Typed, Plain
<1>8. CASE \E p \in Paths : Delete(p)
    BY <1>2, <1>8 DEF Delete, book, window, totals, Typed, Plain
<1>. QED BY <1>5, <1>6, <1>7, <1>8 DEF Command

LEMMA ChildPlain ==
    ASSUME Typed, Child \/ Finish \/ Start \/ \E p \in Paths : Scan(p) PROVE Plain'
<1>1. CASE TrackBegin
    <2>1. \A i \in Inodes : State(i) \in States
        BY DEF Typed, Counting, Survey, IInv, Phases, File, State, States
    <2>2. before' \in [Inodes -> States \cup {None}]
        BY <1>1, <2>1 DEF TrackBegin
    <2>. QED BY <1>1, <2>2 DEF TrackBegin, disk, writer, window, totals, Typed, Plain
<1>2. CASE ConfirmOne
    <2>1. UNCHANGED <<meta, command, started, changes, fresh, tracks, flushing, left, before,
                      missed>>
        BY <1>2 DEF ConfirmOne, writer, window, totals
    <2>2. at' \in Nat
        <3>1. at' = at \/ at' = at + 1
            BY <1>2 DEF ConfirmOne, Unopened, Handed, Synced, Confirm
        <3>. QED BY <3>1 DEF Typed, Plain
    <2>3. fuse_dirty' \in BOOLEAN
        <3>1. PICK b \in BOOLEAN : fuse_dirty' = fuse_dirty \/ fuse_dirty' = b
            BY <1>2 DEF ConfirmOne, Unopened, Handed, Synced
        <3>. QED BY <3>1 DEF Typed, Plain
    <2>4. full' \in BOOLEAN
        <3>1. CASE full' = full
            BY <3>1 DEF Typed, Plain
        <3>2. ASSUME NEW i, NEW j, Synced(i, j)
              PROVE  full' = full \/ \E d : full' = Full(d)
            BY <3>2 DEF Synced
        <3>3. (\E d : full' = Full(d)) => full' \in BOOLEAN
            BY DEF Full
        <3>. QED BY <1>2, <3>1, <3>2, <3>3 DEF ConfirmOne, Unopened, Handed
    <2>. QED BY <2>1, <2>2, <2>3, <2>4 DEF Typed, Plain
<1>3. CASE ScanEnds \/ PassEnds \/ FlushLoop \/ WaitPush
    BY <1>3 DEF ScanEnds, PassEnds, FlushLoop, WaitPush, disk, writer, window, totals, book,
                Typed, Plain
<1>9. ASSUME Sends PROVE full' \in BOOLEAN
    BY <1>9 DEF Sends, Full, Typed, Plain
<1>4. CASE Service
    BY <1>4, <1>9 DEF Service, disk, writer, totals, Typed, Plain
<1>5. CASE Poll \/ TrackEnd \/ Finish \/ Report
    BY <1>5, <1>9 DEF Poll, TrackEnd, Finish, Report, disk, writer, window, totals, book, Typed,
                    Plain
<1>6. CASE FinalSync
    BY <1>6 DEF FinalSync, disk, writer, window, totals, book, Typed, Plain
<1>7. CASE \E p \in Paths : LastScan(p) \/ Scan(p)
    BY <1>7 DEF LastScan, Scan, disk, writer, window, totals, Typed, Plain
<1>8. CASE Start
    <2>1. started' \in 0..MaxCommands
        BY <1>8, MaxAssumption DEF Start, Typed, Plain
    <2>. QED BY <1>8, <2>1 DEF Start, disk, window, totals, book, Typed, Plain
<1>. QED BY <1>1, <1>2, <1>3, <1>4, <1>5, <1>6, <1>7, <1>8 DEF Child

LEMMA SyncerPlain ==
    ASSUME Typed, Syncer PROVE Plain'
BY DEF Syncer, SyncerFlushes, SyncerFails, disk, writer, window, totals, book, Typed, Plain

LEMMA CountersKept ==
    ASSUME Typed, [Next]_vars PROVE Counters'
<1>1. ASSUME UNCHANGED <<fuse, done, logical>>, pc' = "done" <=> pc = "done" PROVE Counters'
    BY <1>1 DEF Typed, Counters
<1>2. CASE Command \/ \E p \in Paths : Delete(p) \/ Scan(p) \/ LastScan(p)
    BY <1>1, <1>2 DEF Command, Create, Truncate, Extend, Restamp, MoveIn, Rename, Exit, Delete,
                      Scan, LastScan, Writes, Works, book, window, totals
<1>3. CASE \/ TrackBegin \/ ScanEnds \/ PassEnds \/ Service \/ Poll \/ FlushLoop \/ WaitPush
           \/ FinalSync \/ TrackEnd \/ Finish \/ Start
    <2>1. UNCHANGED <<fuse, done, logical>> /\ pc # "done" /\ pc' # "done"
        BY <1>3 DEF TrackBegin, ScanEnds, PassEnds, Service, Poll, FlushLoop, WaitPush,
                    FinalSync, TrackEnd, Finish, Start, WaitSyncer, Goes, book, window, totals
    <2>. QED BY <1>1, <2>1
<1>4. CASE ConfirmOne
    <2>1. PICK i, n, complete : Confirm(i, n, complete)
        BY <1>4 DEF ConfirmOne, Unopened, Handed, Synced
    <2>2. fuse' = fuse /\ pc = "confirm" /\ pc' \in {"confirm", "service"}
        BY <1>4 DEF ConfirmOne
    <2>. QED BY <2>1, <2>2 DEF Confirm, Recount, Typed, Counters
<1>5. CASE Report
    BY <1>5, MaxAssumption DEF Report, WaitSyncer, Goes, Typed, Counters
<1>6. CASE Syncer
    BY <1>1, <1>6 DEF Syncer, SyncerFlushes, SyncerFails, book, window, totals
<1>7. CASE Over \/ UNCHANGED vars
    BY <1>1, <1>7 DEF Over, vars, book, window, totals
<1>. QED BY <1>2, <1>3, <1>4, <1>5, <1>6, <1>7 DEF Next, Child

\* The states the variables of transfer_progress.c are in.
THEOREM TypeCorrect == Spec => []TypeOK
<1>1. Typed /\ [Next]_vars => Typed'
    <2> SUFFICES ASSUME Typed, [Next]_vars PROVE Typed'
        OBVIOUS
    <2>1. Counting' /\ Counters'
        BY CountingStep, CountersKept DEF Typed
    <2>2. Plain'
        <3>1. CASE Over \/ UNCHANGED vars
            BY <3>1 DEF Over, vars, disk, writer, window, totals, book, Typed, Plain
        <3>. QED BY <3>1, CommandPlain, ChildPlain, SyncerPlain DEF Next
    <2>. QED BY <2>1, <2>2 DEF Typed
<1>. QED BY <1>1, InitTyped, TypedMeans, PTL DEF Spec
=============================================================================
