--------------------------- MODULE ThreadsProofs ---------------------------
(***************************************************************************)
(* What the main loop and the threads beside it owe each other, for any    *)
(* number of them.  Child reaping: while every thread that waits takes the *)
(* mutex no status is lost, and no callback or death is, whatever the      *)
(* threads do.  The shared scan of the drives: what is shown is the        *)
(* snapshot, what is owed is coming, and the timer runs.  The mounting of  *)
(* images: no loop device is forgotten, and while jobs do not meet every   *)
(* mount is managed and every state names its image.                       *)
(***************************************************************************)
EXTENDS ChildReaper, DrivesMonitor, Images, TLAPS

-----------------------------------------------------------------------------
(* Child reaping.                                                          *)

Waiting == {"wait", "term"}
Locking == Threads \ Bare

\* A waiting thread that took the mutex is about a child that is still its own, and
\* so is the main thread.  (waiter says so the other way round in ReaperTypeOK.)
Owned ==
    /\ \A t \in Threads : thread[t].pc \in Waiting => thread[t].pid \in Pids
    /\ \A t \in Locking : thread[t].pc \in Waiting => waiter[thread[t].pid] = t
    /\ \A t \in Bare : thread[t].pc \in {"idle", "wait"}
    /\ main.pc = "wait" => main.pid \in Pids /\ waiter[main.pid] = Main

\* A pid somebody waits for or wants to hear of is in use; nobody waits for a child
\* whose death is to be heard.
InUse ==
    \A p \in Pids :
        /\ waiter[p] # Nobody => proc[p] # "free"
        /\ p \in launched => proc[p] # "free" /\ waiter[p] = Nobody

LockersLoseNothing == \A t \in Locking : thread[t].result # "lost"

\* The inductive invariant.  waitpid(-1) takes a child with the mutex in hand, when
\* Owned leaves none to a thread that took it.
ReaperIInv == ReaperTypeOK /\ Owned /\ InUse /\ LockersLoseNothing

LEMMA ReaperInitIInv == ReaperInit => ReaperIInv
<1> SUFFICES ASSUME ReaperInit PROVE ReaperIInv
  OBVIOUS
<1>1. ReaperTypeOK
  BY ChildReaperAssumption DEF ReaperInit, ReaperTypeOK, ThreadPc, Results, Threads
<1>2. Owned /\ InUse /\ LockersLoseNothing
  BY ChildReaperAssumption DEF ReaperInit, Owned, InUse, LockersLoseNothing, Waiting, Locking,
     Threads
<1> QED BY <1>1, <1>2 DEF ReaperIInv

LEMMA ReaperNextIInv == ReaperIInv /\ [ReaperNext]_reaper_vars => ReaperIInv'
<1> SUFFICES ASSUME ReaperIInv, [ReaperNext]_reaper_vars PROVE ReaperIInv'
  OBVIOUS
<1> USE ChildReaperAssumption DEF Threads, Waiting, Locking, ThreadPc, Results, procs, signal
<1>1. CASE UNCHANGED reaper_vars
  BY <1>1 DEF ReaperIInv, ReaperTypeOK, Owned, InUse, LockersLoseNothing, reaper_vars
<1>2. CASE WakeUp \/ Retry \/ TryLockFails \/ ReapNone \/ Callback \/ StatLock
  <2> USE DEF ReaperIInv, ReaperTypeOK, Owned, InUse, LockersLoseNothing
  <2>1. CASE WakeUp
    <3>1. /\ main' \in [pc : {"idle", "reap", "call", "lock", "wait"}, pid : Pids \cup {Nobody}]
          /\ main'.pc # "wait" /\ main.pc # "wait" /\ child_died_flag' \in BOOLEAN
      <4>1. CASE child_died_flag
        <5>1. child_died_flag' = FALSE /\ main' = [main EXCEPT !.pc = "reap"] /\ main.pc = "idle"
          BY <2>1, <4>1 DEF WakeUp, child_died_callback
        <5>2. main \in [pc : {"idle", "reap", "call", "lock", "wait"}, pid : Pids \cup {Nobody}]
          OBVIOUS
        <5> QED BY <5>1, <5>2
      <4>2. CASE ~child_died_flag
        BY <2>1, <4>2 DEF WakeUp
      <4> QED BY <4>1, <4>2
    <3> QED BY <2>1, <3>1 DEF WakeUp
  <2>5. CASE Retry
    <3>1. /\ main' \in [pc : {"idle", "reap", "call", "lock", "wait"}, pid : Pids \cup {Nobody}]
          /\ main'.pc # "wait" /\ main.pc # "wait" /\ child_died_flag' \in BOOLEAN
      <4>1. CASE child_died_flag
        <5>1. child_died_flag' = FALSE /\ main' = [main EXCEPT !.pc = "reap"] /\ main.pc = "idle"
          BY <2>5, <4>1 DEF Retry, child_died_callback
        <5>2. main \in [pc : {"idle", "reap", "call", "lock", "wait"}, pid : Pids \cup {Nobody}]
          OBVIOUS
        <5> QED BY <5>1, <5>2
      <4>2. CASE ~child_died_flag
        BY <2>5, <4>2 DEF Retry
      <4> QED BY <4>1, <4>2
    <3> QED BY <2>5, <3>1 DEF Retry
  <2>2. CASE TryLockFails
    BY <2>2 DEF TryLockFails
  <2>6. CASE ReapNone
    BY <2>6 DEF ReapNone
  <2>3. CASE Callback
    BY <2>3 DEF Callback
  <2>4. CASE StatLock
    BY <2>4 DEF StatLock
  <2> QED BY <1>2, <2>1, <2>2, <2>3, <2>4, <2>5, <2>6
<1>3. CASE StatFork
  BY <1>3 DEF ReaperIInv, ReaperTypeOK, Owned, InUse, LockersLoseNothing, StatFork, Fork
<1>4. CASE StatDone
  BY <1>4 DEF ReaperIInv, ReaperTypeOK, Owned, InUse, LockersLoseNothing, StatDone, Reaped
<1>5. CASE ActionFork \/ ActionEnd
  <2>1. action' \in [pc : {"none", "work"}, locked : BOOLEAN]
    <3>1. CASE ActionFork
      <4>1. action' = [pc |-> "work", locked |-> FALSE]
        BY <3>1 DEF ActionFork, rox_child_reap_disable
      <4> QED BY <4>1
    <3>2. CASE ActionEnd
      BY <3>2 DEF ReaperIInv, ReaperTypeOK, ActionEnd
    <3> QED BY <1>5, <3>1, <3>2
  <2> QED
    BY <1>5, <2>1 DEF ReaperIInv, ReaperTypeOK, Owned, InUse, LockersLoseNothing, ActionFork,
       ActionEnd
<1>6. ASSUME NEW p \in Pids, Reap(p) PROVE ReaperIInv'
  BY <1>6 DEF ReaperIInv, ReaperTypeOK, Owned, InUse, LockersLoseNothing, Reap, Reaped,
     ForgetCallback
<1>7. ASSUME NEW p \in Pids, Exit(p) PROVE ReaperIInv'
  BY <1>7 DEF ReaperIInv, ReaperTypeOK, Owned, InUse, LockersLoseNothing, Exit
<1>8. ASSUME NEW p \in Pids, Launch(p) \/ LaunchUnwatched(p) PROVE ReaperIInv'
  BY <1>8 DEF ReaperIInv, ReaperTypeOK, Owned, InUse, LockersLoseNothing, Launch, LaunchUnwatched,
     Fork, Launched
<1>9. ASSUME NEW t \in Threads, NEW p \in Pids, Spawn(t, p) PROVE ReaperIInv'
  BY <1>9 DEF ReaperIInv, ReaperTypeOK, Owned, InUse, LockersLoseNothing, Spawn, Fork, TakesMutex
<1>10. ASSUME NEW t \in Threads, Wait(t) PROVE ReaperIInv'
  BY <1>10 DEF ReaperIInv, ReaperTypeOK, Owned, InUse, LockersLoseNothing, Wait, Reaped, Result
<1>11. ASSUME NEW t \in Threads, Abandon(t) PROVE ReaperIInv'
  BY <1>11 DEF ReaperIInv, ReaperTypeOK, Owned, InUse, LockersLoseNothing, Abandon, Result
<1>12. ASSUME NEW t \in Threads, Busy(t) \/ Deadline(t) \/ Unlock(t) PROVE ReaperIInv'
  <2> USE DEF ReaperIInv, ReaperTypeOK, Owned, InUse, LockersLoseNothing
  <2>1. CASE Busy(t)
    BY <2>1 DEF Busy
  <2>2. CASE Deadline(t)
    BY <2>2 DEF Deadline, Goto
  <2>3. CASE Unlock(t)
    <3>1. t \in Locking /\ mutex = t
      BY <2>3 DEF Unlock
    <3>2. /\ thread' \in [Threads -> [pc : ThreadPc, pid : Pids \cup {Nobody}, result : Results]]
          /\ thread'[t].pc = "idle" /\ thread'[t].result = thread[t].result
          /\ \A u \in Threads \ {t} : thread'[u] = thread[u]
      BY <2>3 DEF Unlock, Goto
    <3>3. \A p \in Pids : waiter[p] # t
      BY <2>3 DEF Unlock
    <3> QED BY <2>3, <3>1, <3>2, <3>3 DEF Unlock
  <2> QED BY <1>12, <2>1, <2>2, <2>3
<1> QED
  BY <1>1, <1>2, <1>3, <1>4, <1>5, <1>6, <1>7, <1>8, <1>9, <1>10, <1>11, <1>12 DEF ReaperNext

LEMMA ReaperInvariant == ReaperSpec => []ReaperIInv
BY ReaperInitIInv, ReaperNextIInv, PTL DEF ReaperSpec

\* Types, and the mutex is held by who is between its lock and its unlock.
THEOREM ReaperTypeOKHolds == ReaperSpec => []ReaperTypeOK
<1>1. ReaperIInv => ReaperTypeOK
  BY DEF ReaperIInv
<1> QED BY <1>1, ReaperInvariant, PTL

\* If every thread takes the mutex (main.c:239) none loses its child to the main
\* loop's waitpid(-1).
THEOREM NoStatusLostHolds == ASSUME Bare = {} PROVE ReaperSpec => []NoStatusLost
<1>1. ReaperIInv => NoStatusLost
  BY DEF ReaperIInv, LockersLoseNothing, NoStatusLost, Locking, Threads
<1> QED BY <1>1, ReaperInvariant, PTL

-----------------------------------------------------------------------------
(* Deaths.                                                                 *)

\* on_child_death's tables are those of the processes alive: no entry outlives its
\* process and none is taken away before.
THEOREM CallbacksAreTheirsHold == ReaperSpec => []CallbacksAreTheirs
<1> USE ChildReaperAssumption DEF Threads, Waiting, Locking, CallbacksAreTheirs, procs, signal
<1>1. ReaperInit => CallbacksAreTheirs
  BY DEF ReaperInit
<1>2. ReaperIInv /\ CallbacksAreTheirs /\ [ReaperNext]_reaper_vars => CallbacksAreTheirs'
  <2> SUFFICES ASSUME ReaperIInv, CallbacksAreTheirs, [ReaperNext]_reaper_vars
               PROVE  CallbacksAreTheirs'
    OBVIOUS
  <2>1. CASE UNCHANGED <<launched, death_callbacks>>
    BY <2>1
  <2>2. CASE StatFork
    BY <2>2 DEF StatFork, Fork
  <2>10. CASE StatDone
    <3>1. main.pid \in Pids /\ waiter[main.pid] # Nobody
      BY <2>10 DEF ReaperIInv, Owned, StatDone
    <3>2. main.pid \notin launched
      BY <3>1 DEF ReaperIInv, InUse
    <3> QED BY <2>10, <3>2 DEF StatDone, Reaped
  <2>3. ASSUME NEW p \in Pids, Reap(p) \/ Launch(p) \/ LaunchUnwatched(p)
        PROVE  CallbacksAreTheirs'
    BY <2>3 DEF Reap, Reaped, ForgetCallback, Launch, Launched, LaunchUnwatched, Fork
  <2>4. ASSUME NEW t \in Threads, NEW p \in Pids, Spawn(t, p) PROVE CallbacksAreTheirs'
    BY <2>4 DEF Spawn, Fork
  <2>5. ASSUME NEW t \in Threads, Wait(t) PROVE CallbacksAreTheirs'
    <3> DEFINE p == thread[t].pid
    <3>1. p \in Pids
      BY <2>5 DEF ReaperIInv, Owned, Wait
    <3>2. CASE waiter[p] = t
      <4>1. p \notin launched
        BY <3>1, <3>2 DEF ReaperIInv, InUse
      <4> QED BY <2>5, <3>2, <4>1 DEF Wait, Reaped
    <3>3. CASE waiter[p] # t
      BY <2>5, <3>3 DEF Wait
    <3> QED BY <3>2, <3>3
  <2>6. CASE UNCHANGED reaper_vars
    BY <2>6 DEF reaper_vars
  <2> QED
    BY <2>1, <2>2, <2>3, <2>4, <2>5, <2>6, <2>10 DEF ReaperNext, WakeUp, Retry,
       TryLockFails, ReapNone, Callback, StatLock, ActionFork, ActionEnd, Exit, Busy,
       Deadline, Abandon, Unlock
<1> QED BY <1>1, <1>2, ReaperInvariant, PTL DEF ReaperSpec

\* The main loop never sleeps on a dead child that is its to collect.
THEOREM DeathIsNoticedHolds == ReaperSpec => []DeathIsNoticed
<1> USE ChildReaperAssumption DEF Threads, DeathIsNoticed, procs, signal
<1>1. ReaperInit => DeathIsNoticed
  BY DEF ReaperInit
<1>2. ReaperIInv /\ DeathIsNoticed /\ [ReaperNext]_reaper_vars => DeathIsNoticed'
  <2> SUFFICES ASSUME ReaperIInv, DeathIsNoticed, [ReaperNext]_reaper_vars PROVE DeathIsNoticed'
    OBVIOUS
  <2> USE DEF ReaperIInv, ReaperTypeOK
  <2>1. CASE UNCHANGED reaper_vars
    BY <2>1 DEF reaper_vars
  <2>2. CASE WakeUp \/ Retry \/ TryLockFails \/ ReapNone \/ Callback \/ StatLock
    BY <2>2 DEF WakeUp, Retry, TryLockFails, ReapNone, Callback, StatLock,
       child_died_callback
  <2>3. CASE StatFork \/ StatDone
    BY <2>3 DEF StatFork, StatDone, Fork, Reaped, Owned
  <2>4. CASE ActionFork \/ ActionEnd
    BY <2>4 DEF ActionFork, ActionEnd
  <2>5. ASSUME NEW p \in Pids, Reap(p) PROVE DeathIsNoticed'
    BY <2>5 DEF Reap, Reaped, ForgetCallback
  <2>6. ASSUME NEW p \in Pids, Exit(p) PROVE DeathIsNoticed'
    BY <2>6 DEF Exit
  <2>7. ASSUME NEW p \in Pids, Launch(p) \/ LaunchUnwatched(p) PROVE DeathIsNoticed'
    BY <2>7 DEF Launch, LaunchUnwatched, Fork
  <2>8. ASSUME NEW t \in Threads, NEW p \in Pids, Spawn(t, p) PROVE DeathIsNoticed'
    BY <2>8 DEF Spawn, Fork
  <2>9. ASSUME NEW t \in Threads,
               Busy(t) \/ Wait(t) \/ Deadline(t) \/ Abandon(t) \/ Unlock(t)
        PROVE  DeathIsNoticed'
    BY <2>9 DEF Busy, Wait, Deadline, Abandon, Unlock, Reaped, Owned, Waiting
  <2> QED
    BY <2>1, <2>2, <2>3, <2>4, <2>5, <2>6, <2>7, <2>8, <2>9 DEF ReaperNext
<1> QED BY <1>1, <1>2, ReaperInvariant, PTL DEF ReaperSpec

-----------------------------------------------------------------------------
(* The shared scan of the drives.                                          *)

\* The array lacks no live owner; dead ones leave when it is compacted.
Registered == alive \subseteq subscribers

\* A signature that is kept is that of the drives on the desktop.
Signed ==
    drive_signature # Nothing =>
        shown[Desktop] # Nothing /\ drive_signature = Signature[shown[Desktop]]

\* News of the drives is on its way: another scan will read them.
Owed == event \/ request_pending \/ missed \/ scan_again

\* While somebody watches, a result that waits for scan_done, or the snapshot when
\* there is none, is right or will be replaced.
Fresh ==
    alive # {} =>
        /\ scan \in Worlds => scan = world \/ Owed
        /\ scan = Nothing => snapshot = world \/ Owed \/ failed

MonitorIInv == MonitorTypeOK /\ Registered /\ PollWhileWatched /\ Signed /\ ShownIsSnapshot /\ Fresh

LEMMA MonitorInitIInv == MonitorInit => MonitorIInv
<1> SUFFICES ASSUME MonitorInit PROVE MonitorIInv
  OBVIOUS
<1>1. MonitorTypeOK
  <2>1. show_volumes \in 0..MaxSettings /\ drawn \in 0..MaxSettings /\ changes \in 0..MaxChanges
    BY DrivesMonitorAssumption DEF MonitorInit
  <2> QED BY <2>1 DEF MonitorInit, MonitorTypeOK
<1>2. Registered /\ PollWhileWatched /\ Signed /\ ShownIsSnapshot /\ Fresh
  BY DEF MonitorInit, Registered, PollWhileWatched, Signed, ShownIsSnapshot, Fresh
<1> QED BY <1>1, <1>2 DEF MonitorIInv

\* The callbacks: those in S come to show d, up to the desktop's signature.
LEMMA ToldShows ==
    ASSUME MonitorTypeOK, NEW S \in SUBSET Owners, NEW d \in Worlds,
           NEW sig \in Worlds \cup {Nothing},
           sig # Nothing => shown[Desktop] # Nothing /\ sig = Signature[shown[Desktop]],
           Told(S, d, sig)
    PROVE  /\ shown' \in [Owners -> Worlds \cup {Nothing}]
           /\ drive_signature' \in Worlds \cup {Nothing} /\ drawn' \in 0..MaxSettings
           /\ \A o \in S \cap Lists : shown'[o] = d
           /\ \A o \in Owners \ S : shown'[o] = shown[o]
           /\ Desktop \notin S => drive_signature' = sig
           /\ Desktop \in S =>
                /\ drive_signature' = Signature[d] /\ shown'[Desktop] \in Worlds
                /\ Signature[shown'[Desktop]] = Signature[d]
<1> USE DrivesMonitorAssumption DEF MonitorTypeOK, Owners
<1>1. CASE Desktop \in S /\ sig # Signature[d]
  BY <1>1 DEF Told
<1>2. CASE Desktop \in S /\ sig = Signature[d]
  BY <1>2 DEF Told
<1>3. CASE Desktop \notin S
  BY <1>3 DEF Told
<1> QED BY <1>1, <1>2, <1>3

LEMMA StartScanOwes ==
    ASSUME MonitorTypeOK, start_scan
    PROVE  /\ scan' = Reading \/ (scan' = scan /\ scan # Nothing /\ scan_again')
           /\ scan_again' \in BOOLEAN /\ (scan_again' => scan' # Nothing)
BY DrivesMonitorAssumption DEF start_scan, MonitorTypeOK

LEMMA MonitorNextIInv == MonitorIInv /\ [MonitorNext]_monitor_vars => MonitorIInv'
<1> SUFFICES ASSUME MonitorIInv, [MonitorNext]_monitor_vars PROVE MonitorIInv'
  OBVIOUS
<1> USE DrivesMonitorAssumption DEF MonitorIInv, scanning, owners, windows
<1>1. CASE UNCHANGED monitor_vars
  BY <1>1 DEF monitor_vars, MonitorTypeOK, Registered, PollWhileWatched, Signed, ShownIsSnapshot,
     Fresh, Owed
<1>2. ASSUME NEW w \in Worlds, ChangeAndRequest(w) PROVE MonitorIInv'
  BY <1>2 DEF ChangeAndRequest, MonitorTypeOK, Registered, PollWhileWatched, Signed,
     ShownIsSnapshot, Fresh, Owed
<1>3. ASSUME NEW w \in Worlds, NEW noticed \in BOOLEAN, Change(w, noticed) PROVE MonitorIInv'
  <2>1. MonitorTypeOK'
    <3>1. event' \in BOOLEAN /\ missed' \in BOOLEAN
      BY <1>3 DEF Change, MonitorTypeOK
    <3>2. changes' \in 0..MaxChanges
      BY <1>3 DEF Change, MonitorTypeOK
    <3> QED BY <1>3, <3>1, <3>2 DEF Change, MonitorTypeOK
  <2>2. Fresh'
    BY <1>3 DEF Change, MonitorTypeOK, Fresh, Owed
  <2> QED
    BY <1>3, <2>1, <2>2 DEF Change, Registered, PollWhileWatched, Signed, ShownIsSnapshot
<1>4. CASE request_scan_in_main
  <2>1. start_scan
    BY <1>4 DEF request_scan_in_main
  <2>2. MonitorTypeOK'
    BY <1>4, <2>1, StartScanOwes DEF request_scan_in_main, MonitorTypeOK
  <2>3. Fresh'
    BY <1>4, <2>1, StartScanOwes DEF request_scan_in_main, MonitorTypeOK, Fresh, Owed
  <2> QED
    BY <1>4, <2>2, <2>3 DEF request_scan_in_main, Registered, PollWhileWatched, Signed,
       ShownIsSnapshot
<1>5. CASE volume_changed \/ poll_cb
  <2>1. Live = alive
    BY DEF Registered, Live
  <2>2. start_scan \/ (alive = {} /\ UNCHANGED <<scan, scan_again>>)
    BY <1>5, <2>1 DEF volume_changed, poll_cb
  <2>3. /\ subscribers' = alive /\ event' \in BOOLEAN
        /\ poll_source' \in BOOLEAN /\ (alive # {} => poll_source')
        /\ UNCHANGED <<world, missed, request_pending, failed, snapshot, alive, initialized,
                       windows, show_volumes, changes>>
    BY <1>5, <2>1 DEF volume_changed, poll_cb, compact_subscribers, update_poll_state,
       MonitorTypeOK, PollWhileWatched
  <2>4. MonitorTypeOK'
    BY <2>2, <2>3, StartScanOwes DEF MonitorTypeOK
  <2>5. Fresh'
    BY <2>2, <2>3, StartScanOwes DEF MonitorTypeOK, Fresh, Owed
  <2> QED
    BY <2>3, <2>4, <2>5 DEF Registered, PollWhileWatched, Signed, ShownIsSnapshot, MonitorTypeOK
<1>6. ASSUME NEW result \in Worlds \cup {Failed}, scan_thread(result) PROVE MonitorIInv'
  <2>1. MonitorTypeOK'
    BY <1>6 DEF scan_thread, MonitorTypeOK
  <2>2. Fresh'
    BY <1>6 DEF scan_thread, MonitorTypeOK, Fresh, Owed
  <2> QED
    BY <1>6, <2>1, <2>2 DEF scan_thread, Registered, PollWhileWatched, Signed, ShownIsSnapshot
<1>7. CASE scan_done
  <2>1. Live = alive /\ Live \in SUBSET Owners
    BY DEF Registered, Live, MonitorTypeOK
  <2>2. subscribers' \in {alive, subscribers} /\ poll_source' \in {poll_source, alive # {}}
    BY <1>7, <2>1 DEF scan_done, compact_subscribers, update_poll_state
  <2>3. CASE scan \in {Failed, snapshot}
    <3>1. /\ snapshot' = snapshot /\ failed' = (scan = Failed) /\ UNCHANGED windows
          /\ scan' \in {Reading, Nothing} /\ scan_again' = FALSE
          /\ (scan' = Nothing => ~scan_again)
          /\ UNCHANGED <<world, event, missed, request_pending, alive, initialized, show_volumes,
                         changes>>
      BY <1>7, <2>3 DEF scan_done
    <3>2. MonitorTypeOK'
      BY <2>1, <2>2, <3>1 DEF MonitorTypeOK
    <3>3. Registered' /\ PollWhileWatched'
      BY <2>1, <2>2, <3>1 DEF Registered, PollWhileWatched
    <3>4. Signed' /\ ShownIsSnapshot'
      BY <3>1 DEF Signed, ShownIsSnapshot
    <3>5. Fresh'
      <4>1. scan' \notin Worlds
        BY <3>1 DEF MonitorTypeOK
      <4>2. ASSUME alive # {}, scan' = Nothing PROVE snapshot = world \/ Owed' \/ failed'
        <5>1. CASE scan = Failed
          BY <3>1, <5>1
        <5>2. CASE scan # Failed
          <6>1. scan = snapshot /\ scan \in Worlds
            BY <1>7, <2>3, <5>2 DEF scan_done, MonitorTypeOK
          <6>2. scan = world \/ event \/ request_pending \/ missed
            BY <3>1, <4>2, <6>1 DEF Fresh, Owed
          <6> QED BY <3>1, <6>1, <6>2 DEF Owed
        <5> QED BY <5>1, <5>2
      <4> QED BY <3>1, <4>1, <4>2 DEF Fresh
    <3> QED BY <3>2, <3>3, <3>4, <3>5
  <2>4. CASE scan \notin {Failed, snapshot}
    <3>1. scan \in Worlds /\ Told(alive, scan, drive_signature)
      BY <1>7, <2>1, <2>4 DEF scan_done, MonitorTypeOK
    <3>2. MonitorTypeOK'
      BY <1>7, <2>1, <2>2, <3>1, ToldShows DEF scan_done, MonitorTypeOK, Signed
    <3>3. Signed' /\ ShownIsSnapshot'
      <4>1. /\ \A o \in alive \cap Lists : shown'[o] = scan
            /\ \A o \in Owners \ alive : shown'[o] = shown[o]
            /\ Desktop \notin alive => drive_signature' = drive_signature
            /\ Desktop \in alive =>
                 /\ drive_signature' = Signature[scan] /\ shown'[Desktop] \in Worlds
                 /\ Signature[shown'[Desktop]] = Signature[scan]
        BY <2>1, <3>1, ToldShows DEF MonitorTypeOK, Signed
      <4>2. snapshot' = scan /\ alive' = alive
        BY <1>7, <2>4 DEF scan_done
      <4> QED
        BY <3>1, <4>1, <4>2 DEF MonitorTypeOK, Signed, ShownIsSnapshot, Owners
    <3>4. Registered' /\ PollWhileWatched' /\ Fresh'
      BY <1>7, <2>2, <2>4, <3>1 DEF scan_done, MonitorTypeOK, Registered, PollWhileWatched, Fresh,
         Owed
    <3> QED BY <3>2, <3>3, <3>4
  <2> QED BY <2>3, <2>4
<1>8. ASSUME NEW o \in Owners, Subscribe(o) PROVE MonitorIInv'
  <2>1. Live = alive
    BY DEF Registered, Live
  <2>2. (start_scan \/ (alive # {} /\ UNCHANGED <<scan, scan_again>>))
    BY <1>8, <2>1 DEF Subscribe, NeedsScan
  <2>3. /\ alive' = alive \cup {o} /\ subscribers' = alive \cup {o} /\ poll_source' = TRUE
        /\ initialized' = TRUE
        /\ UNCHANGED <<world, event, missed, request_pending, failed, snapshot,
                       show_volumes, changes>>
    BY <1>8, <2>1 DEF Subscribe, update_poll_state
  <2>4. MonitorTypeOK' /\ Signed' /\ ShownIsSnapshot'
    <3>1. CASE snapshot = Nothing
      <4>1. UNCHANGED windows
        BY <1>8, <3>1 DEF Subscribe, GivesSnapshot
      <4> QED
        BY <2>2, <2>3, <3>1, <4>1, StartScanOwes DEF MonitorTypeOK, Signed, ShownIsSnapshot, Owners
    <3>2. CASE snapshot # Nothing
      <4> DEFINE sig == IF o = Desktop THEN Nothing ELSE drive_signature
      <4>1. /\ {o} \in SUBSET Owners /\ snapshot \in Worlds /\ sig \in Worlds \cup {Nothing}
            /\ sig # Nothing => shown[Desktop] # Nothing /\ sig = Signature[shown[Desktop]]
            /\ Told({o}, snapshot, sig)
        BY <1>8, <3>2 DEF Subscribe, GivesSnapshot, MonitorTypeOK, Signed
      <4>2. /\ shown' \in [Owners -> Worlds \cup {Nothing}]
            /\ drive_signature' \in Worlds \cup {Nothing} /\ drawn' \in 0..MaxSettings
            /\ \A a \in {o} \cap Lists : shown'[a] = snapshot
            /\ \A a \in Owners \ {o} : shown'[a] = shown[a]
            /\ Desktop \notin {o} => drive_signature' = sig
            /\ Desktop \in {o} =>
                 /\ drive_signature' = Signature[snapshot] /\ shown'[Desktop] \in Worlds
                 /\ Signature[shown'[Desktop]] = Signature[snapshot]
        BY <4>1, ToldShows
      <4>3. MonitorTypeOK'
        BY <2>2, <2>3, <4>2, StartScanOwes DEF MonitorTypeOK, Owners
      <4>4. Signed' /\ ShownIsSnapshot'
        BY <2>3, <3>2, <4>1, <4>2 DEF MonitorTypeOK, Signed, ShownIsSnapshot, Owners
      <4> QED BY <4>3, <4>4
    <3> QED BY <3>1, <3>2
  <2>5. Registered' /\ PollWhileWatched'
    BY <2>3 DEF Registered, PollWhileWatched
  <2>6. Fresh'
    BY <2>2, <2>3, StartScanOwes DEF MonitorTypeOK, Fresh, Owed
  <2> QED BY <2>4, <2>5, <2>6
<1>9. ASSUME NEW o \in Owners, SubscribeAgain(o) PROVE MonitorIInv'
  <2>1. Live = alive /\ o \in Lists /\ o \in alive
    BY <1>9 DEF Registered, Live, SubscribeAgain
  <2>2. /\ subscribers' = alive /\ poll_source' = TRUE
        /\ UNCHANGED <<world, event, missed, request_pending, scanning, alive, initialized,
                       show_volumes, changes>>
    BY <1>9, <2>1 DEF SubscribeAgain, compact_subscribers, update_poll_state
  <2>3. Registered' /\ PollWhileWatched' /\ Fresh'
    BY <2>2 DEF Registered, PollWhileWatched, Fresh, Owed
  <2>4. CASE snapshot = Nothing
    BY <1>9, <2>2, <2>3, <2>4 DEF SubscribeAgain, MonitorTypeOK, Signed, ShownIsSnapshot
  <2>5. CASE snapshot # Nothing
    <3>1. {o} \in SUBSET Owners /\ snapshot \in Worlds /\ Told({o}, snapshot, drive_signature)
      BY <1>9, <2>5 DEF SubscribeAgain, MonitorTypeOK
    <3>2. /\ shown' \in [Owners -> Worlds \cup {Nothing}]
          /\ drive_signature' = drive_signature /\ drawn' \in 0..MaxSettings
          /\ shown'[o] = snapshot
          /\ \A a \in Owners \ {o} : shown'[a] = shown[a]
      <4>1. drive_signature # Nothing =>
              shown[Desktop] # Nothing /\ drive_signature = Signature[shown[Desktop]]
        BY DEF Signed
      <4>2. MonitorTypeOK /\ drive_signature \in Worlds \cup {Nothing} /\ Desktop \notin {o}
        BY <2>1 DEF MonitorTypeOK
      <4>3. /\ shown' \in [Owners -> Worlds \cup {Nothing}]
            /\ drive_signature' \in Worlds \cup {Nothing} /\ drawn' \in 0..MaxSettings
            /\ \A a \in {o} \cap Lists : shown'[a] = snapshot
            /\ \A a \in Owners \ {o} : shown'[a] = shown[a]
            /\ Desktop \notin {o} => drive_signature' = drive_signature
        BY <3>1, <4>1, <4>2, ToldShows
      <4> QED BY <2>1, <4>2, <4>3
    <3>3. MonitorTypeOK'
      BY <2>2, <3>2 DEF MonitorTypeOK
    <3>4. Signed' /\ ShownIsSnapshot'
      BY <2>1, <2>2, <3>2 DEF MonitorTypeOK, Signed, ShownIsSnapshot, Owners
    <3> QED BY <2>3, <3>3, <3>4
  <2> QED BY <2>4, <2>5
<1>10. ASSUME NEW o \in Owners, Destroy(o) PROVE MonitorIInv'
  BY <1>10 DEF Destroy, MonitorTypeOK, Registered, PollWhileWatched, Signed, ShownIsSnapshot, Fresh,
     Owed, Owners
<1>11. CASE ChangeSettings
  BY <1>11 DEF ChangeSettings, MonitorTypeOK, Registered, PollWhileWatched, Signed,
     ShownIsSnapshot, Fresh, Owed
<1> QED
  BY <1>1, <1>2, <1>3, <1>4, <1>5, <1>6, <1>7, <1>8, <1>9, <1>10, <1>11 DEF MonitorNext, MainLoop

LEMMA MonitorInvariant == MonitorSpec => []MonitorIInv
BY MonitorInitIInv, MonitorNextIInv, PTL DEF MonitorSpec

\* A scan is asked for again only while one runs, and those who are told of results
\* are owners, each with one of the worlds, or nothing, on show.
THEOREM MonitorTypeOKHolds == MonitorSpec => []MonitorTypeOK
<1>1. MonitorIInv => MonitorTypeOK
  BY DEF MonitorIInv
<1> QED BY <1>1, MonitorInvariant, PTL

\* Whoever watches shows the snapshot, whenever he came and whatever failed.
THEOREM ShownIsSnapshotHolds == MonitorSpec => []ShownIsSnapshot
<1>1. MonitorIInv => ShownIsSnapshot
  BY DEF MonitorIInv
<1> QED BY <1>1, MonitorInvariant, PTL

\* No change that somebody was told of, and no request, is lost between scans.
THEOREM QuietMeansFreshHolds == MonitorSpec => []QuietMeansFresh
<1>1. MonitorIInv => QuietMeansFresh
  BY DEF MonitorIInv, QuietMeansFresh, Quiet, Fresh, Owed, MonitorTypeOK, Live
<1> QED BY <1>1, MonitorInvariant, PTL

\* drives_monitor.c:8: the safety poll runs as long as anybody watches.
THEOREM PollWhileWatchedHolds == MonitorSpec => []PollWhileWatched
<1>1. MonitorIInv => PollWhileWatched
  BY DEF MonitorIInv
<1> QED BY <1>1, MonitorInvariant, PTL

-----------------------------------------------------------------------------
(* The mounting of images.                                                *)

\* The steps at which a job is going to mount or to detach what it holds.  A
\* job that is saving, unmounting or forgetting is not answerable for its loop.
Answerable == {"choose", "mount", "abort", "drop", "detach"}

Answers(j, l) == job[j].loop = l /\ job[j].pc \in Answerable

\* As root the mount point tells the loop device.
Names2(p, l) == \E i \in Images : p = <<BaseName[i], l>>

RootPoints ==
    root =>
        /\ \A l \in Loops : mount[l] # None => Names2(mount[l], l)
        /\ \A i \in Images : state[i] # NoState => Names2(state[i].point, state[i].loop)
        /\ \A j \in Jobs : job[j].pc \in {"save", "rollback", "unmount"}
              => Names2(job[j].point, job[j].loop)

JobRec == [pc : Steps, image : Images \cup {None}, loop : Loops \cup {None},
           point : Points \cup {None}, dialog : BOOLEAN]

\* A job that has come to a loop device has one.
HasLoop ==
    \A j \in Jobs :
        /\ job[j].pc \notin {"idle", "setup", "unlink"} => job[j].loop \in Loops
        /\ job[j].pc # "idle" => job[j].image \in Images
        /\ job[j].pc \in {"save", "rollback", "unmount"} => job[j].point \in Points

Accounted ==
    \A l \in Loops : loop[l] # None =>
        mount[l] # None \/ l \in broken \/ \E j \in Jobs : Answers(j, l)

IInv == TypeOK /\ HasLoop /\ RootPoints /\ Accounted

LEMMA IdleType == Idle \in JobRec
  BY DEF Idle, JobRec, Steps

Typed == TypeOK /\ HasLoop

LEMMA TypedInit == Init => Typed
<1> SUFFICES ASSUME Init PROVE Typed
  OBVIOUS
<1>1. job \in [Jobs -> JobRec] /\ \A j \in Jobs : job[j].pc = "idle"
  BY IdleType DEF Init, Idle
<1>2. QED
  BY <1>1 DEF Init, Typed, TypeOK, HasLoop, JobRec

LEMMA TypedStep == Typed /\ [Next]_vars => Typed'
<1> SUFFICES ASSUME Typed, [Next]_vars PROVE Typed'
  OBVIOUS
<1> USE DEF Typed, TypeOK, HasLoop, JobRec, Steps
<1>0. None \notin Points /\ None \notin Loops /\ None \notin Images
  BY PointsAssumption, LoopsAssumption, ImagesAssumption
<1>d. ASSUME NEW l \in Loops, Detached(l) \/ Unmounted(l) \/ DetachLoop(l) \/ UNCHANGED disk
      PROVE  /\ loop' \in [Loops -> Images \cup {None}]
             /\ mount' \in [Loops -> Points \cup {None}]
             /\ lazy' \subseteq Loops
  BY <1>d DEF Detached, Unmounted, DetachLoop, disk
<1>e. ASSUME NEW j \in Jobs, Ends(j) PROVE job' \in [Jobs -> JobRec] /\ HasLoop'
  <2>1. \A k \in Jobs : job'[k] = IF k = j THEN Idle ELSE job[k]
    BY <1>e DEF Ends
  <2>2. Idle.pc = "idle"
    BY DEF Idle
  <2>3. job' \in [Jobs -> JobRec]
    BY <1>e, IdleType DEF Ends
  <2>4. QED
    BY <2>1, <2>2, <2>3
<1>g. ASSUME NEW j \in Jobs, NEW pc \in Steps \ {"save", "unmount", "idle"}, NEW d \in BOOLEAN,
             job[j].loop \in Loops, job[j].image \in Images,
             pc = "rollback" => job[j].pc = "save",
             job' = [job EXCEPT ![j].pc = pc, ![j].dialog = d] \/ Goes(j, pc)
      PROVE  job' \in [Jobs -> JobRec] /\ HasLoop'
  BY <1>g DEF Goes
<1>1. ASSUME NEW j \in Jobs, NEW i \in Images, Mount(j, i) \/ Scan(j, i) PROVE Typed'
  <2> DEFINE New == job'[j]
  <2>1. \/ job' = [job EXCEPT ![j] = [Idle EXCEPT !.pc = "setup", !.image = i, !.dialog = TRUE]]
        \/ job' = [job EXCEPT ![j] = [Idle EXCEPT !.pc = "unlink", !.image = i]]
    BY <1>1 DEF Mount, Scan
  <2>2. New \in JobRec /\ New.pc \in {"setup", "unlink"} /\ New.image = i
    <3>1. ASSUME NEW r, job' = [job EXCEPT ![j] = r] PROVE New = r
      BY <3>1
    <3>2. CASE New = [Idle EXCEPT !.pc = "setup", !.image = i, !.dialog = TRUE]
      BY <3>2 DEF Idle
    <3>3. CASE New = [Idle EXCEPT !.pc = "unlink", !.image = i]
      BY <3>3 DEF Idle
    <3>4. QED
      BY <2>1, <3>1, <3>2, <3>3
  <2>3. \A k \in Jobs : k # j => job'[k] = job[k]
    BY <2>1
  <2>4. job' \in [Jobs -> JobRec]
    BY <2>1, <2>2, <2>3
  <2>5. HasLoop'
    BY <2>2, <2>3, <2>4
  <2>6. QED
    BY <1>1, <2>4, <2>5 DEF Mount, Scan, Meets, disk
<1>2. ASSUME NEW j \in Jobs, NEW i \in Images, Unmount(j, i) PROVE Typed'
  <2>1. state[i] \in States
    BY <1>0, <1>2 DEF Unmount, Active, NoState, States
  <2>2. QED
    BY <1>2, <2>1 DEF Unmount, States, Meets, disk
<1>3. ASSUME NEW j \in Jobs, Setup(j) PROVE Typed'
  <2>1. CASE Ends(j) /\ UNCHANGED loop /\ broken' \in SUBSET Loops
    BY <1>3, <2>1, IdleType DEF Setup, Ends, Idle
  <2>2. ASSUME NEW l \in Loops, Prepared(j, l) PROVE job' \in [Jobs -> JobRec] /\ HasLoop'
    <3>1. job[j] \in JobRec /\ job[j].image \in Images
      BY <1>3 DEF Setup
    <3>2. PICK r \in JobRec : r.pc \in {"choose", "mount"} /\ r.image = job[j].image
                              /\ r.loop = l /\ job' = [job EXCEPT ![j] = r]
      <4>1. PICK c : c = [job[j] EXCEPT !.pc = "choose", !.loop = l, !.dialog = TRUE]
        OBVIOUS
      <4>2. c \in JobRec /\ c.pc = "choose" /\ c.image = job[j].image /\ c.loop = l
        BY ONLY <3>1, <4>1, l \in Loops DEF JobRec, Steps
      <4>3. PICK m : m = [job[j] EXCEPT !.pc = "mount", !.loop = l]
        OBVIOUS
      <4>4. m \in JobRec /\ m.pc = "mount" /\ m.image = job[j].image /\ m.loop = l
        BY ONLY <3>1, <4>3, l \in Loops DEF JobRec, Steps
      <4>5. job' = [job EXCEPT ![j] = c] \/ job' = [job EXCEPT ![j] = m]
        BY <2>2, <4>1, <4>3 DEF Prepared
      <4>. QED
        BY <4>2, <4>4, <4>5
    <3>3. job' \in [Jobs -> JobRec] /\ job'[j] = r /\ \A k \in Jobs : k # j => job'[k] = job[k]
      BY <3>2
    <3>4. QED
      BY <3>1, <3>2, <3>3
  <2>3. ASSUME NEW l \in Loops, loop' = [loop EXCEPT ![l] = job[j].image],
               \/ Prepared(j, l) /\ broken' = broken \ {l}
               \/ Ends(j) /\ broken' = broken \cup {l}
        PROVE  Typed'
    <3>1. job[j].image \in Images
      BY <1>3 DEF Setup
    <3>2. job' \in [Jobs -> JobRec] /\ HasLoop'
      BY <1>e, <2>2, <2>3
    <3>3. QED
      BY <1>3, <2>3, <3>1, <3>2 DEF Setup
  <2>4. QED
    BY <1>3, <2>1, <2>3 DEF Setup, Attach
<1>4. ASSUME NEW j \in Jobs, Choose(j) \/ Save(j) \/ ParentGone(j) PROVE Typed'
  <2>1. job' \in [Jobs -> JobRec] /\ HasLoop'
    <3>1. CASE Choose(j)
      <4>1. job[j].loop \in Loops /\ job[j].image \in Images
        BY <3>1 DEF Choose
      <4>2. CASE Goes(j, "mount")
        BY <4>1, <4>2 DEF Goes
      <4>3. CASE GivesUp(j)
        <5>1. ASSUME NEW k \in Jobs
              PROVE  /\ job'[k] \in JobRec /\ job'[k].loop = job[k].loop
                     /\ job'[k].image = job[k].image /\ job'[k].point = job[k].point
                     /\ job'[k].pc = IF k = j THEN "abort" ELSE job[k].pc
          <6>1. PICK r \in JobRec : r = job[k]
            OBVIOUS
          <6>2. job'[k] = IF k = j THEN [r EXCEPT !.pc = "abort", !.dialog = FALSE] ELSE r
            BY <4>3, <6>1 DEF GivesUp
          <6>3. QED
            <7>1. CASE k = j
              <8>1. "abort" \in Steps
                OBVIOUS
              <8> HIDE DEF Steps
              <8>2. [r EXCEPT !.pc = "abort", !.dialog = FALSE] \in JobRec
                BY ONLY <8>1, r \in JobRec
              <8>3. QED
                BY ONLY <6>1, <6>2, <7>1, <8>2 DEF JobRec
            <7>2. CASE k # j
              BY ONLY <6>1, <6>2, <7>2
            <7>3. QED
              BY ONLY <7>1, <7>2
        <5>2. job' \in [Jobs -> JobRec]
          BY <4>3, <5>1 DEF GivesUp
        <5>3. HasLoop'
          BY ONLY HasLoop, <4>1, <5>1 DEF HasLoop
        <5>4. QED
          BY <5>2, <5>3
      <4>4. QED
        BY <3>1, <4>2, <4>3 DEF Choose
    <3>2. CASE Save(j)
      BY <1>g, <1>e, <3>2 DEF Save, Unsaved
    <3>3. CASE ParentGone(j)
      <4>1. \A k \in Jobs : job'[k] = IF k = j THEN [job[k] EXCEPT !.dialog = FALSE] ELSE job[k]
        BY <3>3 DEF ParentGone
      <4>2. ASSUME NEW k \in Jobs
            PROVE  /\ job'[k] \in JobRec /\ job'[k].pc = job[k].pc
                   /\ job'[k].loop = job[k].loop /\ job'[k].image = job[k].image
                   /\ job'[k].point = job[k].point
        <5>1. PICK r \in JobRec : r = job[k]
          OBVIOUS
        <5>2. job'[k] \in {r, [r EXCEPT !.dialog = FALSE]}
          BY <4>1, <5>1
        <5>3. QED
          BY ONLY <5>1, <5>2 DEF JobRec
      <4>3. job' \in [Jobs -> JobRec]
        BY <3>3, <4>2 DEF ParentGone
      <4>4. HasLoop'
        BY ONLY HasLoop, <4>2 DEF HasLoop
      <4>5. QED
        BY <4>3, <4>4
    <3>4. QED
      BY <1>4, <3>1, <3>2, <3>3
  <2>2. state' \in [Images -> States \cup {NoState}]
    BY <1>4 DEF Choose, Save, ParentGone, States
  <2>3. QED
    BY <1>4, <2>1, <2>2 DEF Choose, Save, ParentGone, disk, ghosts
<1>5. ASSUME NEW j \in Jobs, MountBlock(j) PROVE Typed'
  <2>1. job[j].loop \in Loops /\ job[j].image \in Images
    BY <1>5 DEF MountBlock
  <2>2. Place(j) \subseteq Points
    BY <2>1 DEF Place, Points
  <2>3. job' \in [Jobs -> JobRec] /\ HasLoop'
    BY <1>5, <2>1, <2>2 DEF MountBlock, GivesUp
  <2>4. mount' \in [Loops -> Points \cup {None}] /\ broken' \subseteq Loops
    BY <1>5, <2>1, <2>2 DEF MountBlock
  <2>5. QED
    BY <1>5, <2>3, <2>4 DEF MountBlock
<1>6. ASSUME NEW j \in Jobs, Abort(j) \/ Drop(j) \/ Detach(j) PROVE Typed'
  <2>1. job[j].loop \in Loops /\ DetachLoop(job[j].loop)
    BY <1>6 DEF Abort, Drop, Detach
  <2>2. job' \in [Jobs -> JobRec] /\ HasLoop'
    <3>1. CASE Ends(j)
      BY <1>e, <3>1
    <3>2. CASE Detach(j)
      <4>1. job[j].loop \in Loops /\ job[j].image \in Images /\ Goes(j, "forget")
        BY <3>2 DEF Detach
      <4>2. QED
        BY <4>1 DEF Goes
    <3>3. QED
      BY <1>6, <3>1, <3>2 DEF Abort, Drop
  <2>3. broken' \subseteq Loops
    BY <2>1 DEF DetachLoop
  <2>4. QED
    BY <1>6, <1>d, <2>1, <2>2, <2>3 DEF Abort, Drop, Detach
<1>7. ASSUME NEW j \in Jobs, Rollback(j) \/ Umount(j) PROVE Typed'
  <2>1. job[j].loop \in Loops /\ \A k \in Target(job[j].loop, job[j].point) : k \in Loops
    BY <1>7 DEF Rollback, Umount, Target
  <2>2. UNCHANGED disk \/ \E k \in Loops : Unmounted(k)
    BY <1>7, <2>1 DEF Rollback, Umount
  <2>3. job' \in [Jobs -> JobRec] /\ HasLoop'
    <3>1. CASE Ends(j)
      BY <1>e, <3>1
    <3>2. job[j].image \in Images
      BY <1>7 DEF Rollback, Umount
    <3>3. CASE Goes(j, "drop") \/ Goes(j, "detach") \/ Goes(j, "forget")
      BY <2>1, <3>2, <3>3 DEF Goes
    <3>4. QED
      BY <1>7, <3>1, <3>3 DEF Rollback, Umount
  <2>4. broken' \subseteq Loops /\ undone' \in BOOLEAN
    BY <1>7, <2>1 DEF Rollback, Umount
  <2>5. /\ loop' \in [Loops -> Images \cup {None}]
        /\ mount' \in [Loops -> Points \cup {None}]
        /\ lazy' \subseteq Loops
    BY <2>2, <1>d, <2>1
  <2>6. QED
    BY <1>7, <2>3, <2>4, <2>5 DEF Rollback, Umount
<1>8. ASSUME NEW j \in Jobs, Forget(j) \/ Unlink(j) PROVE Typed'
  <2>1. job' \in [Jobs -> JobRec] /\ HasLoop'
    BY <1>8, <1>e DEF Forget, Unlink
  <2>2. QED
    BY <1>8, <2>1 DEF Forget, Unlink, disk, ghosts
<1>9. ASSUME NEW i \in Images, Stale(i) PROVE Typed'
  BY <1>9 DEF Stale, disk, ghosts
<1>10. ASSUME NEW l \in Loops, Outside(l) PROVE Typed'
  BY <1>d, <1>10 DEF Outside
<1>11. CASE Crash
  <2>1. job' \in [Jobs -> JobRec] /\ HasLoop'
    BY <1>11, IdleType DEF Crash, Idle
  <2>2. QED
    BY <1>11, <2>1 DEF Crash, disk
<1>12. CASE UNCHANGED vars
  BY <1>12 DEF vars
<1>13. QED
  BY <1>1, <1>2, <1>3, <1>4, <1>5, <1>6, <1>7, <1>8, <1>9, <1>10, <1>11, <1>12
     DEF Next, JobAction

----------------------------------------------------------------------------
LEMMA RootStep == Typed /\ Typed' /\ RootPoints /\ [Next]_vars => RootPoints'
<1> SUFFICES ASSUME Typed, Typed', RootPoints, [Next]_vars, root' = TRUE PROVE RootPoints'
  BY DEF RootPoints
<1> USE DEF Typed, TypeOK, JobRec, Steps
<1> DEFINE Late == {"save", "rollback", "unmount"}
\* The steps that bring in no new mount, state or late job.
<1>k. ASSUME root = TRUE,
             \A l \in Loops : mount'[l] \in {mount[l], None},
             \A i \in Images : state'[i] \in {state[i], NoState},
             \A j \in Jobs : job'[j].pc \in Late =>
                /\ job[j].pc \in Late
                /\ job'[j].loop = job[j].loop /\ job'[j].point = job[j].point
      PROVE  RootPoints'
  BY <1>k DEF RootPoints, Names2
<1>d. ASSUME NEW l \in Loops, Detached(l) \/ Unmounted(l) \/ DetachLoop(l) \/ UNCHANGED disk
      PROVE  \A k \in Loops : mount'[k] \in {mount[k], None}
  BY <1>d DEF Detached, Unmounted, DetachLoop, disk
<1>r. root = TRUE
  BY DEF Next, JobAction, Mount, Unmount, Scan, Setup, Choose, MountBlock, Save, Abort,
         Rollback, Drop, Umount, Detach, Forget, Unlink, ParentGone, Stale, Outside, Crash, vars
<1>e. ASSUME NEW j \in Jobs, Ends(j) PROVE \A k \in Jobs : job'[k].pc \in Late =>
          job[k].pc \in Late /\ job'[k].loop = job[k].loop /\ job'[k].point = job[k].point
  BY <1>e DEF Ends, Idle
<1>g. ASSUME NEW j \in Jobs, NEW pc \in Steps \ Late, Goes(j, pc)
      PROVE  \A k \in Jobs : job'[k].pc \in Late =>
          job[k].pc \in Late /\ job'[k].loop = job[k].loop /\ job'[k].point = job[k].point
  BY <1>g DEF Goes
<1>u. ASSUME NEW j \in Jobs, GivesUp(j)
      PROVE  \A k \in Jobs : job'[k].pc \in Late =>
          job[k].pc \in Late /\ job'[k].loop = job[k].loop /\ job'[k].point = job[k].point
  BY <1>u DEF GivesUp
<1>1. ASSUME NEW j \in Jobs, NEW i \in Images, Mount(j, i) \/ Scan(j, i) PROVE RootPoints'
  <2>1. \A k \in Jobs : job'[k].pc \in Late => job'[k] = job[k]
    <3>1. /\ job'[j].pc \in {"setup", "unlink"}
          /\ \A k \in Jobs : k # j => job'[k] = job[k]
      <4>1. CASE Mount(j, i)
        <5>1. job' = [job EXCEPT ![j] = [Idle EXCEPT !.pc = "setup", !.image = i, !.dialog = TRUE]]
          BY <4>1 DEF Mount
        <5>2. [Idle EXCEPT !.pc = "setup", !.image = i, !.dialog = TRUE].pc = "setup"
          BY DEF Idle
        <5>3. QED
          BY <5>1, <5>2
      <4>2. CASE Scan(j, i)
        <5>1. job' = [job EXCEPT ![j] = [Idle EXCEPT !.pc = "unlink", !.image = i]]
          BY <4>2 DEF Scan
        <5>2. [Idle EXCEPT !.pc = "unlink", !.image = i].pc = "unlink"
          BY DEF Idle
        <5>3. QED
          BY <5>1, <5>2
      <4>3. QED
        BY <1>1, <4>1, <4>2
    <3>2. QED
      BY <3>1
  <2>2. QED
    BY <1>1, <1>k, <1>r, <2>1 DEF Mount, Scan, disk
<1>2. ASSUME NEW j \in Jobs, NEW i \in Images, Unmount(j, i) PROVE RootPoints'
  <2>1. state[i] # NoState
    BY <1>2 DEF Unmount, Active, NoState
  <2>2. Names2(state[i].point, state[i].loop)
    BY <1>r, <2>1 DEF RootPoints
  <2>3. /\ job'[j].point = state[i].point /\ job'[j].loop = state[i].loop
        /\ \A k \in Jobs : k # j => job'[k] = job[k]
    BY <1>2 DEF Unmount
  <2>4. UNCHANGED <<mount, state>>
    BY <1>2 DEF Unmount, disk
  <2>5. ASSUME NEW k \in Jobs, job'[k].pc \in Late
        PROVE  Names2(job'[k].point, job'[k].loop)
    <3>1. CASE k = j
      BY <2>2, <2>3, <3>1
    <3>2. CASE k # j
      BY <1>r, <2>3, <2>5, <3>2 DEF RootPoints
    <3>3. QED
      BY <3>1, <3>2
  <2>6. QED
    BY <1>r, <2>4, <2>5 DEF RootPoints
<1>3. ASSUME NEW j \in Jobs, Setup(j) PROVE RootPoints'
  <2>1. ASSUME NEW l \in Loops, Prepared(j, l)
        PROVE  \A k \in Jobs : job'[k].pc \in Late => job'[k] = job[k]
    BY <2>1 DEF Prepared
  <2>2. \A k \in Jobs : job'[k].pc \in Late =>
          job[k].pc \in Late /\ job'[k].loop = job[k].loop /\ job'[k].point = job[k].point
    BY <1>3, <1>e, <2>1 DEF Setup, Attach
  <2>3. QED
    BY <1>3, <1>k, <1>r, <2>2 DEF Setup
<1>4. ASSUME NEW j \in Jobs, Choose(j) \/ ParentGone(j) PROVE RootPoints'
  <2>1. \A k \in Jobs : job'[k].pc \in Late =>
          job[k].pc \in Late /\ job'[k].loop = job[k].loop /\ job'[k].point = job[k].point
    <3>1. CASE Choose(j) /\ Goes(j, "mount")
      BY <3>1 DEF Goes
    <3>2. CASE GivesUp(j)
      BY <1>u, <3>2
    <3>3. CASE ParentGone(j)
      BY <3>3 DEF ParentGone
    <3>4. QED
      BY <1>4, <3>1, <3>2, <3>3 DEF Choose
  <2>2. QED
    BY <1>4, <1>k, <1>r, <2>1 DEF Choose, ParentGone, disk
<1>5. ASSUME NEW j \in Jobs, Save(j) PROVE RootPoints'
  <2>1. Names2(job[j].point, job[j].loop)
    BY <1>5, <1>r DEF Save, RootPoints
  <2>2. mount' = mount
    BY <1>5 DEF Save, disk
  <2>3. CASE Unsaved(j) /\ state' = state
    BY <1>r, <2>1, <2>2, <2>3 DEF Unsaved, RootPoints, Names2
  <2>4. CASE Ends(j) /\ state' = [state EXCEPT ![job[j].image] =
                          [loop |-> job[j].loop, point |-> job[j].point]]
    <3>1. \A i \in Images : state'[i] # NoState => Names2(state'[i].point, state'[i].loop)
      BY <1>r, <2>1, <2>4 DEF RootPoints, Names2
    <3>2. \A k \in Jobs : job'[k].pc \in Late =>
          job[k].pc \in Late /\ job'[k].loop = job[k].loop /\ job'[k].point = job[k].point
      BY <1>e, <2>4
    <3>3. QED
      BY <1>r, <2>2, <3>1, <3>2 DEF RootPoints, Names2
  <2>5. QED
    BY <1>5, <2>3, <2>4 DEF Save
<1>6. ASSUME NEW j \in Jobs, MountBlock(j) PROVE RootPoints'
  <2>1. CASE GivesUp(j) /\ mount' = mount
    BY <1>6, <1>k, <1>r, <1>u, <2>1 DEF MountBlock
  <2>2. CASE ~(GivesUp(j) /\ mount' = mount)
    <3>1. job[j].image \in Images /\ job[j].loop \in Loops
      BY <1>6 DEF MountBlock, HasLoop
    <3>2. PICK p \in Place(j) :
            /\ mount' = [mount EXCEPT ![job[j].loop] = p]
            /\ \/ job' = [job EXCEPT ![j].pc = "save", ![j].point = p]
               \/ GivesUp(j)
      BY <1>6, <2>2 DEF MountBlock
    <3>3. Names2(p, job[j].loop)
      BY <1>r, <3>1, <3>2 DEF Place, Names2
    <3>4. \A l \in Loops : mount'[l] # None => Names2(mount'[l], l)
      BY <1>r, <3>1, <3>2, <3>3 DEF RootPoints, Names2
    <3>5. \A k \in Jobs : job'[k].pc \in Late => Names2(job'[k].point, job'[k].loop)
      <4>1. CASE job' = [job EXCEPT ![j].pc = "save", ![j].point = p]
        BY <1>r, <3>3, <4>1 DEF RootPoints, Names2
      <4>2. CASE GivesUp(j)
        BY <1>r, <1>u, <4>2 DEF RootPoints, Names2
      <4>3. QED
        BY <3>2, <4>1, <4>2
    <3>6. state' = state
      BY <1>6 DEF MountBlock
    <3>7. QED
      BY <1>r, <3>4, <3>5, <3>6 DEF RootPoints, Names2
  <2>3. QED
    BY <2>1, <2>2
<1>7. ASSUME NEW j \in Jobs, Abort(j) \/ Drop(j) \/ Detach(j) \/ Forget(j) \/ Unlink(j)
      PROVE  RootPoints'
  <2>1. Ends(j) \/ Goes(j, "forget")
    BY <1>7 DEF Abort, Drop, Detach, Forget, Unlink
  <2>2. \A k \in Jobs : job'[k].pc \in Late =>
          job[k].pc \in Late /\ job'[k].loop = job[k].loop /\ job'[k].point = job[k].point
    BY <1>e, <1>g, <2>1
  <2>3. UNCHANGED disk \/ (job[j].loop \in Loops /\ DetachLoop(job[j].loop))
    BY <1>7 DEF Abort, Drop, Detach, Forget, Unlink, HasLoop
  <2>4. \A k \in Loops : mount'[k] \in {mount[k], None}
    BY <1>d, <2>3 DEF disk
  <2>5. QED
    BY <1>7, <1>k, <1>r, <2>2, <2>4 DEF Abort, Drop, Detach, Forget, Unlink
<1>8. ASSUME NEW j \in Jobs, Rollback(j) \/ Umount(j) PROVE RootPoints'
  <2>1. Ends(j) \/ Goes(j, "drop") \/ Goes(j, "detach") \/ Goes(j, "forget")
    BY <1>8 DEF Rollback, Umount
  <2>2. \A k \in Jobs : job'[k].pc \in Late =>
          job[k].pc \in Late /\ job'[k].loop = job[k].loop /\ job'[k].point = job[k].point
    BY <1>e, <1>g, <2>1
  <2>3. UNCHANGED disk \/ \E k \in Loops : Unmounted(k)
    BY <1>8 DEF Rollback, Umount, Target, HasLoop
  <2>4. \A k \in Loops : mount'[k] \in {mount[k], None}
    BY <1>d, <2>3 DEF disk
  <2>5. QED
    BY <1>8, <1>k, <1>r, <2>2, <2>4 DEF Rollback, Umount
<1>9. CASE Crash \/ UNCHANGED vars \/ \E i \in Images : Stale(i)
  BY <1>9, <1>k, <1>r DEF Crash, vars, Stale, Idle, disk
<1>10. ASSUME NEW l \in Loops, Outside(l) PROVE RootPoints'
  BY <1>10, <1>d, <1>k, <1>r DEF Outside
<1>11. QED
  BY <1>1, <1>2, <1>3, <1>4, <1>5, <1>6, <1>7, <1>8, <1>9, <1>10 DEF Next, JobAction

----------------------------------------------------------------------------
\* A step that leaves the devices alone and lets no answerable job go.
LEMMA AccountKept ==
    ASSUME Typed, Accounted,
           \A l \in Loops : loop'[l] # None =>
              /\ loop[l] # None
              /\ mount[l] # None => mount'[l] # None \/ l \in broken'
              /\ l \in broken => l \in broken',
           \A j \in Jobs : job[j].pc \in Answerable =>
              job'[j].pc \in Answerable /\ job'[j].loop = job[j].loop
    PROVE  Accounted'
  BY DEF Accounted, Answers

\* A job is done with a loop device it was to detach.
LEMMA Done ==
    ASSUME Typed, Accounted, NEW j \in Jobs, DetachLoop(job[j].loop),
           \A k \in Jobs : k # j => job'[k] = job[k]
    PROVE  Accounted'
<1> USE DEF Typed, TypeOK, HasLoop
<1>1. ASSUME NEW l \in Loops, loop'[l] # None
      PROVE  mount'[l] # None \/ l \in broken' \/ \E k \in Jobs : Answers(k, l)'
  <2>1. loop[l] # None /\ mount'[l] = mount[l] /\ (l \in broken => l \in broken')
    BY <1>1 DEF DetachLoop, Detached, disk
  <2>2. CASE l = job[j].loop
    BY <1>1, <2>1, <2>2 DEF DetachLoop, Detached
  <2>3. CASE l # job[j].loop
    BY <2>1, <2>3 DEF Accounted, Answers
  <2>4. QED
    BY <2>2, <2>3
<1>2. QED
  BY <1>1 DEF Accounted

\* A loop device is unmounted by a job that will detach it.
LEMMA TakenOn ==
    ASSUME Typed, Accounted, NEW j \in Jobs, NEW l \in Loops, Unmounted(l),
           \A k \in Loops : k # l /\ k \in broken => k \in broken',
           job[j].pc \notin Answerable,
           \A k \in Jobs : k # j => job'[k] = job[k],
           l \in broken' \/ (job'[j].pc \in Answerable /\ job'[j].loop = l)
    PROVE  Accounted'
<1> USE DEF Typed, TypeOK, HasLoop
<1>1. ASSUME NEW k \in Loops, loop'[k] # None
      PROVE  mount'[k] # None \/ k \in broken' \/ \E o \in Jobs : Answers(o, k)'
  <2>1. CASE k = l
    BY <2>1 DEF Answers
  <2>2. CASE k # l
    <3>1. loop[k] # None /\ mount'[k] = mount[k]
      BY <1>1, <2>2 DEF Unmounted
    <3>2. QED
      BY <2>2, <3>1 DEF Accounted, Answers
  <2>3. QED
    BY <2>1, <2>2
<1>2. QED
  BY <1>1 DEF Accounted

LEMMA AccountStep == Typed /\ RootPoints /\ Accounted /\ [Next]_vars => Accounted'
<1> SUFFICES ASSUME Typed, RootPoints, Accounted, [Next]_vars PROVE Accounted'
  OBVIOUS
<1> USE DEF Typed, TypeOK, JobRec, Steps
<1>e. ASSUME NEW j \in Jobs, Ends(j) PROVE \A k \in Jobs : k # j => job'[k] = job[k]
  BY <1>e DEF Ends
<1>g. ASSUME NEW j \in Jobs, NEW pc \in Steps, Goes(j, pc)
      PROVE  /\ \A k \in Jobs : k # j => job'[k] = job[k]
             /\ job'[j].pc = pc /\ job'[j].loop = job[j].loop
  BY <1>g DEF Goes
<1>u. ASSUME NEW j \in Jobs, GivesUp(j)
      PROVE  /\ \A k \in Jobs : k # j => job'[k] = job[k]
             /\ job'[j].pc = "abort" /\ job'[j].loop = job[j].loop
  BY <1>u DEF GivesUp
\* What an unmounting takes away is the mount of the job's own loop device.
<1>t. ASSUME NEW j \in Jobs, job[j].pc \in {"rollback", "unmount"},
             NEW k \in Target(job[j].loop, job[j].point)
      PROVE  k = job[j].loop
  <2>1. CASE root
    <3>1. k \in Loops /\ mount[k] = job[j].point /\ mount[k] # None
      BY <1>t, <2>1 DEF Target
    <3>2. Names2(job[j].point, k) /\ Names2(job[j].point, job[j].loop)
      BY <1>t, <2>1, <3>1 DEF RootPoints
    <3>3. QED
      BY <3>2 DEF Names2
  <2>2. CASE ~root
    BY <1>t, <2>2 DEF Target
  <2>3. QED
    BY <2>1, <2>2
<1>1. ASSUME NEW j \in Jobs, NEW i \in Images, Mount(j, i) \/ Scan(j, i) \/ Unmount(j, i)
      PROVE  Accounted'
  <2>1. job[j].pc \notin Answerable /\ \A k \in Jobs : k # j => job'[k] = job[k]
    BY <1>1 DEF Mount, Scan, Unmount, Idle, Answerable
  <2>2. UNCHANGED <<loop, mount, broken>>
    BY <1>1 DEF Mount, Scan, Unmount, disk
  <2>3. QED
    BY <2>1, <2>2, AccountKept
<1>2. ASSUME NEW j \in Jobs, Setup(j) PROVE Accounted'
  <2>0. job[j].pc \notin Answerable /\ mount' = mount
    BY <1>2 DEF Setup, Answerable
  <2>1. CASE Ends(j) /\ UNCHANGED <<loop, broken>>
    <3>1. \A k \in Jobs : k # j => job'[k] = job[k]
      BY <1>e, <2>1
    <3>2. QED
      BY <2>0, <2>1, <3>1, AccountKept
  <2>2. ASSUME NEW l \in Loops, loop' = [loop EXCEPT ![l] = job[j].image],
               \/ Prepared(j, l) /\ broken' = broken \ {l}
               \/ Ends(j) /\ broken' = broken \cup {l}
        PROVE  Accounted'
    <3>1. \A k \in Jobs : k # j => job'[k] = job[k]
      BY <1>e, <2>2 DEF Prepared
    <3>2. l \in broken' \/ (job'[j].pc \in Answerable /\ job'[j].loop = l)
      BY <2>2 DEF Prepared, Answerable
    <3>3. \A k \in Loops : k # l => loop'[k] = loop[k] /\ (k \in broken => k \in broken')
      BY <2>2
    <3>4. QED
      BY <2>0, <3>1, <3>2, <3>3 DEF Accounted, Answers
  <2>3. QED
    BY <1>2, <2>1, <2>2 DEF Setup, Attach
<1>3. ASSUME NEW j \in Jobs, Choose(j) \/ ParentGone(j) PROVE Accounted'
  <2>1. \A k \in Jobs : job[k].pc \in Answerable =>
              job'[k].pc \in Answerable /\ job'[k].loop = job[k].loop
    <3>1. CASE Goes(j, "mount")
      BY <1>g, <3>1 DEF Answerable
    <3>2. CASE GivesUp(j)
      BY <1>u, <3>2 DEF Answerable
    <3>3. CASE ParentGone(j)
      BY <3>3 DEF ParentGone
    <3>4. QED
      BY <1>3, <3>1, <3>2, <3>3 DEF Choose
  <2>2. UNCHANGED <<loop, mount, broken>>
    BY <1>3 DEF Choose, ParentGone, disk, ghosts
  <2>3. QED
    BY <2>1, <2>2, AccountKept
<1>4. ASSUME NEW j \in Jobs, MountBlock(j) PROVE Accounted'
  <2>0. job[j].loop \in Loops /\ loop' = loop
    BY <1>4 DEF MountBlock, HasLoop
  <2>1. CASE GivesUp(j) /\ UNCHANGED <<mount, broken>>
    <3>1. \A k \in Jobs : job[k].pc \in Answerable =>
              job'[k].pc \in Answerable /\ job'[k].loop = job[k].loop
      BY <1>u, <2>1 DEF Answerable
    <3>2. QED
      BY <2>0, <2>1, <3>1, AccountKept
  <2>2. ASSUME NEW p \in Place(j), mount' = [mount EXCEPT ![job[j].loop] = p],
               \/ job' = [job EXCEPT ![j].pc = "save", ![j].point = p] /\ broken' = broken
               \/ GivesUp(j) /\ broken' = broken \cup {job[j].loop}
        PROVE  Accounted'
    <3>1. p # None
      BY PointsAssumption, <1>4 DEF Place, Points, MountBlock, HasLoop
    <3>2. \A k \in Jobs : k # j => job'[k] = job[k]
      BY <1>u, <2>2
    <3>3. \A k \in Loops : k # job[j].loop => mount'[k] = mount[k]
      BY <2>2
    <3>4. mount'[job[j].loop] # None /\ \A k \in broken : k \in broken'
      BY <2>0, <2>2, <3>1
    <3>5. QED
      BY <2>0, <3>2, <3>3, <3>4 DEF Accounted, Answers
  <2>3. QED
    BY <1>4, <2>1, <2>2 DEF MountBlock
<1>5. ASSUME NEW j \in Jobs, Save(j) \/ Forget(j) \/ Unlink(j) PROVE Accounted'
  <2>1. job[j].pc \notin Answerable /\ UNCHANGED <<loop, mount, broken>>
    BY <1>5 DEF Save, Forget, Unlink, Answerable, disk, ghosts
  <2>2. \A k \in Jobs : k # j => job'[k] = job[k]
    BY <1>5, <1>e DEF Save, Forget, Unlink, Unsaved
  <2>3. QED
    BY <2>1, <2>2, AccountKept
<1>6. ASSUME NEW j \in Jobs, Abort(j) \/ Drop(j) \/ Detach(j) PROVE Accounted'
  <2>1. DetachLoop(job[j].loop) /\ (Ends(j) \/ Goes(j, "forget"))
    BY <1>6 DEF Abort, Drop, Detach
  <2>2. \A k \in Jobs : k # j => job'[k] = job[k]
    BY <1>e, <1>g, <2>1
  <2>3. QED
    BY <2>1, <2>2, Done
<1>7. ASSUME NEW j \in Jobs, Rollback(j) \/ Umount(j) PROVE Accounted'
  <2>0. job[j].pc \in {"rollback", "unmount"} /\ job[j].pc \notin Answerable
    BY <1>7 DEF Rollback, Umount, Answerable
  <2>1. CASE UNCHANGED disk
    <3>1. \A k \in Jobs : k # j => job'[k] = job[k]
      BY <1>7, <1>e, <1>g DEF Rollback, Umount
    <3>2. broken \subseteq broken'
      BY <1>7 DEF Rollback, Umount
    <3>3. QED
      BY <2>0, <2>1, <3>1, <3>2, AccountKept DEF disk
  <2>2. ASSUME NEW k \in Target(job[j].loop, job[j].point), Unmounted(k),
               \/ (Goes(j, "drop") \/ Goes(j, "detach")) /\ UNCHANGED broken
               \/ Ends(j) /\ broken' = broken \cup {k}
        PROVE  Accounted'
    <3>1. k = job[j].loop /\ k \in Loops
      BY <1>t, <2>0, <2>2 DEF HasLoop
    <3>2. \A o \in Jobs : o # j => job'[o] = job[o]
      BY <2>2, <1>e, <1>g
    <3>3. k \in broken' \/ (job'[j].pc \in Answerable /\ job'[j].loop = k)
      BY <2>2, <3>1, <1>g DEF Answerable
    <3>4. broken \subseteq broken'
      BY <2>2
    <3>5. QED
      BY <2>0, <2>2, <3>1, <3>2, <3>3, <3>4, TakenOn
  <2>3. QED
    BY <1>7, <2>1, <2>2 DEF Rollback, Umount
<1>8. ASSUME NEW i \in Images, Stale(i) PROVE Accounted'
  BY <1>8, AccountKept DEF Stale, disk, ghosts
<1>9. ASSUME NEW l \in Loops, Outside(l) PROVE Accounted'
  <2>1. \A k \in Loops : loop'[k] # None =>
           loop[k] # None /\ (mount[k] # None => mount'[k] # None \/ k \in broken')
    BY <1>9 DEF Outside, Unmounted
  <2>2. broken \subseteq broken' /\ job' = job
    BY <1>9 DEF Outside
  <2>3. QED
    BY <2>1, <2>2, AccountKept
<1>10. CASE Crash
  <2>1. /\ \A l \in Loops : (\E j \in Jobs : Answers(j, l)) => l \in broken'
        /\ broken \subseteq broken' /\ UNCHANGED <<loop, mount>>
    BY <1>10 DEF Crash, Answers, disk
  <2>2. QED
    BY <2>1 DEF Accounted
<1>11. CASE UNCHANGED vars
  BY <1>11, AccountKept DEF vars
<1>12. QED
  BY <1>1, <1>2, <1>3, <1>4, <1>5, <1>6, <1>7, <1>8, <1>9, <1>10, <1>11 DEF Next, JobAction

LEMMA Initially == Init => IInv
<1> SUFFICES ASSUME Init PROVE IInv
  OBVIOUS
<1>1. RootPoints /\ Accounted
  BY DEF Init, RootPoints, Accounted, Idle, NoState
<1>2. QED
  BY <1>1, TypedInit DEF IInv, Typed

LEMMA Inductive == IInv /\ [Next]_vars => IInv'
  BY TypedStep, RootStep, AccountStep DEF IInv, Typed

LEMMA Implied == IInv => NoLoopForgotten
  BY DEF IInv, NoLoopForgotten, Accounted, Answers, Holds

\* Whatever fails, dies or meets another job, and however many jobs there are:
\* a loop device the filer attached is mounted, or a job has it in hand, or a
\* command failed on it or the filer died with it.
THEOREM LoopsAccounted == Spec => []NoLoopForgotten
<1>1. QED
  BY Initially, Inductive, Implied, PTL DEF Spec

\* The types of the devices, the state files and the jobs hold in every state.
THEOREM TypeCorrect == Spec => []TypeOK
<1>1. IInv => TypeOK
  BY DEF IInv
<1>2. QED
  BY <1>1, Initially, Inductive, PTL DEF Spec

----------------------------------------------------------------------------
(* Mounts and state files.  While things are orderly each job knows what it   *)
(* has in hand.                                                               *)

\* The steps at which a job has a loop device in hand, and those at which it is
\* on the way to a mount or back from one.
Grip == {"choose", "mount", "save", "abort", "rollback", "drop", "unmount", "detach"}
Making == {"setup", "choose", "mount", "save", "abort", "rollback", "drop"}

Grips(j, l) == job[j].loop = l /\ job[j].pc \in Grip

\* The state of an image names a mount of it.
Settled(i) ==
    /\ state[i] # NoState
    /\ mount[state[i].loop] = state[i].point
    /\ loop[state[i].loop] = i

Undoing(i) == \E j \in Jobs : job[j].image = i /\ job[j].pc \in {"detach", "forget"}

OneJob ==
    \A j \in Jobs : \A k \in Jobs :
        j # k /\ job[j].image # None => job[j].image # job[k].image

\* What a job relies on: its loop device carries its image, and no one detaches
\* it; there is no state while a mount is made; what is to be detached is not
\* mounted, what is to be saved or unmounted is, or was unmounted outside.
JobOK(j) ==
    /\ job[j].pc \in Grip =>
          loop[job[j].loop] = job[j].image /\ job[j].loop \notin lazy
    /\ job[j].pc \in Making => state[job[j].image] = NoState
    /\ job[j].pc \in {"choose", "mount", "drop", "detach"} => mount[job[j].loop] = None
    /\ job[j].pc = "abort" => mount[job[j].loop] = None \/ job[j].loop \in broken
    /\ job[j].pc \in {"save", "rollback"} =>
          mount[job[j].loop] = job[j].point \/ (root /\ mount[job[j].loop] = None)
    /\ root /\ job[j].pc \in {"save", "rollback", "unmount"} =>
          job[j].point = <<BaseName[job[j].image], job[j].loop>>
    /\ job[j].pc = "unmount" =>
          \/ /\ mount[job[j].loop] = job[j].point
             /\ state[job[j].image] = [loop |-> job[j].loop, point |-> job[j].point]
          \/ root /\ mount[job[j].loop] = None /\ ~Settled(job[j].image)
    /\ job[j].pc \in {"detach", "forget", "unlink"} => ~Settled(job[j].image)

\* A state under udisks names its mount until a job undoes it; as root the name
\* of the mount point tells the name of the image, and the device.
StateOK(i) ==
    state[i] # NoState =>
        /\ root => state[i].point = <<BaseName[i], state[i].loop>>
        /\ ~root => Settled(i) \/ Undoing(i)
        /\ Settled(i) => state[i].loop \notin lazy

LoopOK(l) ==
    /\ mount[l] # None => loop[l] # None
    /\ l \in lazy => mount[l] # None
    /\ root /\ mount[l] # None => mount[l] = <<BaseName[loop[l]], l>>
    /\ mount[l] # None =>
          \/ l \in broken
          \/ \E j \in Jobs : Grips(j, l)
          \/ state[loop[l]] = [loop |-> l, point |-> mount[l]]

Sound ==
    /\ OneJob
    /\ \A j \in Jobs : JobOK(j)
    /\ \A i \in Images : StateOK(i)
    /\ \A l \in Loops : LoopOK(l)

\* As root, where images have one name, a state that is left keeps its loop
\* device: that is attached to the image until a job has come to forget the state.
Tether(i) ==
    state[i] # NoState =>
        \/ loop[state[i].loop] = i
        \/ \E j \in Jobs : job[j].image = i /\ job[j].pc = "forget"

Tethered == root /\ ~TellApart => \A i \in Images : Tether(i)

SInv == Typed /\ (Orderly => Sound /\ Tethered)

\* A step of job j that touches the image i and the loop device l, or none, and
\* nothing else.
Acts(j, i, l) ==
    /\ root' = root
    /\ \A k \in Jobs : k # j => job'[k] = job[k] /\ job[k].image # i
    /\ job[j].image \in {i, None} /\ job'[j].image \in {i, None}
    /\ job[j].pc \in Grip => job[j].loop = l
    /\ \A o \in Images : o # i => state'[o] = state[o]
    /\ state'[i] = state[i] \/ ~Settled(i)
    /\ \A m \in Loops : m # l =>
          /\ loop'[m] = loop[m] /\ mount'[m] = mount[m]
          /\ m \in lazy' <=> m \in lazy
          /\ m \in broken' <=> m \in broken
    /\ l \in Loops => loop[l] \in {i, None} /\ loop'[l] \in {i, None}

Apart == None \notin Images /\ None \notin Loops /\ None \notin Points

LEMMA NoneApart == Apart
  BY ImagesAssumption, LoopsAssumption, PointsAssumption DEF Apart

\* A state has a loop device and a mount point, or is none.
LEMMA StateFields ==
    ASSUME Typed, NEW i \in Images, state[i] # NoState
    PROVE  state[i].loop \in Loops /\ state[i].point \in Points
           /\ state[i] = [loop |-> state[i].loop, point |-> state[i].point]
  BY DEF Typed, TypeOK, States

\* Two jobs do not have one loop device in hand.
LEMMA Exclusive ==
    ASSUME Typed, Sound, NEW j \in Jobs, NEW i \in Images, NEW l, Acts(j, i, l),
           NEW k \in Jobs, k # j, job[k].pc \in Grip
    PROVE  job[k].loop \in Loops /\ job[k].loop # l
<1>1. job[k].loop \in Loops /\ job[k].image \in Images
  BY DEF Typed, HasLoop, Grip
<1>2. loop[job[k].loop] = job[k].image /\ job[k].image # i
  BY DEF Sound, JobOK, Acts
<1>3. QED
  BY <1>1, <1>2, NoneApart DEF Acts, Apart

\* The states of other images are as settled as before.
LEMMA StaysSettled ==
    ASSUME Typed, Typed', NEW j \in Jobs, NEW i \in Images, NEW l, Acts(j, i, l),
           NEW o \in Images, o # i
    PROVE  state'[o] = state[o] /\ (Settled(o)' <=> Settled(o))
<1>1. state'[o] = state[o]
  BY DEF Acts
<1>2. CASE state[o] = NoState
  BY <1>1, <1>2 DEF Settled
<1>3. CASE state[o] # NoState
  <2>1. state[o].loop \in Loops
    BY <1>3, StateFields
  <2>2. CASE state[o].loop = l
    <3>1. loop[l] # o /\ loop'[l] # o
      BY <2>1, <2>2, NoneApart DEF Acts, Apart
    <3>2. QED
      BY <1>1, <2>2, <3>1 DEF Settled
  <2>3. CASE state[o].loop # l
    BY <1>1, <2>1, <2>3 DEF Settled, Acts
  <2>4. QED
    BY <2>2, <2>3
<1>4. QED
  BY <1>2, <1>3

LEMMA OthersKept ==
    ASSUME Typed, Typed', Sound, NEW j \in Jobs, NEW i \in Images, NEW l, Acts(j, i, l),
           NEW k \in Jobs, k # j
    PROVE  JobOK(k)'
<1>1. job'[k] = job[k] /\ root' = root /\ JobOK(k)
  BY DEF Acts, Sound
<1>2. ASSUME job[k].pc \in Grip
      PROVE  /\ loop'[job[k].loop] = loop[job[k].loop]
             /\ mount'[job[k].loop] = mount[job[k].loop]
             /\ job[k].loop \in lazy' <=> job[k].loop \in lazy
             /\ job[k].loop \in broken' <=> job[k].loop \in broken
  <2>1. job[k].loop \in Loops /\ job[k].loop # l
    BY <1>2, Exclusive
  <2>2. QED
    BY <2>1 DEF Acts
<1>3. ASSUME job[k].pc # "idle"
      PROVE  state'[job[k].image] = state[job[k].image]
             /\ (Settled(job[k].image)' <=> Settled(job[k].image))
  <2>1. job[k].image \in Images /\ job[k].image # i /\ job'[k].image = job[k].image
    BY <1>1, <1>3 DEF Typed, HasLoop, Acts
  <2>2. QED
    BY <2>1, StaysSettled
<1>4. CASE job[k].pc = "idle"
  BY <1>1, <1>4 DEF JobOK, Grip, Making
<1>5. CASE job[k].pc # "idle"
  <2> DEFINE i0 == job[k].image
  <2>1. job'[k].image = i0 /\ (Settled(job[k].image)' <=> Settled(i0)) /\ state'[i0] = state[i0]
    BY <1>1, <1>3, <1>5
  <2>2. QED
    BY <1>1, <1>2, <2>1 DEF JobOK, Grip
<1>6. QED
  BY <1>4, <1>5

LEMMA StatesKept ==
    ASSUME Typed, Typed', Sound, NEW j \in Jobs, NEW i \in Images, NEW l, Acts(j, i, l),
           NEW o \in Images, o # i
    PROVE  StateOK(o)'
<1>1. StateOK(o) /\ root' = root
  BY DEF Sound, Acts
<1>2. state'[o] = state[o] /\ (Settled(o)' <=> Settled(o))
  BY StaysSettled
<1>3. Undoing(o) => Undoing(o)'
  <2>1. ASSUME NEW k \in Jobs, job[k].image = o PROVE job'[k] = job[k]
    BY <2>1, NoneApart DEF Acts, Apart
  <2>2. QED
    BY <2>1 DEF Undoing
<1>4. ASSUME state[o] # NoState, Settled(o), state[o].loop \notin lazy
      PROVE  state[o].loop \notin lazy'
  <2>1. state[o].loop \in Loops /\ loop[state[o].loop] = o
    BY <1>4, StateFields DEF Settled
  <2>2. state[o].loop # l
    BY <2>1, NoneApart DEF Acts, Apart
  <2>3. QED
    BY <1>4, <2>1, <2>2 DEF Acts
<1>5. QED
  BY <1>1, <1>2, <1>3, <1>4 DEF StateOK

LEMMA LoopsKept ==
    ASSUME Typed, Typed', Sound, NEW j \in Jobs, NEW i \in Images, NEW l, Acts(j, i, l),
           NEW m \in Loops, m # l
    PROVE  LoopOK(m)'
<1>1. /\ LoopOK(m) /\ root' = root
      /\ loop'[m] = loop[m] /\ mount'[m] = mount[m]
      /\ m \in lazy' <=> m \in lazy
      /\ m \in broken' <=> m \in broken
  BY DEF Sound, Acts
<1>2. (\E k \in Jobs : Grips(k, m)) => \E k \in Jobs : Grips(k, m)'
  <2>1. ASSUME NEW k \in Jobs, Grips(k, m) PROVE Grips(k, m)'
    <3>1. k # j
      BY <2>1 DEF Grips, Acts
    <3>2. QED
      BY <2>1, <3>1 DEF Grips, Acts
  <2>2. QED
    BY <2>1
<1>3. ASSUME mount[m] # None, state[loop[m]] = [loop |-> m, point |-> mount[m]]
      PROVE  state'[loop[m]] = state[loop[m]]
  <2>1. loop[m] \in Images
    BY <1>1, <1>3 DEF LoopOK, Typed, TypeOK
  <2>2. CASE loop[m] = i
    <3>1. state[i] # NoState
      BY <1>3, <2>2 DEF NoState
    <3>2. Settled(i)
      BY <1>3, <2>2, <3>1 DEF Settled
    <3>3. QED
      BY <2>2, <3>2 DEF Acts
  <2>3. CASE loop[m] # i
    BY <2>1, <2>3 DEF Acts
  <2>4. QED
    BY <2>2, <2>3
<1>4. QED
  BY <1>1, <1>2, <1>3 DEF LoopOK

LEMMA OneJobKept ==
    ASSUME Typed, Sound, NEW j \in Jobs, NEW i \in Images, NEW l, Acts(j, i, l)
    PROVE  OneJob'
<1>1. \A k \in Jobs : k # j => job'[k] = job[k] /\ job[k].image # i
  BY DEF Acts
<1>2. job'[j].image \in {i, None} /\ OneJob
  BY DEF Acts, Sound
<1>3. QED
  BY <1>1, <1>2 DEF OneJob

\* So it is enough to look at the job, its image and its loop device.
LEMMA Elsewhere ==
    ASSUME Typed, Typed', Sound, NEW j \in Jobs, NEW i \in Images, NEW l, Acts(j, i, l),
           JobOK(j)', StateOK(i)', l \in Loops => LoopOK(l)'
    PROVE  Sound'
<1>1. \A k \in Jobs : JobOK(k)'
  BY OthersKept
<1>2. \A o \in Images : StateOK(o)'
  BY StatesKept
<1>3. \A m \in Loops : LoopOK(m)'
  BY LoopsKept
<1>4. QED
  BY <1>1, <1>2, <1>3, OneJobKept DEF Sound

\* A job at rest relies on nothing.
LEMMA IdleOK ==
    ASSUME NEW j \in Jobs, job'[j] = Idle
    PROVE  JobOK(j)' /\ job'[j].image = None
  BY DEF JobOK, Idle, Grip, Making

\* Another job of the image would have been met.
LEMMA NotMet ==
    ASSUME NEW j \in Jobs, NEW i \in Images, Meets(i), ~met'
    PROVE  ~met /\ \A k \in Jobs : job[k].image # i
  BY DEF Meets

LEMMA OthersImages ==
    ASSUME Typed, Sound, NEW j \in Jobs, job[j].pc # "idle"
    PROVE  /\ job[j].image \in Images
           /\ \A k \in Jobs : k # j => job[k].image # job[j].image
  BY NoneApart DEF Sound, OneJob, Typed, HasLoop, Apart

LEMMA MountSound ==
    ASSUME Typed, Typed', Sound, ~met', NEW j \in Jobs, NEW i \in Images, Mount(j, i)
    PROVE  Sound'
<1> USE DEF Typed, TypeOK, JobRec
<1>1. /\ job[j] = Idle /\ ~Active(state[i].point) /\ Meets(i)
      /\ state' = [state EXCEPT ![i] = NoState]
      /\ job' = [job EXCEPT ![j] = [Idle EXCEPT !.pc = "setup", !.image = i, !.dialog = TRUE]]
      /\ UNCHANGED <<root, loop, mount, lazy, broken>>
  BY DEF Mount, disk
<1>2. job'[j].pc = "setup" /\ job'[j].image = i
  <2>1. job'[j] = [Idle EXCEPT !.pc = "setup", !.image = i, !.dialog = TRUE]
    BY <1>1
  <2>2. QED
    BY <2>1 DEF Idle
<1>3. ~Settled(i)
  <2>1. SUFFICES ASSUME Settled(i) PROVE FALSE
    OBVIOUS
  <2>2. state[i].loop \in Loops /\ state[i].point # None
    BY <2>1, StateFields, NoneApart DEF Settled, Apart
  <2>3. QED
    BY <1>1, <2>1, <2>2 DEF Settled, Active
<1>4. \A k \in Jobs : job[k].image # i
  BY <1>1, NotMet
<1>5. state'[i] = NoState /\ \A o \in Images : o # i => state'[o] = state[o]
  BY <1>1
<1>6. \A k \in Jobs : k # j => job'[k] = job[k]
  BY <1>1
<1>7. Acts(j, i, None)
  BY <1>1, <1>2, <1>3, <1>4, <1>5, <1>6, NoneApart DEF Acts, Apart, Idle, Grip
<1>8. JobOK(j)'
  BY <1>2, <1>5 DEF JobOK, Grip
<1>9. StateOK(i)'
  BY <1>5 DEF StateOK
<1>10. QED
  BY <1>7, <1>8, <1>9, Elsewhere, NoneApart DEF Apart

LEMMA ScanSound ==
    ASSUME Typed, Typed', Sound, ~met', NEW j \in Jobs, NEW i \in Images, Scan(j, i)
    PROVE  Sound'
<1> USE DEF Typed, TypeOK, JobRec
<1>1. /\ job[j] = Idle /\ ~Active(state[i].point) /\ Meets(i)
      /\ job' = [job EXCEPT ![j] = [Idle EXCEPT !.pc = "unlink", !.image = i]]
      /\ UNCHANGED <<root, loop, mount, lazy, broken, state>>
  BY DEF Scan, disk
<1>2. job'[j].pc = "unlink" /\ job'[j].image = i
  <2>1. job'[j] = [Idle EXCEPT !.pc = "unlink", !.image = i]
    BY <1>1
  <2>2. QED
    BY <2>1 DEF Idle
<1>3. ~Settled(i)
  <2>1. SUFFICES ASSUME Settled(i) PROVE FALSE
    OBVIOUS
  <2>2. state[i].loop \in Loops /\ state[i].point # None
    BY <2>1, StateFields, NoneApart DEF Settled, Apart
  <2>3. QED
    BY <1>1, <2>1, <2>2 DEF Settled, Active
<1>4. \A k \in Jobs : job[k].image # i
  BY <1>1, NotMet
<1>5. \A k \in Jobs : k # j => job'[k] = job[k]
  BY <1>1
<1>6. Acts(j, i, None)
  BY <1>1, <1>2, <1>3, <1>4, <1>5, NoneApart DEF Acts, Apart, Idle, Grip
<1>7. ~Settled(i)' /\ ~Undoing(i)
  BY <1>1, <1>3, <1>4 DEF Settled, Undoing
<1>8. JobOK(j)'
  BY <1>2, <1>7 DEF JobOK, Grip, Making, Settled
<1>9. StateOK(i)'
  BY <1>1, <1>3, <1>7 DEF StateOK, Sound
<1>10. QED
  BY <1>6, <1>8, <1>9, Elsewhere, NoneApart DEF Apart

\* An unmounting begins with a state that names the mount of its own image.
LEMMA UnmountSound ==
    ASSUME Typed, Typed', Sound, Tethered, ~met',
           NEW j \in Jobs, NEW i \in Images, Unmount(j, i)
    PROVE  Sound'
<1> USE DEF Typed, TypeOK, JobRec
<1>0. PICK l, p : l = state[i].loop /\ p = state[i].point
  OBVIOUS
<1>1. /\ job[j] = Idle /\ Active(p) /\ Meets(i)
      /\ UNCHANGED <<root, loop, mount, lazy, broken, state>>
      /\ \A k \in Jobs : k # j => job'[k] = job[k]
      /\ job'[j].pc = "unmount" /\ job'[j].image = i /\ job'[j].loop = l /\ job'[j].point = p
  BY <1>0 DEF Unmount, disk
<1>2. state[i] # NoState
  BY <1>0, <1>1 DEF Active, NoState
<1>3. l \in Loops /\ p \in Points /\ state[i] = [loop |-> l, point |-> p]
  BY <1>0, <1>2, StateFields
<1>4. \A k \in Jobs : job[k].image # i
  BY <1>1, NotMet
<1>5. StateOK(i) /\ LoopOK(l)
  BY <1>3 DEF Sound
<1>6. Settled(i) /\ l \notin lazy
  <2>1. CASE ~root
    BY <1>0, <1>2, <1>4, <1>5, <2>1 DEF StateOK, Undoing, Settled
  <2>2. CASE root
    <3>1. p = <<BaseName[i], l>>
      BY <1>0, <1>2, <1>5, <2>2 DEF StateOK
    <3>2. PICK k \in Loops : mount[k] = p /\ p # None
      BY <1>1 DEF Active
    <3>3. LoopOK(k)
      BY DEF Sound
    <3>4. mount[k] = <<BaseName[loop[k]], k>>
      BY <2>2, <3>2, <3>3 DEF LoopOK
    <3>5. k = l /\ BaseName[loop[l]] = BaseName[i] /\ loop[l] \in Images
      <4>1. \A a, b, c, d : <<a, b>> = <<c, d>> => a = c /\ b = d
        OBVIOUS
      <4>2. QED
        BY <3>1, <3>2, <3>3, <3>4, <4>1 DEF LoopOK
    <3>6. loop[l] = i
      <4>1. CASE TellApart
        BY <3>5, <4>1 DEF TellApart
      <4>2. CASE ~TellApart
        BY <1>0, <1>2, <1>4, <2>2, <4>2 DEF Tethered, Tether
      <4>3. QED
        BY <4>1, <4>2
    <3>7. QED
      BY <1>0, <1>2, <1>5, <3>2, <3>5, <3>6 DEF Settled, StateOK
  <2>3. QED
    BY <2>1, <2>2
<1>7. loop[l] = i /\ mount[l] = p
  BY <1>0, <1>6 DEF Settled
<1>8. Acts(j, i, l)
  BY <1>1, <1>4, <1>7 DEF Acts, Idle, Grip
<1>9. JobOK(j)'
  BY <1>1, <1>2, <1>3, <1>5, <1>6, <1>7 DEF JobOK, Grip, Making, StateOK
<1>10. StateOK(i)'
  BY <1>1, <1>2, <1>5, <1>6 DEF StateOK, Settled
<1>11. LoopOK(l)'
  <2>1. Grips(j, l)'
    BY <1>1 DEF Grips, Grip
  <2>2. QED
    BY <1>1, <1>5, <2>1 DEF LoopOK
<1>12. QED
  BY <1>8, <1>9, <1>10, <1>11, Elsewhere

\* A job with a loop device in hand touches nothing but it and its image.
LEMMA InHand ==
    ASSUME Typed, Typed', Sound, NEW j \in Jobs, NEW i, NEW l,
           i = job[j].image, l = job[j].loop, job[j].pc \in Grip,
           root' = root, job'[j].image \in {i, None},
           \A k \in Jobs : k # j => job'[k] = job[k],
           \A o \in Images : o # i => state'[o] = state[o],
           state'[i] = state[i] \/ ~Settled(i),
           loop'[l] \in {i, None},
           \A m \in Loops : m # l =>
              /\ loop'[m] = loop[m] /\ mount'[m] = mount[m]
              /\ m \in lazy' <=> m \in lazy
              /\ m \in broken' <=> m \in broken
    PROVE  /\ i \in Images /\ l \in Loops /\ Acts(j, i, l)
           /\ loop[l] = i /\ l \notin lazy
<1>1. i \in Images /\ l \in Loops
  BY DEF Typed, HasLoop, Grip
<1>2. \A k \in Jobs : k # j => job[k].image # i
  BY OthersImages DEF Grip
<1>3. loop[l] = i /\ l \notin lazy
  BY DEF Sound, JobOK
<1>4. QED
  BY <1>1, <1>2, <1>3 DEF Acts

LEMMA SetupSound ==
    ASSUME Typed, Typed', Sound, NEW j \in Jobs, Setup(j)
    PROVE  Sound'
<1> USE DEF Typed, TypeOK, JobRec
<1>0. PICK i : i = job[j].image
  OBVIOUS
<1>1. /\ job[j].pc = "setup" /\ Attach(j)
      /\ UNCHANGED <<root, mount, lazy, state>>
  BY DEF Setup
<1>2. i \in Images /\ \A k \in Jobs : k # j => job[k].image # i
  BY <1>0, <1>1, OthersImages
<1>3. state[i] = NoState /\ ~Settled(i) /\ job[j].pc \notin Grip
  BY <1>0, <1>1 DEF Sound, JobOK, Making, Grip, Settled
<1>4. StateOK(i)'
  BY <1>1, <1>3 DEF StateOK
<1>5. CASE Ends(j) /\ UNCHANGED <<loop, broken>>
  <2>1. job'[j] = Idle /\ \A k \in Jobs : k # j => job'[k] = job[k]
    BY <1>5 DEF Ends
  <2>2. Acts(j, i, None)
    BY <1>0, <1>1, <1>2, <1>3, <1>5, <2>1, IdleOK, NoneApart DEF Acts, Apart
  <2>3. QED
    BY <1>2, <1>4, <2>1, <2>2, IdleOK, Elsewhere, NoneApart DEF Apart
<1>6. ASSUME NEW l \in Loops, loop[l] = None, loop' = [loop EXCEPT ![l] = job[j].image],
             \/ Prepared(j, l) /\ broken' = broken \ {l}
             \/ Ends(j) /\ broken' = broken \cup {l}
      PROVE  Sound'
  <2>1. mount[l] = None /\ l \notin lazy
    BY <1>6 DEF Sound, LoopOK
  <2>2. loop'[l] = i /\ \A m \in Loops : m # l => loop'[m] = loop[m]
    BY <1>0, <1>6
  <2>3. \A m \in Loops : m # l => (m \in broken' <=> m \in broken)
    BY <1>6
  <2>4. /\ \A k \in Jobs : k # j => job'[k] = job[k]
        /\ \/ job'[j] = Idle
           \/ job'[j].pc \in {"choose", "mount"} /\ job'[j].loop = l /\ job'[j].image = i
    BY <1>0, <1>6 DEF Prepared, Ends
  <2>5. job'[j].image \in {i, None}
    BY <2>4, IdleOK
  <2>6. Acts(j, i, l)
    BY <1>0, <1>1, <1>2, <1>3, <1>6, <2>2, <2>3, <2>4, <2>5 DEF Acts
  <2>7. JobOK(j)'
    <3>1. CASE job'[j] = Idle
      BY <3>1, IdleOK
    <3>2. CASE job'[j].pc \in {"choose", "mount"} /\ job'[j].loop = l /\ job'[j].image = i
      BY <1>1, <1>3, <2>1, <2>2, <3>2 DEF JobOK
    <3>3. QED
      BY <2>4, <3>1, <3>2
  <2>8. LoopOK(l)'
    BY <1>1, <2>1 DEF LoopOK
  <2>9. QED
    BY <1>2, <1>4, <2>6, <2>7, <2>8, Elsewhere
<1>7. QED
  BY <1>1, <1>5, <1>6 DEF Attach

\* The chooser, and a dialog whose parent has gone.
LEMMA ChooseSound ==
    ASSUME Typed, Typed', Sound, NEW j \in Jobs, Choose(j)
    PROVE  Sound'
<1> USE DEF Typed, TypeOK, JobRec
<1>0. PICK i, l : i = job[j].image /\ l = job[j].loop
  OBVIOUS
<1>1. /\ job[j].pc = "choose" /\ (Goes(j, "mount") \/ GivesUp(j))
      /\ UNCHANGED <<root, loop, mount, lazy, state, broken>>
  BY DEF Choose, disk, ghosts
<1>2. /\ \A k \in Jobs : k # j => job'[k] = job[k]
      /\ job'[j].pc \in {"mount", "abort"} /\ job'[j].loop = l /\ job'[j].image = i
  <2>1. CASE Goes(j, "mount")
    BY <1>0, <2>1 DEF Goes
  <2>2. CASE GivesUp(j)
    BY <1>0, <2>2 DEF GivesUp
  <2>3. QED
    BY <1>1, <2>1, <2>2
<1>3. /\ loop[l] = i /\ l \notin lazy /\ state[i] = NoState /\ mount[l] = None
      /\ job[j].pc \in Grip
  BY <1>0, <1>1 DEF Sound, JobOK, Grip, Making
<1>4. i \in Images /\ l \in Loops /\ Acts(j, i, l)
  BY <1>0, <1>1, <1>2, <1>3, InHand
<1>5. JobOK(j)'
  BY <1>1, <1>2, <1>3 DEF JobOK
<1>6. StateOK(i)' /\ LoopOK(l)'
  BY <1>1, <1>3 DEF StateOK, LoopOK
<1>7. QED
  BY <1>4, <1>5, <1>6, Elsewhere

LEMMA MountBlockSound ==
    ASSUME Typed, Typed', Sound, NEW j \in Jobs, MountBlock(j)
    PROVE  Sound'
<1> USE DEF Typed, TypeOK, JobRec
<1>0. PICK i, l : i = job[j].image /\ l = job[j].loop
  OBVIOUS
<1>1. job[j].pc = "mount" /\ UNCHANGED <<root, loop, lazy, state>>
  BY DEF MountBlock
<1>2. /\ loop[l] = i /\ l \notin lazy /\ state[i] = NoState /\ mount[l] = None
      /\ job[j].pc \in Grip
  BY <1>0, <1>1 DEF Sound, JobOK, Grip, Making
<1>3. i \in Images /\ l \in Loops
  BY <1>0, <1>1 DEF HasLoop
<1>4. StateOK(i)'
  BY <1>1, <1>2 DEF StateOK
<1>5. ASSUME GivesUp(j)
      PROVE  /\ \A k \in Jobs : k # j => job'[k] = job[k]
             /\ job'[j].pc = "abort" /\ job'[j].loop = l /\ job'[j].image = i
  BY <1>0, <1>5 DEF GivesUp
<1>6. CASE GivesUp(j) /\ UNCHANGED <<mount, broken>>
  <2>1. Acts(j, i, l)
    BY <1>0, <1>1, <1>2, <1>5, <1>6, InHand
  <2>2. JobOK(j)'
    BY <1>1, <1>2, <1>5, <1>6 DEF JobOK
  <2>3. LoopOK(l)'
    BY <1>1, <1>2, <1>6 DEF LoopOK
  <2>4. QED
    BY <1>3, <1>4, <2>1, <2>2, <2>3, Elsewhere
<1>7. ASSUME NEW p \in Place(j), mount' = [mount EXCEPT ![job[j].loop] = p],
             \/ job' = [job EXCEPT ![j].pc = "save", ![j].point = p] /\ broken' = broken
             \/ GivesUp(j) /\ broken' = broken \cup {job[j].loop}
      PROVE  Sound'
  <2>1. /\ \A k \in Jobs : k # j => job'[k] = job[k]
        /\ job'[j].loop = l /\ job'[j].image = i
        /\ \/ job'[j].pc = "save" /\ job'[j].point = p
           \/ job'[j].pc = "abort" /\ l \in broken'
    <3>1. CASE job' = [job EXCEPT ![j].pc = "save", ![j].point = p]
      BY <1>0, <3>1
    <3>2. CASE GivesUp(j) /\ broken' = broken \cup {job[j].loop}
      BY <1>0, <1>5, <3>2
    <3>3. QED
      BY <1>7, <3>1, <3>2
  <2>2. mount'[l] = p /\ \A m \in Loops : m # l => mount'[m] = mount[m]
    BY <1>0, <1>3, <1>7
  <2>3. \A m \in Loops : m # l => (m \in broken' <=> m \in broken)
    BY <1>0, <1>7
  <2>4. root => p = <<BaseName[i], l>>
    BY <1>0 DEF Place
  <2>5. Acts(j, i, l)
    BY <1>0, <1>1, <1>2, <2>1, <2>2, <2>3, InHand
  <2>6. JobOK(j)'
    <3>1. CASE job'[j].pc = "save"
      BY <1>1, <1>2, <2>1, <2>2, <2>4, <3>1 DEF JobOK
    <3>2. CASE job'[j].pc = "abort"
      BY <1>1, <1>2, <2>1, <3>2 DEF JobOK
    <3>3. QED
      BY <2>1, <3>1, <3>2
  <2>7. LoopOK(l)'
    <3>1. Grips(j, l)'
      BY <2>1 DEF Grips, Grip
    <3>2. loop'[l] # None /\ l \notin lazy' /\ (root' => mount'[l] = <<BaseName[loop'[l]], l>>)
      BY <1>1, <1>2, <1>3, <2>2, <2>4, NoneApart DEF Apart
    <3>3. QED
      BY <3>1, <3>2 DEF LoopOK
  <2>8. QED
    BY <1>3, <1>4, <2>5, <2>6, <2>7, Elsewhere
<1>8. QED
  BY <1>6, <1>7 DEF MountBlock

LEMMA SaveSound ==
    ASSUME Typed, Typed', Sound, NEW j \in Jobs, Save(j)
    PROVE  Sound'
<1> USE DEF Typed, TypeOK, JobRec
<1>0. PICK i, l, p : i = job[j].image /\ l = job[j].loop /\ p = job[j].point
  OBVIOUS
<1>1. job[j].pc = "save" /\ UNCHANGED <<root, loop, mount, lazy, broken>>
  BY DEF Save, disk, ghosts
<1>2. /\ loop[l] = i /\ l \notin lazy /\ state[i] = NoState /\ ~Settled(i)
      /\ mount[l] = p \/ (root /\ mount[l] = None)
      /\ root => p = <<BaseName[i], l>>
      /\ job[j].pc \in Grip
  BY <1>0, <1>1 DEF Sound, JobOK, Grip, Making, Settled
<1>3. i \in Images /\ l \in Loops /\ p \in Points
  BY <1>0, <1>1 DEF HasLoop
<1>4. LoopOK(l)
  BY <1>3 DEF Sound
<1>5. CASE state' = state /\ Unsaved(j)
  <2>1. /\ \A k \in Jobs : k # j => job'[k] = job[k]
        /\ job'[j].pc = "rollback" /\ job'[j].loop = l /\ job'[j].image = i
        /\ job'[j].point = p
    BY <1>0, <1>5 DEF Unsaved
  <2>2. Acts(j, i, l)
    BY <1>0, <1>1, <1>2, <1>5, <2>1, InHand
  <2>3. JobOK(j)'
    BY <1>1, <1>2, <1>5, <2>1 DEF JobOK
  <2>4. StateOK(i)'
    BY <1>2, <1>5 DEF StateOK
  <2>5. LoopOK(l)'
    <3>1. Grips(j, l)'
      BY <2>1 DEF Grips, Grip
    <3>2. QED
      BY <1>1, <1>4, <3>1 DEF LoopOK
  <2>6. QED
    BY <1>3, <2>2, <2>3, <2>4, <2>5, Elsewhere
<1>6. CASE /\ state' = [state EXCEPT ![job[j].image] =
                          [loop |-> job[j].loop, point |-> job[j].point]]
           /\ Ends(j)
  <2>1. job'[j] = Idle /\ \A k \in Jobs : k # j => job'[k] = job[k]
    BY <1>6 DEF Ends
  <2>2. /\ state'[i] = [loop |-> l, point |-> p]
        /\ \A o \in Images : o # i => state'[o] = state[o]
    BY <1>0, <1>3, <1>6
  <2>3. Acts(j, i, l)
    BY <1>0, <1>1, <1>2, <2>1, <2>2, IdleOK, InHand
  <2>4. state'[i].loop = l /\ state'[i].point = p /\ state'[i] # NoState
    BY <1>3, <2>2, NoneApart DEF Apart, NoState
  <2>5. Settled(i)' <=> mount[l] = p
    BY <1>1, <1>2, <2>4 DEF Settled
  <2>6. StateOK(i)'
    BY <1>1, <1>2, <2>4, <2>5 DEF StateOK
  <2>7. LoopOK(l)'
    BY <1>1, <1>2, <1>4, <2>2 DEF LoopOK
  <2>8. QED
    BY <1>3, <2>1, <2>3, <2>6, <2>7, IdleOK, Elsewhere
<1>7. QED
  BY <1>5, <1>6 DEF Save

\* A loop device is detached that is not mounted, or one a failure was met on.
LEMMA AbortSound ==
    ASSUME Typed, Typed', Sound, NEW j \in Jobs, Abort(j) \/ Drop(j)
    PROVE  Sound'
<1> USE DEF Typed, TypeOK, JobRec
<1>0. PICK i, l : i = job[j].image /\ l = job[j].loop
  OBVIOUS
<1>1. /\ job[j].pc \in {"abort", "drop"} /\ DetachLoop(l)
      /\ UNCHANGED <<root, state>>
      /\ job'[j] = Idle /\ \A k \in Jobs : k # j => job'[k] = job[k]
  BY <1>0 DEF Abort, Drop, Ends
<1>2. /\ loop[l] = i /\ l \notin lazy /\ state[i] = NoState
      /\ mount[l] = None \/ l \in broken
      /\ job[j].pc \in Grip
  BY <1>0, <1>1 DEF Sound, JobOK, Grip, Making
<1>3. i \in Images /\ l \in Loops
  BY <1>0, <1>1 DEF HasLoop
<1>4. LoopOK(l)
  BY <1>3 DEF Sound
<1>5. /\ mount' = mount /\ \A b \in broken : b \in broken'
      /\ loop'[l] \in {i, None}
      /\ \A m \in Loops : m # l =>
            loop'[m] = loop[m] /\ (m \in lazy' <=> m \in lazy) /\ (m \in broken' <=> m \in broken)
      /\ mount[l] # None => loop'[l] = i
      /\ mount[l] = None => l \notin lazy'
  BY <1>1, <1>2, <1>3 DEF DetachLoop, Detached, disk
<1>6. Acts(j, i, l)
  BY <1>0, <1>1, <1>2, <1>5, IdleOK, InHand
<1>7. StateOK(i)'
  BY <1>1, <1>2 DEF StateOK
<1>8. LoopOK(l)'
  BY <1>1, <1>2, <1>4, <1>5 DEF LoopOK
<1>9. QED
  BY <1>1, <1>3, <1>6, <1>7, <1>8, IdleOK, Elsewhere

LEMMA DetachSound ==
    ASSUME Typed, Typed', Sound, NEW j \in Jobs, Detach(j)
    PROVE  Sound'
<1> USE DEF Typed, TypeOK, JobRec
<1>0. PICK i, l : i = job[j].image /\ l = job[j].loop
  OBVIOUS
<1>1. /\ job[j].pc = "detach" /\ DetachLoop(l) /\ UNCHANGED <<root, state>>
      /\ job'[j].pc = "forget" /\ job'[j].image = i
      /\ \A k \in Jobs : k # j => job'[k] = job[k]
  BY <1>0 DEF Detach, Goes
<1>2. /\ loop[l] = i /\ l \notin lazy /\ mount[l] = None /\ ~Settled(i)
      /\ job[j].pc \in Grip
  BY <1>0, <1>1 DEF Sound, JobOK, Grip
<1>3. i \in Images /\ l \in Loops
  BY <1>0, <1>1 DEF HasLoop
<1>4. LoopOK(l) /\ StateOK(i)
  BY <1>3 DEF Sound
<1>5. /\ mount' = mount /\ lazy' = lazy
      /\ loop'[l] \in {i, None}
      /\ \A m \in Loops : m # l => loop'[m] = loop[m] /\ (m \in broken' <=> m \in broken)
  BY <1>1, <1>2, <1>3 DEF DetachLoop, Detached, disk
<1>6. Acts(j, i, l)
  BY <1>0, <1>1, <1>2, <1>5, InHand
<1>7. ~Settled(i)'
  <2>1. CASE state[i] = NoState
    BY <1>1, <2>1 DEF Settled
  <2>2. CASE state[i] # NoState
    <3>1. state[i].loop \in Loops /\ state[i].point # None
      BY <1>3, <2>2, StateFields, NoneApart DEF Apart
    <3>2. CASE state[i].loop = l
      BY <1>1, <1>2, <1>5, <3>1, <3>2 DEF Settled
    <3>3. CASE state[i].loop # l
      BY <1>1, <1>2, <1>5, <2>2, <3>1, <3>3 DEF Settled
    <3>4. QED
      BY <3>2, <3>3
  <2>3. QED
    BY <2>1, <2>2
<1>8. JobOK(j)'
  BY <1>1, <1>7 DEF JobOK, Grip, Making, Settled
<1>9. StateOK(i)'
  <2>1. Undoing(i)'
    BY <1>1 DEF Undoing
  <2>2. QED
    BY <1>1, <1>4, <1>7, <2>1 DEF StateOK
<1>10. LoopOK(l)'
  BY <1>1, <1>2, <1>5 DEF LoopOK
<1>11. QED
  BY <1>3, <1>6, <1>8, <1>9, <1>10, Elsewhere

LEMMA ForgetSound ==
    ASSUME Typed, Typed', Sound, NEW j \in Jobs, Forget(j) \/ Unlink(j)
    PROVE  Sound'
<1> USE DEF Typed, TypeOK, JobRec
<1>0. PICK i : i = job[j].image
  OBVIOUS
<1>1. /\ job[j].pc \in {"forget", "unlink"}
      /\ UNCHANGED <<root, loop, mount, lazy, broken>>
      /\ state' = [state EXCEPT ![i] = NoState]
      /\ job'[j] = Idle /\ \A k \in Jobs : k # j => job'[k] = job[k]
  BY <1>0 DEF Forget, Unlink, Ends, disk, ghosts
<1>2. /\ i \in Images /\ ~Settled(i) /\ job[j].pc \notin Grip
      /\ \A k \in Jobs : k # j => job[k].image # i
  BY <1>0, <1>1, OthersImages DEF Sound, JobOK, Grip
<1>3. state'[i] = NoState /\ \A o \in Images : o # i => state'[o] = state[o]
  BY <1>1, <1>2
<1>4. Acts(j, i, None)
  BY <1>0, <1>1, <1>2, <1>3, IdleOK, NoneApart DEF Acts, Apart
<1>5. StateOK(i)'
  BY <1>3 DEF StateOK
<1>6. QED
  BY <1>1, <1>2, <1>4, <1>5, IdleOK, Elsewhere, NoneApart DEF Apart

\* What an unmounting takes away is the mount of the job's own loop device.
LEMMA OwnTarget ==
    ASSUME Typed, Sound, NEW j \in Jobs, job[j].pc \in {"rollback", "unmount"},
           NEW k \in Target(job[j].loop, job[j].point)
    PROVE  k = job[j].loop /\ mount[k] # None
<1>1. CASE ~root
  BY <1>1 DEF Target
<1>2. CASE root
  <2>1. k \in Loops /\ mount[k] = job[j].point /\ mount[k] # None
    BY <1>2 DEF Target
  <2>2. mount[k] = <<BaseName[loop[k]], k>>
    BY <1>2, <2>1 DEF Sound, LoopOK
  <2>3. job[j].point = <<BaseName[job[j].image], job[j].loop>>
    BY <1>2 DEF Sound, JobOK
  <2>4. \A a, b, c, d : <<a, b>> = <<c, d>> => b = d
    OBVIOUS
  <2>5. k = job[j].loop
    BY <2>1, <2>2, <2>3, <2>4
  <2>6. QED
    BY <2>1, <2>5
<1>3. QED
  BY <1>1, <1>2

\* The kernel keeps a loop device that nobody detaches when it is unmounted.
LEMMA OnlyUnmounted ==
    ASSUME Typed, NEW l \in Loops, Unmounted(l), l \notin lazy
    PROVE  /\ loop' = loop /\ lazy' = lazy /\ mount'[l] = None
           /\ \A m \in Loops : m # l => mount'[m] = mount[m]
  BY DEF Unmounted, Typed, TypeOK

LEMMA RollbackSound ==
    ASSUME Typed, Typed', Sound, NEW j \in Jobs, Rollback(j)
    PROVE  Sound'
<1> USE DEF Typed, TypeOK, JobRec
<1>0. PICK i, l, p : i = job[j].image /\ l = job[j].loop /\ p = job[j].point
  OBVIOUS
<1>1. job[j].pc = "rollback" /\ UNCHANGED <<root, state>>
  BY DEF Rollback
<1>2. loop[l] = i /\ l \notin lazy /\ state[i] = NoState /\ job[j].pc \in Grip
  BY <1>0, <1>1 DEF Sound, JobOK, Grip, Making
<1>3. i \in Images /\ l \in Loops
  BY <1>0, <1>1 DEF HasLoop
<1>4. LoopOK(l)
  BY <1>3 DEF Sound
<1>5. StateOK(i)'
  BY <1>1, <1>2 DEF StateOK
<1>6. ASSUME NEW k \in Target(l, p), Unmounted(k), Goes(j, "drop"), UNCHANGED broken
      PROVE  Sound'
  <2>1. k = l
    BY <1>0, <1>1, <1>6, OwnTarget
  <2>2. /\ loop' = loop /\ lazy' = lazy /\ mount'[l] = None
        /\ \A m \in Loops : m # l => mount'[m] = mount[m]
    BY <1>2, <1>3, <1>6, <2>1, OnlyUnmounted
  <2>3. /\ \A o \in Jobs : o # j => job'[o] = job[o]
        /\ job'[j].pc = "drop" /\ job'[j].loop = l /\ job'[j].image = i
    BY <1>0, <1>6 DEF Goes
  <2>4. Acts(j, i, l)
    BY <1>0, <1>1, <1>2, <1>6, <2>2, <2>3, InHand
  <2>5. JobOK(j)'
    BY <1>1, <1>2, <2>2, <2>3 DEF JobOK
  <2>6. LoopOK(l)'
    BY <1>2, <2>2 DEF LoopOK
  <2>7. QED
    BY <1>3, <1>5, <2>4, <2>5, <2>6, Elsewhere
<1>7. CASE Ends(j) /\ UNCHANGED disk /\ broken' = broken \cup {l}
  <2>1. job'[j] = Idle /\ \A o \in Jobs : o # j => job'[o] = job[o]
    BY <1>7 DEF Ends
  <2>2. UNCHANGED <<loop, mount, lazy>> /\ l \in broken'
    BY <1>7 DEF disk
  <2>3. \A m \in Loops : m # l => (m \in broken' <=> m \in broken)
    BY <1>7
  <2>4. Acts(j, i, l)
    BY <1>0, <1>1, <1>2, <2>1, <2>2, <2>3, IdleOK, InHand
  <2>5. LoopOK(l)'
    BY <1>1, <1>4, <2>2 DEF LoopOK
  <2>6. QED
    BY <1>3, <1>5, <2>1, <2>4, <2>5, IdleOK, Elsewhere
<1>8. QED
  BY <1>0, <1>6, <1>7 DEF Rollback

LEMMA UmountSound ==
    ASSUME Typed, Typed', Sound, root \/ ~undone', NEW j \in Jobs, Umount(j)
    PROVE  Sound'
<1> USE DEF Typed, TypeOK, JobRec
<1>0. PICK i, l, p : i = job[j].image /\ l = job[j].loop /\ p = job[j].point
  OBVIOUS
<1>1. job[j].pc = "unmount" /\ UNCHANGED <<root, state>>
  BY DEF Umount
<1>2. /\ loop[l] = i /\ l \notin lazy /\ job[j].pc \in Grip
      /\ \/ mount[l] = p /\ state[i] = [loop |-> l, point |-> p]
         \/ root /\ mount[l] = None /\ ~Settled(i)
  BY <1>0, <1>1 DEF Sound, JobOK, Grip
<1>3. i \in Images /\ l \in Loops /\ p \in Points /\ p # None
  BY <1>0, <1>1, NoneApart DEF HasLoop, Apart
<1>4. LoopOK(l) /\ StateOK(i)
  BY <1>3 DEF Sound
<1>5. CASE ~Active(p) /\ Goes(j, "forget") /\ UNCHANGED <<disk, broken, undone>>
  <2>1. UNCHANGED <<loop, mount, lazy, broken>>
    BY <1>5 DEF disk
  <2>2. /\ \A o \in Jobs : o # j => job'[o] = job[o]
        /\ job'[j].pc = "forget" /\ job'[j].image = i
    BY <1>0, <1>5 DEF Goes
  <2>3. mount[l] = None /\ ~Settled(i)
    BY <1>2, <1>3, <1>5 DEF Active
  <2>4. Acts(j, i, l)
    BY <1>0, <1>1, <1>2, <2>1, <2>2, InHand
  <2>5. ~Settled(i)' /\ Undoing(i)'
    BY <1>1, <2>1, <2>2, <2>3 DEF Settled, Undoing
  <2>6. JobOK(j)'
    BY <2>2, <2>5 DEF JobOK, Grip, Making, Settled
  <2>7. StateOK(i)' /\ LoopOK(l)'
    BY <1>1, <1>4, <2>1, <2>3, <2>5 DEF StateOK, LoopOK
  <2>8. QED
    BY <1>3, <2>4, <2>6, <2>7, Elsewhere
<1>6. ASSUME NEW k \in Target(l, p), Unmounted(k),
             \/ Goes(j, "detach") /\ UNCHANGED <<broken, undone>>
             \/ Ends(j) /\ broken' = broken \cup {k} /\ undone' = TRUE
      PROVE  Sound'
  <2>1. k = l /\ mount[l] # None
    BY <1>0, <1>1, <1>6, OwnTarget
  <2>2. /\ loop' = loop /\ lazy' = lazy /\ mount'[l] = None
        /\ \A m \in Loops : m # l => mount'[m] = mount[m]
    BY <1>2, <1>3, <1>6, <2>1, OnlyUnmounted
  <2>3. state[i] = [loop |-> l, point |-> p] /\ state[i].loop = l /\ state[i].point = p
    BY <1>2, <2>1
  <2>4. ~Settled(i)'
    BY <1>1, <1>3, <2>2, <2>3 DEF Settled
  <2>5. /\ \A o \in Jobs : o # j => job'[o] = job[o]
        /\ \/ job'[j].pc = "detach" /\ job'[j].loop = l /\ job'[j].image = i
           \/ job'[j] = Idle /\ root
    <3>1. CASE Goes(j, "detach")
      BY <1>0, <3>1 DEF Goes
    <3>2. CASE Ends(j) /\ undone' = TRUE
      BY <3>2 DEF Ends
    <3>3. QED
      BY <1>6, <3>1, <3>2
  <2>6. \A m \in Loops : m # l => (m \in broken' <=> m \in broken)
    BY <1>6, <2>1
  <2>7. job'[j].image \in {i, None}
    BY <2>5, IdleOK
  <2>8. Acts(j, i, l)
    BY <1>0, <1>1, <1>2, <2>2, <2>5, <2>6, <2>7, InHand
  <2>9. JobOK(j)' /\ StateOK(i)'
    <3>1. CASE job'[j].pc = "detach" /\ job'[j].loop = l /\ job'[j].image = i
      <4>1. JobOK(j)'
        BY <1>2, <2>2, <2>4, <3>1 DEF JobOK, Making, Settled
      <4>2. Undoing(i)'
        BY <3>1 DEF Undoing
      <4>3. QED
        BY <1>1, <1>4, <2>4, <4>1, <4>2 DEF StateOK
    <3>2. CASE job'[j] = Idle /\ root
      <4>1. StateOK(i)'
        BY <1>1, <1>4, <2>4, <3>2 DEF StateOK
      <4>2. QED
        BY <3>2, <4>1, IdleOK
    <3>3. QED
      BY <2>5, <3>1, <3>2
  <2>10. LoopOK(l)'
    BY <1>2, <2>2 DEF LoopOK
  <2>11. QED
    BY <1>3, <2>8, <2>9, <2>10, Elsewhere
<1>7. CASE Ends(j) /\ UNCHANGED <<disk, broken, undone>>
  <2>1. UNCHANGED <<loop, mount, lazy, broken>>
    BY <1>7 DEF disk
  <2>2. job'[j] = Idle /\ \A o \in Jobs : o # j => job'[o] = job[o]
    BY <1>7 DEF Ends
  <2>3. Acts(j, i, l)
    BY <1>0, <1>1, <1>2, <2>1, <2>2, IdleOK, InHand
  <2>4. Settled(i)' <=> Settled(i)
    BY <1>1, <2>1 DEF Settled
  <2>5. ~root => Settled(i)
    BY <1>2, <1>3, NoneApart DEF Settled, NoState, Apart
  <2>6. StateOK(i)'
    BY <1>1, <1>4, <2>1, <2>4, <2>5 DEF StateOK
  <2>7. LoopOK(l)'
    BY <1>1, <1>2, <1>4, <2>1 DEF LoopOK
  <2>8. QED
    BY <1>3, <2>2, <2>3, <2>6, <2>7, IdleOK, Elsewhere
<1>8. QED
  BY <1>0, <1>5, <1>6, <1>7 DEF Umount

LEMMA ParentGoneSound ==
    ASSUME Typed, Sound, NEW j \in Jobs, ParentGone(j) \/ UNCHANGED vars
    PROVE  Sound'
<1> USE DEF Typed, TypeOK, JobRec
<1>1. UNCHANGED <<root, loop, mount, lazy, state, broken>>
  BY DEF ParentGone, disk, ghosts, vars
<1>2. \A k \in Jobs : /\ job'[k].pc = job[k].pc /\ job'[k].image = job[k].image
                      /\ job'[k].loop = job[k].loop /\ job'[k].point = job[k].point
  BY DEF ParentGone, vars
<1>3. \A o : Settled(o)' <=> Settled(o)
  BY <1>1 DEF Settled
<1>4. \A o \in Images : Undoing(o)' <=> Undoing(o)
  BY <1>2 DEF Undoing
<1>5. \A m \in Loops : (\E k \in Jobs : Grips(k, m)) <=> \E k \in Jobs : Grips(k, m)'
  BY <1>2 DEF Grips
<1>6. OneJob'
  BY <1>2 DEF Sound, OneJob
<1>7. ASSUME NEW k \in Jobs PROVE JobOK(k)'
  <2>1. JobOK(k)
    BY DEF Sound
  <2>2. Settled(job[k].image)' <=> Settled(job[k].image)
    BY <1>1, <1>2 DEF Settled
  <2>3. QED
    BY <1>1, <1>2, <2>1, <2>2 DEF JobOK, Settled
<1>8. ASSUME NEW o \in Images PROVE StateOK(o)'
  BY <1>1, <1>3, <1>4 DEF Sound, StateOK
<1>9. ASSUME NEW m \in Loops PROVE LoopOK(m)'
  BY <1>1, <1>5 DEF Sound, LoopOK
<1>10. QED
  BY <1>6, <1>7, <1>8, <1>9 DEF Sound

LEMMA StaleSound ==
    ASSUME Typed, Typed', Sound, NEW i \in Images, Stale(i)
    PROVE  Sound'
<1> USE DEF Typed, TypeOK, JobRec
<1>1. /\ state[i] # NoState /\ ~Active(state[i].point)
      /\ state' = [state EXCEPT ![i] = NoState]
      /\ UNCHANGED <<root, loop, mount, lazy, job, broken>>
  BY DEF Stale, disk, ghosts
<1>2. state'[i] = NoState /\ \A o \in Images : o # i => state'[o] = state[o]
  BY <1>1
<1>3. state[i].loop \in Loops /\ state[i].point # None
  BY <1>1, StateFields, NoneApart DEF Apart
<1>4. mount[state[i].loop] # state[i].point /\ ~Settled(i)
  BY <1>1, <1>3 DEF Active, Settled
<1>5. ASSUME NEW o \in Images PROVE Settled(o)' <=> Settled(o)
  BY <1>1, <1>2, <1>4 DEF Settled
<1>6. OneJob'
  BY <1>1 DEF Sound, OneJob
<1>7. ASSUME NEW k \in Jobs PROVE JobOK(k)'
  <2>1. JobOK(k) /\ job'[k] = job[k]
    BY <1>1 DEF Sound
  <2>2. CASE job[k].pc = "idle"
    BY <2>1, <2>2 DEF JobOK, Grip, Making
  <2>3. CASE job[k].pc # "idle"
    <3>1. job[k].image \in Images
      BY <2>3 DEF HasLoop
    <3>2. Settled(job[k].image)' <=> Settled(job[k].image)
      BY <1>1, <1>5, <2>1, <3>1
    <3>3. CASE job[k].image # i
      <4>1. state'[job[k].image] = state[job[k].image]
        BY <1>2, <3>1, <3>3
      <4>2. QED
        BY <1>1, <2>1, <3>2, <4>1 DEF JobOK
    <3>4. CASE job[k].image = i
      <4>1. job[k].pc = "unmount" => root /\ mount[job[k].loop] = None /\ ~Settled(i)
        <5>1. state[i] = [loop |-> job[k].loop, point |-> job[k].point]
              => state[i].loop = job[k].loop /\ state[i].point = job[k].point
          OBVIOUS
        <5>2. QED
          BY <1>4, <2>1, <3>4, <5>1 DEF JobOK
      <4>2. state'[job[k].image] = NoState /\ ~Settled(job[k].image)'
        BY <1>2, <1>4, <3>2, <3>4
      <4>3. QED
        BY <1>1, <2>1, <4>1, <4>2 DEF JobOK
    <3>5. QED
      BY <3>3, <3>4
  <2>4. QED
    BY <2>2, <2>3
<1>8. ASSUME NEW o \in Images PROVE StateOK(o)'
  <2>1. Undoing(o)' <=> Undoing(o)
    BY <1>1 DEF Undoing
  <2>2. CASE o = i
    BY <1>2, <2>2 DEF StateOK
  <2>3. CASE o # i
    BY <1>1, <1>2, <1>5, <2>1, <2>3 DEF Sound, StateOK
  <2>4. QED
    BY <2>2, <2>3
<1>9. ASSUME NEW m \in Loops PROVE LoopOK(m)'
  <2>1. LoopOK(m)
    BY DEF Sound
  <2>2. ASSUME mount[m] # None, state[loop[m]] = [loop |-> m, point |-> mount[m]]
        PROVE  state'[loop[m]] = state[loop[m]]
    <3>1. loop[m] \in Images
      BY <2>1, <2>2 DEF LoopOK
    <3>2. state[loop[m]].loop = m /\ state[loop[m]].point = mount[m]
      BY <2>2
    <3>3. loop[m] # i
      BY <1>4, <3>2
    <3>4. QED
      BY <1>2, <3>1, <3>3
  <2>3. (\E k \in Jobs : Grips(k, m)) <=> \E k \in Jobs : Grips(k, m)'
    BY <1>1 DEF Grips
  <2>4. QED
    BY <1>1, <2>1, <2>2, <2>3 DEF LoopOK
<1>10. QED
  BY <1>6, <1>7, <1>8, <1>9 DEF Sound

\* Undone outside the filer, as root: a mount less, and no job's loop device.
LEMMA OutsideSound ==
    ASSUME Typed, Typed', Sound, root \/ ~undone', NEW l \in Loops, Outside(l)
    PROVE  Sound'
<1> USE DEF Typed, TypeOK, JobRec
<1>1. /\ mount[l] # None /\ Unmounted(l) /\ broken' = broken \cup {l}
      /\ root = TRUE /\ UNCHANGED <<root, state, job>>
  BY DEF Outside
<1>2. /\ mount'[l] = None /\ \A m \in Loops : m # l => mount'[m] = mount[m]
      /\ \A m \in Loops : m # l => loop'[m] = loop[m]
      /\ l \notin lazy => loop'[l] = loop[l]
      /\ \A m : m \in lazy' <=> m \in lazy /\ m # l
  BY <1>1 DEF Unmounted
<1>3. ASSUME NEW o \in Images, Settled(o)' PROVE Settled(o)
  <2>1. state[o] # NoState /\ mount'[state[o].loop] = state[o].point
        /\ loop'[state[o].loop] = o
    BY <1>1, <1>3 DEF Settled
  <2>2. state[o].loop \in Loops /\ state[o].point # None
    BY <2>1, StateFields, NoneApart DEF Apart
  <2>3. QED
    BY <1>2, <2>1, <2>2 DEF Settled
<1>4. OneJob'
  BY <1>1 DEF Sound, OneJob
<1>5. ASSUME NEW k \in Jobs PROVE JobOK(k)'
  <2>1. JobOK(k) /\ job'[k] = job[k]
    BY <1>1 DEF Sound
  <2>2. CASE job[k].pc \in {"idle", "setup"}
    BY <1>1, <2>1, <2>2 DEF JobOK, Grip
  <2>3. ASSUME job[k].pc \notin {"idle", "setup"}, job[k].image \in Images
        PROVE  Settled(job[k].image)' => Settled(job[k].image)
    BY <1>1, <1>3, <2>3
  <2>4. CASE job[k].pc \in {"forget", "unlink"}
    <3>1. job[k].image \in Images
      BY <2>4 DEF HasLoop
    <3>2. ~Settled(job[k].image)'
      BY <2>1, <2>3, <2>4, <3>1 DEF JobOK
    <3>3. QED
      BY <2>1, <2>4, <3>2 DEF JobOK, Grip, Making, Settled
  <2>5. CASE job[k].pc \in Grip
    <3>1. job[k].image \in Images /\ job[k].loop \in Loops
      BY <2>5 DEF HasLoop, Grip
    <3>2. loop'[job[k].loop] = loop[job[k].loop] /\ job[k].loop \notin lazy'
      BY <1>2, <2>1, <2>5, <3>1 DEF JobOK
    <3>3. mount'[job[k].loop] \in {mount[job[k].loop], None}
      BY <1>2, <3>1
    <3>4. Settled(job[k].image)' => Settled(job[k].image)
      BY <2>3, <2>5, <3>1 DEF Grip
    <3>5. CASE job[k].pc = "unmount"
      <4>1. CASE mount'[job[k].loop] = mount[job[k].loop]
        BY <1>1, <2>1, <3>2, <3>4, <3>5, <4>1 DEF JobOK, Making
      <4>2. CASE mount'[job[k].loop] = None
        <5>1. job[k].point # None
          BY <3>5, NoneApart DEF HasLoop, Apart
        <5>2. ~Settled(job[k].image)'
          <6>1. CASE state[job[k].image] = [loop |-> job[k].loop, point |-> job[k].point]
            <7>1. state[job[k].image].loop = job[k].loop
                  /\ state[job[k].image].point = job[k].point
              BY <6>1
            <7>2. QED
              BY <1>1, <4>2, <5>1, <7>1 DEF Settled
          <6>2. CASE ~Settled(job[k].image)
            BY <3>4, <6>2
          <6>3. QED
            BY <2>1, <3>5, <6>1, <6>2 DEF JobOK
        <5>3. QED
          BY <1>1, <2>1, <3>2, <3>5, <4>2, <5>2 DEF JobOK, Making
      <4>3. QED
        BY <3>3, <4>1, <4>2
    <3>6. CASE job[k].pc # "unmount"
      BY <1>1, <2>1, <2>5, <3>2, <3>3, <3>4, <3>6 DEF JobOK, Grip
    <3>7. QED
      BY <3>5, <3>6
  <2>6. QED
    BY <2>2, <2>4, <2>5 DEF Grip, Steps
<1>6. ASSUME NEW o \in Images PROVE StateOK(o)'
  <2>1. StateOK(o) /\ state'[o] = state[o]
    BY <1>1 DEF Sound
  <2>2. QED
    BY <1>1, <1>2, <1>3, <2>1 DEF StateOK
<1>7. ASSUME NEW m \in Loops PROVE LoopOK(m)'
  <2>1. LoopOK(m)
    BY DEF Sound
  <2>2. (\E k \in Jobs : Grips(k, m)) <=> \E k \in Jobs : Grips(k, m)'
    BY <1>1 DEF Grips
  <2>3. QED
    BY <1>1, <1>2, <2>1, <2>2 DEF LoopOK
<1>8. QED
  BY <1>4, <1>5, <1>6, <1>7 DEF Sound

\* What the jobs of a filer that dies had in hand is known to be broken.
LEMMA CrashSound ==
    ASSUME Typed, Sound, root \/ ~undone', Crash
    PROVE  Sound'
<1> USE DEF Typed, TypeOK, JobRec
<1>1. /\ \A j \in Jobs : job'[j] = Idle
      /\ UNCHANGED <<root, loop, mount, lazy, state>>
      /\ \A l \in Loops : l \in broken \/ (\E j \in Jobs : job[j].loop = l) => l \in broken'
      /\ ~undone' => \A o \in Images : ~Undoing(o)
  BY DEF Crash, disk, Undoing
<1>2. OneJob' /\ \A j \in Jobs : JobOK(j)'
  BY <1>1, IdleOK DEF OneJob
<1>3. ASSUME NEW o \in Images PROVE StateOK(o)'
  <2>1. StateOK(o) /\ (Settled(o)' <=> Settled(o))
    BY <1>1 DEF Sound, Settled
  <2>2. QED
    BY <1>1, <2>1 DEF StateOK
<1>4. ASSUME NEW l \in Loops PROVE LoopOK(l)'
  BY <1>1 DEF Sound, LoopOK, Grips
<1>5. QED
  BY <1>2, <1>3, <1>4 DEF Sound

\* What was met, undone or orphaned stays so.
Lasts ==
    /\ root' = root /\ (met => met') /\ (undone => undone')
    /\ orphaned => orphaned'

LEMMA OrderlyBefore ==
    ASSUME [Next]_vars, Orderly'
    PROVE  Orderly /\ ~met' /\ (root \/ ~undone')
<1>1. ASSUME NEW j \in Jobs, NEW i \in Images, Mount(j, i) \/ Unmount(j, i) \/ Scan(j, i)
      PROVE  Lasts
  <2>1. root' = root /\ undone' = undone /\ orphaned' = orphaned /\ Meets(i)
    BY <1>1 DEF Mount, Unmount, Scan
  <2>2. QED
    BY <2>1 DEF Meets, Lasts
<1>2. ASSUME NEW j \in Jobs, Setup(j) \/ Choose(j) \/ MountBlock(j) \/ Save(j) \/ Abort(j)
      PROVE  Lasts
  BY <1>2 DEF Setup, Choose, MountBlock, Save, Abort, ghosts, Lasts
<1>3. ASSUME NEW j \in Jobs, Rollback(j) \/ Drop(j) \/ Detach(j) \/ Forget(j) \/ Unlink(j)
      PROVE  Lasts
  BY <1>3 DEF Rollback, Drop, Detach, Forget, Unlink, ghosts, Lasts
<1>4. ASSUME NEW j \in Jobs, Umount(j) \/ ParentGone(j) PROVE Lasts
  BY <1>4 DEF Umount, ParentGone, ghosts, Lasts
<1>5. ASSUME NEW i \in Images, Stale(i) PROVE Lasts
  BY <1>5 DEF Stale, ghosts, Lasts
<1>6. ASSUME NEW l \in Loops, Outside(l) PROVE Lasts
  BY <1>6 DEF Outside, Lasts
<1>7. ASSUME Crash PROVE Lasts
  <2>1. (undone => undone') /\ (orphaned => orphaned')
    BY <1>7, Zenon DEF Crash
  <2>2. root' = root /\ (met => met')
    BY <1>7 DEF Crash
  <2>3. QED
    BY <2>1, <2>2 DEF Lasts
<1>8. ASSUME UNCHANGED vars PROVE Lasts
  BY <1>8 DEF vars, Lasts
<1>9. Lasts
  BY <1>1, <1>2, <1>3, <1>4, <1>5, <1>6, <1>7, <1>8 DEF Next, JobAction
<1>10. QED
  BY <1>9 DEF Lasts, Orderly

\* One image: its state is as it was or gone, and what held it holds it on.
LEMMA TetherKept ==
    ASSUME NEW i \in Images, Tether(i), state'[i] \in {state[i], NoState},
           state[i] # NoState /\ loop[state[i].loop] = i =>
              \/ loop'[state[i].loop] = i
              \/ \E j \in Jobs : job'[j].image = i /\ job'[j].pc = "forget",
           \A j \in Jobs : job[j].image = i /\ job[j].pc = "forget" =>
              \/ job'[j].image = i /\ job'[j].pc = "forget"
              \/ state'[i] = NoState
    PROVE  Tether(i)'
  BY DEF Tether

\* A job that is not about to forget a state, and touches no state nor loop.
LEMMA TetherStays ==
    ASSUME NEW j \in Jobs, job[j].pc # "forget", \A i \in Images : Tether(i),
           loop' = loop, \A i \in Images : state'[i] \in {state[i], NoState},
           \A k \in Jobs : k # j => job'[k] = job[k]
    PROVE  \A i \in Images : Tether(i)'
  BY TetherKept

LEMMA TetheredStep ==
    ASSUME Typed, Typed', Sound, Tethered, [Next]_vars, Orderly'
    PROVE  Tethered'
<1> USE DEF Typed, TypeOK, JobRec
<1>0. SUFFICES ASSUME root, ~TellApart, \A o \in Images : Tether(o)
               PROVE  \A o \in Images : Tether(o)'
  <2>1. root' = root
    BY DEF Next, JobAction, Mount, Unmount, Scan, Setup, Choose, MountBlock, Save, Abort,
           Rollback, Drop, Umount, Detach, Forget, Unlink, ParentGone, Stale, Outside, Crash, vars
  <2>2. QED
    BY <2>1 DEF Tethered
<1>a. ASSUME NEW j \in Jobs, NEW pc, Goes(j, pc) \/ GivesUp(j) \/ Ends(j) \/ Unsaved(j)
      PROVE  \A k \in Jobs : k # j => job'[k] = job[k]
  BY <1>a DEF Goes, GivesUp, Ends, Unsaved
<1>1. ASSUME NEW j \in Jobs, NEW i \in Images, Mount(j, i) \/ Unmount(j, i) \/ Scan(j, i)
      PROVE  \A o \in Images : Tether(o)'
  <2>1. /\ job[j] = Idle /\ loop' = loop
        /\ \A o \in Images : state'[o] \in {state[o], NoState}
        /\ \A k \in Jobs : k # j => job'[k] = job[k]
    BY <1>1 DEF Mount, Unmount, Scan, disk
  <2>2. job[j].pc # "forget"
    BY <2>1 DEF Idle
  <2>3. QED
    BY <1>0, <2>1, <2>2, TetherStays
<1>2. ASSUME NEW j \in Jobs, Choose(j) \/ MountBlock(j) PROVE \A o \in Images : Tether(o)'
  <2>1. job[j].pc # "forget" /\ loop' = loop /\ state' = state
    BY <1>2 DEF Choose, MountBlock, disk
  <2>2. \A k \in Jobs : k # j => job'[k] = job[k]
    BY <1>2, <1>a DEF Choose, MountBlock
  <2>3. QED
    BY <1>0, <2>1, <2>2, TetherStays
<1>3. ASSUME NEW j \in Jobs, Rollback(j) \/ Umount(j) PROVE \A o \in Images : Tether(o)'
  <2>1. job[j].pc \in {"rollback", "unmount"} /\ state' = state
    BY <1>3 DEF Rollback, Umount
  <2>2. \A k \in Jobs : k # j => job'[k] = job[k]
    BY <1>3, <1>a DEF Rollback, Umount
  <2>3. job[j].loop \in Loops /\ job[j].loop \notin lazy
    BY <2>1 DEF Sound, JobOK, Grip, HasLoop
  <2>4. ASSUME NEW k \in Target(job[j].loop, job[j].point), Unmounted(k) PROVE loop' = loop
    BY <2>1, <2>3, <2>4, OwnTarget, OnlyUnmounted
  <2>5. loop' = loop
    BY <1>3, <2>4 DEF Rollback, Umount, disk
  <2>6. QED
    BY <1>0, <2>1, <2>2, <2>5, TetherStays
<1>4. ASSUME NEW j \in Jobs, Setup(j) PROVE \A o \in Images : Tether(o)'
  <2>1. /\ job[j].pc = "setup" /\ state' = state
        /\ \A k \in Jobs : k # j => job'[k] = job[k]
    BY <1>4 DEF Setup, Attach, Prepared, Ends
  <2>2. \A l \in Loops : loop[l] # None => loop'[l] = loop[l]
    BY <1>4 DEF Setup, Attach
  <2>3. ASSUME NEW o \in Images PROVE Tether(o)'
    <3>1. state[o] # NoState /\ loop[state[o].loop] = o => loop'[state[o].loop] = o
      BY <2>2, StateFields, NoneApart DEF Apart
    <3>2. QED
      BY <1>0, <2>1, <3>1, TetherKept
  <2>4. QED
    BY <2>3
<1>5. ASSUME NEW j \in Jobs, Save(j) PROVE \A o \in Images : Tether(o)'
  <2>0. PICK i, l : i = job[j].image /\ l = job[j].loop
    OBVIOUS
  <2>1. /\ job[j].pc = "save" /\ loop' = loop
        /\ \A k \in Jobs : k # j => job'[k] = job[k]
    BY <1>5, <1>a DEF Save, disk
  <2>2. loop[l] = i
    BY <2>0, <2>1 DEF Sound, JobOK, Grip
  <2>3. ASSUME NEW o \in Images PROVE Tether(o)'
    <3>1. CASE state'[o] = state[o]
      BY <1>0, <2>1, <3>1, TetherKept
    <3>2. CASE state'[o] # state[o]
      <4>1. o = i /\ state'[o].loop = l
        BY <1>5, <2>0, <3>2 DEF Save
      <4>2. QED
        BY <2>1, <2>2, <4>1 DEF Tether
    <3>3. QED
      BY <3>1, <3>2
  <2>4. QED
    BY <2>3
<1>6. ASSUME NEW j \in Jobs, Abort(j) \/ Drop(j) \/ Detach(j) PROVE \A o \in Images : Tether(o)'
  <2>0. PICK i, l : i = job[j].image /\ l = job[j].loop
    OBVIOUS
  <2>1. /\ job[j].pc \in {"abort", "drop", "detach"} /\ DetachLoop(l) /\ state' = state
        /\ \A k \in Jobs : k # j => job'[k] = job[k]
    BY <1>6, <1>a, <2>0 DEF Abort, Drop, Detach
  <2>2. loop[l] = i /\ l \in Loops
    BY <2>0, <2>1 DEF Sound, JobOK, Grip, HasLoop
  <2>3. \A m \in Loops : m # l => loop'[m] = loop[m]
    BY <2>1 DEF DetachLoop, Detached, disk
  <2>4. state[i] = NoState \/ (job'[j].image = i /\ job'[j].pc = "forget")
    <3>1. CASE Abort(j) \/ Drop(j)
      <4>1. job[j].pc \in Making
        BY <3>1 DEF Abort, Drop, Making
      <4>2. QED
        BY <2>0, <4>1 DEF Sound, JobOK
    <3>2. CASE Detach(j)
      BY <2>0, <3>2 DEF Detach, Goes
    <3>3. QED
      BY <1>6, <3>1, <3>2
  <2>5. ASSUME NEW o \in Images PROVE Tether(o)'
    <3>1. ASSUME state[o] # NoState, loop[state[o].loop] = o
          PROVE  \/ loop'[state[o].loop] = o
                 \/ \E k \in Jobs : job'[k].image = o /\ job'[k].pc = "forget"
      <4>1. state[o].loop \in Loops
        BY <3>1, StateFields
      <4>2. CASE state[o].loop = l
        BY <2>2, <2>4, <3>1, <4>2
      <4>3. CASE state[o].loop # l
        BY <2>3, <3>1, <4>1, <4>3
      <4>4. QED
        BY <4>2, <4>3
    <3>2. QED
      BY <1>0, <2>1, <3>1, TetherKept
  <2>6. QED
    BY <2>5
<1>7. ASSUME NEW j \in Jobs, Forget(j) \/ Unlink(j) PROVE \A o \in Images : Tether(o)'
  <2>0. PICK i : i = job[j].image
    OBVIOUS
  <2>1. /\ loop' = loop /\ state' = [state EXCEPT ![i] = NoState]
        /\ \A k \in Jobs : k # j => job'[k] = job[k]
    BY <1>7, <1>a, <2>0 DEF Forget, Unlink, disk
  <2>2. ASSUME NEW o \in Images PROVE Tether(o)'
    <3>1. state'[o] \in {state[o], NoState} /\ (o = i => state'[o] = NoState)
      BY <2>1
    <3>2. QED
      BY <1>0, <2>0, <2>1, <3>1, TetherKept
  <2>3. QED
    BY <2>2
<1>8. ASSUME NEW j \in Jobs, ParentGone(j) PROVE \A o \in Images : Tether(o)'
  <2>1. \A k \in Jobs : job'[k].pc = job[k].pc /\ job'[k].image = job[k].image
    BY <1>8 DEF ParentGone
  <2>2. loop' = loop /\ state' = state
    BY <1>8 DEF ParentGone, disk
  <2>3. QED
    BY <1>0, <2>1, <2>2, TetherKept
<1>9. ASSUME NEW i \in Images, Stale(i) PROVE \A o \in Images : Tether(o)'
  <2>1. loop' = loop /\ job' = job /\ \A o \in Images : state'[o] \in {state[o], NoState}
    BY <1>9 DEF Stale, disk
  <2>2. QED
    BY <1>0, <2>1, TetherKept
\* A mount whose state names it is not one the kernel will detach.
<1>10. ASSUME NEW l \in Loops, Outside(l) PROVE \A o \in Images : Tether(o)'
  <2>1. /\ mount[l] # None /\ state' = state /\ job' = job
        /\ \A m \in Loops : m # l \/ l \notin lazy => loop'[m] = loop[m]
    BY <1>10 DEF Outside, Unmounted
  <2>2. ASSUME NEW o \in Images PROVE Tether(o)'
    <3>1. ASSUME state[o] # NoState, loop[state[o].loop] = o PROVE loop'[state[o].loop] = o
      <4>1. state[o].loop \in Loops
        BY <3>1, StateFields
      <4>2. CASE state[o].loop # l
        BY <2>1, <3>1, <4>1, <4>2
      <4>3. CASE state[o].loop = l
        <5>1. mount[l] = <<BaseName[loop[l]], l>>
          BY <1>0, <2>1 DEF Sound, LoopOK
        <5>2. state[o].point = <<BaseName[o], l>>
          BY <1>0, <3>1, <4>3 DEF Sound, StateOK
        <5>3. Settled(o)
          BY <3>1, <4>3, <5>1, <5>2 DEF Settled
        <5>4. l \notin lazy
          BY <3>1, <4>3, <5>3 DEF Sound, StateOK
        <5>5. QED
          BY <2>1, <3>1, <4>1, <5>4
      <4>4. QED
        BY <4>2, <4>3
    <3>2. QED
      BY <1>0, <2>1, <3>1, TetherKept
  <2>3. QED
    BY <2>2
\* A death then finds no job that has detached the device.
<1>11. ASSUME Crash PROVE \A o \in Images : Tether(o)'
  <2>1. ~undone' \/ ~orphaned'
    BY <1>0 DEF Orderly
  <2>2. \A j \in Jobs : job[j].pc # "forget"
    BY <1>11, <2>1 DEF Crash
  <2>3. loop' = loop /\ state' = state
    BY <1>11 DEF Crash, disk
  <2>4. QED
    BY <1>0, <2>2, <2>3, TetherKept
<1>12. CASE UNCHANGED vars
  BY <1>0, <1>12, TetherKept DEF vars
<1>13. QED
  BY <1>1, <1>2, <1>3, <1>4, <1>5, <1>6, <1>7, <1>8, <1>9, <1>10, <1>11, <1>12
     DEF Next, JobAction

LEMMA SoundStep == SInv /\ [Next]_vars => SInv'
<1> SUFFICES ASSUME SInv, [Next]_vars, Orderly' PROVE Sound' /\ Tethered'
  BY TypedStep DEF SInv
<1>1. Typed /\ Typed'
  BY TypedStep DEF SInv
<1>2. Sound /\ Tethered /\ ~met' /\ (root \/ ~undone')
  BY OrderlyBefore DEF SInv
<1>3. ASSUME NEW j \in Jobs, NEW i \in Images, Mount(j, i) \/ Unmount(j, i) \/ Scan(j, i)
      PROVE  Sound'
  BY <1>1, <1>2, <1>3, MountSound, UnmountSound, ScanSound
<1>4. ASSUME NEW j \in Jobs, Setup(j) \/ Choose(j) \/ MountBlock(j) \/ Save(j) PROVE Sound'
  BY <1>1, <1>2, <1>4, SetupSound, ChooseSound, MountBlockSound, SaveSound
<1>5. ASSUME NEW j \in Jobs, Abort(j) \/ Rollback(j) \/ Drop(j) \/ Umount(j) PROVE Sound'
  BY <1>1, <1>2, <1>5, AbortSound, RollbackSound, UmountSound
<1>6. ASSUME NEW j \in Jobs, Detach(j) \/ Forget(j) \/ Unlink(j) \/ ParentGone(j)
      PROVE  Sound'
  BY <1>1, <1>2, <1>6, DetachSound, ForgetSound, ParentGoneSound
<1>7. ASSUME NEW i \in Images, Stale(i) PROVE Sound'
  BY <1>1, <1>2, <1>7, StaleSound
<1>8. ASSUME NEW l \in Loops, Outside(l) PROVE Sound'
  BY <1>1, <1>2, <1>8, OutsideSound
<1>9. ASSUME Crash PROVE Sound'
  BY <1>1, <1>2, <1>9, CrashSound
<1>10. ASSUME UNCHANGED vars PROVE Sound'
  <2>1. CASE Jobs = {}
    BY <1>1, <1>2, <1>10, <2>1 DEF Sound, OneJob, StateOK, LoopOK, Settled, Undoing, Grips, vars
  <2>2. CASE Jobs # {}
    BY <1>1, <1>2, <1>10, <2>2, ParentGoneSound
  <2>3. QED
    BY <2>1, <2>2
<1>11. Sound'
  BY <1>3, <1>4, <1>5, <1>6, <1>7, <1>8, <1>9, <1>10 DEF Next, JobAction
<1>12. QED
  BY <1>1, <1>2, <1>11, TetheredStep

LEMMA SoundInit == Init => SInv
<1> SUFFICES ASSUME Init PROVE SInv
  OBVIOUS
<1>1. /\ \A j \in Jobs : job[j] = Idle
      /\ \A l \in Loops : loop[l] = None /\ mount[l] = None
      /\ \A i \in Images : state[i] = NoState
      /\ lazy = {}
  BY DEF Init
<1>2. OneJob /\ \A j \in Jobs : JobOK(j)
  BY <1>1 DEF OneJob, JobOK, Idle, Grip, Making
<1>3. (\A i \in Images : StateOK(i)) /\ \A l \in Loops : LoopOK(l)
  BY <1>1 DEF StateOK, LoopOK
<1>4. Tethered
  BY <1>1 DEF Tethered, Tether
<1>5. QED
  BY <1>2, <1>3, <1>4, TypedInit DEF SInv, Sound

\* What the filer mounted can be unmounted from it, for any number of images,
\* devices, jobs and scans: a mounted loop device without the state that names it
\* is in a job's hands, or a command failed on it or the filer died with it.
THEOREM ManagedHolds == Spec => []MountedIsManaged
<1>1. SInv => MountedIsManaged
  <2>1. SUFFICES ASSUME SInv, Orderly, NEW l \in Loops, mount[l] # None
                 PROVE  \/ l \in broken
                        \/ \E j \in Jobs : Holds(j, l)
                        \/ /\ loop[l] # None
                           /\ state[loop[l]] = [loop |-> l, point |-> mount[l]]
    BY DEF MountedIsManaged
  <2>2. LoopOK(l)
    BY <2>1 DEF SInv, Sound
  <2>3. QED
    BY <2>1, <2>2 DEF LoopOK, Grips, Holds
<1>2. QED
  BY <1>1, SoundInit, SoundStep, PTL DEF Spec

\* A state that looks alive names the mount of its own image, for any number of
\* images, devices, names and jobs: another image is not opened in its place, even
\* where images of one name have one mount point, unless (as root, with such names)
\* a death has left the state of a loop device already detached.
THEOREM NamesHold == Spec => []StateNamesItsImage
<1>1. SInv => StateNamesItsImage
  <2>1. SUFFICES ASSUME SInv, Orderly, NEW i \in Images, Active(state[i].point)
                 PROVE  \/ /\ loop[state[i].loop] = i
                           /\ mount[state[i].loop] = state[i].point
                        \/ Undoing(i)
    BY DEF StateNamesItsImage, Undoing
  <2>2. Sound /\ Typed /\ state[i] # NoState
    BY <2>1 DEF SInv, Active, NoState
  <2>3. StateOK(i)
    BY <2>2 DEF Sound
  <2>4. CASE ~root
    BY <2>2, <2>3, <2>4 DEF StateOK, Settled
  <2>5. CASE root
    <3>1. state[i].point = <<BaseName[i], state[i].loop>>
      BY <2>2, <2>3, <2>5 DEF StateOK
    <3>2. PICK k \in Loops : mount[k] = state[i].point /\ state[i].point # None
      BY <2>1 DEF Active
    <3>3. mount[k] = <<BaseName[loop[k]], k>>
      BY <2>2, <2>5, <3>2 DEF Sound, LoopOK
    <3>4. \A a, b, c, d : <<a, b>> = <<c, d>> => a = c /\ b = d
      OBVIOUS
    <3>5. BaseName[i] = BaseName[loop[k]] /\ state[i].loop = k
      BY <3>1, <3>2, <3>3, <3>4
    <3>6. CASE TellApart
      <4>1. loop[k] \in Images
        BY <2>2, <3>2 DEF Sound, LoopOK, Typed, TypeOK
      <4>2. QED
        BY <3>2, <3>5, <3>6, <4>1 DEF TellApart
    <3>7. CASE ~TellApart
      <4>1. Tether(i)
        BY <2>1, <2>5, <3>7 DEF SInv, Tethered
      <4>2. QED
        BY <2>2, <3>2, <3>5, <4>1 DEF Tether, Undoing
    <3>8. QED
      BY <3>6, <3>7
  <2>6. QED
    BY <2>4, <2>5
<1>2. QED
  BY <1>1, SoundInit, SoundStep, PTL DEF Spec
=============================================================================
