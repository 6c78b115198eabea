---------------------------- MODULE ChildReaper ----------------------------
(***************************************************************************)
(* Who collects a dead child.  The main loop reaps with waitpid(-1) after  *)
(* SIGCHLD (main.c) and runs what on_child_death registered; threads wait  *)
(* for children of their own, under child_reap_mutex (rox_spawn_sync in    *)
(* support.c, spawn_capture_timeout in drives.c) or without it             *)
(* (image_mounter.c).  A pid is free for use again once it is reaped.      *)
(***************************************************************************)
EXTENDS Naturals, FiniteSets

CONSTANTS
    Pids,       \* bound: child processes that exist at a time
    Spawners,   \* threads in rox_spawn_sync: smb.c's workers
    Capturers,  \* threads in spawn_capture_timeout: drives.c's workers
    Bare,       \* threads in a g_spawn_sync of their own: image_mounter.c's
    Main, Nobody

Threads == Spawners \cup Capturers \cup Bare

ASSUME ChildReaperAssumption ==
    /\ Main \notin Threads /\ Nobody \notin Threads \cup {Main} \cup Pids
    /\ Spawners \cap Capturers = {} /\ Bare \cap (Spawners \cup Capturers) = {}

VARIABLES
    proc,      \* [Pids -> "free", "running" or "zombie"]
    waiter,    \* [Pids -> the thread whose child it is and that waits for it, or Nobody]
    launched,  \* pids of processes someone wants to hear the death of
    death_callbacks,         \* pids in the tables death_callbacks and death_status_callbacks
    mutex,     \* holder of child_reap_mutex, or Nobody
    child_died_flag, wakeup, \* set by the signal handler: flag, and byte in the pipe
    retry,     \* child_reap_retry_source is armed
    main,      \* what the main thread is in: pc, and the pid it is about
    thread,    \* [Threads -> pc, pid and the last result]
    action     \* a forked action child: pc, and its copy of the mutex

procs == <<proc, waiter, launched>>
signal == <<child_died_flag, wakeup>>
reaper_vars == <<proc, waiter, launched, death_callbacks, mutex, child_died_flag, wakeup,
          retry, main, thread, action>>

ReaperInit ==
    /\ proc = [p \in Pids |-> "free"] /\ waiter = [p \in Pids |-> Nobody]
    /\ launched = {} /\ death_callbacks = {}
    /\ mutex = Nobody
    /\ child_died_flag = FALSE /\ wakeup = FALSE /\ retry = FALSE
    /\ main = [pc |-> "idle", pid |-> Nobody]
    /\ thread = [t \in Threads |-> [pc |-> "idle", pid |-> Nobody, result |-> "none"]]
    /\ action = [pc |-> "none", locked |-> FALSE]

-----------------------------------------------------------------------------
(* Processes.                                                              *)

Fork(p, t, wanted) ==
    /\ proc[p] = "free"
    /\ proc' = [proc EXCEPT ![p] = "running"]
    /\ waiter' = [waiter EXCEPT ![p] = t]
    /\ launched' = IF wanted THEN launched \cup {p} ELSE launched

\* waitpid has returned p: the pid may be given to another process
Reaped(p) ==
    /\ proc' = [proc EXCEPT ![p] = "free"]
    /\ waiter' = [waiter EXCEPT ![p] = Nobody]
    /\ launched' = launched \ {p}

\* a child exits or is killed; SIGCHLD runs child_died
Exit(p) ==
    /\ proc[p] = "running"
    /\ proc' = [proc EXCEPT ![p] = "zombie"]
    /\ child_died_flag' = TRUE /\ wakeup' = TRUE
    /\ UNCHANGED <<waiter, launched, death_callbacks, mutex, retry, main, thread, action>>

-----------------------------------------------------------------------------
(* The main loop.                                                          *)

\* mutant: the entry stays for whoever gets the pid next
ForgetCallback_Not(p) == death_callbacks' = death_callbacks

ForgetCallback(p) == death_callbacks' = death_callbacks \ {p}

Launched(p) == death_callbacks' = death_callbacks \cup {p}

\* a child is started and on_child_death or on_child_death_status called, in one
\* handler (thumbnails, applets, audio previews...) or in a callback
Launch(p) ==
    /\ main.pc \in {"idle", "call"}
    /\ Fork(p, Nobody, TRUE)
    /\ Launched(p)
    /\ main' = [main EXCEPT !.pc = IF @ = "call" THEN "reap" ELSE @]
    /\ UNCHANGED <<mutex, signal, retry, thread, action>>

\* a process nobody waits for and nobody wants to hear of: rox_spawn, an action child
LaunchUnwatched(p) ==
    /\ main.pc = "idle"
    /\ Fork(p, Nobody, FALSE)
    /\ UNCHANGED <<death_callbacks, mutex, signal, retry, main, thread, action>>

\* child_died_callback: first, clear the flag
child_died_callback == child_died_flag' = FALSE /\ main' = [main EXCEPT !.pc = "reap"]

WakeUp ==
    /\ main.pc = "idle" /\ wakeup
    /\ wakeup' = FALSE
    /\ IF child_died_flag THEN child_died_callback ELSE UNCHANGED <<child_died_flag, main>>
    /\ UNCHANGED <<procs, death_callbacks, mutex, retry, thread, action>>

Retry ==
    /\ main.pc = "idle" /\ retry
    /\ retry' = FALSE
    /\ IF child_died_flag THEN child_died_callback ELSE UNCHANGED <<child_died_flag, main>>
    /\ UNCHANGED <<procs, death_callbacks, mutex, wakeup, thread, action>>

\* ... then collect children one by one, if the mutex is free each time.  The
\* mutex is released before the callback runs.
\* mutant: the flag is not set again
TryLockFails_NoFlag ==
    /\ main.pc = "reap" /\ mutex # Nobody
    /\ retry' = TRUE
    /\ main' = [main EXCEPT !.pc = "idle"]
    /\ UNCHANGED <<procs, death_callbacks, mutex, signal, thread, action>>

\* mutant: the timer is not armed
TryLockFails_NoRetry ==
    /\ main.pc = "reap" /\ mutex # Nobody
    /\ child_died_flag' = TRUE
    /\ main' = [main EXCEPT !.pc = "idle"]
    /\ UNCHANGED <<procs, death_callbacks, mutex, wakeup, retry, thread, action>>

TryLockFails ==
    /\ main.pc = "reap" /\ mutex # Nobody
    /\ child_died_flag' = TRUE /\ retry' = TRUE
    /\ main' = [main EXCEPT !.pc = "idle"]
    /\ UNCHANGED <<procs, death_callbacks, mutex, wakeup, thread, action>>

Reap(p) ==
    /\ main.pc = "reap" /\ mutex = Nobody /\ proc[p] = "zombie"
    /\ Reaped(p)
    /\ ForgetCallback(p)
    /\ main' = IF p \in death_callbacks THEN [pc |-> "call", pid |-> p] ELSE main
    /\ UNCHANGED <<mutex, signal, retry, thread, action>>

ReapNone ==
    /\ main.pc = "reap" /\ mutex = Nobody
    /\ \A p \in Pids : proc[p] # "zombie"
    /\ main' = [main EXCEPT !.pc = "idle"]
    /\ UNCHANGED <<procs, death_callbacks, mutex, signal, retry, thread, action>>

Callback ==
    /\ main.pc = "call"
    /\ main' = [pc |-> "reap", pid |-> Nobody]
    /\ UNCHANGED <<procs, death_callbacks, mutex, signal, retry, thread, action>>

\* stat_with_timeout: the main thread blocks for the mutex, then for its child
StatLock ==
    /\ main.pc = "idle"
    /\ main' = [main EXCEPT !.pc = "lock"]
    /\ UNCHANGED <<procs, death_callbacks, mutex, signal, retry, thread, action>>

StatFork ==
    /\ main.pc = "lock" /\ mutex = Nobody
    /\ \/ \E p \in Pids :
            /\ Fork(p, Main, FALSE)
            /\ mutex' = Main
            /\ main' = [pc |-> "wait", pid |-> p]
       \/ /\ \A p \in Pids : proc[p] # "free"     \* fork fails
          /\ main' = [main EXCEPT !.pc = "idle"]
          /\ UNCHANGED <<procs, mutex>>
    /\ UNCHANGED <<death_callbacks, signal, retry, thread, action>>

StatDone ==
    /\ main.pc = "wait" /\ proc[main.pid] = "zombie"
    /\ Reaped(main.pid)
    /\ mutex' = Nobody
    /\ main' = [pc |-> "idle", pid |-> Nobody]
    /\ UNCHANGED <<death_callbacks, signal, retry, thread, action>>

-----------------------------------------------------------------------------
(* The other threads.                                                      *)

Goto(t, pc) == thread' = [thread EXCEPT ![t].pc = pc]
Result(t, r) == thread' = [thread EXCEPT ![t] = [pc |-> IF t \in Bare THEN "idle" ELSE "unlock",
                                                pid |-> Nobody, result |-> r]]

\* mutant: rox_spawn_sync does without the mutex
TakesMutex_Drives(t) == t \notin Bare \cup Spawners

\* rox_child_reap_lock, reap_lock_wait: only Bare do without
TakesMutex(t) == t \notin Bare

Spawn(t, p) ==
    /\ thread[t].pc = "idle"
    /\ IF TakesMutex(t) THEN mutex = Nobody /\ mutex' = t ELSE UNCHANGED mutex
    /\ Fork(p, t, FALSE)
    /\ thread' = [thread EXCEPT ![t] = [pc |-> "wait", pid |-> p, result |-> "none"]]
    /\ UNCHANGED <<death_callbacks, signal, retry, main, action>>

\* reap_lock_wait gives up
Busy(t) ==
    /\ t \in Capturers /\ thread[t].pc = "idle" /\ mutex # Nobody
    /\ thread' = [thread EXCEPT ![t].result = "busy"]
    /\ UNCHANGED <<procs, death_callbacks, mutex, signal, retry, main, action>>

\* waitpid returns t's child, or fails with ECHILD because it has been reaped; after
\* the deadline neither matters
Wait(t) ==
    /\ thread[t].pc \in {"wait", "term"}
    /\ LET p == thread[t].pid
           result == IF waiter[p] = t THEN "status" ELSE "lost"
       IN  /\ IF waiter[p] = t
              THEN proc[p] = "zombie" /\ Reaped(p) ELSE UNCHANGED procs
           /\ Result(t, IF thread[t].pc = "term" THEN "timeout" ELSE result)
    /\ UNCHANGED <<death_callbacks, mutex, signal, retry, main, action>>

\* spawn_capture_timeout's deadline: SIGTERM ...
Deadline(t) ==
    /\ t \in Capturers /\ thread[t].pc = "wait"
    /\ Goto(t, "term")
    /\ UNCHANGED <<procs, death_callbacks, mutex, signal, retry, main, action>>

\* ... and if that has not helped SIGKILL; the child is left to the reaper
Abandon(t) ==
    /\ thread[t].pc = "term"
    /\ LET p == thread[t].pid
       IN  /\ waiter[p] = t /\ proc[p] = "running"
           /\ waiter' = [waiter EXCEPT ![p] = Nobody]
    /\ Result(t, "timeout")
    /\ UNCHANGED <<proc, launched, death_callbacks, mutex, signal, retry, main, action>>

Unlock(t) ==
    /\ thread[t].pc = "unlock"
    /\ mutex' = Nobody
    /\ Goto(t, "idle")
    /\ UNCHANGED <<procs, death_callbacks, signal, retry, main, action>>

-----------------------------------------------------------------------------
(* start_action's child: a copy of the process with this thread only, and  *)
(* with the mutex as it was.                                               *)

\* mutant: the child inherits a mutex nobody will unlock
rox_child_reap_disable_Not(a) == a

rox_child_reap_disable(a) == [a EXCEPT !.locked = FALSE]

ActionFork ==
    /\ main.pc = "idle" /\ action.pc = "none"
    /\ action' = rox_child_reap_disable([pc |-> "work", locked |-> mutex # Nobody])
    /\ UNCHANGED <<procs, death_callbacks, mutex, signal, retry, main, thread>>

\* fork_exec_wait in the action child, which then ends
ActionEnd ==
    /\ action.pc = "work" /\ ~action.locked
    /\ action' = [action EXCEPT !.pc = "none"]
    /\ UNCHANGED <<procs, death_callbacks, mutex, signal, retry, main, thread>>

ReaperNext ==
    \/ WakeUp \/ Retry \/ TryLockFails \/ ReapNone \/ Callback
    \/ StatLock \/ StatFork \/ StatDone \/ ActionFork \/ ActionEnd
    \/ \E p \in Pids : Reap(p) \/ Exit(p) \/ Launch(p) \/ LaunchUnwatched(p)
    \/ \E t \in Threads :
          \/ Busy(t) \/ Wait(t) \/ Deadline(t) \/ Abandon(t) \/ Unlock(t)
          \/ \E p \in Pids : Spawn(t, p)

ReaperSpec == ReaperInit /\ [][ReaperNext]_reaper_vars

-----------------------------------------------------------------------------
ThreadPc == {"idle", "wait", "term", "unlock"}
Results == {"none", "status", "lost", "timeout", "busy"}

\* Types; and who holds the mutex is between its lock and its unlock, and about a
\* child of its own that no other waits for.
ReaperTypeOK ==
    /\ proc \in [Pids -> {"free", "running", "zombie"}]
    /\ waiter \in [Pids -> Threads \cup {Main, Nobody}]
    /\ launched \subseteq Pids /\ death_callbacks \subseteq Pids
    /\ mutex \in Threads \cup {Main, Nobody}
    /\ child_died_flag \in BOOLEAN /\ wakeup \in BOOLEAN /\ retry \in BOOLEAN
    /\ main \in [pc : {"idle", "reap", "call", "lock", "wait"}, pid : Pids \cup {Nobody}]
    /\ thread \in [Threads -> [pc : ThreadPc, pid : Pids \cup {Nobody}, result : Results]]
    /\ action \in [pc : {"none", "work"}, locked : BOOLEAN]
    /\ mutex = Main <=> main.pc = "wait"
    /\ \A t \in Threads \ Bare : mutex = t <=> thread[t].pc # "idle"
    /\ \A p \in Pids : waiter[p] \in Threads =>
          thread[waiter[p]].pid = p /\ thread[waiter[p]].pc \in {"wait", "term"}

\* main.c:239: no thread loses its child to child_died_callback.  waitpid on one's
\* own child always gives its status, whoever else dies and is reaped meanwhile.
NoStatusLost == \A t \in Threads : thread[t].result # "lost"

\* The tables name the processes someone wants to hear of and no others, though
\* pids are used again: no callback is missed or run for a stranger.
CallbacksAreTheirs == death_callbacks = launched

\* A child that has died and that no thread waits for is about to be reaped: the
\* reaper is running, or a wake-up or the retry timer will run it.
DeathIsNoticed ==
    (\E p \in Pids : proc[p] = "zombie" /\ waiter[p] = Nobody)
    => main.pc \in {"reap", "call"} \/ (child_died_flag /\ (wakeup \/ retry))

\* The main loop dispatches each source that is ready again and again, finishes the
\* handler it is in; the kernel hands out dead children oldest first, so that none is
\* passed over for ever; and children end (stat_with_timeout's by alarm(3)).
ReaperFairness ==
    /\ SF_reaper_vars(WakeUp) /\ SF_reaper_vars(Retry)
    /\ WF_reaper_vars(TryLockFails) /\ WF_reaper_vars(ReapNone) /\ WF_reaper_vars(Callback)
    /\ \A p \in Pids : SF_reaper_vars(Reap(p))
    /\ WF_reaper_vars(StatFork) /\ WF_reaper_vars(StatDone)
    /\ \A p \in Pids : WF_reaper_vars(Exit(p))
    /\ WF_reaper_vars(ActionEnd)

FairReaperSpec == ReaperSpec /\ ReaperFairness

\* Once the threads leave the mutex alone, every death someone wants to hear of is
\* heard.  (While a thread waits for a mount that hangs, none is.)
DeathIsHeard ==
    <>[](mutex \in {Nobody, Main}) =>
        \A p \in Pids : (proc[p] = "zombie" /\ p \in launched) ~> proc[p] = "free"

\* An action's child comes to its end: it does not wait for a mutex whose holder is
\* a thread it has not got.
ActionEnds == action.pc = "work" ~> action.pc = "none"
=============================================================================
