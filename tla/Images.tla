------------------------------- MODULE Images -------------------------------
(***************************************************************************)
(* Disk images mounted by the filer (image_mounter.c): a loop device is    *)
(* set up, mounted and written down in a state file, in two threads with   *)
(* the main thread in between; unmounting, the scan of the drives and a    *)
(* second request for the same image run meanwhile.  Commands may fail,    *)
(* or do their work and be reported failed; the process may die; the user  *)
(* may unmount from outside.                                               *)
(***************************************************************************)
EXTENDS Naturals, FiniteSets

CONSTANTS
    Images, Loops,
    BaseName,   \* [Images -> their names without the folder, cleaned and cut]
    Names,      \* bound: mount points udisks chooses from, named by labels
    Jobs,       \* bound: jobs and scans at once
    None

ASSUME LoopsAssumption == None \notin Loops
ASSUME ImagesAssumption == None \notin Images

VARIABLES
    root,       \* the filer runs as root, else it asks udisks
    loop,       \* [Loops -> the image attached, or None]
    mount,      \* [Loops -> where it is mounted, or None]
    lazy,       \* loops the kernel detaches once they are not mounted any more
    state,      \* [Images -> the state file, or None]
    job,        \* [Jobs -> record]
    broken,     \* ghost: loops a failure was met on, or a death
    met,        \* ghost: jobs of one image overlapped
    undone,     \* ghost: a mount made here was undone without the filer's knowing
    orphaned    \* ghost: a death left the state of a device already detached

vars == <<root, loop, mount, lazy, state, job, broken, met, undone, orphaned>>
disk == <<loop, mount, lazy>>
ghosts == <<broken, met, undone, orphaned>>

\* Mount points: of the filer's own directory, or given by udisks.
Points == ({BaseName[i] : i \in Images} \X Loops) \cup ({None} \X Names)

ASSUME PointsAssumption == None \notin Points

States == [loop : Loops, point : Points]
NoState == [loop |-> None, point |-> None]

Idle == [pc |-> "idle", image |-> None, loop |-> None, point |-> None,
         dialog |-> FALSE]
Steps == {"idle", "setup", "choose", "mount", "save", "abort", "rollback",
          "unlink", "unmount", "detach", "forget", "drop"}

Init ==
    /\ root \in BOOLEAN
    /\ loop = [l \in Loops |-> None] /\ mount = [l \in Loops |-> None]
    /\ lazy = {} /\ state = [i \in Images |-> NoState]
    /\ job = [j \in Jobs |-> Idle]
    /\ broken = {} /\ met = FALSE /\ undone = FALSE /\ orphaned = FALSE

\* mountpoint_is_active: the table of mounts has the path.
Active(p) == \E l \in Loops : mount[l] = p /\ p # None

Goes(j, pc) == job' = [job EXCEPT ![j].pc = pc]
Ends(j) == job' = [job EXCEPT ![j] = Idle]

\* A progress dialog or the chooser is up and takes the input of the filer.
Modal == \E j \in Jobs : job[j].dialog

Meets(i) == met' = (met \/ \E k \in Jobs : job[k].image = i)

----------------------------------------------------------------------------
(* Mounting *)

\* image_mounter_mount: an image with an active state is only opened; a stale
\* state goes.
Mount(j, i) ==
    /\ job[j] = Idle /\ ~Modal
    /\ ~Active(state[i].point)
    /\ state' = [state EXCEPT ![i] = NoState]
    /\ job' = [job EXCEPT ![j] = [Idle EXCEPT !.pc = "setup", !.image = i,
                                              !.dialog = TRUE]]
    /\ Meets(i)
    /\ UNCHANGED <<root, disk, broken, undone, orphaned>>

\* One file system is mounted as it is; of several partitions the user chooses.
Prepared(j, l) ==
    \/ job' = [job EXCEPT ![j].pc = "choose", ![j].loop = l, ![j].dialog = TRUE]
    \/ job' = [job EXCEPT ![j].pc = "mount", ![j].loop = l]

\* setup_loop_root, setup_loop_udisks: a device that is free.  It may fail, or
\* attach the image and be reported failed.
Attach(j) ==
    \/ Ends(j) /\ UNCHANGED <<loop, broken>>
    \/ \E l \in Loops :
          /\ loop[l] = None
          /\ loop' = [loop EXCEPT ![l] = job[j].image]
          /\ \/ Prepared(j, l) /\ broken' = broken \ {l}
             \/ Ends(j) /\ broken' = broken \cup {l}

\* The thread of phase 1.
Setup(j) ==
    /\ job[j].pc = "setup"
    /\ Attach(j)
    /\ UNCHANGED <<root, mount, lazy, state, met, undone, orphaned>>

\* The job is given up; what it has attached is detached in another thread.
GivesUp(j) == job' = [job EXCEPT ![j].pc = "abort", ![j].dialog = FALSE]

\* The chooser of partitions: an answer, or Cancel, or its parent has gone.
Choose(j) ==
    /\ job[j].pc = "choose"
    /\ \/ job[j].dialog /\ Goes(j, "mount")
       \/ GivesUp(j)
    /\ UNCHANGED <<root, disk, state, ghosts>>

\* Where the image will be mounted: the filer names the directory after the
\* image's name and the device; udisks takes a name no one uses.
Place(j) ==
    IF root THEN {<<BaseName[job[j].image], job[j].loop>>}
    ELSE {p \in {None} \X Names : ~Active(p)}

\* mount_root_block, mount_udisks_block in the thread of phase 2.
MountBlock(j) ==
    /\ job[j].pc = "mount"
    /\ \/ /\ GivesUp(j) /\ UNCHANGED <<mount, broken>>
       \/ /\ loop[job[j].loop] # None /\ mount[job[j].loop] = None
          /\ \E p \in Place(j) :
                /\ mount' = [mount EXCEPT ![job[j].loop] = p]
                /\ \/ /\ job' = [job EXCEPT ![j].pc = "save", ![j].point = p]
                      /\ UNCHANGED broken
                   \/ /\ GivesUp(j)
                      /\ broken' = broken \cup {job[j].loop}
    /\ UNCHANGED <<root, loop, lazy, state, met, undone, orphaned>>

\* Mutant: the result of save_state is discarded, as before 2.12.2-85.
Unsaved_Ignored(j) == Ends(j)

\* The state could not be saved: the mount is taken back.
Unsaved(j) == job' = [job EXCEPT ![j].pc = "rollback", ![j].dialog = TRUE]

\* mount_phase2_done of a mounted image.
Save(j) ==
    /\ job[j].pc = "save"
    /\ \/ /\ state' = [state EXCEPT ![job[j].image] =
                          [loop |-> job[j].loop, point |-> job[j].point]]
          /\ Ends(j)
       \/ state' = state /\ Unsaved(j)
    /\ UNCHANGED <<root, disk, ghosts>>

\* The kernel detaches a loop device at once, or when it is unmounted.
Detached(l) ==
    /\ loop' = IF mount[l] = None THEN [loop EXCEPT ![l] = None] ELSE loop
    /\ lazy' = IF mount[l] = None THEN lazy ELSE lazy \cup {l}
    /\ mount' = mount

Unmounted(l) ==
    /\ mount' = [mount EXCEPT ![l] = None]
    /\ loop' = IF l \in lazy THEN [loop EXCEPT ![l] = None] ELSE loop
    /\ lazy' = lazy \ {l}

\* losetup -d, udisksctl loop-delete; no one looks at the result.
DetachLoop(l) ==
    \/ Detached(l) /\ UNCHANGED broken
    \/ UNCHANGED disk /\ broken' = broken \cup {l}

\* Mutant: the abort frees the job and leaves the loop.
Abort_Leaves(j) ==
    /\ job[j].pc = "abort"
    /\ Ends(j)
    /\ UNCHANGED <<root, disk, state, ghosts>>

\* job_abort: the loop is detached in a thread; the result is ignored.
Abort(j) ==
    /\ job[j].pc = "abort"
    /\ DetachLoop(job[j].loop)
    /\ Ends(j)
    /\ UNCHANGED <<root, state, met, undone, orphaned>>

\* The loop whose mount an unmounting takes away: the filer names a mount
\* point, udisks a device.
Target(l, p) ==
    IF root THEN {k \in Loops : mount[k] = p /\ p # None}
    ELSE {k \in {l} : mount[k] # None}

\* mount_state_rollback_thread: only a mount that is gone lets its loop go.
Rollback(j) ==
    /\ job[j].pc = "rollback"
    /\ \/ \E k \in Target(job[j].loop, job[j].point) :
             /\ Unmounted(k)
             /\ Goes(j, "drop")
             /\ UNCHANGED broken
       \/ Ends(j) /\ UNCHANGED disk /\ broken' = broken \cup {job[j].loop}
    /\ UNCHANGED <<root, state, met, undone, orphaned>>

\* The second half of the rollback.
Drop(j) ==
    /\ job[j].pc = "drop"
    /\ DetachLoop(job[j].loop)
    /\ Ends(j)
    /\ UNCHANGED <<root, state, met, undone, orphaned>>

----------------------------------------------------------------------------
(* Unmounting *)

\* image_mounter_unmount from the menu, with a dialog; from the list of
\* devices image_mounter_unmount_managed_sync in a thread, without.
Unmount(j, i) ==
    /\ job[j] = Idle /\ ~Modal
    /\ Active(state[i].point)
    /\ \E d \in BOOLEAN :
          job' = [job EXCEPT ![j] = [pc |-> "unmount", image |-> i,
                    loop |-> state[i].loop, point |-> state[i].point, dialog |-> d]]
    /\ Meets(i)
    /\ UNCHANGED <<root, disk, state, broken, undone, orphaned>>

\* image_mounter_unmount and image_mounter_is_mounted of an image whose mount
\* has gone.
Stale(i) ==
    /\ state[i] # NoState /\ ~Active(state[i].point) /\ ~Modal
    /\ state' = [state EXCEPT ![i] = NoState]
    /\ UNCHANGED <<root, disk, job, ghosts>>

\* unmount_state_sync up to the unmounting: what is not active any more
\* succeeds as it is.
Umount(j) ==
    /\ job[j].pc = "unmount"
    /\ \/ /\ ~Active(job[j].point)
          /\ Goes(j, "forget") /\ UNCHANGED <<disk, broken, undone>>
       \/ /\ Active(job[j].point)
          /\ \E k \in Target(job[j].loop, job[j].point) :
                /\ Unmounted(k)
                /\ \/ Goes(j, "detach") /\ UNCHANGED <<broken, undone>>
                   \/ Ends(j) /\ broken' = broken \cup {k} /\ undone' = TRUE
       \/ Ends(j) /\ UNCHANGED <<disk, broken, undone>>
    /\ UNCHANGED <<root, state, met, orphaned>>

Detach(j) ==
    /\ job[j].pc = "detach"
    /\ DetachLoop(job[j].loop)
    /\ Goes(j, "forget")
    /\ UNCHANGED <<root, state, met, undone, orphaned>>

\* Mutant: the state stays.
Forget_Keeps(j) ==
    /\ job[j].pc = "forget"
    /\ Ends(j)
    /\ UNCHANGED <<root, disk, state, ghosts>>

\* unmount_done, and the end of image_mounter_unmount_managed_sync.
Forget(j) ==
    /\ job[j].pc = "forget"
    /\ state' = [state EXCEPT ![job[j].image] = NoState]
    /\ Ends(j)
    /\ UNCHANGED <<root, disk, ghosts>>

----------------------------------------------------------------------------
(* The scan of the drives *)

\* list_managed_mounts reads a state and the table of mounts.
Scan(j, i) ==
    /\ job[j] = Idle
    /\ state[i] # NoState /\ ~Active(state[i].point)
    /\ job' = [job EXCEPT ![j] = [Idle EXCEPT !.pc = "unlink", !.image = i]]
    /\ Meets(i)
    /\ UNCHANGED <<root, disk, state, broken, undone, orphaned>>

Unlink(j) ==
    /\ job[j].pc = "unlink"
    /\ state' = [state EXCEPT ![job[j].image] = NoState]
    /\ Ends(j)
    /\ UNCHANGED <<root, disk, ghosts>>

----------------------------------------------------------------------------
(* Around the filer *)

\* The parent of a progress dialog is destroyed, and the dialog with it: the
\* filer takes input again while the job runs.
ParentGone(j) ==
    /\ job[j].dialog
    /\ job' = [job EXCEPT ![j].dialog = FALSE]
    /\ UNCHANGED <<root, disk, state, ghosts>>

\* A mount is undone outside the filer; its loop stays.
Outside(l) ==
    /\ mount[l] # None
    /\ Unmounted(l)
    /\ broken' = broken \cup {l}
    /\ undone' = TRUE
    /\ UNCHANGED <<root, state, job, met, orphaned>>

\* The filer dies; the files and the devices stay.
Crash ==
    /\ \E j \in Jobs : job[j] # Idle
    /\ job' = [j \in Jobs |-> Idle]
    /\ broken' = broken \cup {l \in Loops : \E j \in Jobs : job[j].loop = l}
    /\ undone' = (undone \/ \E j \in Jobs : job[j].pc \in {"detach", "forget"})
    /\ orphaned' = (orphaned \/ \E j \in Jobs : job[j].pc = "forget")
    /\ UNCHANGED <<root, disk, state, met>>

JobAction(j) ==
    \/ \E i \in Images : Mount(j, i) \/ Unmount(j, i) \/ Scan(j, i)
    \/ Setup(j) \/ Choose(j) \/ MountBlock(j) \/ Save(j) \/ Abort(j)
    \/ Rollback(j) \/ Drop(j) \/ Umount(j) \/ Detach(j) \/ Forget(j)
    \/ Unlink(j) \/ ParentGone(j)

Next ==
    \/ \E j \in Jobs : JobAction(j)
    \/ \E i \in Images : Stale(i)
    \/ \E l \in Loops : Outside(l)
    \/ Crash

Spec == Init /\ [][Next]_vars

----------------------------------------------------------------------------
(* Properties *)

TypeOK ==
    /\ {root, met, undone, orphaned} \subseteq BOOLEAN
    /\ loop \in [Loops -> Images \cup {None}]
    /\ mount \in [Loops -> Points \cup {None}]
    /\ lazy \subseteq Loops
    /\ state \in [Images -> States \cup {NoState}]
    /\ broken \subseteq Loops
    /\ job \in [Jobs -> [pc : Steps, image : Images \cup {None},
                         loop : Loops \cup {None}, point : Points \cup {None},
                         dialog : BOOLEAN]]

\* No two jobs of one image have overlapped; and nothing was undone behind the
\* filer's back that lets a state look alive by another's mount: under udisks a
\* mount, whose name is used again; as root, where images have one name, the loop
\* device of a state that a death has left.
TellApart == \A i, k \in Images : BaseName[i] = BaseName[k] => i = k

Orderly == ~met /\ (~undone \/ (root /\ (~orphaned \/ TellApart)))

Holds(j, l) == job[j].loop = l

\* No way through a job forgets a loop device it attached: one that is
\* attached is mounted, or a job has it in hand, or a command failed on it.
NoLoopForgotten ==
    \A l \in Loops : loop[l] # None =>
        mount[l] # None \/ l \in broken \/ \E j \in Jobs : Holds(j, l)

\* An image mounted by the filer can be unmounted from it: its state says so,
\* as long as jobs on one image do not meet and no command fails half-way.
MountedIsManaged ==
    Orderly => \A l \in Loops : mount[l] # None =>
        \/ l \in broken
        \/ \E j \in Jobs : Holds(j, l)
        \/ /\ loop[l] # None
           /\ state[loop[l]] = [loop |-> l, point |-> mount[l]]

\* What a state that looks alive names is the mount of its own image, until
\* its unmounting has it forgotten: the filer does not open or unmount another
\* image in its place, one of the same name included.
StateNamesItsImage ==
    Orderly => \A i \in Images : Active(state[i].point) =>
        \/ loop[state[i].loop] = i /\ mount[state[i].loop] = state[i].point
        \/ \E j \in Jobs : job[j].image = i /\ job[j].pc \in {"detach", "forget"}

\* image_mounter_is_mounted "Returns TRUE only for mounts created by Rox-Filer2
\* which are still active" (image_mounter.h:42): an image that is called mounted
\* is.  The code fails this: between losetup -d and the removal of the state, an
\* image of the same name may be mounted at the same place.
MountedIsItself ==
    root /\ ~met /\ ~undone => \A i \in Images : Active(state[i].point) =>
        \E l \in Loops : loop[l] = i /\ mount[l] = state[i].point

=============================================================================
