--------------------------- MODULE DrivesMonitor ---------------------------
(***************************************************************************)
(* The one scan of the drives that all windows share (drives_monitor.c),   *)
(* its subscribers (the lists of modern_ui.c and drives.c) and the drive   *)
(* icons of the desktop (desktop.c).  Handlers of the main loop are atomic; *)
(* the scan runs in a thread beside them.                                  *)
(***************************************************************************)
EXTENDS Naturals

CONSTANTS
    Worlds,     \* what rox_drives_read may find: devices, mounts, labels
    Signature,  \* [Worlds -> what the desktop compares of them]
    Lists,      \* Devices lists and Partitions popovers, each with an owner widget
    Desktop,    \* the desktop window, also a subscriber
    Nothing, Reading, Failed,
    MaxChanges, MaxSettings   \* bounds: changes of the drives and of the settings

Owners == Lists \cup {Desktop}

ASSUME DrivesMonitorAssumption ==
    /\ Desktop \notin Lists
    /\ {Nothing, Reading, Failed} \cap Worlds = {}
    /\ Nothing # Reading /\ Nothing # Failed /\ Reading # Failed
    /\ Signature \in [Worlds -> Worlds]
    /\ MaxChanges \in Nat /\ MaxSettings \in Nat

VARIABLES
    world,            \* the drives as they are
    event,            \* GVolumeMonitor or the USB monitor has something to say
    missed,           \* the drives changed without an event since the last scan read them
    request_pending,  \* and request_scan_in_main is queued
    scan,             \* scan_running: Nothing, Reading, or the result waiting for scan_done
    failed,           \* the last scan that was done failed
    scan_again, initialized, poll_source,
    snapshot,         \* the last valid one, or Nothing
    alive,            \* owners that have not been destroyed
    subscribers,      \* owners in the array, dead ones until it is compacted
    shown,            \* [Owners -> the drives they show, or Nothing]
    drive_signature,  \* of the drives on the desktop, or Nothing
    show_volumes,     \* the desktop's settings: a number for any of them
    drawn,            \* the settings the desktop's icons were drawn with
    changes           \* bound

scanning == <<scan, failed, scan_again, snapshot>>
owners == <<alive, subscribers, poll_source, initialized>>
windows == <<shown, drive_signature, drawn>>
monitor_vars == <<world, event, missed, request_pending, scan, failed, scan_again, initialized,
                  poll_source, snapshot, alive, subscribers, shown, drive_signature,
                  show_volumes, drawn, changes>>

MonitorInit ==
    /\ world \in Worlds /\ event = FALSE /\ missed = TRUE /\ request_pending = FALSE
    /\ scan = Nothing /\ failed = FALSE /\ scan_again = FALSE /\ snapshot = Nothing
    /\ initialized = FALSE /\ poll_source = FALSE /\ alive = {} /\ subscribers = {}
    /\ shown = [o \in Owners |-> Nothing] /\ drive_signature = Nothing
    /\ show_volumes = 0 /\ drawn = 0 /\ changes = 0

-----------------------------------------------------------------------------
(* Helpers.                                                                *)

\* mutant: a change that comes during a scan is forgotten
start_scan_Once == scan' = (IF scan = Nothing THEN Reading ELSE scan) /\ UNCHANGED scan_again

start_scan ==
    IF scan # Nothing
    THEN scan_again' = TRUE /\ UNCHANGED scan
    ELSE scan' = Reading /\ UNCHANGED scan_again

\* compact_subscribers leaves Live in the array; update_poll_state
Live == subscribers \cap alive
compact_subscribers == subscribers' = Live

\* mutant: the timer is armed by the first subscriber of all, and never again
update_poll_state_Once(subs) == poll_source' = (subs # {} /\ (poll_source \/ ~initialized))

update_poll_state(subs) == poll_source' = (subs # {})

\* what the owners in S show once their callbacks have been given d, the desktop's
\* having compared signature sig
Told(S, d, sig) ==
    LET rebuild == Desktop \in S /\ sig # Signature[d]
    IN  /\ shown' = [o \in Owners |->
              IF o \in S /\ (o = Desktop => rebuild) THEN d ELSE shown[o]]
        /\ drive_signature' = IF rebuild THEN Signature[d] ELSE sig
        /\ drawn' = IF rebuild THEN show_volumes ELSE drawn

-----------------------------------------------------------------------------
(* Outside.                                                                *)

\* A device comes or goes, is mounted, named anew; GIO may not notice.
Change(w, noticed) ==
    /\ changes < MaxChanges /\ w # world
    /\ world' = w /\ changes' = changes + 1
    /\ IF noticed /\ initialized
       THEN event' = TRUE /\ UNCHANGED missed
       ELSE missed' = TRUE /\ UNCHANGED event
    /\ UNCHANGED <<request_pending, scanning, owners, windows, show_volumes>>

\* Rox mounts or unmounts something itself and says so, in whatever thread
\* (rox_drives_monitor_request_scan)
ChangeAndRequest(w) ==
    /\ changes < MaxChanges /\ w # world
    /\ world' = w /\ changes' = changes + 1
    /\ request_pending' = TRUE
    /\ UNCHANGED <<event, missed, scanning, owners, windows, show_volumes>>

-----------------------------------------------------------------------------
(* The scan.                                                               *)

request_scan_in_main ==
    /\ request_pending
    /\ request_pending' = FALSE
    /\ initialized' = TRUE
    /\ start_scan
    /\ UNCHANGED <<world, event, missed, failed, snapshot, alive, subscribers, poll_source,
                   windows, show_volumes, changes>>

\* volume_changed, usb_changed
volume_changed ==
    /\ event
    /\ event' = FALSE
    /\ compact_subscribers
    /\ IF Live # {} THEN start_scan ELSE UNCHANGED <<scan, scan_again>>
    /\ UNCHANGED <<world, missed, request_pending, failed, snapshot, alive, poll_source,
                   initialized, windows, show_volumes, changes>>

poll_cb ==
    /\ poll_source
    /\ compact_subscribers
    /\ IF Live # {} THEN start_scan ELSE UNCHANGED <<scan, scan_again>>
    /\ update_poll_state(Live)
    /\ UNCHANGED <<world, event, missed, request_pending, failed, snapshot, alive,
                   initialized, windows, show_volumes, changes>>

\* scan_thread: rox_drives_read may time out, or find the child reaper busy
scan_thread(result) ==
    /\ scan = Reading /\ result \in {world, Failed}
    /\ scan' = result
    /\ missed' = IF result = Failed THEN missed ELSE FALSE
    /\ UNCHANGED <<world, event, request_pending, failed, scan_again, snapshot, owners,
                   windows, show_volumes, changes>>

\* Subscribers hear of drives that are not those of the last snapshot, and of
\* failures, which leave what they show alone.
scan_done ==
    /\ scan \notin {Nothing, Reading}
    /\ IF scan_again THEN scan' = Reading ELSE scan' = Nothing
    /\ scan_again' = FALSE
    /\ failed' = (scan = Failed)
    /\ snapshot' = IF scan = Failed THEN snapshot ELSE scan
    /\ IF scan \notin {Failed, snapshot}
       THEN Told(Live, scan, drive_signature) ELSE UNCHANGED windows
    /\ IF scan # snapshot
       THEN compact_subscribers /\ update_poll_state(Live)
       ELSE UNCHANGED <<subscribers, poll_source>>
    /\ UNCHANGED <<world, event, missed, request_pending, alive, initialized, show_volumes,
                   changes>>

-----------------------------------------------------------------------------
(* Subscribers.                                                            *)

\* mutant: only the first subscriber needs the snapshot
GivesSnapshot_First == snapshot # Nothing /\ Live = {}

GivesSnapshot == snapshot # Nothing

NeedsScan(first_live) == snapshot = Nothing \/ first_live

\* rox_drives_monitor_subscribe by a new list, or by the desktop as it opens
Subscribe(o) ==
    /\ o \notin alive
    /\ alive' = alive \cup {o}
    /\ initialized' = TRUE
    /\ subscribers' = Live \cup {o}
    /\ update_poll_state(subscribers')
    /\ IF GivesSnapshot
       THEN Told({o}, snapshot, IF o = Desktop THEN Nothing ELSE drive_signature)
       ELSE UNCHANGED windows
    /\ IF NeedsScan(Live = {}) THEN start_scan ELSE UNCHANGED <<scan, scan_again>>
    /\ UNCHANGED <<world, event, missed, request_pending, failed, snapshot, show_volumes,
                   changes>>

\* by one that has subscribed already
SubscribeAgain(o) ==
    /\ o \in Lists \cap Live
    /\ compact_subscribers /\ update_poll_state(Live)
    /\ IF snapshot # Nothing THEN Told({o}, snapshot, drive_signature) ELSE UNCHANGED windows
    /\ UNCHANGED <<world, event, missed, request_pending, scanning, alive, initialized,
                   show_volumes, changes>>

\* the widget is finalised: its weak reference is cleared, its record stays
Destroy(o) ==
    /\ o \in alive
    /\ alive' = alive \ {o}
    /\ shown' = [shown EXCEPT ![o] = Nothing]
    /\ drive_signature' = IF o = Desktop THEN Nothing ELSE drive_signature
    /\ UNCHANGED <<world, event, missed, request_pending, scanning, subscribers,
                   poll_source, initialized, show_volumes, drawn, changes>>

\* desktop_menu_show_drives and the like: save, and desktop_force_drive_refresh
ChangeSettings ==
    /\ Desktop \in alive /\ show_volumes < MaxSettings
    /\ show_volumes' = show_volumes + 1
    /\ drive_signature' = Nothing
    /\ request_pending' = TRUE
    /\ UNCHANGED <<world, event, missed, scanning, owners, shown, drawn, changes>>

MainLoop == request_scan_in_main \/ volume_changed \/ scan_done

MonitorNext ==
    \/ MainLoop \/ poll_cb \/ ChangeSettings
    \/ \E w \in Worlds : ChangeAndRequest(w) \/ \E noticed \in BOOLEAN : Change(w, noticed)
    \/ \E result \in Worlds \cup {Failed} : scan_thread(result)
    \/ \E o \in Owners : Subscribe(o) \/ SubscribeAgain(o) \/ Destroy(o)

MonitorSpec == MonitorInit /\ [][MonitorNext]_monitor_vars

-----------------------------------------------------------------------------
\* Types; a scan is asked for again only while one runs, and the desktop's signature
\* is of a desktop that is there.
MonitorTypeOK ==
    /\ world \in Worlds /\ snapshot \in Worlds \cup {Nothing}
    /\ scan \in Worlds \cup {Nothing, Reading, Failed}
    /\ event \in BOOLEAN /\ missed \in BOOLEAN /\ request_pending \in BOOLEAN
    /\ failed \in BOOLEAN /\ scan_again \in BOOLEAN /\ initialized \in BOOLEAN
    /\ poll_source \in BOOLEAN
    /\ alive \subseteq Owners /\ subscribers \subseteq Owners
    /\ shown \in [Owners -> Worlds \cup {Nothing}]
    /\ drive_signature \in Worlds \cup {Nothing}
    /\ show_volumes \in 0..MaxSettings /\ drawn \in 0..MaxSettings
    /\ changes \in 0..MaxChanges
    /\ scan_again => scan # Nothing
    /\ Desktop \notin alive => drive_signature = Nothing

\* Whoever watches shows what the last scan found: the callback that is not made when
\* nothing changed leaves nobody behind, however late he came and whatever failed.  The
\* desktop shows it up to its signature.
ShownIsSnapshot ==
    snapshot # Nothing =>
        /\ \A o \in Lists \cap alive : shown[o] = snapshot
        /\ Desktop \in alive =>
              /\ shown[Desktop] # Nothing
              /\ Signature[shown[Desktop]] = Signature[snapshot]

Quiet == /\ scan = Nothing /\ ~event /\ ~request_pending
         /\ ~missed /\ ~failed

\* A change or a request that comes while a scan runs, is queued, or while nobody
\* watches is not lost: once somebody watches and all is quiet the snapshot is right.
QuietMeansFresh == Quiet /\ Live # {} => snapshot = world

\* drives_monitor.c:8: the timer is the safety net for what GIO does not report, so
\* it runs as long as anybody watches.
PollWhileWatched == alive # {} => poll_source

\* desktop.c:5801, README-ROX-DESKTOP-BASE.md:137-139: settings are effective
\* immediately, that is as soon as the refresh they ask for is through.
DesktopFollowsSettings ==
    Quiet /\ Desktop \in alive /\ snapshot # Nothing => drawn = show_volumes

\* README-ROX-DESKTOP-BASE.md:123: the desktop uses the same model of the drives as
\* the Partitions button; so when all is quiet it shows the drives as they are.
DesktopFollowsDrives == Quiet /\ Desktop \in alive => shown[Desktop] = world

\* The main loop serves its sources and the timer fires again and again; a thread
\* comes to its end (its helpers have timeouts), and not every scan fails.
Fairness ==
    /\ WF_monitor_vars(request_scan_in_main) /\ WF_monitor_vars(volume_changed)
    /\ WF_monitor_vars(scan_done) /\ WF_monitor_vars(poll_cb)
    /\ WF_monitor_vars(scan_thread(Failed) \/ scan_thread(world))
    /\ SF_monitor_vars(scan_thread(world))

FairSpec == MonitorSpec /\ Fairness

\* A list that stays comes to show the drives as they are, even if GIO misses every
\* change and scans fail now and then.
Converges == \A o \in Lists : <>[](o \in alive) => <>[](shown[o] = world)
=============================================================================
