------------------------------- MODULE Trash -------------------------------
(***************************************************************************)
(* The Trash of ROX-Filer2 (trash.c) as its processes use it at once: the  *)
(* filer and the desktop each move files into it, restore them and empty   *)
(* it, step by step on the shared directories Trash/files and Trash/info,  *)
(* and may die between two steps.                                          *)
(*                                                                         *)
(* All modelled files have the same base name, so that they compete for    *)
(* the names base, base.1, base.2 ... (the slots 0, 1, 2 ...).             *)
(*                                                                         *)
(* On one file system g_file_move is taken to be one step, in which what   *)
(* is at the target already makes it fail (G_FILE_COPY_NONE); how GIO and  *)
(* the kernel see to that is outside this program.                         *)
(***************************************************************************)
EXTENDS Naturals

CONSTANTS
    Procs,      \* processes of the filer
    Paths,      \* the original places, all with the same base name
    Far,        \* those on another file system than the Trash
    Contents,   \* contents of files
    Slots,      \* bound: names tried in the Trash
    None

ASSUME FarAssumption == Far \subseteq Paths
ASSUME SlotsAssumption == Slots \subseteq Nat
ASSUME NoneAssumption == None \notin Contents \cup Paths \cup Slots

VARIABLES
    home,       \* [Paths -> content or None]
    files,      \* Trash/files: [Slots -> content or None]
    info,       \* Trash/info: [Slots -> the path it names, or None]
    fresh,      \* contents not written yet
    op,         \* what each process is doing
    origin,     \* ghost: where each content was moved to the Trash from
    clashed     \* ghost: two operations met on one slot or met an emptying, or a
                \* copying move left its source

vars == <<home, files, info, fresh, op, origin, clashed>>

PutBack == {"put", "moved", "forget"}
Emptying == {"files", "infos"}
Steps == {"idle", "look", "write", "move", "copied", "undo", "confirm"}
         \cup PutBack \cup Emptying

NoOp == [pc |-> "idle", path |-> None, slot |-> None, what |-> None, todo |-> {}]

Init ==
    /\ home \in [Paths -> Contents \cup {None}]
    /\ \A p, q \in Paths : home[p] = home[q] /\ home[p] # None => p = q
    /\ fresh = {c \in Contents : \A p \in Paths : home[p] # c}
    /\ files = [s \in Slots |-> None] /\ info = [s \in Slots |-> None]
    /\ op = [q \in Procs |-> NoOp]
    /\ origin = [c \in Contents |-> None]
    /\ clashed = FALSE

Used == {s \in Slots : files[s] # None}
Named == {s \in Slots : info[s] # None}

\* Another process works on slot s, or empties the Trash.
Clashes(q, s) ==
    \E o \in Procs \ {q} : op[o].slot = s \/ op[o].pc \in Emptying

Goes(q, pc) == op' = [op EXCEPT ![q].pc = pc]
Ends(q) == op' = [op EXCEPT ![q] = NoOp]

\* The user writes a new file.
Create(p, c) ==
    /\ home[p] = None /\ c \in fresh
    /\ home' = [home EXCEPT ![p] = c]
    /\ fresh' = fresh \ {c}
    /\ UNCHANGED <<files, info, op, origin, clashed>>

----------------------------------------------------------------------------
(* rox_trash_file *)

\* g_file_trash does it all: GIO creates the information exclusively.
GioTrash(q, p, s) ==
    /\ op[q].pc = "idle" /\ home[p] # None
    /\ s \notin Used \cup Named
    /\ home' = [home EXCEPT ![p] = None]
    /\ files' = [files EXCEPT ![s] = home[p]]
    /\ info' = [info EXCEPT ![s] = p]
    /\ origin' = [origin EXCEPT ![home[p]] = p]
    /\ clashed' = (clashed \/ Clashes(q, s))
    /\ UNCHANGED <<fresh, op>>

\* g_file_trash is not supported here: the filer does it itself.
Begin(q, p) ==
    /\ op[q].pc = "idle" /\ home[p] # None
    /\ op' = [op EXCEPT ![q] = [NoOp EXCEPT !.pc = "look", !.path = p]]
    /\ UNCHANGED <<home, files, info, fresh, origin, clashed>>

\* unique_trash_name: the first name that neither directory has.
IsFree(s) == s \notin Used /\ s \notin Named

Look(q) ==
    /\ op[q].pc = "look"
    /\ \E s \in Slots :
          /\ IsFree(s) /\ \A t \in Slots : t < s => ~IsFree(t)
          /\ op' = [op EXCEPT ![q].pc = "write", ![q].slot = s]
          /\ clashed' = (clashed \/ Clashes(q, s))
    /\ UNCHANGED <<home, files, info, fresh, origin>>

\* g_file_set_contents replaces the information that may be there by now; it
\* may fail.
WriteInfo(q) ==
    /\ op[q].pc = "write"
    /\ \/ info' = [info EXCEPT ![op[q].slot] = op[q].path] /\ Goes(q, "move")
       \/ info' = info /\ Ends(q)
    /\ UNCHANGED <<home, files, fresh, origin, clashed>>

\* Mutant: G_FILE_COPY_OVERWRITE.
Moves_Over(q) ==
    LET p == op[q].path
        s == op[q].slot
    IN  /\ home[p] # None
        /\ files' = [files EXCEPT ![s] = home[p]]
        /\ origin' = [origin EXCEPT ![home[p]] = p]
        /\ IF p \in Far
           THEN /\ op' = [op EXCEPT ![q].pc = "copied", ![q].what = home[p]]
                /\ home' = home
           ELSE home' = [home EXCEPT ![p] = None] /\ Ends(q)

\* g_file_move without overwriting: a rename, or a copy to the file system of
\* the Trash whose source goes later.
Moves(q) ==
    LET p == op[q].path
        s == op[q].slot
    IN  /\ home[p] # None /\ files[s] = None
        /\ files' = [files EXCEPT ![s] = home[p]]
        /\ origin' = [origin EXCEPT ![home[p]] = p]
        /\ IF p \in Far
           THEN /\ op' = [op EXCEPT ![q].pc = "copied", ![q].what = home[p]]
                /\ home' = home
           ELSE home' = [home EXCEPT ![p] = None] /\ Ends(q)

Move(q) ==
    /\ op[q].pc = "move"
    /\ \/ Moves(q)
       \/ Goes(q, "undo") /\ UNCHANGED <<home, files, origin>>
    /\ UNCHANGED <<info, fresh, clashed>>

\* The end of a copying move: whatever has the path now is removed.
DropSource(q) ==
    /\ op[q].pc = "copied"
    /\ \/ /\ home[op[q].path] # None
          /\ home' = [home EXCEPT ![op[q].path] = None]
          /\ Ends(q)
          /\ UNCHANGED clashed
       \/ home' = home /\ Goes(q, "undo") /\ clashed' = TRUE
    /\ UNCHANGED <<files, info, fresh, origin>>

\* The move failed: g_unlink of the information.
Undo(q) ==
    /\ op[q].pc = "undo"
    /\ info' = [info EXCEPT ![op[q].slot] = None]
    /\ Ends(q)
    /\ UNCHANGED <<home, files, fresh, origin, clashed>>

----------------------------------------------------------------------------
(* restore_one *)

\* Mutant: the number that made the name unique is lost.
Read_Base(q, s) ==
    /\ op[q].pc = "idle" /\ s \in Used \cap Named
    /\ \E t \in Named : op' = [op EXCEPT ![q] = [NoOp EXCEPT !.pc = "put",
                                             !.path = info[t], !.slot = s]]
    /\ clashed' = (clashed \/ Clashes(q, s))
    /\ UNCHANGED <<home, files, info, fresh, origin>>

\* original_path_for_name.
Read(q, s) ==
    /\ op[q].pc = "idle" /\ s \in Used \cap Named
    /\ op' = [op EXCEPT ![q] = [NoOp EXCEPT !.pc = "put", !.path = info[s], !.slot = s]]
    /\ clashed' = (clashed \/ Clashes(q, s))
    /\ UNCHANGED <<home, files, info, fresh, origin>>

\* The tests of the original place and g_file_move; the information stays
\* when they fail.
Put(q) ==
    LET p == op[q].path
        s == op[q].slot
    IN  /\ op[q].pc = "put"
        /\ \/ /\ files[s] # None /\ home[p] = None
              /\ home' = [home EXCEPT ![p] = files[s]]
              /\ IF p \in Far
                 THEN /\ op' = [op EXCEPT ![q].pc = "moved", ![q].what = files[s]]
                      /\ files' = files
                 ELSE files' = [files EXCEPT ![s] = None] /\ Goes(q, "forget")
           \/ Ends(q) /\ UNCHANGED <<home, files>>
        /\ UNCHANGED <<info, fresh, origin, clashed>>

\* The end of a copying move out of the Trash.
DropTrashed(q) ==
    LET s == op[q].slot
    IN  /\ op[q].pc = "moved"
        /\ \/ files[s] # None /\ files' = [files EXCEPT ![s] = None] /\ Goes(q, "forget")
           \/ files' = files /\ Ends(q)
        /\ UNCHANGED <<home, info, fresh, origin, clashed>>

Forget(q) ==
    /\ op[q].pc = "forget"
    /\ info' = [info EXCEPT ![op[q].slot] = None]
    /\ Ends(q)
    /\ UNCHANGED <<home, files, fresh, origin, clashed>>

----------------------------------------------------------------------------
(* rox_trash_empty *)

Ask(q) ==
    /\ op[q].pc = "idle" /\ Used # {}
    /\ op' = [op EXCEPT ![q] = [NoOp EXCEPT !.pc = "confirm"]]
    /\ UNCHANGED <<home, files, info, fresh, origin, clashed>>

Confirm(q) ==
    /\ op[q].pc = "confirm"
    /\ \/ /\ op' = [op EXCEPT ![q].pc = "files", ![q].todo = Used]
          /\ clashed' = (clashed \/ \E o \in Procs \ {q} :
                                       op[o].pc \notin {"idle", "look", "confirm"})
       \/ Ends(q) /\ UNCHANGED clashed
    /\ UNCHANGED <<home, files, info, fresh, origin>>

\* empty_directory of the files: one entry, which may resist; an entry that
\* came after the directory was opened may be met or not.
DeleteFile(q, s) ==
    /\ op[q].pc = "files" /\ s \in op[q].todo \cup Used
    /\ files' \in {files, [files EXCEPT ![s] = None]}
    /\ op' = [op EXCEPT ![q].todo = @ \ {s}]
    /\ UNCHANGED <<home, info, fresh, origin, clashed>>

\* Mutant: the information goes though a file has resisted.
MaySweep_Always == TRUE

\* Only an empty Trash loses its information.
MaySweep == Used = {}

EndFiles(q) ==
    /\ op[q].pc = "files" /\ op[q].todo = {}
    /\ IF MaySweep
       THEN op' = [op EXCEPT ![q].pc = "infos", ![q].todo = Named]
       ELSE Ends(q)
    /\ UNCHANGED <<home, files, info, fresh, origin, clashed>>

DeleteInfo(q, s) ==
    /\ op[q].pc = "infos" /\ s \in op[q].todo
    /\ info' \in {info, [info EXCEPT ![s] = None]}
    /\ op' = [op EXCEPT ![q].todo = @ \ {s}]
    /\ UNCHANGED <<home, files, fresh, origin, clashed>>

EndInfos(q) ==
    /\ op[q].pc = "infos" /\ op[q].todo = {}
    /\ Ends(q)
    /\ UNCHANGED <<home, files, info, fresh, origin, clashed>>

\* The process dies between two steps.
Crash(q) ==
    /\ op[q].pc # "idle"
    /\ Ends(q)
    /\ UNCHANGED <<home, files, info, fresh, origin, clashed>>

----------------------------------------------------------------------------
ProcAction(q) ==
    \/ \E p \in Paths : Begin(q, p) \/ \E s \in Slots : GioTrash(q, p, s)
    \/ Look(q) \/ WriteInfo(q) \/ Move(q) \/ DropSource(q) \/ Undo(q)
    \/ Put(q) \/ DropTrashed(q) \/ Forget(q)
    \/ Ask(q) \/ Confirm(q) \/ EndFiles(q) \/ EndInfos(q)
    \/ \E s \in Slots : Read(q, s) \/ DeleteFile(q, s) \/ DeleteInfo(q, s)
    \/ Crash(q)

Next ==
    \/ \E q \in Procs : ProcAction(q)
    \/ \E p \in Paths, c \in Contents : Create(p, c)

Spec == Init /\ [][Next]_vars

----------------------------------------------------------------------------
(* Properties *)

\* Types, and which step leaves which field of an operation set.
TypeOK ==
    /\ home \in [Paths -> Contents \cup {None}]
    /\ files \in [Slots -> Contents \cup {None}]
    /\ info \in [Slots -> Paths \cup {None}]
    /\ fresh \subseteq Contents
    /\ origin \in [Contents -> Paths \cup {None}]
    /\ clashed \in BOOLEAN
    /\ op \in [Procs -> [pc : Steps, path : Paths \cup {None}, slot : Slots \cup {None},
                         what : Contents \cup {None}, todo : SUBSET Slots]]
    /\ \A q \in Procs :
          /\ op[q].pc \in {"look", "write", "move", "copied", "undo"} \cup PutBack
                => op[q].path # None
          /\ op[q].pc \in {"write", "move", "copied", "undo"} \cup PutBack
                => op[q].slot # None

Held(f, S) == {c \in Contents : \E x \in S : f[x] = c}
AtHome == Held(home, Paths)
InTrash == Held(files, Slots)

\* A copying move will remove something else than what it copied, or what it
\* copied is not there any more.
Disturbed(q) ==
    LET p == op[q].path
        s == op[q].slot
    IN  /\ op[q].pc \in {"copied", "moved"}
        /\ home[p] # op[q].what \/ files[s] # op[q].what

\* The detailed steps implement the promise of the Trash: whatever the
\* processes do at once and wherever they die, a content is destroyed only by
\* an emptying that found it in the Trash (or by a disturbed copying move).
Store == INSTANCE TrashStore WITH
    home <- AtHome, trash <- InTrash,
    emptying <- \E q \in Procs : op[q].pc = "files",
    disturbed <- \E q \in Procs : Disturbed(q)

IsStore == Store!Spec

\* The information is written before the file moves and goes after it: as
\* long as no two operations meet and no source resists its removal, whatever
\* is in the Trash has its information and that names the place it came from,
\* through failures, deaths and items that resist an emptying.
Restorable == ~clashed => \A s \in Used : info[s] = origin[files[s]]

\* Contents come back to the place they were taken from.
BackWhereItWas ==
    [][~clashed' =>
          \A p \in Paths : home'[p] # home[p] /\ home'[p] # None /\ home'[p] \notin fresh
              => p = origin[home'[p]]]_vars
=============================================================================
