------------------------------ MODULE CopyMove ------------------------------
(***************************************************************************)
(* What the child of a copy or a move does to the files (action.c): the     *)
(* conflict policy chosen before the fork, the classic engine that walks    *)
(* the sources with lstat, mkdir, cp and mv, the rsync engine, and what     *)
(* either leaves behind when a step fails or the operation is stopped.      *)
(*                                                                         *)
(* The trees are two deep: a source <<i>> is a file or a folder of files    *)
(* <<i, k>>, and so is what is at its destination. What matters of a file   *)
(* is which file it was to begin with. A symbolic link is a file here. The  *)
(* questions and flags on the way to the user are those of module Action.   *)
(***************************************************************************)
EXTENDS Naturals, Sequences, SequencesExt, FiniteSets

CONSTANTS
    N,     \* the operation is on the sources 1..N
    Kids,  \* names in the folders
    Leaf,  \* source |-> its leafname, which it keeps at the destination
    Folders  \* bound: the sources that may be folders

ASSUME CopyMoveAssumption == N \in Nat \ {0} /\ DOMAIN Leaf = 1..N /\ Folders \subseteq 1..N
\* Names are not taken for numbers, and a folder ends.
ASSUME NamesAssumption == (\A i \in 1..N : Leaf[i] \notin 1..N) /\ IsFiniteSet(Kids)

VARIABLES
    op,      \* the operation: [move, rsync, same, given]
    policy,  \* conflict_policy
    todo,    \* what the child has still to do, its call stack flattened
    src,     \* the sources
    dst,     \* the destination
    log      \* what it has reported and been told

vars == <<op, policy, todo, src, dst, log>>

Source == 1..N
Leaves == {Leaf[i] : i \in Source}
SrcPaths == {<<i>> : i \in Source} \cup (Source \X Kids)
DstPaths == {<<l>> : l \in Leaves} \cup (Leaves \X Kids)

None == <<"none">>
Dir == <<"dir">>
Part == <<"part">>
File(p) == <<"file", p>>  \* the whole of what was at p, p in SrcPaths or DstPaths

\* make_dest_path (action_leaf is one of the leafnames)
To(p) == <<Leaf[p[1]]>> \o Tail(p)

In(tree, p) == {q \in DOMAIN tree : Len(q) = 2 /\ q[1] = p[1] /\ tree[q] # None}
Empty(tree, p) == In(tree, p) = {}
IsTree(tree) == \A q \in DOMAIN tree : Len(q) = 2 /\ tree[q] # None => tree[<<q[1]>>] = Dir
Files(p) == {q \in SrcPaths : IsPrefix(p, q) /\ src[q] \notin {None, Dir}}
Merge(p) == src[p] = Dir /\ dst[To(p)] = Dir

Set(tree, S, v) == [q \in DOMAIN tree |-> IF q \in S THEN v ELSE tree[q]]
Landed(C) == [q \in DstPaths |->
    IF \E f \in C : To(f) = q THEN File(CHOOSE f \in C : To(f) = q) ELSE dst[q]]

Task(do, p) == [do |-> do, path |-> p]
Doing(do, p) == todo # <<>> /\ Head(todo).do = do /\ Head(todo).path = p
Then(tasks) == todo' = tasks \o Tail(todo)
Return == Then(<<>>)

Error == log' = [log EXCEPT !.errors = TRUE]
Agree(S) == log' = [log EXCEPT !.agreed = @ \cup S]
Decline(S) == log' = [log EXCEPT !.declined = @ \cup S]

-----------------------------------------------------------------------------
\* destination_has_conflicts: the first level only, and before the fork
Conflicts(tree) == \E i \in Source : tree[<<Leaf[i]>>] # None

\* choose_conflict_policy is asked of the user only if there is a conflict
Policies(tree) == IF Conflicts(tree) THEN {"ask", "replace", "skip", "newer"} ELSE {"replace"}

\* can_batch_rsync_copy: several sources, none of another kind than what is there
CanBatch ==
    /\ op.rsync /\ ~op.move /\ N > 1
    /\ \A i \in Source : dst[To(<<i>>)] = None \/ (src[<<i>>] = Dir) = (dst[To(<<i>>)] = Dir)

\* rsync_copy_list_cb, list_cb
Work ==
    IF CanBatch THEN <<Task("rsync", <<>>)>>
    ELSE [i \in Source |-> Task(IF op.rsync THEN "fast" ELSE "top", <<i>>)]

\* action_copy, action_move: rsync does not do the work if there may be questions
Init ==
    /\ src \in [SrcPaths -> {None, Dir} \cup {File(p) : p \in SrcPaths}]
    /\ \A p \in SrcPaths : src[p] \in {File(p)} \cup IF Len(p) = 2 THEN {None}
                                                ELSE IF p[1] \in Folders THEN {Dir} ELSE {}
    /\ dst \in [DstPaths -> {None, Dir} \cup {File(q) : q \in DstPaths}]
    /\ \A q \in DstPaths : dst[q] \in {File(q), None} \cup IF Len(q) = 1 THEN {Dir} ELSE {}
    /\ IsTree(src) /\ IsTree(dst)
    /\ policy \in Policies(dst)
    /\ op \in [move : BOOLEAN, rsync : IF policy = "ask" THEN {FALSE} ELSE BOOLEAN,
               same : BOOLEAN, given : {{p \in SrcPaths : src[p] \notin {None, Dir}}}]
    /\ todo = Work
    /\ log = [errors |-> FALSE, stopped |-> FALSE, agreed |-> {}, declined |-> {}]

-----------------------------------------------------------------------------
\* The classic engine.

\* do_copy, do_move: not into itself
Top(p) ==
    /\ Doing("top", p)
    /\ \/ Then(<<Task("item", p)>>) /\ UNCHANGED log
       \/ Return /\ Error
    /\ UNCHANGED <<op, policy, src, dst>>

\* the policies that pass over an existing destination without a question; newer is
\* what the comparison of the two times says
Skips(p, newer) ==
    \/ policy = "skip"
    \/ policy = "newer" /\ src[p] # Dir /\ ~newer

\* what goes on after the question, or without one
Placing(p) == (IF Merge(p) THEN <<>> ELSE <<Task("clear", p)>>) \o <<Task("put", p)>>

Existing_NoQuestion(p) ==  \* mutant: an existing destination is not asked about
    /\ Doing("item", p) /\ dst[To(p)] # None
    /\ \E newer \in BOOLEAN :
          \/ Skips(p, newer) /\ Return /\ Decline({p})
          \/ /\ ~Skips(p, newer) /\ Then(Placing(p))
             /\ IF policy = "ask" THEN UNCHANGED log ELSE Agree({To(p)})
    /\ UNCHANGED <<op, policy, src, dst>>

\* do_copy2, do_move2 when the destination exists
Existing(p) ==
    /\ Doing("item", p) /\ dst[To(p)] # None
    /\ \E newer \in BOOLEAN :
          \/ Skips(p, newer) /\ Return /\ Decline({p})
          \/ /\ ~Skips(p, newer) /\ policy \in {"replace", "newer"}
             /\ Then(Placing(p)) /\ Agree({To(p)})
          \/ /\ policy = "ask"
             /\ Then(<<Task("ask", p)>>) /\ UNCHANGED log
    /\ UNCHANGED <<op, policy, src, dst>>

\* ... and when it does not: a question unless quiet
Fresh(p) ==
    /\ Doing("item", p) /\ dst[To(p)] = None
    /\ \/ Then(<<Task("put", p)>>) /\ UNCHANGED log
       \/ Return /\ Decline({p})
    /\ UNCHANGED <<op, policy, src, dst>>

\* mc_lstat of the source fails
Unreadable(p) ==
    /\ Doing("item", p)
    /\ Return /\ Error
    /\ UNCHANGED <<op, policy, src, dst>>

Answer_SkipAll(p, c) ==  \* mutant: S returns TRUE as A does
    /\ Doing("ask", p)
    /\ policy' = CASE c = "A" -> "replace" [] c = "S" -> "skip" [] OTHER -> policy
    /\ IF c = "N" THEN Return ELSE Then(Placing(p))
    /\ IF c \in {"Y", "A"} THEN Agree({To(p)}) ELSE Decline({p})
    /\ UNCHANGED <<op, src, dst>>

\* printf_conflict_reply: A and S answer for the rest of the operation too
Answer(p, c) ==
    /\ Doing("ask", p)
    /\ policy' = CASE c = "A" -> "replace" [] c = "S" -> "skip" [] OTHER -> policy
    /\ IF c \in {"Y", "A"} THEN Then(Placing(p)) /\ Agree({To(p)})
                           ELSE Return /\ Decline({p})
    /\ UNCHANGED <<op, src, dst>>

Clear_Recursive(p) ==  \* mutant: the destination folder is taken for empty
    /\ Doing("clear", p)
    /\ dst' = [dst EXCEPT ![To(p)] = None]
    /\ Return
    /\ UNCHANGED <<op, policy, src, log>>

\* rmdir or unlink of what is at the destination; if somebody else has removed it
\* there is an error, and the child tries anyway
Clear(p) ==
    /\ Doing("clear", p)
    /\ \/ /\ Empty(dst, To(p)) \/ dst[To(p)] # Dir
          /\ dst' = [dst EXCEPT ![To(p)] = None]
          /\ Return
          /\ UNCHANGED log \/ Error
       \/ todo' = Tail(Tail(todo)) /\ Error /\ UNCHANGED dst
    /\ UNCHANGED <<op, policy, src>>

\* for_dir_contents: every item of the folder, in the order readdir gives; reading
\* the folder may fail, which is reported
Contents(p, after) ==
    \/ \E order \in SetToSeqs(In(src, p)) :
          Then([k \in DOMAIN order |-> Task("item", order[k])] \o after) /\ UNCHANGED log
    \/ Then(after) /\ Error

\* mkdir unless the folder is there, and then its contents
PutFolder(p) ==
    /\ Doing("put", p) /\ src[p] = Dir
    /\ op.move => dst[To(p)] = Dir
    /\ \/ /\ dst[To(p)] = Dir
          /\ Contents(p, IF op.move THEN <<Task("rmdir", p)>> ELSE <<>>)
          /\ UNCHANGED dst
       \/ /\ dst[To(p)] = None
          /\ dst' = [dst EXCEPT ![To(p)] = Dir]
          /\ Contents(p, <<>>)
       \/ dst[To(p)] = None /\ Return /\ Error /\ UNCHANGED dst
    /\ UNCHANGED <<op, policy, src>>

Cp_Silent(p) ==  \* mutant: the error of cp is not sent
    /\ Doing("put", p) /\ src[p] # Dir /\ ~op.move
    /\ Return
    /\ \E left \in {None, Part, File(p)} : dst' = [dst EXCEPT ![To(p)] = left]
    /\ UNCHANGED <<op, policy, src, log>>

\* tp_copy_file: cp may fail before, while or after it writes the file
Cp(p) ==
    /\ Doing("put", p) /\ src[p] # Dir /\ ~op.move
    /\ Return
    /\ \/ dst' = Landed({p}) /\ UNCHANGED log
       \/ \E left \in {None, Part, File(p)} : dst' = [dst EXCEPT ![To(p)] = left] /\ Error
    /\ UNCHANGED <<op, policy, src>>

\* mv -f of a file, or of a folder the destination has not: a rename, or between
\* file systems a copy of everything followed by a removal
Mv(p) ==
    /\ Doing("put", p) /\ op.move /\ ~Merge(p)
    /\ Return
    /\ \E ok \in BOOLEAN : \E C, R \in SUBSET Files(p) :
          /\ ok => C = Files(p) /\ R = C
          /\ R # {} => C = Files(p)
          /\ op.same /\ ~ok => C = {}
          /\ \E half \in SUBSET (Files(p) \ C) :
                /\ Cardinality(half) <= IF op.same THEN 0 ELSE 1
                /\ dst' = LET there == Set(Landed(C), {To(f) : f \in half}, Part)
                          IN  IF src[p] = Dir /\ (ok \/ ~op.same)
                              THEN [there EXCEPT ![To(p)] = Dir] ELSE there
          /\ src' = Set(src, IF ok THEN {p} \cup R ELSE R, None)
          /\ IF ok THEN UNCHANGED log ELSE Error
    /\ UNCHANGED <<op, policy>>

\* rmdir of a source whose contents have been moved: "If rmdir cannot delete the
\* directory because it is not empty it is probably because some files failed"
Rmdir(p) ==
    /\ Doing("rmdir", p)
    /\ Return
    /\ src' \in {src} \cup IF Empty(src, p) THEN {[src EXCEPT ![p] = None]} ELSE {}
    /\ UNCHANGED <<op, policy, dst, log>>

-----------------------------------------------------------------------------
\* The rsync engine.

\* do_move_fast leaves what is a rename to do_move2
Rename(p) ==
    /\ Doing("fast", p)
    /\ op.move /\ dst[To(p)] = None /\ op.same
    /\ Then(<<Task("item", p)>>)
    /\ UNCHANGED <<op, policy, src, dst, log>>

OtherKind(p) == dst[To(p)] # None /\ (src[p] = Dir) # (dst[To(p)] = Dir)

\* do_copy_fast, do_move_fast, run_rsync_operation: a file in the place of a folder
\* or the reverse is removed here
Fast(p) ==
    /\ Doing("fast", p)
    /\ ~(op.move /\ dst[To(p)] = None /\ op.same)
    /\ IF ~OtherKind(p)
       THEN Then(<<Task("rsync", p)>>) /\ UNCHANGED <<dst, log>>
       ELSE \E newer \in BOOLEAN :
               IF policy = "skip" \/ (policy = "newer" /\ ~newer)
               THEN Return /\ Decline({p}) /\ UNCHANGED dst
               ELSE \/ /\ Empty(dst, To(p)) \/ dst[To(p)] # Dir
                       /\ dst' = [dst EXCEPT ![To(p)] = None]
                       /\ Then(<<Task("rsync", p)>>) /\ Agree({To(p)})
                    \/ Return /\ Error /\ UNCHANGED dst
    /\ UNCHANGED <<op, policy, src>>

\* what rsync passes over: --ignore-existing, --update
PassedOver(F) ==
    LET There == {f \in F : dst[To(f)] # None}
    IN  CASE policy = "skip" -> {There} [] policy = "newer" -> SUBSET There [] OTHER -> {{}}

\* rsync -a --partial [--remove-source-files]: each file is written beside its
\* destination and renamed; an interrupted one is left there in part
Rsync(p) ==
    /\ Doing("rsync", p)
    /\ LET F == Files(p)
           Dirs == {q \in SrcPaths : IsPrefix(p, q) /\ src[q] = Dir}
       IN  \E ok \in BOOLEAN, P \in PassedOver(F) : \E C \in SUBSET (F \ P) : \E R \in SUBSET C :
              /\ ok => C = F \ P /\ (op.move => R = C)
              /\ ~op.move => R = {}
              /\ \E half \in SUBSET (F \ (P \cup C)) :
                    /\ Cardinality(half) <= 1
                    /\ dst' = Set(Set(Landed(C), {To(f) : f \in half}, Part),
                                  {To(q) : q \in Dirs}, Dir)
              /\ src' = Set(src, R, None)
              /\ log' = [log EXCEPT !.declined = @ \cup P,
                                    !.agreed = @ \cup {To(f) : f \in F \ P},
                                    !.errors = @ \/ ~ok]
              /\ Then(IF ok /\ op.move /\ src[p] = Dir THEN <<Task("prune", p)>> ELSE <<>>)
    /\ UNCHANGED <<op, policy>>

\* remove_empty_source_dirs
Prune(p) ==
    /\ Doing("prune", p)
    /\ Return
    /\ src' \in {src} \cup IF Empty(src, p) THEN {[src EXCEPT ![p] = None]} ELSE {}
    /\ UNCHANGED <<op, policy, dst, log>>

-----------------------------------------------------------------------------
\* the user stops the operation, which kills the child with cp, mv or rsync; what
\* these had done by then is what they may leave when they fail
Stop ==
    /\ todo # <<>>
    /\ todo' = <<>>
    /\ log' = [log EXCEPT !.stopped = TRUE]
    /\ UNCHANGED <<op, policy, src, dst>>

Over == todo = <<>> /\ UNCHANGED vars

Next ==
    \/ \E p \in SrcPaths :
          \/ Top(p) \/ Existing(p) \/ Fresh(p) \/ Unreadable(p)
          \/ \E c \in {"Y", "N", "A", "S"} : Answer(p, c)
          \/ Clear(p) \/ PutFolder(p) \/ Cp(p) \/ Mv(p) \/ Rmdir(p)
          \/ Rename(p) \/ Fast(p) \/ Prune(p)
    \/ \E p \in SrcPaths \cup {<<>>} : Rsync(p)
    \/ Stop
    \/ Over

Spec == Init /\ [][Next]_vars

-----------------------------------------------------------------------------
\* Types, and the two trees are trees: no file is ever in a folder that is not there.
TypeOK ==
    /\ op \in [move : BOOLEAN, rsync : BOOLEAN, same : BOOLEAN, given : SUBSET SrcPaths]
    /\ policy \in {"ask", "replace", "skip", "newer"}
    /\ \A k \in DOMAIN todo :
          todo[k].do \in {"top", "item", "ask", "clear", "put", "rmdir", "fast", "rsync", "prune"}
          /\ todo[k].path \in SrcPaths \cup {<<>>}
    /\ \A p \in SrcPaths : src[p] \in {None, Dir, File(p)}
    /\ \A q \in DstPaths : dst[q] \in {None, Dir, Part, File(q)} \cup {File(p) : p \in SrcPaths}
    /\ log.agreed \subseteq DstPaths /\ log.declined \subseteq SrcPaths
    /\ IsTree(src) /\ IsTree(dst)

At(p) ==
    {place \in {"source", "dest"} :
        IF place = "source" THEN src[p] = File(p) ELSE dst[To(p)] = File(p)}

T == INSTANCE Transfer WITH
        Sources <- SrcPaths, Olds <- DstPaths, move <- op.move,
        at <- [p \in SrcPaths |-> At(p)],
        kept <- {q \in DstPaths : dst[q] = File(q)},
        agreed <- log.agreed

\* The child keeps what module Transfer promises: no source is given up but for a
\* whole copy that stays, and nothing of the destination is lost that the user has
\* not agreed to lose, whatever fails and whenever the operation is stopped.
Transfers == T!TSpec

\* When the operation ends without an error and nobody stopped it, every file that
\* was not passed over by the policy or refused is at its destination, and is no
\* more at its source if it was moved: no failure goes unreported.
SilentMeansDone ==
    todo = <<>> /\ ~log.errors /\ ~log.stopped =>
        \A p \in op.given :
            \/ \E d \in log.declined : IsPrefix(d, p)
            \/ At(p) = IF op.move THEN {"dest"} ELSE {"source", "dest"}

\* What was passed over or refused stays as it was at the source, also when the
\* folder around it has been moved.
DeclinedIsLeft ==
    \A p \in op.given : (\E d \in log.declined : IsPrefix(d, p)) => At(p) = {"source"}
=============================================================================
