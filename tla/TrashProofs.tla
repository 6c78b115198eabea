---------------------------- MODULE TrashProofs ----------------------------
(* Type correctness of the Trash and its refinement of TrashStore, for any    *)
(* processes, places, contents and names.                                     *)
EXTENDS Trash, TLAPS

Op == [pc : Steps, path : Paths \cup {None}, slot : Slots \cup {None},
       what : Contents \cup {None}, todo : SUBSET Slots]

LEMMA NoOpType == NoOp \in Op
  BY DEF NoOp, Op, Steps

LEMMA TypeInit == Init => TypeOK
<1> SUFFICES ASSUME Init PROVE TypeOK
  OBVIOUS
<1>1. op \in [Procs -> Op] /\ \A q \in Procs : op[q].pc = "idle"
  BY NoOpType DEF Init, NoOp
<1>2. QED
  BY <1>1 DEF Init, TypeOK, Op, PutBack

\* An operation has the place and the slot that its step needs.
Sited(o) ==
    /\ o.pc \in {"look", "write", "move", "copied", "undo", "put", "moved", "forget"}
          => o.path # None
    /\ o.pc \in {"write", "move", "copied", "undo", "put", "moved", "forget"}
          => o.slot # None

OpsOK == op \in [Procs -> Op] /\ \A q \in Procs : Sited(op[q])

Places ==
    /\ home \in [Paths -> Contents \cup {None}]
    /\ files \in [Slots -> Contents \cup {None}]
    /\ info \in [Slots -> Paths \cup {None}]
    /\ fresh \subseteq Contents
    /\ origin \in [Contents -> Paths \cup {None}]
    /\ clashed \in BOOLEAN

LEMMA TypeParts ==
    /\ TypeOK => Places /\ OpsOK
    /\ Places' /\ OpsOK' => TypeOK'
<1>1. TypeOK => Places /\ OpsOK
  BY DEF TypeOK, Places, OpsOK, Sited, Op, PutBack
<1>2. Places' /\ OpsOK' => TypeOK'
  BY DEF TypeOK, Places, OpsOK, Sited, Op, PutBack
<1>. QED
  BY <1>1, <1>2

\* The process at work changes its own operation.
LEMMA OpsSet ==
    ASSUME OpsOK, NEW q \in Procs, NEW r \in Op, Sited(r), op' = [op EXCEPT ![q] = r]
    PROVE  OpsOK'
<1>1. op' \in [Procs -> Op]
  BY DEF OpsOK
<1>2. \A k \in Procs : op'[k] = IF k = q THEN r ELSE op[k]
  BY DEF OpsOK
<1>. QED
  BY <1>1, <1>2 DEF OpsOK

LEMMA OpsEnd ==
    ASSUME OpsOK, NEW q \in Procs, Ends(q)
    PROVE  OpsOK'
<1>1. Sited(NoOp)
  BY DEF Sited, NoOp
<1>. QED
  BY <1>1, NoOpType, OpsSet DEF Ends

\* A step that needs nothing new, from an operation that has its slot.
LEMMA OpsGo ==
    ASSUME OpsOK, NEW q \in Procs, NEW pc \in Steps, Goes(q, pc),
           op[q].path # None, op[q].slot # None
    PROVE  OpsOK'
<1>1. PICK r : r = [op[q] EXCEPT !.pc = pc]
  OBVIOUS
<1>2. op[q] \in Op
  BY DEF OpsOK
<1>3. r \in Op /\ r.path = op[q].path /\ r.slot = op[q].slot
  BY ONLY <1>1, <1>2, pc \in Steps DEF Op
<1>4. op' = [op EXCEPT ![q] = r]
  BY <1>1 DEF Goes
<1>5. Sited(r)
  BY <1>3 DEF Sited
<1>. QED
  BY <1>3, <1>4, <1>5, OpsSet

LEMMA HasSlot ==
    ASSUME OpsOK, NEW q \in Procs,
           op[q].pc \in {"write", "move", "copied", "undo", "put", "moved", "forget"}
    PROVE  /\ op[q].path \in Paths /\ op[q].path # None
           /\ op[q].slot \in Slots /\ op[q].slot # None
<1>1. op[q] \in Op /\ Sited(op[q])
  BY DEF OpsOK
<1>2. op[q].path # None /\ op[q].slot # None
  BY <1>1 DEF Sited
<1>. QED
  BY <1>1, <1>2 DEF Op

\* Emptying: what is left to do shrinks.
LEMMA OpsShrink ==
    ASSUME OpsOK, NEW q \in Procs, NEW s, op' = [op EXCEPT ![q].todo = @ \ {s}]
    PROVE  OpsOK'
<1>1. PICK r : r = [op[q] EXCEPT !.todo = @ \ {s}]
  OBVIOUS
<1>2. op[q] \in Op /\ Sited(op[q])
  BY DEF OpsOK
<1>3. r \in Op /\ r.pc = op[q].pc /\ r.path = op[q].path /\ r.slot = op[q].slot
  BY ONLY <1>1, <1>2 DEF Op
<1>4. op' = [op EXCEPT ![q] = r]
  BY <1>1
<1>5. Sited(r)
  BY <1>2, <1>3 DEF Sited
<1>. QED
  BY <1>3, <1>4, <1>5, OpsSet

LEMMA TypeStep == TypeOK /\ [Next]_vars => TypeOK'
<1> SUFFICES ASSUME Places, OpsOK, [Next]_vars PROVE Places' /\ OpsOK'
  BY TypeParts
<1>s. {"look", "write", "move", "copied", "undo", "confirm", "put", "moved", "forget",
       "files", "infos"} \subseteq Steps
  BY DEF Steps, PutBack, Emptying
<1>n. ASSUME NEW p \in Paths PROVE p # None
  BY NoneAssumption
<1>m. ASSUME NEW s \in Slots PROVE s # None
  BY NoneAssumption
<1>1. ASSUME NEW q \in Procs, NEW p \in Paths, Begin(q, p) PROVE Places' /\ OpsOK'
  <2>1. PICK r : r = [NoOp EXCEPT !.pc = "look", !.path = p]
    OBVIOUS
  <2>2. r \in Op /\ r.pc = "look" /\ r.path = p
    BY <2>1, <1>s, NoOpType DEF NoOp, Op
  <2>3. Sited(r)
    BY <2>2, <1>n DEF Sited
  <2>4. OpsOK'
    BY <1>1, <2>1, <2>2, <2>3, OpsSet DEF Begin
  <2>5. Places'
    BY <1>1 DEF Begin, Places
  <2>. QED
    BY <2>4, <2>5
<1>2. ASSUME NEW q \in Procs, NEW p \in Paths, NEW s \in Slots, GioTrash(q, p, s)
      PROVE  Places' /\ OpsOK'
  <2>1. home[p] \in Contents
    BY <1>2 DEF GioTrash, Places
  <2>2. home' \in [Paths -> Contents \cup {None}] /\ files' \in [Slots -> Contents \cup {None}]
    BY <1>2, <2>1 DEF GioTrash, Places
  <2>3. info' \in [Slots -> Paths \cup {None}] /\ origin' \in [Contents -> Paths \cup {None}]
    BY <1>2, <2>1 DEF GioTrash, Places
  <2>4. clashed' \in BOOLEAN
    BY <1>2 DEF GioTrash, Places, Clashes
  <2>5. OpsOK' /\ fresh' = fresh
    BY <1>2 DEF GioTrash, OpsOK
  <2>. QED
    BY <2>2, <2>3, <2>4, <2>5 DEF Places
<1>3. ASSUME NEW q \in Procs, Look(q) PROVE Places' /\ OpsOK'
  <2>1. PICK s \in Slots : op' = [op EXCEPT ![q].pc = "write", ![q].slot = s]
    BY <1>3 DEF Look
  <2>2. PICK r : r = [op[q] EXCEPT !.pc = "write", !.slot = s]
    OBVIOUS
  <2>3. op[q] \in Op /\ op[q].path # None
    BY <1>3 DEF OpsOK, Look, Sited
  <2>4. r \in Op /\ r.path = op[q].path /\ r.slot = s
    BY ONLY <2>2, <2>3, <1>s, s \in Slots DEF Op
  <2>5. op' = [op EXCEPT ![q] = r]
    BY <2>1, <2>2
  <2>6. Sited(r)
    BY <2>3, <2>4, <1>m DEF Sited
  <2>7. OpsOK'
    BY <2>4, <2>5, <2>6, OpsSet
  <2>8. clashed' \in BOOLEAN
    BY <1>3 DEF Look, Clashes, Places
  <2>9. Places'
    BY <1>3, <2>8 DEF Look, Places
  <2>. QED
    BY <2>7, <2>9
<1>4. ASSUME NEW q \in Procs, WriteInfo(q) PROVE Places' /\ OpsOK'
  <2>1. op[q].path \in Paths /\ op[q].path # None /\ op[q].slot \in Slots /\ op[q].slot # None
    BY <1>4, HasSlot DEF WriteInfo
  <2>2. Goes(q, "move") \/ Ends(q)
    BY <1>4 DEF WriteInfo
  <2>3. OpsOK'
    BY <2>1, <2>2, <1>s, OpsGo, OpsEnd
  <2>4. info' \in [Slots -> Paths \cup {None}]
    BY <1>4, <2>1 DEF WriteInfo, Places
  <2>5. Places'
    BY <1>4, <2>4 DEF WriteInfo, Places
  <2>. QED
    BY <2>3, <2>5
<1>5. ASSUME NEW q \in Procs, Move(q) PROVE Places' /\ OpsOK'
  <2>1. op[q].path \in Paths /\ op[q].path # None /\ op[q].slot \in Slots /\ op[q].slot # None
    BY <1>5, HasSlot DEF Move
  <2>2. UNCHANGED <<info, fresh, clashed>>
    BY <1>5 DEF Move
  <2>3. CASE Moves(q)
    <3>1. PICK c \in Contents : c = home[op[q].path]
      BY <2>1, <2>3 DEF Moves, Places
    <3>2. files' \in [Slots -> Contents \cup {None}]
      BY <2>3, <3>1 DEF Moves, Places
    <3>3. origin' \in [Contents -> Paths \cup {None}]
      BY <2>1, <2>3, <3>1 DEF Moves, Places
    <3>4. home' \in [Paths -> Contents \cup {None}]
      BY <2>3 DEF Moves, Places
    <3>5. Places'
      BY <2>2, <3>2, <3>3, <3>4 DEF Places
    <3>6. CASE op' = [op EXCEPT ![q].pc = "copied", ![q].what = c]
      <4>1. PICK r : r = [op[q] EXCEPT !.pc = "copied", !.what = c]
        OBVIOUS
      <4>2. op[q] \in Op
        BY DEF OpsOK
      <4>3. r \in Op /\ r.path = op[q].path /\ r.slot = op[q].slot
        BY ONLY <4>1, <4>2, <1>s, c \in Contents DEF Op
      <4>4. op' = [op EXCEPT ![q] = r]
        BY <3>6, <4>1
      <4>5. Sited(r)
        BY <2>1, <4>3 DEF Sited
      <4>. QED
        BY <3>5, <4>3, <4>4, <4>5, OpsSet
    <3>7. op' = [op EXCEPT ![q].pc = "copied", ![q].what = c] \/ Ends(q)
      BY <2>3, <3>1 DEF Moves
    <3>. QED
      BY <3>5, <3>6, <3>7, OpsEnd
  <2>4. CASE Goes(q, "undo") /\ UNCHANGED <<home, files, origin>>
    <3>1. OpsOK'
      BY <2>1, <2>4, <1>s, OpsGo
    <3>. QED
      BY <2>2, <2>4, <3>1 DEF Places
  <2>. QED
    BY <1>5, <2>3, <2>4 DEF Move
<1>6. ASSUME NEW q \in Procs, DropSource(q) PROVE Places' /\ OpsOK'
  <2>1. op[q].path # None /\ op[q].slot # None
    BY <1>6, HasSlot DEF DropSource
  <2>2. Goes(q, "undo") \/ Ends(q)
    BY <1>6 DEF DropSource
  <2>3. OpsOK'
    BY <2>1, <2>2, <1>s, OpsGo, OpsEnd
  <2>4. home' \in [Paths -> Contents \cup {None}] /\ clashed' \in BOOLEAN
    BY <1>6 DEF DropSource, Places
  <2>5. Places'
    BY <1>6, <2>4 DEF DropSource, Places
  <2>. QED
    BY <2>3, <2>5
<1>7. ASSUME NEW q \in Procs, Undo(q) \/ Forget(q) PROVE Places' /\ OpsOK'
  <2>1. OpsOK'
    BY <1>7, OpsEnd DEF Undo, Forget
  <2>2. info' \in [Slots -> Paths \cup {None}]
    BY <1>7 DEF Undo, Forget, Places
  <2>3. UNCHANGED <<home, files, fresh, origin, clashed>>
    BY <1>7 DEF Undo, Forget
  <2>. QED
    BY <2>1, <2>2, <2>3 DEF Places
<1>8. ASSUME NEW q \in Procs, NEW s \in Slots, Read(q, s) PROVE Places' /\ OpsOK'
  <2>1. PICK p \in Paths : p = info[s]
    BY <1>8 DEF Read, Named, Places
  <2>2. PICK r : r = [NoOp EXCEPT !.pc = "put", !.path = p, !.slot = s]
    OBVIOUS
  <2>3. r \in Op /\ r.path = p /\ r.slot = s
    BY <2>2, <1>s, NoOpType DEF NoOp, Op
  <2>4. Sited(r)
    BY <2>3, <1>n, <1>m DEF Sited
  <2>5. op' = [op EXCEPT ![q] = r]
    BY <1>8, <2>1, <2>2 DEF Read
  <2>6. OpsOK'
    BY <2>3, <2>4, <2>5, OpsSet
  <2>7. clashed' \in BOOLEAN
    BY <1>8 DEF Read, Clashes, Places
  <2>8. Places'
    BY <1>8, <2>7 DEF Read, Places
  <2>. QED
    BY <2>6, <2>8
<1>9. ASSUME NEW q \in Procs, Put(q) PROVE Places' /\ OpsOK'
  <2>1. op[q].path \in Paths /\ op[q].path # None /\ op[q].slot \in Slots /\ op[q].slot # None
    BY <1>9, HasSlot DEF Put
  <2>2. PICK c \in Contents \cup {None} : c = files[op[q].slot]
    BY <2>1 DEF Places
  <2>3. home' \in [Paths -> Contents \cup {None}]
    BY <1>9, <2>2 DEF Put, Places
  <2>4. files' \in [Slots -> Contents \cup {None}]
    BY <1>9 DEF Put, Places
  <2>5. UNCHANGED <<info, fresh, origin, clashed>>
    BY <1>9 DEF Put
  <2>6. Places'
    BY <2>3, <2>4, <2>5 DEF Places
  <2>7. CASE op' = [op EXCEPT ![q].pc = "moved", ![q].what = c]
    <3>1. PICK r : r = [op[q] EXCEPT !.pc = "moved", !.what = c]
      OBVIOUS
    <3>2. op[q] \in Op
      BY DEF OpsOK
    <3>3. r \in Op /\ r.path = op[q].path /\ r.slot = op[q].slot
      BY ONLY <3>1, <3>2, <1>s, c \in Contents \cup {None} DEF Op
    <3>4. op' = [op EXCEPT ![q] = r]
      BY <2>7, <3>1
    <3>5. Sited(r)
      BY <2>1, <3>3 DEF Sited
    <3>. QED
      BY <2>6, <3>3, <3>4, <3>5, OpsSet
  <2>8. op' = [op EXCEPT ![q].pc = "moved", ![q].what = c] \/ Goes(q, "forget") \/ Ends(q)
    BY <1>9, <2>2 DEF Put
  <2>. QED
    BY <2>1, <2>6, <2>7, <2>8, <1>s, OpsGo, OpsEnd
<1>10. ASSUME NEW q \in Procs, DropTrashed(q) PROVE Places' /\ OpsOK'
  <2>1. op[q].path # None /\ op[q].slot # None
    BY <1>10, HasSlot DEF DropTrashed
  <2>2. Goes(q, "forget") \/ Ends(q)
    BY <1>10 DEF DropTrashed
  <2>3. OpsOK'
    BY <2>1, <2>2, <1>s, OpsGo, OpsEnd
  <2>4. files' \in [Slots -> Contents \cup {None}]
    BY <1>10 DEF DropTrashed, Places
  <2>5. Places'
    BY <1>10, <2>4 DEF DropTrashed, Places
  <2>. QED
    BY <2>3, <2>5
<1>11. ASSUME NEW q \in Procs, Ask(q) PROVE Places' /\ OpsOK'
  <2>1. PICK r : r = [NoOp EXCEPT !.pc = "confirm"]
    OBVIOUS
  <2>2. r \in Op /\ r.pc = "confirm"
    BY <2>1, <1>s, NoOpType DEF NoOp, Op
  <2>3. Sited(r)
    BY <2>2 DEF Sited
  <2>4. OpsOK'
    BY <1>11, <2>1, <2>2, <2>3, OpsSet DEF Ask
  <2>. QED
    BY <1>11, <2>4 DEF Ask, Places
<1>12. ASSUME NEW q \in Procs, Confirm(q) PROVE Places' /\ OpsOK'
  <2>1. clashed' \in BOOLEAN
    BY <1>12 DEF Confirm, Places
  <2>2. Places'
    BY <1>12, <2>1 DEF Confirm, Places
  <2>3. CASE op' = [op EXCEPT ![q].pc = "files", ![q].todo = Used]
    <3>1. PICK r : r = [op[q] EXCEPT !.pc = "files", !.todo = Used]
      OBVIOUS
    <3>2. op[q] \in Op
      BY DEF OpsOK
    <3>3. Used \in SUBSET Slots
      BY DEF Used
    <3>4. r \in Op /\ r.pc = "files"
      BY ONLY <3>1, <3>2, <3>3, <1>s DEF Op
    <3>5. op' = [op EXCEPT ![q] = r]
      BY <2>3, <3>1
    <3>6. Sited(r)
      BY <3>4 DEF Sited
    <3>. QED
      BY <2>2, <3>4, <3>5, <3>6, OpsSet
  <2>4. op' = [op EXCEPT ![q].pc = "files", ![q].todo = Used] \/ Ends(q)
    BY <1>12 DEF Confirm
  <2>. QED
    BY <2>2, <2>3, <2>4, OpsEnd
<1>13. ASSUME NEW q \in Procs, EndFiles(q) \/ EndInfos(q) \/ Crash(q)
       PROVE  Places' /\ OpsOK'
  <2>1. Places'
    BY <1>13 DEF EndFiles, EndInfos, Crash, Places
  <2>2. CASE op' = [op EXCEPT ![q].pc = "infos", ![q].todo = Named]
    <3>1. PICK r : r = [op[q] EXCEPT !.pc = "infos", !.todo = Named]
      OBVIOUS
    <3>2. op[q] \in Op
      BY DEF OpsOK
    <3>3. Named \in SUBSET Slots
      BY DEF Named
    <3>4. r \in Op /\ r.pc = "infos"
      BY ONLY <3>1, <3>2, <3>3, <1>s DEF Op
    <3>5. op' = [op EXCEPT ![q] = r]
      BY <2>2, <3>1
    <3>6. Sited(r)
      BY <3>4 DEF Sited
    <3>. QED
      BY <2>1, <3>4, <3>5, <3>6, OpsSet
  <2>3. op' = [op EXCEPT ![q].pc = "infos", ![q].todo = Named] \/ Ends(q)
    BY <1>13 DEF EndFiles, EndInfos, Crash
  <2>. QED
    BY <2>1, <2>2, <2>3, OpsEnd
<1>14. ASSUME NEW q \in Procs, NEW s \in Slots, DeleteFile(q, s) \/ DeleteInfo(q, s)
       PROVE  Places' /\ OpsOK'
  <2>1. OpsOK'
    BY <1>14, OpsShrink DEF DeleteFile, DeleteInfo
  <2>2. /\ files' \in [Slots -> Contents \cup {None}]
        /\ info' \in [Slots -> Paths \cup {None}]
    BY <1>14 DEF DeleteFile, DeleteInfo, Places
  <2>3. UNCHANGED <<home, fresh, origin, clashed>>
    BY <1>14 DEF DeleteFile, DeleteInfo
  <2>. QED
    BY <2>1, <2>2, <2>3 DEF Places
<1>15. ASSUME NEW p \in Paths, NEW c \in Contents, Create(p, c) PROVE Places' /\ OpsOK'
  BY <1>15 DEF Create, Places, OpsOK
<1>16. CASE UNCHANGED vars
  BY <1>16 DEF vars, Places, OpsOK
<1>17. QED
  BY <1>1, <1>2, <1>3, <1>4, <1>5, <1>6, <1>7, <1>8, <1>9, <1>10, <1>11, <1>12,
     <1>13, <1>14, <1>15, <1>16 DEF Next, ProcAction

\* The types hold in every state: an operation that names a place or a slot
\* has one.
THEOREM TypeCorrect == Spec => []TypeOK
<1>1. QED
  BY TypeInit, TypeStep, PTL DEF Spec

----------------------------------------------------------------------------
\* A place, or a name of the Trash, that held nothing takes a content.
LEMMA HomeMore ==
    ASSUME home \in [Paths -> Contents \cup {None}],
           NEW p \in Paths, NEW c \in Contents, home[p] = None
    PROVE  Held([home EXCEPT ![p] = c], Paths) = Held(home, Paths) \cup {c}
  BY NoneAssumption DEF Held

LEMMA FilesMore ==
    ASSUME files \in [Slots -> Contents \cup {None}],
           NEW s \in Slots, NEW c \in Contents, files[s] = None
    PROVE  Held([files EXCEPT ![s] = c], Slots) = Held(files, Slots) \cup {c}
  BY NoneAssumption DEF Held

\* A place is cleared: at most its content is missing afterwards.
LEMMA HeldLess ==
    ASSUME NEW S, NEW f \in [S -> Contents \cup {None}], NEW x \in S
    PROVE  \/ Held([f EXCEPT ![x] = None], S) = Held(f, S)
           \/ /\ f[x] \in Contents
              /\ Held([f EXCEPT ![x] = None], S) = Held(f, S) \ {f[x]}
<1> DEFINE g == [f EXCEPT ![x] = None]
<1>1. \A c \in Contents : c # f[x] => (c \in Held(g, S) <=> c \in Held(f, S))
  BY NoneAssumption DEF Held
<1>2. CASE f[x] \in Contents
  <2>1. f[x] \in Held(f, S)
    BY <1>2 DEF Held
  <2>2. CASE f[x] \in Held(g, S)
    BY <1>1, <2>1, <2>2 DEF Held
  <2>3. CASE f[x] \notin Held(g, S)
    BY <1>1, <1>2, <2>3 DEF Held
  <2>4. QED
    BY <2>2, <2>3
<1>3. CASE f[x] \notin Contents
  BY <1>1, <1>3 DEF Held
<1>4. QED
  BY <1>2, <1>3

\* A step whose effect on places and Trash is one of the store's.
LEMMA StoreStep ==
    ASSUME \/ UNCHANGED <<AtHome, InTrash>>
           \/ \E c \in Contents :
                 \/ Store!Create(c) \/ Store!MoveToTrash(c) \/ Store!DropSource(c)
                 \/ Store!Restore(c) \/ Store!DropTrashed(c) \/ Store!Discard(c)
                 \/ Store!Lose(c)
    PROVE  Store!Next
  BY DEF Store!Next

\* Steps that touch neither the places nor the files of the Trash.
LEMMA QuietStep ==
    ASSUME UNCHANGED <<home, files>>
    PROVE  Store!Next
<1>1. UNCHANGED <<AtHome, InTrash>>
  BY DEF AtHome, InTrash
<1>2. QED
  BY <1>1, StoreStep

LEMMA NextRefines == TypeOK /\ [Next]_vars => [Store!Next]_Store!vars
<1> SUFFICES ASSUME TypeOK, [Next]_vars PROVE Store!Next
  OBVIOUS
<1>0. /\ home \in [Paths -> Contents \cup {None}]
      /\ files \in [Slots -> Contents \cup {None}]
      /\ \A q \in Procs : /\ op[q].pc \in {"move", "copied"} \cup PutBack
                              => op[q].path \in Paths /\ op[q].slot \in Slots
  BY NoneAssumption DEF TypeOK, PutBack
<1>1. ASSUME NEW p \in Paths, NEW c \in Contents, Create(p, c) PROVE Store!Next
  <2>0. Held([home EXCEPT ![p] = c], Paths) = Held(home, Paths) \cup {c}
    BY <1>0, <1>1, HomeMore DEF Create
  <2>1. AtHome' = AtHome \cup {c} /\ InTrash' = InTrash
    BY <1>1, <2>0 DEF Create, AtHome, InTrash
  <2>2. QED
    BY <2>1, StoreStep DEF Store!Create
<1>2. ASSUME NEW q \in Procs, NEW p \in Paths, NEW s \in Slots, GioTrash(q, p, s)
      PROVE  Store!Next
  <2>1. home[p] \in Contents /\ home[p] \in AtHome
    BY <1>0, <1>2 DEF GioTrash, AtHome, Held
  <2>2. AtHome' \in {AtHome, AtHome \ {home[p]}}
    BY <1>0, <1>2, HeldLess DEF GioTrash, AtHome
  <2>0. Held([files EXCEPT ![s] = home[p]], Slots) = Held(files, Slots) \cup {home[p]}
    BY <1>0, <1>2, <2>1, FilesMore DEF GioTrash, Used
  <2>3. InTrash' = InTrash \cup {home[p]}
    BY <1>2, <2>0 DEF GioTrash, InTrash
  <2>4. QED
    BY <2>1, <2>2, <2>3, StoreStep DEF Store!MoveToTrash
<1>3. ASSUME NEW q \in Procs, Move(q) PROVE Store!Next
  <2>1. CASE Moves(q)
    <3> DEFINE c == home[op[q].path]
    <3>1. op[q].path \in Paths /\ op[q].slot \in Slots
      BY <1>0, <1>3 DEF Move
    <3>2. c \in Contents /\ c \in AtHome
      BY <1>0, <2>1, <3>1 DEF Moves, AtHome, Held
    <3>3. AtHome' \in {AtHome, AtHome \ {c}}
      BY <1>0, <2>1, <3>1, HeldLess DEF Moves, AtHome
    <3>0. Held([files EXCEPT ![op[q].slot] = c], Slots) = Held(files, Slots) \cup {c}
      BY <1>0, <2>1, <3>1, <3>2, FilesMore DEF Moves
    <3>4. InTrash' = InTrash \cup {c}
      BY <2>1, <3>0 DEF Moves, InTrash
    <3>5. QED
      BY <3>2, <3>3, <3>4, StoreStep DEF Store!MoveToTrash
  <2>2. CASE UNCHANGED <<home, files>>
    BY <2>2, QuietStep
  <2>3. QED
    BY <1>3, <2>1, <2>2 DEF Move
<1>4. ASSUME NEW q \in Procs, DropSource(q) PROVE Store!Next
  <2>1. CASE UNCHANGED <<home, files>>
    BY <2>1, QuietStep
  <2>2. CASE /\ home[op[q].path] # None /\ files' = files
             /\ home' = [home EXCEPT ![op[q].path] = None]
    <3> DEFINE c == home[op[q].path]
    <3>1. op[q].path \in Paths /\ op[q].slot \in Slots /\ c \in Contents
      BY <1>0, <1>4, <2>2 DEF DropSource
    <3>2. AtHome' \in {AtHome, AtHome \ {c}} /\ InTrash' = InTrash
      BY <1>0, <2>2, <3>1, HeldLess DEF AtHome, InTrash
    <3>3. c \in InTrash \/ Disturbed(q)
      BY <1>4, <3>1 DEF DropSource, Disturbed, InTrash, Held
    <3>4. QED
      BY <3>1, <3>2, <3>3, StoreStep DEF Store!DropSource, Store!Lose
  <2>3. QED
    BY <1>4, <2>1, <2>2 DEF DropSource
<1>5. ASSUME NEW q \in Procs, Put(q) PROVE Store!Next
  <2>1. CASE UNCHANGED <<home, files>>
    BY <2>1, QuietStep
  <2>2. CASE ~UNCHANGED <<home, files>>
    <3> DEFINE c == files[op[q].slot]
    <3>1. op[q].path \in Paths /\ op[q].slot \in Slots
      BY <1>0, <1>5 DEF Put, PutBack
    <3>2. /\ c # None /\ home[op[q].path] = None
          /\ home' = [home EXCEPT ![op[q].path] = c]
          /\ files' = files \/ files' = [files EXCEPT ![op[q].slot] = None]
      BY <1>5, <2>2 DEF Put
    <3>3. c \in Contents /\ c \in InTrash
      BY <1>0, <3>1, <3>2 DEF InTrash, Held
    <3>0. Held([home EXCEPT ![op[q].path] = c], Paths) = Held(home, Paths) \cup {c}
      BY <1>0, <3>1, <3>2, <3>3, HomeMore
    <3>4. AtHome' = AtHome \cup {c}
      BY <3>0, <3>2 DEF AtHome
    <3>5. InTrash' \in {InTrash, InTrash \ {c}}
      BY <1>0, <3>1, <3>2, HeldLess DEF InTrash
    <3>6. QED
      BY <3>3, <3>4, <3>5, StoreStep DEF Store!Restore
  <2>3. QED
    BY <2>1, <2>2
<1>6. ASSUME NEW q \in Procs, DropTrashed(q) PROVE Store!Next
  <2>1. CASE UNCHANGED <<home, files>>
    BY <2>1, QuietStep
  <2>2. CASE ~UNCHANGED <<home, files>>
    <3> DEFINE c == files[op[q].slot]
    <3>1. op[q].path \in Paths /\ op[q].slot \in Slots
      BY <1>0, <1>6 DEF DropTrashed, PutBack
    <3>2. /\ c # None /\ home' = home
          /\ files' = [files EXCEPT ![op[q].slot] = None]
      BY <1>6, <2>2 DEF DropTrashed
    <3>3. c \in Contents /\ InTrash' \in {InTrash, InTrash \ {c}} /\ AtHome' = AtHome
      BY <1>0, <3>1, <3>2, HeldLess DEF InTrash, AtHome
    <3>4. c \in AtHome \/ Disturbed(q)
      BY <1>6, <3>1, <3>3 DEF DropTrashed, Disturbed, AtHome, Held
    <3>5. QED
      BY <3>3, <3>4, StoreStep DEF Store!DropTrashed, Store!Lose
  <2>3. QED
    BY <2>1, <2>2
<1>7. ASSUME NEW q \in Procs, NEW s \in Slots, DeleteFile(q, s) PROVE Store!Next
  <2>1. CASE UNCHANGED <<home, files>>
    BY <2>1, QuietStep
  <2>2. CASE files' = [files EXCEPT ![s] = None]
    <3>0. \/ Held([files EXCEPT ![s] = None], Slots) = Held(files, Slots)
          \/ /\ files[s] \in Contents
             /\ Held([files EXCEPT ![s] = None], Slots) = Held(files, Slots) \ {files[s]}
      BY <1>0, HeldLess
    <3>1. AtHome' = AtHome /\ (InTrash' = InTrash \/
             (files[s] \in Contents /\ InTrash' = InTrash \ {files[s]}))
      BY <1>7, <2>2, <3>0 DEF DeleteFile, InTrash, AtHome
    <3>2. \E o \in Procs : op[o].pc = "files"
      BY <1>7 DEF DeleteFile
    <3>3. QED
      BY <3>1, <3>2, StoreStep DEF Store!Discard
  <2>3. QED
    BY <1>7, <2>1, <2>2 DEF DeleteFile
<1>8. ASSUME NEW q \in Procs,
             \/ \E p \in Paths : Begin(q, p)
             \/ \E s \in Slots : Read(q, s) \/ DeleteInfo(q, s)
             \/ Look(q) \/ WriteInfo(q) \/ Undo(q) \/ Forget(q) \/ Ask(q)
             \/ Confirm(q) \/ EndFiles(q) \/ EndInfos(q) \/ Crash(q)
      PROVE  Store!Next
  <2>1. UNCHANGED <<home, files>>
    BY <1>8 DEF Begin, Read, DeleteInfo, Look, WriteInfo, Undo, Forget, Ask,
                Confirm, EndFiles, EndInfos, Crash
  <2>2. QED
    BY <2>1, QuietStep
<1>9. CASE UNCHANGED vars
  BY <1>9, QuietStep DEF vars
<1>10. QED
  BY <1>1, <1>2, <1>3, <1>4, <1>5, <1>6, <1>7, <1>8, <1>9 DEF Next, ProcAction

LEMMA InitRefines == Init => Store!Init
<1> SUFFICES ASSUME Init PROVE Store!Init
  OBVIOUS
<1>1. AtHome \subseteq Contents
  BY DEF AtHome, Held
<1>2. InTrash = {}
  BY NoneAssumption DEF Init, InTrash, Held
<1>3. \A q \in Procs : op[q].pc = "idle"
  BY DEF Init, NoOp
<1>4. QED
  BY <1>1, <1>2, <1>3 DEF Store!Init, Disturbed

\* The Trash of any number of processes, interleaved step by step and dying
\* anywhere, keeps the promise of TrashStore: only emptying destroys.
THEOREM StoreKept == Spec => IsStore
<1>1. QED
  BY TypeCorrect, InitRefines, NextRefines, PTL DEF Spec, IsStore, Store!Spec

\* What the promise comes to for the user: as long as nobody empties the Trash and no
\* copying move is disturbed, a file he has is at a place of his or in the Trash from
\* then on, whatever the processes do and wherever they die.
THEOREM NothingIsDestroyed ==
    ASSUME NEW c \in Contents
    PROVE  /\ Spec
           /\ [](\A q \in Procs : op[q].pc # "files" /\ ~Disturbed(q))
           => [](c \in AtHome => [](c \in AtHome \cup InTrash))
<1> DEFINE Calm == \A q \in Procs : op[q].pc # "files" /\ ~Disturbed(q)
           Somewhere == c \in AtHome \cup InTrash
<1>1. [Store!Next]_Store!vars /\ Calm /\ Somewhere => Somewhere'
  BY DEF Store!Next, Store!vars, Store!Create, Store!MoveToTrash, Store!DropSource,
         Store!Restore, Store!DropTrashed, Store!Discard, Store!Lose
<1>2. TypeOK /\ [Next]_vars /\ Calm /\ Somewhere => Somewhere'
  BY <1>1, NextRefines
<1>3. c \in AtHome => Somewhere
  OBVIOUS
<1>4. QED
  BY <1>2, <1>3, TypeCorrect, PTL DEF Spec

----------------------------------------------------------------------------
(* What is in the Trash can be put back, as long as no two operations meet.  *)

Apart(q, o) ==
    /\ op[q].slot # None => op[q].slot # op[o].slot
    /\ op[q].pc \in Emptying => op[o].pc \in {"idle", "look", "confirm"}

\* An operation has its name of the Trash for itself, and an emptying the Trash.
Alone == \A q, o \in Procs : q # o => Apart(q, o)

\* What an operation finds at its name, at the steps that count on it.
Kept(q) ==
    /\ op[q].pc \in {"write", "move", "undo", "forget"} => files[op[q].slot] = None
    /\ op[q].pc \in {"move", "put"} => info[op[q].slot] = op[q].path
    /\ op[q].pc \in {"idle", "look", "confirm"} \cup Emptying => op[q].slot = None
    /\ op[q].pc = "infos" => Used = {}

\* A content not written yet is nowhere and has never been.
New ==
    \A c \in fresh :
        /\ origin[c] = None
        /\ \A p \in Paths : home[p] # c
        /\ \A s \in Slots : files[s] # c

\* A content is at one place, the one it has been moved away from if it has been.
AtPlace ==
    \A p \in Paths : home[p] # None =>
        /\ origin[home[p]] \in {None, p}
        /\ \A q \in Paths : home[q] = home[p] => q = p

Known == \A s \in Used : info[s] # None /\ info[s] = origin[files[s]]

Good == New /\ AtPlace /\ Known /\ Alone /\ \A q \in Procs : Kept(q)

IInv == ~clashed => Good

LEMMA GoodInit == Init => IInv
  BY NoneAssumption
     DEF Init, IInv, Good, New, AtPlace, Known, Alone, Apart, Kept, NoOp, Used, Emptying

\* An operation that takes no name leaves the others theirs.
LEMMA StaysAlone ==
    ASSUME TypeOK, Alone, NEW q \in Procs,
           \A o \in Procs \ {q} : op'[o] = op[o],
           op'[q].slot \in {op[q].slot, None},
           op[q].pc \in {"idle", "look", "confirm"} => op'[q].pc \in {"idle", "look", "confirm"},
           op'[q].pc \in Emptying => op[q].pc \in Emptying
    PROVE  Alone'
  BY DEF Alone, Apart

\* One that takes a name, alone.
LEMMA TakesAlone ==
    ASSUME TypeOK, Alone, NEW q \in Procs, NEW s \in Slots, ~Clashes(q, s),
           \A o \in Procs \ {q} : op'[o] = op[o],
           op'[q].slot = s, op'[q].pc \notin Emptying
    PROVE  Alone'
  BY DEF Alone, Apart, Clashes

\* Steps that change nothing but what the process itself is doing.
LEMMA OpOnly ==
    ASSUME TypeOK, Good, NEW q \in Procs,
           \A o \in Procs \ {q} : op'[o] = op[o],
           UNCHANGED <<home, files, info, fresh, origin>>, Alone', Kept(q)'
    PROVE  Good'
<1>1. New' /\ AtPlace' /\ Known'
  BY DEF Good, New, AtPlace, Known, Used
<1>2. \A o \in Procs : Kept(o)'
  BY DEF Good, Kept, Used
<1>3. QED
  BY <1>1, <1>2 DEF Good

LEMMA OpOnlySteps ==
    ASSUME TypeOK, Good, ~clashed', NEW q \in Procs,
           \/ \E p \in Paths : Begin(q, p)
           \/ Look(q) \/ Ask(q) \/ Confirm(q) \/ EndFiles(q) \/ EndInfos(q) \/ Crash(q)
           \/ \E s \in Slots : Read(q, s)
    PROVE  Good'
<1> USE DEF TypeOK
<1>1. CASE \E p \in Paths : Begin(q, p)
  <2>1. /\ op'[q].pc = "look" /\ op'[q].slot = None /\ op[q].pc = "idle"
        /\ \A o \in Procs \ {q} : op'[o] = op[o]
        /\ UNCHANGED <<home, files, info, fresh, origin>>
    <3>1. PICK p \in Paths : Begin(q, p)
      BY <1>1
    <3>2. op'[q] = [NoOp EXCEPT !.pc = "look", !.path = p]
      BY <3>1 DEF Begin
    <3>3. op'[q].pc = "look" /\ op'[q].slot = None
      BY <3>2 DEF NoOp
    <3>4. QED
      BY <3>1, <3>3 DEF Begin
  <2>2. Alone'
    BY <2>1, StaysAlone DEF Good, Emptying
  <2>3. Kept(q)'
    BY <2>1 DEF Kept
  <2>4. QED
    BY <2>1, <2>2, <2>3, OpOnly
<1>2. CASE Look(q)
  <2>1. PICK s \in Slots : /\ IsFree(s)
                           /\ op' = [op EXCEPT ![q].pc = "write", ![q].slot = s]
                           /\ clashed' = (clashed \/ Clashes(q, s))
    BY <1>2 DEF Look
  <2>2. /\ op'[q].pc = "write" /\ op'[q].slot = s
        /\ \A o \in Procs \ {q} : op'[o] = op[o]
        /\ UNCHANGED <<home, files, info, fresh, origin>>
    BY <1>2, <2>1 DEF Look
  <2>3. Alone'
    BY <2>1, <2>2, TakesAlone DEF Good, Emptying
  <2>4. Kept(q)'
    BY <2>1, <2>2 DEF Kept, IsFree, Used, Emptying
  <2>5. QED
    BY <2>2, <2>3, <2>4, OpOnly
<1>3. CASE Ask(q)
  <2>1. /\ op'[q].pc = "confirm" /\ op'[q].slot = None /\ op[q].pc = "idle"
        /\ \A o \in Procs \ {q} : op'[o] = op[o]
        /\ UNCHANGED <<home, files, info, fresh, origin>>
    BY <1>3 DEF Ask, NoOp
  <2>2. Alone'
    BY <2>1, StaysAlone DEF Good, Emptying
  <2>3. Kept(q)'
    BY <2>1 DEF Kept
  <2>4. QED
    BY <2>1, <2>2, <2>3, OpOnly
<1>4. ASSUME Ends(q), UNCHANGED <<home, files, info, fresh, origin>> PROVE Good'
  <2>1. /\ op'[q].pc = "idle" /\ op'[q].slot = None
        /\ \A o \in Procs \ {q} : op'[o] = op[o]
    BY <1>4 DEF Ends, NoOp
  <2>2. Alone'
    BY <2>1, StaysAlone DEF Good, Emptying
  <2>3. Kept(q)'
    BY <2>1 DEF Kept
  <2>4. QED
    BY <1>4, <2>1, <2>2, <2>3, OpOnly
<1>5. CASE Confirm(q)
  <2>1. CASE Ends(q)
    BY <1>4, <1>5, <2>1 DEF Confirm
  <2>2. CASE /\ op' = [op EXCEPT ![q].pc = "files", ![q].todo = Used]
             /\ clashed' = (clashed \/ \E o \in Procs \ {q} :
                                       op[o].pc \notin {"idle", "look", "confirm"})
    <3>1. /\ op'[q].pc = "files" /\ op'[q].slot = op[q].slot /\ op[q].pc = "confirm"
          /\ \A o \in Procs \ {q} : op'[o] = op[o]
          /\ UNCHANGED <<home, files, info, fresh, origin>>
      BY <1>5, <2>2 DEF Confirm
    <3>2. \A o \in Procs \ {q} : op[o].pc \in {"idle", "look", "confirm"}
      BY <2>2
    <3>3. Alone'
      BY <3>1, <3>2 DEF Good, Alone, Apart, Emptying
    <3>4. Kept(q)'
      BY <3>1 DEF Good, Kept, Emptying
    <3>5. QED
      BY <3>1, <3>3, <3>4, OpOnly
  <2>3. QED
    BY <1>5, <2>1, <2>2 DEF Confirm
<1>6. CASE EndFiles(q)
  <2>1. CASE Ends(q)
    BY <1>4, <1>6, <2>1 DEF EndFiles
  <2>2. CASE MaySweep /\ op' = [op EXCEPT ![q].pc = "infos", ![q].todo = Named]
    <3>1. /\ op'[q].pc = "infos" /\ op'[q].slot = op[q].slot /\ op[q].pc = "files"
          /\ \A o \in Procs \ {q} : op'[o] = op[o]
          /\ UNCHANGED <<home, files, info, fresh, origin>>
      BY <1>6, <2>2 DEF EndFiles
    <3>2. Alone'
      BY <3>1, StaysAlone DEF Good, Emptying
    <3>3. Kept(q)'
      BY <2>2, <3>1 DEF Good, Kept, Emptying, MaySweep, Used
    <3>4. QED
      BY <3>1, <3>2, <3>3, OpOnly
  <2>3. QED
    BY <1>6, <2>1, <2>2 DEF EndFiles
<1>7. CASE EndInfos(q) \/ Crash(q)
  BY <1>4, <1>7 DEF EndInfos, Crash
<1>8. ASSUME NEW s \in Slots, Read(q, s) PROVE Good'
  <2>1. /\ op'[q].pc = "put" /\ op'[q].slot = s /\ op'[q].path = info[s]
        /\ \A o \in Procs \ {q} : op'[o] = op[o]
        /\ UNCHANGED <<home, files, info, fresh, origin>>
        /\ ~Clashes(q, s)
    BY <1>8 DEF Read, NoOp
  <2>2. Alone'
    BY <2>1, TakesAlone DEF Good, Emptying
  <2>3. Kept(q)'
    BY <2>1 DEF Kept, Emptying
  <2>4. QED
    BY <2>1, <2>2, <2>3, OpOnly
<1>9. QED
  BY <1>1, <1>2, <1>3, <1>5, <1>6, <1>7, <1>8

\* No other operation has q's name of the Trash.
LEMMA OthersNames ==
    ASSUME TypeOK, Good, NEW q \in Procs, op[q].slot # None, NEW o \in Procs, o # q
    PROVE  op[o].slot # op[q].slot
  BY DEF Good, Alone, Apart

\* Steps that write, or remove, the information of a name that has no file.
LEMMA InfoSteps ==
    ASSUME TypeOK, Good, ~clashed', NEW q \in Procs,
           \/ WriteInfo(q) \/ Undo(q) \/ Forget(q)
           \/ \E s \in Slots : DeleteInfo(q, s)
    PROVE  Good'
<1> USE DEF TypeOK
<1>1. ASSUME op[q].pc \in {"write", "undo", "forget"}, NEW i \in Paths \cup {None},
             info' = [info EXCEPT ![op[q].slot] = i],
             UNCHANGED <<home, files, fresh, origin>>,
             \/ Ends(q)
             \/ Goes(q, "move") /\ i = op[q].path
      PROVE  Good'
  <2>1. /\ op[q].slot \in Slots /\ op[q].slot # None
        /\ files[op[q].slot] = None
    BY <1>1 DEF Good, Kept, PutBack
  <2>2. /\ \A o \in Procs \ {q} : op'[o] = op[o]
        /\ \/ op'[q].pc = "idle" /\ op'[q].slot = None
           \/ op'[q].pc = "move" /\ op'[q].slot = op[q].slot /\ op'[q].path = i
    BY <1>1 DEF Ends, Goes, NoOp
  <2>3. New' /\ AtPlace' /\ Known'
    BY <1>1, <2>1 DEF Good, New, AtPlace, Known, Used
  <2>4. Alone'
    BY <1>1, <2>2, StaysAlone DEF Good, Emptying
  <2>5. Kept(q)'
    BY <1>1, <2>1, <2>2 DEF Kept, Emptying
  <2>6. ASSUME NEW o \in Procs, o # q PROVE Kept(o)'
    BY <1>1, <2>1, <2>2, <2>6, OthersNames DEF Good, Kept, Used
  <2>7. QED
    BY <2>3, <2>4, <2>5, <2>6 DEF Good
<1>2. CASE WriteInfo(q)
  <2>1. CASE info' = info /\ Ends(q)
    <3>1. op' = [op EXCEPT ![q] = NoOp] /\ UNCHANGED <<home, files, info, fresh, origin>>
      BY <1>2, <2>1 DEF WriteInfo, Ends
    <3>2. /\ op'[q].pc = "idle" /\ op'[q].slot = None
          /\ \A o \in Procs \ {q} : op'[o] = op[o]
      BY <3>1 DEF NoOp
    <3>3. Alone'
      BY <3>2, StaysAlone DEF Good, Emptying
    <3>4. Kept(q)'
      BY <3>2 DEF Kept
    <3>5. QED
      BY <3>1, <3>2, <3>3, <3>4, OpOnly
  <2>2. CASE info' = [info EXCEPT ![op[q].slot] = op[q].path] /\ Goes(q, "move")
    BY <1>1, <1>2, <2>2 DEF WriteInfo
  <2>3. QED
    BY <1>2, <2>1, <2>2 DEF WriteInfo
<1>3. CASE Undo(q) \/ Forget(q)
  BY <1>1, <1>3 DEF Undo, Forget
<1>4. ASSUME NEW s \in Slots, DeleteInfo(q, s) PROVE Good'
  <2>1. /\ op[q].pc = "infos" /\ UNCHANGED <<home, files, fresh, origin>>
        /\ op'[q].pc = op[q].pc /\ op'[q].slot = op[q].slot
        /\ \A o \in Procs \ {q} : op'[o] = op[o]
    BY <1>4 DEF DeleteInfo
  <2>2. Used = {} /\ Used' = {}
    BY <2>1 DEF Good, Kept, Used
  <2>3. New' /\ AtPlace' /\ Known'
    BY <2>1, <2>2 DEF Good, New, AtPlace, Known
  <2>4. Alone'
    BY <2>1, StaysAlone DEF Good
  <2>5. Kept(q)'
    BY <2>1, <2>2 DEF Good, Kept, Emptying
  <2>6. ASSUME NEW o \in Procs, o # q PROVE Kept(o)'
    <3>1. op[o].pc \in {"idle", "look", "confirm"}
      BY <2>1, <2>6 DEF Good, Alone, Apart, Emptying
    <3>2. QED
      BY <2>1, <2>6, <3>1 DEF Good, Kept
  <2>7. QED
    BY <2>3, <2>4, <2>5, <2>6 DEF Good
<1>5. QED
  BY <1>2, <1>3, <1>4

\* A content goes from its place to a name of the Trash that has none and that
\* only this operation has: other operations find what they found.
LEMMA ComesIn ==
    ASSUME TypeOK, Good, ~clashed', NEW p \in Paths, NEW s \in Slots,
           home[p] # None, files[s] = None,
           files' = [files EXCEPT ![s] = home[p]],
           origin' = [origin EXCEPT ![home[p]] = p],
           home' \in {home, [home EXCEPT ![p] = None]},
           fresh' = fresh, \A t \in Slots \ {s} : info'[t] = info[t], info'[s] = p
    PROVE  New' /\ AtPlace' /\ Known'
<1> USE DEF TypeOK
<1> DEFINE c == home[p]
<1>1. c \in Contents /\ c \notin fresh /\ p # None /\ c # None
  BY NoneAssumption DEF Good, New
<1>2. /\ origin' = [origin EXCEPT ![c] = p] /\ origin[c] \in {None, p}
      /\ \A x \in Contents : origin[x] # None => origin'[x] = origin[x]
  BY <1>1 DEF Good, AtPlace
<1>3. New'
  <2> SUFFICES ASSUME NEW d \in fresh
               PROVE  /\ origin'[d] = None
                      /\ \A r \in Paths : home'[r] # d
                      /\ \A t \in Slots : files'[t] # d
    BY DEF New
  <2>1. d \in Contents /\ d # c /\ d # None
    BY <1>1, NoneAssumption
  <2>2. QED
    BY <1>1, <2>1 DEF Good, New
<1>4. AtPlace'
  <2> SUFFICES ASSUME NEW r \in Paths, home'[r] # None
               PROVE  /\ origin'[home'[r]] \in {None, r}
                      /\ \A q \in Paths : home'[q] = home'[r] => q = r
    BY DEF AtPlace
  <2>1. home'[r] = home[r] /\ \A q \in Paths : home'[q] = home[q] \/ home'[q] = None
    OBVIOUS
  <2>2. \A q \in Paths : home'[q] = home'[r] => q = r
    BY <2>1 DEF Good, AtPlace
  <2>3. origin'[home'[r]] \in {None, r}
    BY <1>1, <2>1 DEF Good, AtPlace
  <2>4. QED
    BY <2>2, <2>3
<1>5. Known'
  <2> SUFFICES ASSUME NEW t \in Slots, files'[t] # None
               PROVE  info'[t] # None /\ info'[t] = origin'[files'[t]]
    BY DEF Known, Used
  <2>1. CASE t = s
    BY <1>1, <2>1
  <2>2. CASE t # s
    <3>1. files'[t] = files[t] /\ info'[t] = info[t] /\ files[t] \in Contents
      BY <2>2
    <3>2. info[t] # None /\ info[t] = origin[files[t]]
      BY <3>1 DEF Good, Known, Used
    <3>3. QED
      BY <1>2, <3>1, <3>2
  <2>3. QED
    BY <2>1, <2>2
<1>6. QED
  BY <1>3, <1>4, <1>5

LEMMA GioTrashGood ==
    ASSUME TypeOK, Good, ~clashed', NEW q \in Procs, NEW p \in Paths, NEW s \in Slots,
           GioTrash(q, p, s)
    PROVE  Good'
<1> USE DEF TypeOK
<1>1. /\ home[p] # None /\ files[s] = None /\ op' = op /\ fresh' = fresh
      /\ files' = [files EXCEPT ![s] = home[p]]
      /\ info' = [info EXCEPT ![s] = p]
      /\ ~Clashes(q, s) /\ op[q].pc = "idle"
  BY DEF GioTrash, Used
<1>2. New' /\ AtPlace' /\ Known'
  BY <1>1, ComesIn DEF GioTrash
<1>3. Alone'
  BY <1>1 DEF Good, Alone, Apart
<1>4. ASSUME NEW o \in Procs PROVE Kept(o)'
  <2>1. CASE o = q
    BY <1>1, <2>1 DEF Good, Kept, Emptying
  <2>2. CASE o # q
    <3>1. op[o].slot # s /\ op[o].pc \notin Emptying
      BY <1>1, <2>2 DEF Clashes
    <3>2. op[o].pc \in {"write", "move", "undo", "forget", "put"} => op[o].slot \in Slots
      BY DEF PutBack
    <3>3. QED
      BY <1>1, <3>1, <3>2 DEF Good, Kept, Emptying
  <2>3. QED
    BY <2>1, <2>2
<1>5. QED
  BY <1>2, <1>3, <1>4 DEF Good

\* The file of an operation's own name changes, or the place it works on: the
\* operations of other names find what they found.
LEMMA OthersKept ==
    ASSUME TypeOK, Good, NEW q \in Procs, op[q].pc \in {"move", "put", "moved"},
           \A o \in Procs \ {q} : op'[o] = op[o],
           \A t \in Slots \ {op[q].slot} : files'[t] = files[t],
           info' = info, NEW o \in Procs, o # q
    PROVE  Kept(o)'
<1> USE DEF TypeOK
<1>1. op[q].slot \in Slots /\ op[q].slot # None
  BY DEF PutBack
<1>2. op[o].slot # op[q].slot
  BY <1>1, OthersNames
<1>3. op[o].pc \notin Emptying
  BY DEF Good, Alone, Apart
<1>4. op[o].pc \in {"write", "move", "undo", "forget", "put"} => op[o].slot \in Slots
  BY DEF PutBack
<1>5. QED
  BY <1>1, <1>2, <1>3, <1>4 DEF Good, Kept, Emptying

LEMMA MoveGood ==
    ASSUME TypeOK, Good, ~clashed', NEW q \in Procs, Move(q) PROVE Good'
<1> USE DEF TypeOK
<1> DEFINE p == op[q].path
           s == op[q].slot
<1>1. /\ op[q].pc = "move" /\ p \in Paths /\ s \in Slots /\ info' = info /\ fresh' = fresh
      /\ files[s] = None /\ info[s] = p /\ s # None
  BY NoneAssumption DEF Move, Good, Kept, PutBack
<1>2. CASE Moves(q)
  <2>1. /\ home[p] # None /\ files' = [files EXCEPT ![s] = home[p]]
        /\ origin' = [origin EXCEPT ![home[p]] = p]
        /\ home' \in {home, [home EXCEPT ![p] = None]}
    BY <1>2 DEF Moves
  <2>2. New' /\ AtPlace' /\ Known'
    BY <1>1, <2>1, ComesIn
  <2>3. /\ \A o \in Procs \ {q} : op'[o] = op[o]
        /\ \/ op'[q].pc = "copied" /\ op'[q].slot = s
           \/ op'[q].pc = "idle" /\ op'[q].slot = None
    BY <1>2 DEF Moves, Ends, NoOp
  <2>4. Alone'
    BY <1>1, <2>3, StaysAlone DEF Good, Emptying
  <2>5. Kept(q)'
    BY <2>3 DEF Kept, Emptying
  <2>6. \A o \in Procs : o # q => Kept(o)'
    BY <1>1, <2>1, <2>3, OthersKept
  <2>7. QED
    BY <2>2, <2>4, <2>5, <2>6 DEF Good
<1>3. CASE Goes(q, "undo") /\ UNCHANGED <<home, files, origin>>
  <2>1. /\ \A o \in Procs \ {q} : op'[o] = op[o]
        /\ op'[q].pc = "undo" /\ op'[q].slot = s
    BY <1>3 DEF Goes
  <2>2. Alone'
    BY <1>1, <2>1, StaysAlone DEF Good, Emptying
  <2>3. Kept(q)'
    BY <1>1, <1>3, <2>1 DEF Kept, Emptying
  <2>4. QED
    BY <1>1, <1>3, <2>1, <2>2, <2>3, OpOnly
<1>4. QED
  BY <1>2, <1>3 DEF Move

LEMMA DropSourceGood ==
    ASSUME TypeOK, Good, ~clashed', NEW q \in Procs, DropSource(q) PROVE Good'
<1> USE DEF TypeOK
<1>1. /\ op[q].pc = "copied" /\ UNCHANGED <<files, info, fresh, origin>>
      /\ home' = [home EXCEPT ![op[q].path] = None] /\ Ends(q)
  BY DEF DropSource
<1>2. /\ \A o \in Procs \ {q} : op'[o] = op[o]
      /\ op'[q].pc = "idle" /\ op'[q].slot = None
  BY <1>1 DEF Ends, NoOp
<1>3. \A p \in Paths : home'[p] \in {home[p], None}
  BY <1>1
<1>4. New' /\ AtPlace' /\ Known'
  BY <1>1, <1>3, NoneAssumption DEF Good, New, AtPlace, Known, Used
<1>5. Alone'
  BY <1>2, StaysAlone DEF Good, Emptying
<1>6. \A o \in Procs : Kept(o)'
  BY <1>1, <1>2 DEF Good, Kept, Used
<1>7. QED
  BY <1>4, <1>5, <1>6 DEF Good

\* The end of a copying move out of the Trash, or an entry an emptying deletes.
LEMMA TakenOut ==
    ASSUME TypeOK, Good, NEW s \in Slots,
           files' \in {files, [files EXCEPT ![s] = None]},
           UNCHANGED <<home, info, fresh, origin>>
    PROVE  New' /\ AtPlace' /\ Known' /\ Used' \subseteq Used
<1> USE DEF TypeOK
<1>1. \A t \in Slots : files'[t] = files[t] \/ files'[t] = None
  OBVIOUS
<1>2. New'
  BY <1>1, NoneAssumption DEF Good, New
<1>3. AtPlace'
  BY DEF Good, AtPlace
<1>4. Known' /\ Used' \subseteq Used
  BY <1>1 DEF Good, Known, Used
<1>5. QED
  BY <1>2, <1>3, <1>4

LEMMA PutGood ==
    ASSUME TypeOK, Good, ~clashed', NEW q \in Procs, Put(q) PROVE Good'
<1> USE DEF TypeOK
<1> DEFINE p == op[q].path
           s == op[q].slot
           c == files[s]
<1>1. /\ op[q].pc = "put" /\ p \in Paths /\ s \in Slots /\ info' = info /\ fresh' = fresh
      /\ origin' = origin /\ info[s] = p /\ s # None /\ p # None
  BY NoneAssumption DEF Put, Good, Kept, PutBack
<1>2. CASE Ends(q) /\ UNCHANGED <<home, files>>
  <2>1. /\ op'[q].pc = "idle" /\ op'[q].slot = None
        /\ \A o \in Procs \ {q} : op'[o] = op[o]
    BY <1>2 DEF Ends, NoOp
  <2>2. Alone'
    BY <2>1, StaysAlone DEF Good, Emptying
  <2>3. Kept(q)'
    BY <2>1 DEF Kept
  <2>4. QED
    BY <1>1, <1>2, <2>1, <2>2, <2>3, OpOnly
<1>3. CASE /\ c # None /\ home[p] = None
           /\ home' = [home EXCEPT ![p] = c]
           /\ IF p \in Far
              THEN /\ op' = [op EXCEPT ![q].pc = "moved", ![q].what = c]
                   /\ files' = files
              ELSE files' = [files EXCEPT ![s] = None] /\ Goes(q, "forget")
  <2>1. c \in Contents /\ origin[c] = p /\ c \notin fresh
    BY <1>1, <1>3 DEF Good, Known, New, Used
  <2>2. /\ files' \in {files, [files EXCEPT ![s] = None]}
        /\ \A o \in Procs \ {q} : op'[o] = op[o]
        /\ op'[q].slot = s
        /\ \/ op'[q].pc = "moved"
           \/ op'[q].pc = "forget" /\ files'[s] = None
    BY <1>1, <1>3 DEF Goes
  <2>3. \A t \in Slots : files'[t] = files[t] \/ files'[t] = None
    BY <2>2
  <2>4. New'
    BY <1>1, <1>3, <2>1, <2>3, NoneAssumption DEF Good, New
  <2>5. AtPlace'
    <3> SUFFICES ASSUME NEW r \in Paths, home'[r] # None
                 PROVE  /\ origin[home'[r]] \in {None, r}
                        /\ \A x \in Paths : home'[x] = home'[r] => x = r
      BY <1>1 DEF AtPlace
    <3>1. \A x \in Paths : home[x] = c => x = p
      BY <1>1, <1>3, <2>1 DEF Good, AtPlace
    <3>2. \A x \in Paths : home'[x] = IF x = p THEN c ELSE home[x]
      BY <1>3
    <3>3. CASE r = p
      BY <2>1, <3>1, <3>2, <3>3
    <3>4. CASE r # p
      BY <3>1, <3>2, <3>4 DEF Good, AtPlace
    <3>5. QED
      BY <3>3, <3>4
  <2>6. Known'
    BY <1>1, <2>3 DEF Good, Known, Used
  <2>7. Alone'
    BY <1>1, <2>2, StaysAlone DEF Good, Emptying
  <2>8. Kept(q)'
    BY <2>2 DEF Kept, Emptying
  <2>9. \A o \in Procs : o # q => Kept(o)'
    BY <1>1, <2>2, OthersKept
  <2>10. QED
    BY <2>4, <2>5, <2>6, <2>7, <2>8, <2>9 DEF Good
<1>4. QED
  BY <1>2, <1>3 DEF Put

LEMMA DropTrashedGood ==
    ASSUME TypeOK, Good, ~clashed', NEW q \in Procs, DropTrashed(q) PROVE Good'
<1> USE DEF TypeOK
<1>1. /\ op[q].pc = "moved" /\ op[q].slot \in Slots /\ op[q].slot # None
      /\ UNCHANGED <<home, info, fresh, origin>>
      /\ files' \in {files, [files EXCEPT ![op[q].slot] = None]}
  BY DEF DropTrashed, PutBack
<1>2. /\ \A o \in Procs \ {q} : op'[o] = op[o]
      /\ \/ op'[q].pc = "idle" /\ op'[q].slot = None
         \/ op'[q].pc = "forget" /\ op'[q].slot = op[q].slot /\ files'[op[q].slot] = None
  BY <1>1 DEF DropTrashed, Ends, Goes, NoOp
<1>3. New' /\ AtPlace' /\ Known'
  BY <1>1, TakenOut
<1>4. Alone'
  BY <1>1, <1>2, StaysAlone DEF Good, Emptying
<1>5. Kept(q)'
  BY <1>2 DEF Kept, Emptying
<1>6. \A o \in Procs : o # q => Kept(o)'
  BY <1>1, <1>2, OthersKept
<1>7. QED
  BY <1>3, <1>4, <1>5, <1>6 DEF Good

LEMMA DeleteFileGood ==
    ASSUME TypeOK, Good, ~clashed', NEW q \in Procs, NEW s \in Slots, DeleteFile(q, s)
    PROVE  Good'
<1> USE DEF TypeOK
<1>1. /\ files' \in {files, [files EXCEPT ![s] = None]}
      /\ UNCHANGED <<home, info, fresh, origin>>
      /\ op[q].pc = "files" /\ op'[q].pc = "files" /\ op'[q].slot = op[q].slot
      /\ \A o \in Procs \ {q} : op'[o] = op[o]
  BY DEF DeleteFile
<1>2. New' /\ AtPlace' /\ Known' /\ Used' \subseteq Used
  BY <1>1, TakenOut
<1>3. Alone'
  BY <1>1, StaysAlone DEF Good
<1>4. Kept(q)'
  BY <1>1 DEF Good, Kept, Emptying
<1>5. \A o \in Procs : o # q => Kept(o)'
  <2>1. \A o \in Procs : o # q => op[o].pc \in {"idle", "look", "confirm"}
    BY <1>1 DEF Good, Alone, Apart, Emptying
  <2>2. QED
    BY <1>1, <2>1 DEF Good, Kept
<1>6. QED
  BY <1>2, <1>3, <1>4, <1>5 DEF Good

LEMMA CreateGood ==
    ASSUME TypeOK, Good, NEW p \in Paths, NEW c \in Contents, Create(p, c) PROVE Good'
<1> USE DEF TypeOK
<1>1. /\ home[p] = None /\ c \in fresh /\ home' = [home EXCEPT ![p] = c]
      /\ fresh' = fresh \ {c} /\ UNCHANGED <<files, info, op, origin>>
  BY DEF Create
<1>2. New' /\ AtPlace' /\ Known'
  BY <1>1 DEF Good, New, AtPlace, Known, Used
<1>3. Alone' /\ \A q \in Procs : Kept(q)'
  BY <1>1 DEF Good, Alone, Apart, Kept, Used
<1>4. QED
  BY <1>2, <1>3 DEF Good

\* An operation that has met another is remembered for good.
LEMMA StaysClashed == [Next]_vars /\ clashed => clashed'
<1> SUFFICES ASSUME [Next]_vars, clashed PROVE clashed'
  OBVIOUS
<1>1. ASSUME NEW q \in Procs, NEW p \in Paths, Begin(q, p) PROVE clashed'
  BY <1>1 DEF Begin
<1>2. ASSUME NEW q \in Procs, NEW p \in Paths, NEW s \in Slots, GioTrash(q, p, s)
      PROVE  clashed'
  BY <1>2 DEF GioTrash
<1>3. ASSUME NEW q \in Procs, Look(q) \/ WriteInfo(q) PROVE clashed'
  BY <1>3 DEF Look, WriteInfo
<1>4. ASSUME NEW q \in Procs, Move(q) \/ DropSource(q) \/ Undo(q) PROVE clashed'
  BY <1>4 DEF Move, DropSource, Undo
<1>5. ASSUME NEW q \in Procs, Put(q) \/ DropTrashed(q) \/ Forget(q) PROVE clashed'
  BY <1>5 DEF Put, DropTrashed, Forget
<1>6. ASSUME NEW q \in Procs, Ask(q) \/ Confirm(q) PROVE clashed'
  BY <1>6 DEF Ask, Confirm
<1>7. ASSUME NEW q \in Procs, EndFiles(q) \/ EndInfos(q) \/ Crash(q) PROVE clashed'
  BY <1>7 DEF EndFiles, EndInfos, Crash
<1>8. ASSUME NEW q \in Procs, NEW s \in Slots,
             Read(q, s) \/ DeleteFile(q, s) \/ DeleteInfo(q, s)
      PROVE  clashed'
  BY <1>8 DEF Read, DeleteFile, DeleteInfo
<1>9. ASSUME NEW p \in Paths, NEW c \in Contents, Create(p, c) PROVE clashed'
  BY <1>9 DEF Create
<1>10. CASE UNCHANGED vars
  BY <1>10 DEF vars
<1>. QED
  BY <1>1, <1>2, <1>3, <1>4, <1>5, <1>6, <1>7, <1>8, <1>9, <1>10 DEF Next, ProcAction

LEMMA GoodStep == TypeOK /\ IInv /\ [Next]_vars => IInv'
<1> SUFFICES ASSUME TypeOK, [Next]_vars, ~clashed', Good PROVE Good'
  BY StaysClashed DEF IInv
<1>1. CASE UNCHANGED vars
  BY <1>1 DEF vars, Good, New, AtPlace, Known, Alone, Apart, Kept, Used
<1>2. QED
  BY <1>1, OpOnlySteps, InfoSteps, GioTrashGood, MoveGood, DropSourceGood, PutGood,
     DropTrashedGood, DeleteFileGood, CreateGood DEF Next, ProcAction

\* restore_one: as long as no two operations meet, whatever is in the Trash has
\* its information and that names the place it came from, through the failures
\* and deaths of any number of processes.
THEOREM RestorableHolds == Spec => []Restorable
<1>1. IInv => Restorable
  BY DEF IInv, Good, Known, Restorable
<1>2. QED
  BY <1>1, TypeCorrect, GoodInit, GoodStep, PTL DEF Spec

\* A content that comes to a place is new, or that is the place it was taken from.
LEMMA BackStep ==
    ASSUME TypeOK, IInv, [Next]_vars, ~clashed', NEW p \in Paths,
           home'[p] # home[p], home'[p] # None, home'[p] \notin fresh
    PROVE  p = origin[home'[p]]
<1> USE DEF TypeOK
<1>1. Good
  BY StaysClashed DEF IInv
<1>2. ASSUME NEW r \in Paths, NEW c \in Contents, Create(r, c) PROVE FALSE
  BY <1>2 DEF Create
<1>3. ASSUME NEW q \in Procs, ProcAction(q) PROVE Put(q)
  BY <1>3 DEF ProcAction, Begin, GioTrash, Look, WriteInfo, Move, Moves, DropSource, Undo,
         Read, Put, DropTrashed, Forget, Ask, Confirm, DeleteFile, EndFiles, DeleteInfo,
         EndInfos, Crash
<1>4. ASSUME NEW q \in Procs, Put(q) PROVE p = origin[home'[p]]
  <2>1. /\ op[q].pc = "put" /\ files[op[q].slot] # None /\ op[q].slot \in Slots
        /\ home' = [home EXCEPT ![op[q].path] = files[op[q].slot]]
        /\ info[op[q].slot] = op[q].path
    BY <1>1, <1>4 DEF Put, Good, Kept, PutBack
  <2>2. p = op[q].path /\ home'[p] = files[op[q].slot]
    BY <2>1
  <2>3. QED
    BY <1>1, <2>1, <2>2 DEF Good, Known, Used
<1>5. QED
  BY <1>2, <1>3, <1>4 DEF Next, vars

\* original_path_for_name: contents come back to the place they were taken from.
THEOREM BackHolds == Spec => BackWhereItWas
<1>1. TypeOK /\ IInv /\ [Next]_vars =>
         [~clashed' =>
            \A p \in Paths : home'[p] # home[p] /\ home'[p] # None /\ home'[p] \notin fresh
                => p = origin[home'[p]]]_vars
  BY BackStep
<1>2. QED
  BY <1>1, TypeCorrect, GoodInit, GoodStep, PTL DEF Spec, BackWhereItWas
=============================================================================
