--------------------------- MODULE CopyMoveProofs ---------------------------
(***************************************************************************)
(* A copy or a move keeps what module Transfer promises and reports every   *)
(* failure, for any number of sources with leafnames of their own, folders  *)
(* of any size, and every policy, engine, failure and moment of a stop.     *)
(* Two sources with one leafname overwrite each other: that they differ is  *)
(* a hypothesis of every theorem.                                           *)
(***************************************************************************)
EXTENDS CopyMove, SequenceTheorems, FiniteSetTheorems, TLAPS

Distinct == \A i, j \in Source : Leaf[i] = Leaf[j] => i = j

----------------------------------------------------------------------------
(* Paths and values *)

AnyPath == SrcPaths \cup {<<>>}
Up(p) == <<p[1]>>

LEMMA ValuesDiffer ==
    /\ None # Dir /\ None # Part /\ Dir # Part
    /\ \A p : File(p) # None /\ File(p) # Dir /\ File(p) # Part
    /\ \A p, q : File(p) = File(q) => p = q
<1>1. /\ None[1] = "none" /\ Dir[1] = "dir" /\ Part[1] = "part"
      /\ \A p : File(p)[1] = "file" /\ File(p)[2] = p
    BY DEF None, Dir, Part, File
<1>2. None # Dir /\ None # Part /\ Dir # Part
    BY <1>1
<1>3. \A p : File(p) # None /\ File(p) # Dir /\ File(p) # Part
    BY <1>1
<1>4. \A p, q : File(p) = File(q) => p = q
    BY <1>1
<1>. QED BY <1>2, <1>3, <1>4

LEMMA SrcPathIs ==
    /\ \A p \in SrcPaths : \/ \E i \in Source : p = <<i>>
                           \/ \E i \in Source, k \in Kids : p = <<i, k>>
    /\ \A i \in Source : <<i>> \in SrcPaths
    /\ \A i \in Source, k \in Kids : <<i, k>> \in SrcPaths
BY DEF SrcPaths

LEMMA DstPathIs ==
    /\ \A q \in DstPaths : \/ \E l \in Leaves : q = <<l>>
                           \/ \E l \in Leaves, k \in Kids : q = <<l, k>>
    /\ \A l \in Leaves : <<l>> \in DstPaths
    /\ \A l \in Leaves, k \in Kids : <<l, k>> \in DstPaths
BY DEF DstPaths

LEMMA SrcPathFacts ==
    \A p \in SrcPaths :
        /\ p[1] \in Source /\ Up(p) \in SrcPaths /\ Len(Up(p)) = 1 /\ Up(p)[1] = p[1]
        /\ Len(p) \in {1, 2} /\ Len(<<>>) = 0 /\ p # <<>>
        /\ (Len(p) = 1 => p = Up(p)) /\ (Len(p) = 2 => p[2] \in Kids /\ p = <<p[1], p[2]>>)
<1> SUFFICES ASSUME NEW p \in SrcPaths
             PROVE  /\ p[1] \in Source /\ Up(p) \in SrcPaths /\ Len(Up(p)) = 1
                    /\ Up(p)[1] = p[1]
                    /\ Len(p) \in {1, 2} /\ Len(<<>>) = 0 /\ p # <<>>
                    /\ Len(p) = 1 => p = Up(p)
                    /\ Len(p) = 2 => p[2] \in Kids /\ p = <<p[1], p[2]>>
    OBVIOUS
<1>1. CASE \E i \in Source : p = <<i>>
    BY <1>1, SrcPathIs DEF Up
<1>2. CASE \E i \in Source, k \in Kids : p = <<i, k>>
    BY <1>2, SrcPathIs DEF Up
<1>. QED BY <1>1, <1>2, SrcPathIs

\* The paths under a path: all of them, those of a source, or itself.
LEMMA PrefixIs ==
    ASSUME NEW p \in AnyPath, NEW f \in SrcPaths
    PROVE  IsPrefix(p, f) <=> p = <<>> \/ p = f \/ (Len(p) = 1 /\ p[1] = f[1])
<1>1. CASE p = <<>>
    BY <1>1, SrcPathFacts DEF IsPrefix
<1>2. CASE \E i \in Source : p = <<i>>
    <2>1. PICK i \in Source : p = <<i>>
        BY <1>2
    <2>2. CASE \E j \in Source : f = <<j>>
        BY <2>1, <2>2 DEF IsPrefix
    <2>3. CASE \E j \in Source, k \in Kids : f = <<j, k>>
        BY <2>1, <2>3 DEF IsPrefix
    <2>. QED BY <2>2, <2>3, SrcPathIs
<1>3. CASE \E i \in Source, m \in Kids : p = <<i, m>>
    <2>1. PICK i \in Source, m \in Kids : p = <<i, m>>
        BY <1>3
    <2>2. CASE \E j \in Source : f = <<j>>
        BY <2>1, <2>2 DEF IsPrefix
    <2>3. CASE \E j \in Source, k \in Kids : f = <<j, k>>
        BY <2>1, <2>3 DEF IsPrefix
    <2>. QED BY <2>2, <2>3, SrcPathIs
<1>. QED BY <1>1, <1>2, <1>3, SrcPathIs DEF AnyPath


LEMMA PrefixFacts ==
    /\ \A p \in AnyPath : IsPrefix(p, p) /\ IsPrefix(<<>>, p) /\ (IsPrefix(p, <<>>) => p = <<>>)
    /\ \A p, q \in AnyPath, f \in SrcPaths :
          IsPrefix(p, f) /\ IsPrefix(q, f) => IsPrefix(p, q) \/ IsPrefix(q, p)
    /\ \A p, q \in AnyPath, f \in AnyPath : IsPrefix(p, q) /\ IsPrefix(q, f) => IsPrefix(p, f)
    /\ \A p \in SrcPaths : IsPrefix(Up(p), p)
    /\ \A p, f \in SrcPaths : Len(p) = 2 => (IsPrefix(p, f) <=> f = p)
<1>1. \A p \in AnyPath : IsPrefix(p, <<>>) <=> p = <<>>
    BY SrcPathFacts DEF IsPrefix, AnyPath
<1>2. \A p \in AnyPath : IsPrefix(p, p) /\ IsPrefix(<<>>, p)
    BY <1>1, PrefixIs DEF AnyPath
<1>3. \A p, q \in AnyPath, f \in SrcPaths :
          IsPrefix(p, f) /\ IsPrefix(q, f) => IsPrefix(p, q) \/ IsPrefix(q, p)
    <2> SUFFICES ASSUME NEW p \in AnyPath, NEW q \in AnyPath, NEW f \in SrcPaths,
                        IsPrefix(p, f), IsPrefix(q, f)
                 PROVE  IsPrefix(p, q) \/ IsPrefix(q, p)
        OBVIOUS
    <2>1. CASE p = <<>> \/ q = <<>>
        BY <1>2, <2>1
    <2>2. CASE p \in SrcPaths /\ q \in SrcPaths
        BY <2>2, PrefixIs, SrcPathFacts DEF AnyPath
    <2>. QED BY <2>1, <2>2 DEF AnyPath
<1>4. \A p, q \in AnyPath, f \in AnyPath : IsPrefix(p, q) /\ IsPrefix(q, f) => IsPrefix(p, f)
    <2> SUFFICES ASSUME NEW p \in AnyPath, NEW q \in AnyPath, NEW f \in AnyPath,
                        IsPrefix(p, q), IsPrefix(q, f)
                 PROVE  IsPrefix(p, f)
        OBVIOUS
    <2>1. CASE f = <<>> \/ p = <<>> \/ q = <<>>
        BY <1>1, <1>2, <2>1
    <2>2. CASE f \in SrcPaths /\ p \in SrcPaths /\ q \in SrcPaths
        BY <2>2, PrefixIs, SrcPathFacts DEF AnyPath
    <2>. QED BY <2>1, <2>2 DEF AnyPath
<1>5. \A p \in SrcPaths : IsPrefix(Up(p), p)
    BY PrefixIs, SrcPathFacts DEF AnyPath
<1>6. \A p, f \in SrcPaths : Len(p) = 2 => (IsPrefix(p, f) <=> f = p)
    BY PrefixIs, SrcPathFacts DEF AnyPath
<1>. QED BY <1>1, <1>2, <1>3, <1>4, <1>5, <1>6

LEMMA ToIs ==
    /\ \A i \in Source : To(<<i>>) = <<Leaf[i]>>
    /\ \A i \in Source, k \in Kids : To(<<i, k>>) = <<Leaf[i], k>>
<1>1. ASSUME NEW i \in Source PROVE To(<<i>>) = <<Leaf[i]>>
    <2>1. Tail(<<i>>) = <<>>
        OBVIOUS
    <2>2. <<Leaf[i]>> \o <<>> = <<Leaf[i]>>
        OBVIOUS
    <2>. QED BY <2>1, <2>2 DEF To
<1>2. ASSUME NEW i \in Source, NEW k \in Kids PROVE To(<<i, k>>) = <<Leaf[i], k>>
    <2>1. Tail(<<i, k>>) = <<k>>
        OBVIOUS
    <2>2. <<Leaf[i]>> \o <<k>> = <<Leaf[i], k>>
        <3> DEFINE S == {Leaf[i], k}
        <3>1. <<Leaf[i]>> \in Seq(S) /\ <<k>> \in Seq(S)
            OBVIOUS
        <3>2. Append(<<Leaf[i]>>, k) = <<Leaf[i]>> \o <<k>>
            BY <3>1, AppendIsConcat
        <3> DEFINE t == Append(<<Leaf[i]>>, k)
                   u == <<Leaf[i], k>>
        <3>3. t = u
            <4>1. t \in Seq(S) /\ Len(t) = 2 /\ t[1] = Leaf[i] /\ t[2] = k
                BY <3>1, AppendProperties, Len(<<Leaf[i]>>) = 1, <<Leaf[i]>>[1] = Leaf[i]
            <4>2. u \in Seq(S) /\ Len(u) = 2 /\ u[1] = Leaf[i] /\ u[2] = k
                OBVIOUS
            <4>3. \A j \in 1..2 : j = 1 \/ j = 2
                OBVIOUS
            <4> HIDE DEF t, u, S
            <4>4. \A j \in 1..Len(t) : t[j] = u[j]
                BY <4>1, <4>2, <4>3
            <4>. QED BY <4>1, <4>2, <4>4, SeqEqual
        <3>. QED BY <3>2, <3>3
    <2>. QED BY <2>1, <2>2 DEF To
<1>. QED BY <1>1, <1>2

LEMMA ToFacts ==
    \A p \in SrcPaths :
        /\ To(p) \in DstPaths /\ Len(To(p)) = Len(p) /\ To(p)[1] = Leaf[p[1]]
        /\ To(Up(p)) = <<Leaf[p[1]]>> /\ (Len(p) = 2 => To(p)[2] = p[2])
<1> SUFFICES ASSUME NEW p \in SrcPaths
             PROVE  /\ To(p) \in DstPaths /\ Len(To(p)) = Len(p) /\ To(p)[1] = Leaf[p[1]]
                    /\ To(Up(p)) = <<Leaf[p[1]]>> /\ (Len(p) = 2 => To(p)[2] = p[2])
    OBVIOUS
<1>1. CASE \E i \in Source : p = <<i>>
    <2>1. PICK i \in Source : p = <<i>>
        BY <1>1
    <2>2. Up(p) = <<i>> /\ To(p) = <<Leaf[i]>> /\ <<Leaf[i]>> \in DstPaths
        BY <2>1, ToIs, DstPathIs DEF Up, Leaves
    <2>. QED BY <2>1, <2>2
<1>2. CASE \E i \in Source, k \in Kids : p = <<i, k>>
    <2>1. PICK i \in Source, k \in Kids : p = <<i, k>>
        BY <1>2
    <2>2. Up(p) = <<i>> /\ To(p) = <<Leaf[i], k>> /\ To(<<i>>) = <<Leaf[i]>>
        BY <2>1, ToIs DEF Up
    <2>3. <<Leaf[i], k>> \in DstPaths
        BY DstPathIs DEF Leaves
    <2>. QED BY <2>1, <2>2, <2>3
<1>. QED BY <1>1, <1>2, SrcPathIs

LEMMA ToOnce ==
    ASSUME Distinct
    PROVE  \A p, q \in SrcPaths : To(p) = To(q) => p = q
<1> SUFFICES ASSUME NEW p \in SrcPaths, NEW q \in SrcPaths, To(p) = To(q) PROVE p = q
    OBVIOUS
<1>1. p[1] = q[1] /\ Len(p) = Len(q)
    BY ToFacts, SrcPathFacts DEF Distinct
<1>2. CASE Len(p) = 1
    <2>1. p = Up(p) /\ q = Up(q)
        BY <1>1, <1>2, SrcPathFacts
    <2>. QED BY <1>1, <2>1 DEF Up
<1>3. CASE Len(p) = 2
    BY <1>1, <1>3, ToFacts, SrcPathFacts
<1>. QED BY <1>2, <1>3, SrcPathFacts

\* A leafname is no number: a path of the source is none of the destination.
LEMMA PathsApart == \A p \in SrcPaths, q \in DstPaths : p # q
<1>1. \A l \in Leaves : l \notin Source
    BY NamesAssumption DEF Leaves, Source
<1>2. \A q \in DstPaths : q[1] \in Leaves
    BY DstPathIs
<1>. QED BY <1>1, <1>2, SrcPathFacts


----------------------------------------------------------------------------
(* The inductive invariant                                                 *)

Kinds == {"top", "item", "ask", "clear", "put", "rmdir", "fast", "rsync", "prune"}
Tasks == [do : Kinds, path : AnyPath]

\* The tasks that may still place what is under their paths; of a clear and
\* the put behind it, the put.
Worker == {"top", "item", "ask", "put", "fast", "rsync"}
Works(t) == t.do \in Worker
Sweeps(t) == t.do \in {"rmdir", "prune"}

Apart(p, q) == ~IsPrefix(p, q) /\ ~IsPrefix(q, p)

SrcTyped ==
    /\ DOMAIN src = SrcPaths
    /\ \A p \in SrcPaths :
          src[p] = None \/ src[p] = File(p) \/ (Len(p) = 1 /\ src[p] = Dir)

DstTyped ==
    /\ DOMAIN dst = DstPaths
    /\ \A q \in DstPaths :
          \/ dst[q] \in {None, Part, File(q)} \cup {File(p) : p \in SrcPaths}
          \/ Len(q) = 1 /\ dst[q] = Dir

LogTyped ==
    /\ log \in [errors : BOOLEAN, stopped : BOOLEAN, agreed : SUBSET DstPaths,
                declined : SUBSET SrcPaths]

Typed ==
    /\ op.move \in BOOLEAN /\ op.same \in BOOLEAN /\ op.given \subseteq SrcPaths
    /\ policy \in {"ask", "replace", "skip", "newer"}
    /\ todo \in Seq(Tasks)
    /\ SrcTyped /\ DstTyped /\ LogTyped
    /\ IsTree(src) /\ IsTree(dst)

\* No two tasks are about the same file: of the call stack only the top may be
\* in the middle of an item.
OneOf(s) ==
    /\ \A j, k \in 1..Len(s) :
          Works(s[j]) /\ Works(s[k]) /\ j # k => Apart(s[j].path, s[k].path)
    /\ \A j, k \in 1..Len(s) :
          Works(s[j]) /\ Sweeps(s[k]) => ~IsPrefix(s[j].path, s[k].path)

Below2(s) ==
    /\ \A k \in 2..Len(s) :
          \/ s[k].do \in {"top", "item", "fast", "rmdir"}
          \/ k = 2 /\ s[1].do = "clear"
    /\ Len(s) > 0 /\ s[1].do = "clear" =>
          Len(s) > 1 /\ s[2] = Task("put", s[1].path)

\* What a task counts on.
TaskOK(t) ==
    LET p == t.path IN
    /\ Works(t) =>
          /\ p = <<>> => t.do = "rsync" /\ ~op.move
          /\ p # <<>> => src[p] # None
          /\ Len(p) = 2 => dst[To(Up(p))] = Dir
    /\ t.do = "clear" => p # <<>>
    /\ t.do \in {"fast", "rsync"} => Len(p) < 2
    /\ Sweeps(t) => Len(p) = 1 /\ p \notin op.given

SameKind(q) == dst[To(q)] = None \/ ((src[q] = Dir) <=> (dst[To(q)] = Dir))

\* What it counts on when it is at the top.
TopTask(t) ==
    LET p == t.path IN
    /\ t.do = "clear" => To(p) \in log.agreed
    /\ t.do = "put" => dst[To(p)] = None \/ Merge(p)
    /\ t.do = "rsync" => \A q \in SrcPaths : Len(q) = 1 /\ IsPrefix(p, q) => SameKind(q)

Ready ==
    /\ \A k \in 1..Len(todo) : TaskOK(todo[k])
    /\ todo # <<>> => TopTask(todo[1])

\* A task will come to it.
In2(s, f) == \E k \in 1..Len(s) : Works(s[k]) /\ IsPrefix(s[k].path, f)
Waiting(f) == In2(todo, f)
Declined(f) == \E d \in log.declined : IsPrefix(d, f)
Untouched(f) == src[f] = File(f) /\ dst[To(f)] # File(f)
Arrived(f) == dst[To(f)] = File(f) /\ (src[f] = File(f) <=> ~op.move)

\* What has become of a path of the source.
Fate(f) ==
    /\ f \notin op.given => src[f] \in {None, Dir} /\ dst[To(f)] # File(f)
    /\ f \in op.given => src[f] \in {None, File(f)}
    /\ f \in op.given /\ (Waiting(f) \/ Declined(f)) => Untouched(f)
    /\ ~(Waiting(f) /\ Declined(f))
    /\ f \in op.given /\ ~Waiting(f) /\ ~Declined(f) /\ ~log.errors /\ ~log.stopped =>
          Arrived(f)

Fates == \A f \in SrcPaths : Fate(f)

Inv == Typed /\ OneOf(todo) /\ Below2(todo) /\ Ready /\ Fates

----------------------------------------------------------------------------
(* The call stack: the top gives way to other tasks under its path.         *)

LEMMA ThenIs ==
    ASSUME todo \in Seq(Tasks), todo # <<>>, NEW L \in Seq(Tasks), Then(L)
    PROVE  /\ todo' \in Seq(Tasks) /\ Len(todo') = Len(L) + Len(todo) - 1
           /\ Len(L) \in Nat /\ Len(todo) \in Nat /\ Len(todo) > 0
           /\ \A k \in 1..Len(L) : todo'[k] = L[k]
           /\ \A k \in 2..Len(todo) : todo'[Len(L) + k - 1] = todo[k]
           /\ \A k \in 1..Len(todo') :
                 \/ k \in 1..Len(L) /\ todo'[k] = L[k]
                 \/ k - Len(L) + 1 \in 2..Len(todo) /\ todo'[k] = todo[k - Len(L) + 1]
<1> DEFINE R == Tail(todo)
<1>1. /\ R \in Seq(Tasks) /\ Len(R) = Len(todo) - 1 /\ Len(todo) > 0 /\ Len(todo) \in Nat
      /\ \A k \in 2..Len(todo) : R[k - 1] = todo[k]
    OBVIOUS
<1>2. todo' = L \o R
    BY DEF Then
<1> HIDE DEF R
<1>3. /\ todo' \in Seq(Tasks) /\ Len(todo') = Len(L) + Len(R) /\ Len(L) \in Nat
      /\ \A k \in 1..(Len(L) + Len(R)) :
            todo'[k] = IF k <= Len(L) THEN L[k] ELSE R[k - Len(L)]
    <2>1. /\ L \o R \in Seq(Tasks) /\ Len(L \o R) = Len(L) + Len(R)
          /\ \A k \in 1..(Len(L) + Len(R)) :
                (L \o R)[k] = IF k <= Len(L) THEN L[k] ELSE R[k - Len(L)]
        <3>1. R \in Seq(Tasks)
            BY <1>1
        <3>. QED BY ONLY <3>1, ConcatProperties, L \in Seq(Tasks)
    <2>2. Len(L) \in Nat
        OBVIOUS
    <2>. QED BY <1>2, <2>1, <2>2
<1>4. \A k \in 1..Len(L) : todo'[k] = L[k]
    BY <1>1, <1>3
<1>5. ASSUME NEW k \in 2..Len(todo) PROVE todo'[Len(L) + k - 1] = todo[k]
    <2>0. k \in Nat /\ k >= 2 /\ k <= Len(todo) /\ Len(L) + k - 1 \in Nat
        BY <1>1, <1>3
    <2>1. PICK m \in Nat : m = Len(L) + k - 1
        BY <2>0
    <2>2. m \in 1..(Len(L) + Len(R)) /\ ~(m <= Len(L)) /\ m - Len(L) = k - 1
        BY <1>1, <1>3, <2>0, <2>1
    <2>3. todo'[m] = R[m - Len(L)]
        BY <1>3, <2>2
    <2>. QED BY <1>1, <2>0, <2>1, <2>2, <2>3
<1>6. ASSUME NEW k \in 1..Len(todo'), k \notin 1..Len(L)
      PROVE  k - Len(L) + 1 \in 2..Len(todo) /\ todo'[k] = todo[k - Len(L) + 1]
    <2>1. k - Len(L) + 1 \in 2..Len(todo) /\ Len(L) + (k - Len(L) + 1) - 1 = k
        BY <1>1, <1>3, <1>6
    <2>. QED BY <1>5, <2>1
<1>. QED BY <1>1, <1>3, <1>4, <1>5, <1>6

\* Tasks that may take the place of t.
Replaces(L, t) ==
    /\ OneOf(L) /\ Below2(L)
    /\ \A k \in 1..Len(L) :
          /\ Works(t)
          /\ Works(L[k]) => IsPrefix(t.path, L[k].path)
          /\ Sweeps(L[k]) => L[k].path = t.path /\ L[k].path # <<>>


LEMMA StackKeeps ==
    ASSUME todo \in Seq(Tasks), todo # <<>>, OneOf(todo), Below2(todo),
           NEW L \in Seq(Tasks), Replaces(L, todo[1]), todo[1].do = "clear" => L = <<>>,
           Then(L)
    PROVE  OneOf(todo') /\ Below2(todo')
<1>1. /\ todo' \in Seq(Tasks) /\ Len(todo') = Len(L) + Len(todo) - 1
      /\ Len(L) \in Nat /\ Len(todo) \in Nat /\ Len(todo) > 0
      /\ \A k \in 1..Len(L) : todo'[k] = L[k]
      /\ \A k \in 2..Len(todo) : todo'[Len(L) + k - 1] = todo[k]
      /\ \A k \in 1..Len(todo') :
            \/ k \in 1..Len(L) /\ todo'[k] = L[k]
            \/ k - Len(L) + 1 \in 2..Len(todo) /\ todo'[k] = todo[k - Len(L) + 1]
    BY ThenIs
<1>2. /\ \A k \in 1..Len(L) : L[k] \in Tasks /\ L[k].path \in AnyPath
      /\ \A k \in 1..Len(todo) : todo[k] \in Tasks /\ todo[k].path \in AnyPath
      /\ 1 \in 1..Len(todo)
    <2>1. /\ \A k \in 1..Len(L) : L[k] \in Tasks
          /\ \A k \in 1..Len(todo) : todo[k] \in Tasks
        OBVIOUS
    <2>2. \A t \in Tasks : t.path \in AnyPath
        BY DEF Tasks
    <2>. QED BY <1>1, <2>1, <2>2
\* A new task, or sweep, and one that was there.
<1>3. ASSUME NEW j \in 1..Len(L), NEW k \in 2..Len(todo), Works(L[j]), Works(todo[k])
      PROVE  Apart(L[j].path, todo[k].path)
    <2>1. Works(todo[1]) /\ IsPrefix(todo[1].path, L[j].path)
        BY <1>3 DEF Replaces
    <2>2. Apart(todo[1].path, todo[k].path)
        <3>1. 1 \in 1..Len(todo) /\ k \in 1..Len(todo) /\ k # 1
            BY <1>1, <1>2
        <3>. QED BY <1>3, <2>1, <3>1 DEF OneOf
    <2>3. ~IsPrefix(L[j].path, todo[k].path)
        BY <1>1, <1>2, <2>1, <2>2, PrefixFacts DEF Apart
    <2>4. ASSUME IsPrefix(todo[k].path, L[j].path) PROVE FALSE
        <3>1. CASE L[j].path = <<>>
            BY <1>1, <1>2, <2>2, <2>4, <3>1, PrefixFacts DEF Apart
        <3>2. CASE L[j].path \in SrcPaths
            BY <1>1, <1>2, <2>1, <2>2, <2>4, <3>2, PrefixFacts DEF Apart
        <3>. QED BY <1>2, <3>1, <3>2 DEF AnyPath
    <2>. QED BY <2>3, <2>4 DEF Apart
<1>4. ASSUME NEW j \in 1..Len(L), NEW k \in 2..Len(todo), Works(L[j]), Sweeps(todo[k])
      PROVE  ~IsPrefix(L[j].path, todo[k].path)
    <2>1. Works(todo[1]) /\ IsPrefix(todo[1].path, L[j].path)
        BY <1>4 DEF Replaces
    <2>2. ~IsPrefix(todo[1].path, todo[k].path)
        BY <1>1, <1>2, <1>4, <2>1 DEF OneOf
    <2>. QED BY <1>1, <1>2, <2>1, <2>2, PrefixFacts
<1>5. ASSUME NEW j \in 1..Len(L), NEW k \in 2..Len(todo), Sweeps(L[j]), Works(todo[k])
      PROVE  ~IsPrefix(todo[k].path, L[j].path)
    <2>1. L[j].path = todo[1].path /\ Works(todo[1])
        BY <1>5 DEF Replaces
    <2>2. Apart(todo[1].path, todo[k].path)
        <3>1. 1 \in 1..Len(todo) /\ k \in 1..Len(todo) /\ k # 1
            BY <1>1, <1>2
        <3>. QED BY <1>5, <2>1, <3>1 DEF OneOf
    <2>. QED BY <2>1, <2>2 DEF Apart
<1>6. ASSUME NEW j \in 1..Len(todo'), NEW k \in 1..Len(todo'), Works(todo'[j])
      PROVE  /\ Works(todo'[k]) /\ j # k => Apart(todo'[j].path, todo'[k].path)
             /\ Sweeps(todo'[k]) => ~IsPrefix(todo'[j].path, todo'[k].path)
    <2> DEFINE m == j - Len(L) + 1
               n == k - Len(L) + 1
    <2>1. CASE j \in 1..Len(L) /\ todo'[j] = L[j] /\ k \in 1..Len(L) /\ todo'[k] = L[k]
        BY <1>6, <2>1 DEF Replaces, OneOf
    <2>2. CASE j \in 1..Len(L) /\ todo'[j] = L[j] /\ n \in 2..Len(todo) /\ todo'[k] = todo[n]
        <3> HIDE DEF n
        <3>. QED BY <1>3, <1>4, <1>6, <2>2
    <2>3. CASE m \in 2..Len(todo) /\ todo'[j] = todo[m] /\ k \in 1..Len(L) /\ todo'[k] = L[k]
        <3> HIDE DEF m
        <3>. QED BY <1>3, <1>5, <1>6, <2>3 DEF Apart
    <2>4. CASE m \in 2..Len(todo) /\ todo'[j] = todo[m] /\ n \in 2..Len(todo)
               /\ todo'[k] = todo[n]
        <3>1. j # k => m # n
            BY <1>1
        <3> HIDE DEF m, n
        <3>2. m \in 1..Len(todo) /\ n \in 1..Len(todo)
            BY <1>1, <2>4
        <3>. QED BY <1>6, <2>4, <3>1, <3>2 DEF OneOf
    <2>. QED BY <1>1, <2>1, <2>2, <2>3, <2>4
<1>7. OneOf(todo')
    BY <1>6 DEF OneOf
<1>8. CASE todo[1].do = "clear"
    <2>1. L = <<>> /\ Len(L) = 0
        BY <1>8
    <2>2. Len(todo) > 1 /\ todo[2] = Task("put", todo[1].path)
        BY <1>1, <1>8 DEF Below2
    <2>3. todo'[1] = todo[2]
        BY <1>1, <2>1, <2>2
    <2>4. todo'[1].do = "put"
        BY <2>2, <2>3 DEF Task
    <2>5. \A k \in 2..Len(todo') : k + 1 \in 3..Len(todo) /\ todo'[k] = todo[k + 1]
        BY <1>1, <2>1
    <2>6. \A n \in 3..Len(todo) : todo[n].do \in {"top", "item", "fast", "rmdir"}
        BY <1>1 DEF Below2
    <2>. QED BY <1>7, <2>4, <2>5, <2>6 DEF Below2
<1>9. CASE todo[1].do # "clear"
    <2>1. \A n \in 2..Len(todo) : todo[n].do \in {"top", "item", "fast", "rmdir"}
        BY <1>1, <1>9 DEF Below2
    <2>2. CASE L = <<>>
        <3>1. \A k \in 1..Len(todo') : todo'[k].do \in {"top", "item", "fast", "rmdir"}
            <4> SUFFICES ASSUME NEW k \in 1..Len(todo')
                         PROVE  todo'[k].do \in {"top", "item", "fast", "rmdir"}
                OBVIOUS
            <4>1. k + 1 \in 2..Len(todo) /\ todo'[k] = todo[k + 1]
                BY <1>1, <2>2
            <4>. QED BY <2>1, <4>1
        <3>2. Len(todo') \in Nat
            BY <1>1
        <3>. QED BY <1>7, <3>1, <3>2 DEF Below2
    <2>3. CASE L # <<>>
        <3>1. Len(L) > 0 /\ todo'[1] = L[1]
            BY <1>1, <2>3
        <3>2. todo'[1].do = "clear" => Len(todo') > 1 /\ todo'[2] = Task("put", todo'[1].path)
            BY <1>1, <3>1 DEF Replaces, Below2
        <3>3. ASSUME NEW k \in 2..Len(todo')
              PROVE  \/ todo'[k].do \in {"top", "item", "fast", "rmdir"}
                     \/ k = 2 /\ todo'[1].do = "clear"
            <4> DEFINE n == k - Len(L) + 1
            <4>1. CASE k \in 1..Len(L) /\ todo'[k] = L[k]
                BY <1>1, <3>1, <3>3, <4>1 DEF Replaces, Below2
            <4>2. CASE n \in 2..Len(todo) /\ todo'[k] = todo[n]
                <5> HIDE DEF n
                <5>. QED BY <2>1, <4>2
            <4>3. k \in 1..Len(todo')
                BY <1>1, <3>3
            <4>. QED BY <1>1, <4>1, <4>2, <4>3
        <3>. QED BY <1>7, <3>2, <3>3 DEF Below2
    <2>. QED BY <2>2, <2>3
<1>. QED BY <1>8, <1>9

\* What waits: the rest of the stack, and what the new tasks are about.
LEMMA WaitingThen ==
    ASSUME todo \in Seq(Tasks), todo # <<>>, OneOf(todo), Below2(todo),
           NEW L \in Seq(Tasks), Then(L), NEW f \in SrcPaths
    PROVE  /\ In2(L, f) => Waiting(f)'
           /\ Works(todo[1]) /\ IsPrefix(todo[1].path, f) => (Waiting(f)' <=> In2(L, f))
           /\ ~(Works(todo[1]) /\ IsPrefix(todo[1].path, f)) =>
                 (Waiting(f)' <=> In2(L, f) \/ Waiting(f))
           /\ L = <<>> => ~In2(L, f)
<1>1. /\ todo' \in Seq(Tasks) /\ Len(todo') = Len(L) + Len(todo) - 1
      /\ Len(L) \in Nat /\ Len(todo) \in Nat /\ Len(todo) > 0
      /\ \A k \in 1..Len(L) : todo'[k] = L[k]
      /\ \A k \in 2..Len(todo) : todo'[Len(L) + k - 1] = todo[k]
      /\ \A k \in 1..Len(todo') :
            \/ k \in 1..Len(L) /\ todo'[k] = L[k]
            \/ k - Len(L) + 1 \in 2..Len(todo) /\ todo'[k] = todo[k - Len(L) + 1]
    BY ThenIs
<1> DEFINE Later == \E k \in 2..Len(todo) : Works(todo[k]) /\ IsPrefix(todo[k].path, f)
<1>2. Waiting(f)' => In2(L, f) \/ Later
    <2>1. ASSUME NEW k \in 1..Len(todo'), Works(todo'[k]), IsPrefix(todo'[k].path, f)
          PROVE  In2(L, f) \/ Later
        <3> DEFINE n == k - Len(L) + 1
        <3>1. CASE k \in 1..Len(L) /\ todo'[k] = L[k]
            BY <2>1, <3>1 DEF In2
        <3>2. CASE n \in 2..Len(todo) /\ todo'[k] = todo[n]
            <4> HIDE DEF n
            <4>. QED BY <2>1, <3>2
        <3>. QED BY <1>1, <3>1, <3>2
    <2>. QED BY <2>1 DEF Waiting, In2
<1>3. In2(L, f) => Waiting(f)'
    <2>1. \A k \in 1..Len(L) : k \in 1..Len(todo') /\ todo'[k] = L[k]
        BY <1>1
    <2>. QED BY <2>1 DEF Waiting, In2
<1>4. Later => Waiting(f)'
    <2>1. ASSUME NEW k \in 2..Len(todo), Works(todo[k]), IsPrefix(todo[k].path, f)
          PROVE  Waiting(f)'
        <3>0. k \in Nat /\ k >= 2 /\ k <= Len(todo) /\ Len(L) + k - 1 \in Nat
            BY <1>1
        <3>1. PICK n \in Nat : n = Len(L) + k - 1
            BY <3>0
        <3>2. n \in 1..Len(todo') /\ todo'[n] = todo[k]
            BY <1>1, <3>0, <3>1
        <3>. QED BY <2>1, <3>2 DEF Waiting, In2
    <2>. QED BY <2>1
<1>5. Works(todo[1]) /\ IsPrefix(todo[1].path, f) => ~Later
    <2> SUFFICES ASSUME Works(todo[1]), IsPrefix(todo[1].path, f), NEW k \in 2..Len(todo),
                        Works(todo[k]), IsPrefix(todo[k].path, f)
                 PROVE  FALSE
        OBVIOUS
    <2>0. k \in 1..Len(todo) /\ 1 \in 1..Len(todo) /\ k # 1
        BY <1>1
    <2>1. Apart(todo[1].path, todo[k].path) /\ k \in 1..Len(todo) /\ 1 \in 1..Len(todo)
        BY <2>0 DEF OneOf
    <2>2. \A t \in Tasks : t.path \in AnyPath
        BY DEF Tasks
    <2>3. todo[1] \in Tasks /\ todo[k] \in Tasks
        BY <2>1
    <2>. QED BY <2>1, <2>2, <2>3, PrefixFacts DEF Apart
<1>6. Waiting(f) <=> Later \/ (Works(todo[1]) /\ IsPrefix(todo[1].path, f))
    <2>1. /\ \A k \in 1..Len(todo) : k = 1 \/ k \in 2..Len(todo)
          /\ 1 \in 1..Len(todo) /\ \A k \in 2..Len(todo) : k \in 1..Len(todo)
        BY <1>1
    <2>. QED BY <2>1 DEF Waiting, In2
<1>7. L = <<>> => ~In2(L, f)
    BY DEF In2
<1> HIDE DEF Later
<1>. QED BY <1>2, <1>3, <1>4, <1>5, <1>6, <1>7


----------------------------------------------------------------------------
(* One task at the top                                                     *)

Logged(A, D) ==
    /\ LogTyped'
    /\ log'.agreed = log.agreed \cup A /\ log'.declined = log.declined \cup D
    /\ log.errors => log'.errors
    /\ log'.stopped = log.stopped

LEMMA LogIs ==
    ASSUME LogTyped
    PROVE  /\ UNCHANGED log => Logged({}, {})
           /\ Error => Logged({}, {}) /\ log'.errors
           /\ \A A \in SUBSET DstPaths : Agree(A) => Logged(A, {})
           /\ \A D \in SUBSET SrcPaths : Decline(D) => Logged({}, D)
BY DEF LogTyped, Logged, Error, Agree, Decline

LEMMA TopIs ==
    ASSUME Inv, todo # <<>>
    PROVE  /\ todo \in Seq(Tasks) /\ 1 \in 1..Len(todo) /\ Len(todo) \in Nat
           /\ todo[1] \in Tasks /\ todo[1].path \in AnyPath /\ todo[1].do \in Kinds
           /\ Head(todo) = todo[1] /\ TaskOK(todo[1]) /\ TopTask(todo[1])
           /\ \A k \in 1..Len(todo) : todo[k] \in Tasks /\ todo[k].path \in AnyPath
                                      /\ TaskOK(todo[k])
           /\ OneOf(todo) /\ Below2(todo)
<1>1. todo \in Seq(Tasks) /\ OneOf(todo) /\ Below2(todo)
    BY DEF Inv, Typed
<1>2. /\ Len(todo) \in Nat /\ 1 \in 1..Len(todo) /\ Head(todo) = todo[1]
      /\ \A k \in 1..Len(todo) : todo[k] \in Tasks
    BY <1>1
<1>3. \A t \in Tasks : t.path \in AnyPath /\ t.do \in Kinds
    BY DEF Tasks
<1>. QED BY <1>1, <1>2, <1>3 DEF Inv, Ready

LEMMA NothingReplaces == \A t : Replaces(<<>>, t) /\ <<>> \in Seq(Tasks) /\ Len(<<>>) = 0
BY DEF Replaces, OneOf, Below2

\* The files of other tasks.
LEMMA ElsewhereFate ==
    ASSUME Inv, todo # <<>>, NEW L \in Seq(Tasks), Then(L), Replaces(L, todo[1]),
           UNCHANGED op, NEW A, NEW D \in SUBSET SrcPaths, Logged(A, D),
           \A d \in D : IsPrefix(todo[1].path, d),
           NEW f \in SrcPaths, ~IsPrefix(todo[1].path, f),
           src'[f] = src[f], dst'[To(f)] = dst[To(f)]
    PROVE  Fate(f)'
<1>1. Fate(f)
    BY DEF Inv, Fates
<1>2. Waiting(f)' <=> Waiting(f)
    <2>1. Waiting(f)' <=> In2(L, f) \/ Waiting(f)
        BY TopIs, WaitingThen
    <2>2. ASSUME In2(L, f) PROVE FALSE
        <3>1. PICK k \in 1..Len(L) : Works(L[k]) /\ IsPrefix(L[k].path, f)
            BY <2>2 DEF In2
        <3>2. IsPrefix(todo[1].path, L[k].path) /\ L[k] \in Tasks
            BY <3>1 DEF Replaces
        <3>3. L[k].path \in AnyPath
            BY <3>2 DEF Tasks
        <3>. QED BY <3>1, <3>2, <3>3, TopIs, PrefixFacts DEF AnyPath
    <2>. QED BY <2>1, <2>2
<1>3. Declined(f)' <=> Declined(f)
    <2>1. \A d \in D : ~IsPrefix(d, f)
        BY TopIs, PrefixFacts DEF AnyPath
    <2>. QED BY <2>1 DEF Declined, Logged
<1>4. (Untouched(f)' <=> Untouched(f)) /\ (Arrived(f)' <=> Arrived(f))
    BY DEF Untouched, Arrived
<1>. QED BY <1>1, <1>2, <1>3, <1>4 DEF Fate, Logged

\* What is known of the files under a task that works.
LEMMA UnderTask ==
    ASSUME Inv, todo # <<>>, Works(todo[1]), NEW f \in SrcPaths, IsPrefix(todo[1].path, f)
    PROVE  /\ Waiting(f) /\ ~Declined(f)
           /\ f \in op.given => src[f] = File(f)
           /\ f \notin op.given => src[f] \in {None, Dir}
           /\ dst[To(f)] # File(f)
<1>1. Waiting(f)
    BY TopIs DEF Waiting, In2
<1>2. Fate(f)
    BY DEF Inv, Fates
<1>. QED BY <1>1, <1>2 DEF Fate, Untouched

\* The tasks that stay in the stack count on what is elsewhere.
LEMMA OthersOK ==
    ASSUME Inv, todo # <<>>, Works(todo[1]), UNCHANGED op,
           \A f \in SrcPaths : ~IsPrefix(todo[1].path, f) =>
               src'[f] = src[f] /\ dst'[To(f)] = dst[To(f)],
           NEW k \in 2..Len(todo), NEW u, u = todo[k]
    PROVE  TaskOK(u)'
<1> DEFINE p == todo[1].path
           q == u.path
<1>1. k \in 1..Len(todo) /\ k # 1
    BY TopIs
<1>2. u \in Tasks /\ q \in AnyPath /\ TaskOK(u) /\ p \in AnyPath
    BY <1>1, TopIs
<1>3. CASE Works(u)
    <2>1. Apart(p, q)
        BY <1>1, <1>2, <1>3, TopIs DEF OneOf
    <2>2. CASE q = <<>>
        BY <1>2, <2>1, <2>2, PrefixFacts DEF Apart
    <2>3. CASE q \in SrcPaths
        <3>1. src'[q] = src[q] /\ Up(q) \in SrcPaths
            BY <2>1, <2>3, SrcPathFacts DEF Apart
        <3>2. ~IsPrefix(p, Up(q))
            BY <1>2, <2>1, <2>3, SrcPathFacts, PrefixFacts DEF Apart, AnyPath
        <3>3. dst'[To(Up(q))] = dst[To(Up(q))]
            BY <3>1, <3>2
        <3>. QED BY <1>2, <1>3, <3>1, <3>3 DEF TaskOK
    <2>. QED BY <1>2, <2>2, <2>3 DEF AnyPath
<1>4. CASE ~Works(u)
    BY <1>2, <1>4 DEF TaskOK, Works, Worker
<1>. QED BY <1>3, <1>4

\* A task that works gives way to L, whatever it does under its path.
LEMMA WorkStep ==
    ASSUME Inv, todo # <<>>, Works(todo[1]), NEW L \in Seq(Tasks), Then(L),
           Replaces(L, todo[1]), UNCHANGED op, policy' \in {"ask", "replace", "skip", "newer"},
           NEW A, NEW D \in SUBSET SrcPaths, Logged(A, D),
           \A d \in D : IsPrefix(todo[1].path, d),
           \A f \in SrcPaths : ~IsPrefix(todo[1].path, f) =>
               src'[f] = src[f] /\ dst'[To(f)] = dst[To(f)],
           SrcTyped', DstTyped', IsTree(src)', IsTree(dst)',
           \A k \in 1..Len(L) : TaskOK(L[k])',
           L # <<>> => TopTask(L[1])',
           \A f \in SrcPaths : IsPrefix(todo[1].path, f) => Fate(f)'
    PROVE  Inv'
<1>1. Fates'
    <2> SUFFICES ASSUME NEW f \in SrcPaths PROVE Fate(f)'
        BY DEF Fates
    <2>. QED BY ElsewhereFate
<1>2. /\ todo' \in Seq(Tasks) /\ Len(todo') = Len(L) + Len(todo) - 1
      /\ Len(L) \in Nat /\ Len(todo) \in Nat /\ Len(todo) > 0
      /\ \A k \in 1..Len(L) : todo'[k] = L[k]
      /\ \A k \in 1..Len(todo') :
            \/ k \in 1..Len(L) /\ todo'[k] = L[k]
            \/ k - Len(L) + 1 \in 2..Len(todo) /\ todo'[k] = todo[k - Len(L) + 1]
    BY TopIs, ThenIs
<1>3. OneOf(todo') /\ Below2(todo')
    <2>1. todo[1].do = "clear" => L = <<>>
        BY DEF Works, Worker
    <2>. QED BY <2>1, TopIs, StackKeeps
<1>4. ASSUME NEW k \in 1..Len(todo'), NEW u, u = todo'[k] PROVE TaskOK(u)'
    <2>1. CASE k \in 1..Len(L) /\ todo'[k] = L[k]
        BY <1>4, <2>1
    <2>2. CASE k - Len(L) + 1 \in 2..Len(todo) /\ todo'[k] = todo[k - Len(L) + 1]
        <3>1. PICK n \in 2..Len(todo) : u = todo[n]
            BY <1>4, <2>2
        <3>. QED BY <3>1, OthersOK
    <2>. QED BY <1>2, <2>1, <2>2
<1>5. ASSUME NEW u, todo' # <<>>, u = todo'[1] PROVE TopTask(u)'
    <2>1. CASE L # <<>>
        <3>1. 1 \in 1..Len(L)
            BY <1>2, <2>1
        <3>2. u = L[1]
            BY <1>2, <1>5, <3>1
        <3>. QED BY <2>1, <3>2
    <2>2. CASE L = <<>>
        <3>1. 2 \in 2..Len(todo) /\ u = todo[2]
            BY <1>2, <1>5, <2>2
        <3>2. todo[1].do # "clear"
            BY DEF Works, Worker
        <3>3. todo[2].do \in {"top", "item", "fast", "rmdir"}
            BY <3>1, <3>2, TopIs DEF Below2
        <3>. QED BY <3>1, <3>3 DEF TopTask
    <2>. QED BY <2>1, <2>2
<1>6. Ready'
    <2>1. (\A k \in 1..Len(todo) : TaskOK(todo[k]))'
        BY <1>4 DEF TaskOK
    <2>2. (todo # <<>> => TopTask(todo[1]))'
        BY <1>5 DEF TopTask
    <2>. QED BY <2>1, <2>2 DEF Ready
<1>7. Typed'
    BY <1>2 DEF Inv, Typed, Logged
<1>. QED BY <1>1, <1>3, <1>6, <1>7 DEF Inv


LEMMA OneTask ==
    ASSUME NEW h \in Tasks, Works(h), NEW t \in Tasks, Works(t), t.path = h.path
    PROVE  /\ <<t>> \in Seq(Tasks) /\ Replaces(<<t>>, h) /\ <<t>>[1] = t /\ Len(<<t>>) = 1
           /\ \A f : In2(<<t>>, f) <=> IsPrefix(t.path, f)
<1>1. t.path \in AnyPath /\ IsPrefix(t.path, t.path)
    BY PrefixFacts DEF Tasks
<1>2. <<t>> \in Seq(Tasks) /\ <<t>>[1] = t /\ Len(<<t>>) = 1 /\ \A k \in 1..1 : k = 1
    OBVIOUS
<1>3. ~Sweeps(t) /\ t.do # "clear"
    BY DEF Works, Worker, Sweeps
<1>4. \A k : ~(k \in 2..1)
    OBVIOUS
<1>. QED BY <1>1, <1>2, <1>3, <1>4 DEF Replaces, OneOf, Below2, In2

LEMMA TwoTasks ==
    ASSUME NEW h \in Tasks, Works(h), h.path \in SrcPaths
    PROVE  LET c == Task("clear", h.path)
               t == Task("put", h.path)
               L == <<c, t>>
           IN  /\ L \in Seq(Tasks) /\ Replaces(L, h) /\ Len(L) = 2 /\ L[1] = c /\ L[2] = t
               /\ \A f : In2(L, f) <=> IsPrefix(h.path, f)
<1> DEFINE c == Task("clear", h.path)
           t == Task("put", h.path)
           L == <<c, t>>
<1>1. IsPrefix(h.path, h.path)
    BY PrefixFacts DEF AnyPath
<1>2. /\ c \in Tasks /\ t \in Tasks /\ c.path = h.path /\ t.path = h.path
      /\ c.do = "clear" /\ t.do = "put"
    BY DEF Task, Tasks, Kinds, AnyPath
<1>3. L \in Seq(Tasks) /\ Len(L) = 2 /\ L[1] = c /\ L[2] = t
    BY <1>2
<1>4. \A k \in 1..2 : k = 1 \/ k = 2
    OBVIOUS
<1>5. Works(t) /\ ~Works(c) /\ ~Sweeps(c) /\ ~Sweeps(t)
    BY <1>2 DEF Works, Worker, Sweeps
<1>6. OneOf(L)
    BY <1>3, <1>4, <1>5 DEF OneOf
<1>7. Below2(L)
    BY <1>2, <1>3, <1>4 DEF Below2
<1>8. \A f : In2(L, f) <=> IsPrefix(h.path, f)
    BY <1>2, <1>3, <1>4, <1>5 DEF In2
<1>9. Replaces(L, h)
    BY <1>1, <1>2, <1>3, <1>4, <1>5, <1>6, <1>7 DEF Replaces
<1>. QED BY <1>3, <1>8, <1>9

\* Tasks that decide, and leave the files alone.
LEMMA PassStep ==
    ASSUME Inv, todo # <<>>, Works(todo[1]), NEW L \in Seq(Tasks), Then(L),
           Replaces(L, todo[1]), UNCHANGED <<op, src, dst>>,
           policy' \in {"ask", "replace", "skip", "newer"},
           NEW A, NEW D \in SUBSET SrcPaths, Logged(A, D),
           \A d \in D : IsPrefix(todo[1].path, d),
           \A k \in 1..Len(L) : TaskOK(L[k])',
           L # <<>> => TopTask(L[1])',
           \A f \in SrcPaths : IsPrefix(todo[1].path, f) =>
               \/ In2(L, f) /\ D = {}
               \/ ~In2(L, f) /\ (log'.errors \/ \E d \in D : IsPrefix(d, f))
    PROVE  Inv'
<1>1. SrcTyped' /\ DstTyped' /\ IsTree(src)' /\ IsTree(dst)'
    BY DEF Inv, Typed, SrcTyped, DstTyped, IsTree
<1>2. ASSUME NEW f \in SrcPaths, IsPrefix(todo[1].path, f) PROVE Fate(f)'
    <2>1. /\ Waiting(f) /\ ~Declined(f) /\ (f \in op.given => src[f] = File(f))
          /\ (f \notin op.given => src[f] \in {None, Dir}) /\ dst[To(f)] # File(f)
        BY <1>2, UnderTask
    <2>2. Waiting(f)' <=> In2(L, f)
        BY <1>2, TopIs, WaitingThen
    <2>3. Declined(f)' <=> \E d \in D : IsPrefix(d, f)
        BY <2>1 DEF Declined, Logged
    <2>. QED BY <1>2, <2>1, <2>2, <2>3 DEF Fate, Untouched
<1>. QED BY <1>1, <1>2, WorkStep

LEMMA GoesOn ==
    ASSUME Inv, todo # <<>>, Works(todo[1]), NEW t \in Tasks, Works(t),
           t.path = todo[1].path, Then(<<t>>), UNCHANGED <<op, src, dst>>,
           policy' \in {"ask", "replace", "skip", "newer"}, NEW A, Logged(A, {}),
           TaskOK(t)', TopTask(t)'
    PROVE  Inv'
<1>1. /\ <<t>> \in Seq(Tasks) /\ Replaces(<<t>>, todo[1]) /\ <<t>>[1] = t /\ Len(<<t>>) = 1
      /\ \A f : In2(<<t>>, f) <=> IsPrefix(t.path, f)
    BY TopIs, OneTask
<1>2. \A k \in 1..Len(<<t>>) : TaskOK(<<t>>[k])'
    BY <1>1 DEF TaskOK
<1>3. TopTask(<<t>>[1])'
    BY <1>1
<1>. QED BY <1>1, <1>2, <1>3, PassStep

LEMMA GivesUp ==
    ASSUME Inv, todo # <<>>, Works(todo[1]), Return, UNCHANGED <<op, src, dst>>,
           policy' \in {"ask", "replace", "skip", "newer"},
           \/ Logged({}, {}) /\ log'.errors
           \/ todo[1].path \in SrcPaths /\ Logged({}, {todo[1].path})
    PROVE  Inv'
<1>1. PICK L \in Seq(Tasks) : L = <<>>
    BY <<>> \in Seq(Tasks)
<1>2. /\ Replaces(L, todo[1]) /\ Then(L) /\ L = <<>>
      /\ \A f : ~In2(L, f)
    BY <1>1, NothingReplaces DEF Return, In2
<1>3. \A k \in 1..Len(L) : FALSE
    BY <1>1
<1>4. PICK D \in SUBSET SrcPaths :
          /\ Logged({}, D) /\ \A d \in D : IsPrefix(todo[1].path, d)
          /\ log'.errors \/ \A f \in SrcPaths : IsPrefix(todo[1].path, f) =>
                               \E d \in D : IsPrefix(d, f)
    <2>1. CASE Logged({}, {}) /\ log'.errors
        BY <2>1
    <2>2. CASE todo[1].path \in SrcPaths /\ Logged({}, {todo[1].path})
        <3>1. PICK D \in SUBSET SrcPaths : D = {todo[1].path}
            BY <2>2
        <3>2. \A d \in D : IsPrefix(todo[1].path, d)
            BY <3>1, TopIs, PrefixFacts
        <3>3. \A f \in SrcPaths : IsPrefix(todo[1].path, f) => \E d \in D : IsPrefix(d, f)
            BY <3>1
        <3>. QED BY <2>2, <3>1, <3>2, <3>3
    <2>. QED BY <2>1, <2>2
<1>5. \A f \in SrcPaths : IsPrefix(todo[1].path, f) =>
          ~In2(L, f) /\ (log'.errors \/ \E d \in D : IsPrefix(d, f))
    BY <1>2, <1>4
<1>6. \A k \in 1..Len(L) : TaskOK(L[k])'
    BY <1>3
<1>7. L # <<>> => TopTask(L[1])'
    BY <1>1
<1>. QED BY <1>2, <1>4, <1>5, <1>6, <1>7, PassStep

----------------------------------------------------------------------------
(* The actions: each keeps the invariant and what module Transfer promises. *)

\* What a step may do to the contents of files.
Moves ==
    /\ UNCHANGED op /\ log.agreed \subseteq log'.agreed
    /\ \A f \in SrcPaths :
          /\ src[f] = File(f) /\ src'[f] # File(f) => op.move /\ dst'[To(f)] = File(f)
          /\ src'[f] = File(f) => src[f] = File(f)
          /\ dst[To(f)] = File(f) => dst'[To(f)] = File(f)
          /\ dst'[To(f)] = File(f) => dst[To(f)] = File(f) \/ src[f] = File(f)
          /\ dst'[To(f)] = File(To(f)) => dst[To(f)] = File(To(f))
          /\ dst[To(f)] = File(To(f)) => dst'[To(f)] = File(To(f)) \/ To(f) \in log'.agreed

LEMMA QuietMoves ==
    ASSUME UNCHANGED <<op, src, dst>>, NEW A, NEW D, Logged(A, D)
    PROVE  Moves
BY DEF Moves, Logged

LEMMA HeadIs ==
    ASSUME Inv, NEW do, NEW p, Doing(do, p)
    PROVE  /\ todo # <<>> /\ todo[1].do = do /\ todo[1].path = p /\ TaskOK(todo[1])
           /\ TopTask(todo[1]) /\ todo[1] \in Tasks /\ p \in AnyPath
           /\ (p # <<>> => p \in SrcPaths) /\ (do \in Worker => Works(todo[1]))
           /\ policy \in {"ask", "replace", "skip", "newer"} /\ LogTyped
           /\ SrcTyped /\ DstTyped /\ IsTree(src) /\ IsTree(dst)
<1>1. todo # <<>>
    BY DEF Doing
<1>. QED BY <1>1, TopIs DEF Doing, Inv, Typed, AnyPath, Works

LEMMA TaskIs ==
    ASSUME NEW do \in Kinds, NEW p \in AnyPath
    PROVE  /\ Task(do, p) \in Tasks /\ Task(do, p).do = do /\ Task(do, p).path = p
           /\ do \in Worker => Works(Task(do, p))
BY DEF Task, Tasks, Works

LEMMA TopStep ==
    ASSUME Inv, NEW p \in SrcPaths, Top(p)
    PROVE  Inv' /\ Moves
<1>1. Doing("top", p) /\ UNCHANGED <<op, policy, src, dst>>
    BY DEF Top
<1>2. /\ todo # <<>> /\ todo[1].do = "top" /\ todo[1].path = p /\ TaskOK(todo[1])
      /\ Works(todo[1]) /\ policy' \in {"ask", "replace", "skip", "newer"} /\ LogTyped
    BY <1>1, HeadIs DEF Worker
<1>3. CASE Then(<<Task("item", p)>>) /\ UNCHANGED log
    <2>1. PICK t \in Tasks : t = Task("item", p)
        BY TaskIs DEF Kinds, AnyPath
    <2>2. Works(t) /\ t.path = p /\ t.do = "item"
        BY <2>1, TaskIs DEF Kinds, AnyPath, Worker
    <2>3. TaskOK(t)' /\ TopTask(t)'
        BY <1>1, <1>2, <2>2 DEF TaskOK, TopTask, Sweeps
    <2>4. Logged({}, {})
        BY <1>2, <1>3, LogIs
    <2>5. Inv'
        BY <1>1, <1>2, <1>3, <2>1, <2>2, <2>3, <2>4, GoesOn
    <2>. QED BY <1>1, <2>4, <2>5, QuietMoves
<1>4. CASE Return /\ Error
    <2>1. Logged({}, {}) /\ log'.errors
        BY <1>2, <1>4, LogIs
    <2>. QED BY <1>1, <1>2, <1>4, <2>1, GivesUp, QuietMoves
<1>. QED BY <1>3, <1>4 DEF Top


LEMMA OneUnderOne ==
    ASSUME NEW p \in SrcPaths, Len(p) = 1, NEW q \in SrcPaths, Len(q) = 1, IsPrefix(p, q)
    PROVE  q = p
<1>1. p = q \/ p[1] = q[1]
    BY PrefixIs, SrcPathFacts DEF AnyPath
<1>2. p = Up(p) /\ q = Up(q)
    BY SrcPathFacts
<1>3. p[1] = q[1] => Up(p) = Up(q)
    BY DEF Up
<1>. QED BY <1>1, <1>2, <1>3

\* One task becomes another one about the same path.
LEMMA Becomes ==
    ASSUME Inv, NEW p \in SrcPaths, NEW d \in Worker, Doing(d, p),
           NEW e \in {"item", "ask", "put", "rsync"}, Then(<<Task(e, p)>>),
           UNCHANGED <<op, src, dst>>, policy' \in {"ask", "replace", "skip", "newer"},
           NEW A, Logged(A, {}),
           e = "put" => dst[To(p)] = None \/ Merge(p),
           e = "rsync" => Len(p) = 1 /\ SameKind(p)
    PROVE  Inv' /\ Moves
<1>1. todo # <<>> /\ todo[1].path = p /\ TaskOK(todo[1]) /\ Works(todo[1])
    BY HeadIs
<1>2. PICK t \in Tasks : t = Task(e, p)
    BY TaskIs DEF Kinds, AnyPath
<1>3. Works(t) /\ t.path = p /\ t.do = e
    BY <1>2, TaskIs DEF Kinds, AnyPath, Worker
<1>4. TaskOK(t)'
    BY <1>1, <1>3, SrcPathFacts DEF TaskOK, Sweeps
<1>5. TopTask(t)'
    <2>1. ASSUME e = "rsync", NEW q \in SrcPaths, Len(q) = 1, IsPrefix(p, q) PROVE q = p
        BY <2>1, OneUnderOne
    <2>2. \A q : SameKind(q)' <=> SameKind(q)
        BY DEF SameKind
    <2>3. Merge(p)' <=> Merge(p)
        BY DEF Merge
    <2>. QED BY <1>3, <2>1, <2>2, <2>3 DEF TopTask
<1>6. Inv'
    BY <1>1, <1>2, <1>3, <1>4, <1>5, GoesOn
<1>. QED BY <1>6, QuietMoves

\* do_copy2 and do_move2 go on: what is at the destination has to go first unless
\* a folder is merged into a folder.
LEMMA PlacingStep ==
    ASSUME Inv, NEW p \in SrcPaths, NEW d \in Worker, Doing(d, p), Then(Placing(p)),
           UNCHANGED <<op, src, dst>>, policy' \in {"ask", "replace", "skip", "newer"},
           Agree({To(p)})
    PROVE  Inv' /\ Moves
<1>1. /\ todo # <<>> /\ todo[1].path = p /\ TaskOK(todo[1]) /\ Works(todo[1]) /\ LogTyped
      /\ todo[1] \in Tasks
    BY HeadIs
<1>2. To(p) \in DstPaths
    BY ToFacts
<1>3. Logged({To(p)}, {}) /\ To(p) \in log'.agreed
    BY <1>1, <1>2, LogIs DEF Logged
<1>4. CASE Merge(p)
    <2>1. PICK L : L = <<Task("put", p)>>
        OBVIOUS
    <2>2. Placing(p) = L
        <3>1. L \in Seq({Task("put", p)})
            BY <2>1
        <3>2. <<>> \o L = L
            BY ONLY <3>1, ConcatEmptySeq
        <3>. QED BY <1>4, <2>1, <3>2 DEF Placing
    <2>. QED BY <1>3, <1>4, <2>1, <2>2, Becomes DEF Worker
<1>5. CASE ~Merge(p)
    <2> DEFINE c == Task("clear", p)
               t == Task("put", p)
    <2>1. PICK L \in Seq(Tasks) : L = <<c, t>>
        BY <1>1, TwoTasks
    <2>2. /\ Replaces(L, todo[1]) /\ Len(L) = 2 /\ L[1] = c /\ L[2] = t
          /\ \A f : In2(L, f) <=> IsPrefix(p, f)
        BY <1>1, <2>1, TwoTasks
    <2>3. c \in Tasks /\ c.path = p /\ c.do = "clear" /\ t.path = p /\ t.do = "put"
        BY TaskIs DEF Kinds, AnyPath
    <2> HIDE DEF c, t
    <2>4. Placing(p) = L
        <3>1. c \in {c, t} /\ t \in {c, t} /\ <<c>> \in Seq({c, t})
            OBVIOUS
        <3>2. <<c>> \o <<t>> = Append(<<c>>, t)
            BY ONLY <3>1, AppendIsConcat
        <3>3. Append(<<c>>, t) = <<c, t>>
            <4> DEFINE u == Append(<<c>>, t)
                       v == <<c, t>>
                       S == {c, t}
            <4>1. u \in Seq(S) /\ Len(u) = 2 /\ u[1] = c /\ u[2] = t
                BY <3>1, AppendProperties, Len(<<c>>) = 1, <<c>>[1] = c
            <4>2. v \in Seq(S) /\ Len(v) = 2 /\ v[1] = c /\ v[2] = t
                OBVIOUS
            <4>3. \A j \in 1..2 : j = 1 \/ j = 2
                OBVIOUS
            <4> HIDE DEF u, v, S
            <4>4. \A j \in 1..Len(u) : u[j] = v[j]
                BY <4>1, <4>2, <4>3
            <4>5. u = v
                BY <4>1, <4>2, <4>4, SeqEqual
            <4>. QED BY <4>5 DEF u, v
        <3>4. Placing(p) = <<c>> \o <<t>>
            BY <1>5 DEF Placing, c, t
        <3>. QED BY <2>1, <3>2, <3>3, <3>4
    <2>5. Then(L)
        BY <2>4
    <2>6. TaskOK(c)' /\ TaskOK(t)' /\ TopTask(c)'
        BY <1>1, <1>3, <2>3, SrcPathFacts DEF TaskOK, TopTask, Works, Worker, Sweeps
    <2>7. \A k \in 1..Len(L) : TaskOK(L[k])'
        <3>1. \A k \in 1..2 : k = 1 \/ k = 2
            OBVIOUS
        <3>. QED BY <2>2, <2>6, <3>1 DEF TaskOK
    <2>8. L # <<>> => TopTask(L[1])'
        BY <2>2, <2>6
    <2>9. Inv'
        BY <1>1, <1>3, <2>2, <2>5, <2>7, <2>8, PassStep
    <2>. QED BY <1>3, <2>9, QuietMoves
<1>. QED BY <1>4, <1>5

LEMMA ExistingStep ==
    ASSUME Inv, NEW p \in SrcPaths, Existing(p)
    PROVE  Inv' /\ Moves
<1>1. Doing("item", p) /\ UNCHANGED <<op, policy, src, dst>> /\ dst[To(p)] # None
    BY DEF Existing
<1>2. /\ todo # <<>> /\ todo[1].do = "item" /\ todo[1].path = p /\ LogTyped
      /\ Works(todo[1]) /\ policy' \in {"ask", "replace", "skip", "newer"}
    BY <1>1, HeadIs DEF Worker
<1>3. CASE Return /\ Decline({p})
    <2>1. Logged({}, {p})
        BY <1>2, <1>3, LogIs
    <2>. QED BY <1>1, <1>2, <1>3, <2>1, GivesUp, QuietMoves
<1>4. CASE Then(Placing(p)) /\ Agree({To(p)})
    BY <1>1, <1>2, <1>4, PlacingStep DEF Worker
<1>5. CASE Then(<<Task("ask", p)>>) /\ UNCHANGED log
    <2>1. Logged({}, {})
        BY <1>2, <1>5, LogIs
    <2>. QED BY <1>1, <1>2, <1>5, <2>1, Becomes DEF Worker
<1>. QED BY <1>3, <1>4, <1>5 DEF Existing

LEMMA FreshStep ==
    ASSUME Inv, NEW p \in SrcPaths, Fresh(p)
    PROVE  Inv' /\ Moves
<1>1. Doing("item", p) /\ UNCHANGED <<op, policy, src, dst>> /\ dst[To(p)] = None
    BY DEF Fresh
<1>2. /\ todo # <<>> /\ todo[1].do = "item" /\ todo[1].path = p /\ LogTyped
      /\ Works(todo[1]) /\ policy' \in {"ask", "replace", "skip", "newer"}
    BY <1>1, HeadIs DEF Worker
<1>3. CASE Return /\ Decline({p})
    <2>1. Logged({}, {p})
        BY <1>2, <1>3, LogIs
    <2>. QED BY <1>1, <1>2, <1>3, <2>1, GivesUp, QuietMoves
<1>4. CASE Then(<<Task("put", p)>>) /\ UNCHANGED log
    <2>1. Logged({}, {})
        BY <1>2, <1>4, LogIs
    <2>. QED BY <1>1, <1>2, <1>4, <2>1, Becomes DEF Worker
<1>. QED BY <1>3, <1>4 DEF Fresh

LEMMA UnreadableStep ==
    ASSUME Inv, NEW p \in SrcPaths, Unreadable(p)
    PROVE  Inv' /\ Moves
<1>1. Doing("item", p) /\ UNCHANGED <<op, policy, src, dst>> /\ Return /\ Error
    BY DEF Unreadable
<1>2. /\ todo # <<>> /\ todo[1].path = p /\ LogTyped
      /\ Works(todo[1]) /\ policy' \in {"ask", "replace", "skip", "newer"}
    BY <1>1, HeadIs DEF Worker
<1>3. Logged({}, {}) /\ log'.errors
    BY <1>1, <1>2, LogIs
<1>. QED BY <1>1, <1>2, <1>3, GivesUp, QuietMoves

LEMMA AnswerStep ==
    ASSUME Inv, NEW p \in SrcPaths, NEW c \in {"Y", "N", "A", "S"}, Answer(p, c)
    PROVE  Inv' /\ Moves
<1>1. Doing("ask", p) /\ UNCHANGED <<op, src, dst>>
    BY DEF Answer
<1>2. todo # <<>> /\ todo[1].path = p /\ LogTyped /\ Works(todo[1])
    BY <1>1, HeadIs DEF Worker
<1>3. policy' \in {"ask", "replace", "skip", "newer"}
    <2>1. policy \in {"ask", "replace", "skip", "newer"}
        BY <1>1, HeadIs
    <2>2. policy' = "replace" \/ policy' = "skip" \/ policy' = policy
        BY DEF Answer
    <2>. QED BY <2>1, <2>2
<1>4. CASE Then(Placing(p)) /\ Agree({To(p)})
    BY <1>1, <1>3, <1>4, PlacingStep DEF Worker
<1>5. CASE Return /\ Decline({p})
    <2>1. Logged({}, {p})
        BY <1>2, <1>5, LogIs
    <2>. QED BY <1>1, <1>2, <1>3, <1>5, <2>1, GivesUp, QuietMoves
<1>. QED BY <1>4, <1>5 DEF Answer

LEMMA RenameStep ==
    ASSUME Inv, NEW p \in SrcPaths, Rename(p)
    PROVE  Inv' /\ Moves
<1>1. Doing("fast", p) /\ UNCHANGED <<op, policy, src, dst, log>> /\ Then(<<Task("item", p)>>)
    BY DEF Rename
<1>2. LogTyped /\ policy' \in {"ask", "replace", "skip", "newer"}
    BY <1>1, HeadIs
<1>3. Logged({}, {})
    BY <1>1, <1>2, LogIs
<1>. QED BY <1>1, <1>2, <1>3, Becomes DEF Worker


----------------------------------------------------------------------------
(* The steps that change files. Every path of the destination is that of a  *)
(* source, so it is enough to look at the sources one by one.               *)

LEMMA ToOnto == \A q \in DstPaths : \E f \in SrcPaths : To(f) = q
<1> SUFFICES ASSUME NEW q \in DstPaths PROVE \E f \in SrcPaths : To(f) = q
    OBVIOUS
<1>1. \A l \in Leaves : \E i \in Source : l = Leaf[i]
    BY DEF Leaves
<1>2. CASE \E l \in Leaves : q = <<l>>
    <2>1. PICK i \in Source : q = <<Leaf[i]>>
        BY <1>1, <1>2
    <2>. QED BY <2>1, ToIs, SrcPathIs
<1>3. CASE \E l \in Leaves, k \in Kids : q = <<l, k>>
    <2>1. PICK i \in Source, k \in Kids : q = <<Leaf[i], k>>
        BY <1>1, <1>3
    <2>. QED BY <2>1, ToIs, SrcPathIs
<1>. QED BY <1>2, <1>3, DstPathIs

LEMMA DstTree ==
    ASSUME NEW tree, DOMAIN tree = DstPaths
    PROVE  IsTree(tree) <=>
             \A f \in SrcPaths : Len(f) = 2 /\ tree[To(f)] # None => tree[To(Up(f))] = Dir
<1>1. \A f \in SrcPaths : /\ To(f) \in DstPaths /\ Len(To(f)) = Len(f)
                          /\ To(Up(f)) = <<To(f)[1]>>
    BY ToFacts
<1>. QED BY <1>1, ToOnto DEF IsTree

LEMMA SrcTree ==
    ASSUME NEW tree, DOMAIN tree = SrcPaths
    PROVE  IsTree(tree) <=>
             \A f \in SrcPaths : Len(f) = 2 /\ tree[f] # None => tree[Up(f)] = Dir
BY DEF IsTree, Up

\* What holds of a path under a task that gives way to L, passing over D.
Passed(D, f) == \E d \in D : IsPrefix(d, f)
Placed(L, D, f) ==
    /\ src'[f] \in {src[f], None}
    /\ dst'[To(f)] \in {dst[To(f)], None, Part, File(f)} \/ (Len(f) = 1 /\ dst'[To(f)] = Dir)
    /\ Len(f) = 2 /\ src'[f] # None => src'[Up(f)] = Dir
    /\ Len(f) = 2 /\ dst'[To(f)] # None => dst'[To(Up(f))] = Dir
    /\ src[f] = File(f) /\ src'[f] # File(f) => op.move /\ dst'[To(f)] = File(f)
    /\ dst'[To(f)] = File(f) => src[f] = File(f)
    /\ dst[To(f)] = File(To(f)) => dst'[To(f)] = File(To(f)) \/ To(f) \in log'.agreed
    /\ ~(In2(L, f) /\ Passed(D, f))
    /\ f \in op.given /\ (In2(L, f) \/ Passed(D, f)) =>
          src'[f] = File(f) /\ dst'[To(f)] # File(f)
    /\ f \in op.given /\ ~In2(L, f) /\ ~Passed(D, f) /\ ~log'.errors =>
          dst'[To(f)] = File(f) /\ (src'[f] = File(f) <=> ~op.move)

LEMMA UpIsElsewhere ==
    ASSUME NEW p \in AnyPath, NEW f \in SrcPaths, ~IsPrefix(p, f)
    PROVE  Up(f) \in SrcPaths /\ ~IsPrefix(p, Up(f))
BY SrcPathFacts, PrefixFacts DEF AnyPath

\* No file has the name of a place at the destination.
LEMMA FilesApart ==
    \A f, g \in SrcPaths : File(f) # File(To(g)) /\ (File(f) = File(g) => f = g)
BY ToFacts, PathsApart, ValuesDiffer

LEMMA PlaceStep ==
    ASSUME Inv, todo # <<>>, Works(todo[1]), NEW L \in Seq(Tasks), Then(L),
           Replaces(L, todo[1]), UNCHANGED <<op, policy>>,
           NEW A, NEW D \in SUBSET SrcPaths, Logged(A, D),
           \A d \in D : IsPrefix(todo[1].path, d),
           DOMAIN src' = SrcPaths, DOMAIN dst' = DstPaths,
           \A f \in SrcPaths : ~IsPrefix(todo[1].path, f) =>
               src'[f] = src[f] /\ dst'[To(f)] = dst[To(f)],
           \A f \in SrcPaths : IsPrefix(todo[1].path, f) => Placed(L, D, f),
           \A k \in 1..Len(L) : TaskOK(L[k])',
           L # <<>> => TopTask(L[1])'
    PROVE  Inv' /\ Moves
<1> DEFINE p == todo[1].path
<1>1. p \in AnyPath
    BY TopIs
<1>2. /\ SrcTyped /\ DstTyped /\ IsTree(src) /\ IsTree(dst)
      /\ policy' \in {"ask", "replace", "skip", "newer"}
    BY DEF Inv, Typed
<1>3. SrcTyped'
    BY <1>2 DEF SrcTyped, Placed
<1>4. DstTyped'
    <2>1. ASSUME NEW f \in SrcPaths
          PROVE  \/ dst'[To(f)] \in {None, Part, File(To(f))} \cup {File(g) : g \in SrcPaths}
                 \/ Len(To(f)) = 1 /\ dst'[To(f)] = Dir
        <3>1. To(f) \in DstPaths /\ Len(To(f)) = Len(f)
            BY ToFacts
        <3>2. \/ dst[To(f)] \in {None, Part, File(To(f))} \cup {File(g) : g \in SrcPaths}
              \/ Len(To(f)) = 1 /\ dst[To(f)] = Dir
            BY <1>2, <3>1 DEF DstTyped
        <3>3. CASE IsPrefix(p, f)
            <4> DEFINE V == {None, Part, File(To(f))} \cup {File(g) : g \in SrcPaths}
            <4>1. None \in V /\ Part \in V /\ File(f) \in V
                OBVIOUS
            <4>2. \/ dst'[To(f)] \in {dst[To(f)], None, Part, File(f)}
                  \/ Len(f) = 1 /\ dst'[To(f)] = Dir
                BY <3>3 DEF Placed
            <4>3. dst[To(f)] \in V \/ (Len(To(f)) = 1 /\ dst[To(f)] = Dir)
                BY <3>2
            <4> HIDE DEF V
            <4>4. dst'[To(f)] \in V \/ (Len(To(f)) = 1 /\ dst'[To(f)] = Dir)
                BY <3>1, <4>1, <4>2, <4>3
            <4>. QED BY <4>4 DEF V
        <3>4. CASE ~IsPrefix(p, f)
            BY <3>2, <3>4
        <3>. QED BY <3>3, <3>4
    <2>2. \A q \in DstPaths :
              \/ dst'[q] \in {None, Part, File(q)} \cup {File(g) : g \in SrcPaths}
              \/ Len(q) = 1 /\ dst'[q] = Dir
        BY <2>1, ToOnto
    <2>. QED BY <2>2 DEF DstTyped
<1>5. IsTree(src')
    <2>1. ASSUME NEW f \in SrcPaths, Len(f) = 2, src'[f] # None PROVE src'[Up(f)] = Dir
        <3>1. CASE IsPrefix(p, f)
            BY <2>1, <3>1 DEF Placed
        <3>2. CASE ~IsPrefix(p, f)
            <4>1. src'[f] = src[f] /\ src'[Up(f)] = src[Up(f)]
                BY <1>1, <3>2, UpIsElsewhere
            <4>. QED BY <1>2, <2>1, <4>1, SrcTree DEF SrcTyped
        <3>. QED BY <3>1, <3>2
    <2>. QED BY <2>1, SrcTree
<1>6. IsTree(dst')
    <2>1. ASSUME NEW f \in SrcPaths, Len(f) = 2, dst'[To(f)] # None
          PROVE  dst'[To(Up(f))] = Dir
        <3>1. CASE IsPrefix(p, f)
            BY <2>1, <3>1 DEF Placed
        <3>2. CASE ~IsPrefix(p, f)
            <4>1. dst'[To(f)] = dst[To(f)] /\ dst'[To(Up(f))] = dst[To(Up(f))]
                BY <1>1, <3>2, UpIsElsewhere
            <4>. QED BY <1>2, <2>1, <4>1, DstTree DEF DstTyped
        <3>. QED BY <3>1, <3>2
    <2>. QED BY <2>1, DstTree
<1>7. ASSUME NEW f \in SrcPaths, IsPrefix(p, f) PROVE Fate(f)'
    <2>1. /\ Waiting(f) /\ ~Declined(f) /\ (f \in op.given => src[f] = File(f))
          /\ (f \notin op.given => src[f] \in {None, Dir}) /\ dst[To(f)] # File(f)
        BY <1>7, UnderTask
    <2>2. Waiting(f)' <=> In2(L, f)
        BY <1>7, TopIs, WaitingThen
    <2>3. Declined(f)' <=> Passed(D, f)
        BY <2>1 DEF Declined, Logged, Passed
    <2>4. Placed(L, D, f)
        BY <1>7
    <2>5. f \notin op.given => src'[f] \in {None, Dir} /\ dst'[To(f)] # File(f)
        BY <2>1, <2>4, ValuesDiffer DEF Placed
    <2>6. f \in op.given => src'[f] \in {None, File(f)}
        BY <2>1, <2>4 DEF Placed
    <2>7. f \in op.given /\ (Waiting(f)' \/ Declined(f)') => Untouched(f)'
        BY <2>2, <2>3, <2>4 DEF Placed, Untouched
    <2>8. f \in op.given /\ ~Waiting(f)' /\ ~Declined(f)' /\ ~log'.errors => Arrived(f)'
        BY <2>2, <2>3, <2>4 DEF Placed, Arrived
    <2>9. ~(Waiting(f)' /\ Declined(f)')
        BY <2>2, <2>3, <2>4 DEF Placed
    <2>. QED BY <2>5, <2>6, <2>7, <2>8, <2>9 DEF Fate
<1>8. Inv'
    BY <1>2, <1>3, <1>4, <1>5, <1>6, <1>7, WorkStep
<1>9. Moves
    <2>1. ASSUME NEW f \in SrcPaths, IsPrefix(p, f)
          PROVE  /\ src[f] = File(f) /\ src'[f] # File(f) => op.move /\ dst'[To(f)] = File(f)
                 /\ src'[f] = File(f) => src[f] = File(f)
                 /\ dst[To(f)] = File(f) => dst'[To(f)] = File(f)
                 /\ dst'[To(f)] = File(f) => dst[To(f)] = File(f) \/ src[f] = File(f)
                 /\ dst'[To(f)] = File(To(f)) => dst[To(f)] = File(To(f))
                 /\ dst[To(f)] = File(To(f)) =>
                       dst'[To(f)] = File(To(f)) \/ To(f) \in log'.agreed
        <3>1. dst[To(f)] # File(f)
            BY <2>1, UnderTask
        <3>2. Placed(L, D, f)
            BY <2>1
        <3>3. File(f) # File(To(f)) /\ File(f) # None /\ \A q : File(q) \notin {None, Part, Dir}
            BY FilesApart, ValuesDiffer
        <3>. QED BY <3>1, <3>2, <3>3 DEF Placed
    <2>2. ASSUME NEW f \in SrcPaths, ~IsPrefix(p, f)
          PROVE  src'[f] = src[f] /\ dst'[To(f)] = dst[To(f)]
        BY <2>2
    <2>3. log.agreed \subseteq log'.agreed
        BY DEF Logged
    <2> HIDE DEF p
    <2>. QED BY <2>1, <2>2, <2>3 DEF Moves
<1>. QED BY <1>8, <1>9


LEMMA PlaceReturns ==
    ASSUME Inv, todo # <<>>, Works(todo[1]), Return, UNCHANGED <<op, policy>>,
           NEW A, NEW D \in SUBSET SrcPaths, Logged(A, D),
           \A d \in D : IsPrefix(todo[1].path, d),
           DOMAIN src' = SrcPaths, DOMAIN dst' = DstPaths,
           \A f \in SrcPaths : ~IsPrefix(todo[1].path, f) =>
               src'[f] = src[f] /\ dst'[To(f)] = dst[To(f)],
           \A f \in SrcPaths : IsPrefix(todo[1].path, f) => Placed(<<>>, D, f)
    PROVE  Inv' /\ Moves
<1>1. PICK L \in Seq(Tasks) : L = <<>>
    BY <<>> \in Seq(Tasks)
<1>2. Replaces(L, todo[1]) /\ Then(L)
    BY <1>1, NothingReplaces DEF Return
<1>3. \A k \in 1..Len(L) : FALSE
    BY <1>1
<1>4. \A k \in 1..Len(L) : TaskOK(L[k])'
    BY <1>3
<1>5. L # <<>> => TopTask(L[1])'
    BY <1>1
<1>6. \A f \in SrcPaths : IsPrefix(todo[1].path, f) => Placed(L, D, f)
    BY <1>1
<1>. QED BY <1>2, <1>4, <1>5, <1>6, PlaceStep

LEMMA NothingWaits == \A f : ~In2(<<>>, f) /\ ~Passed({}, f)
BY DEF In2, Passed

\* What is in something that is no folder.
LEMMA Below ==
    ASSUME Inv, NEW p \in SrcPaths, NEW f \in SrcPaths, IsPrefix(p, f), f # p
    PROVE  /\ Len(p) = 1 /\ Len(f) = 2 /\ Up(f) = p
           /\ src[p] # Dir => src[f] = None
           /\ dst[To(p)] # Dir => dst[To(f)] = None
<1>1. Len(p) = 1 /\ p[1] = f[1]
    BY PrefixIs, SrcPathFacts DEF AnyPath
<1>2. p = Up(p) /\ Up(p) = Up(f)
    BY <1>1, SrcPathFacts DEF Up
<1>3. Len(f) = 2
    BY <1>2, SrcPathFacts
<1>4. /\ DOMAIN src = SrcPaths /\ IsTree(src) /\ DOMAIN dst = DstPaths /\ IsTree(dst)
    BY DEF Inv, Typed, SrcTyped, DstTyped
<1>. QED BY <1>1, <1>2, <1>3, <1>4, SrcTree, DstTree

LEMMA CpStep ==
    ASSUME Distinct, Inv, NEW p \in SrcPaths, Cp(p)
    PROVE  Inv' /\ Moves
<1>1. /\ Doing("put", p) /\ UNCHANGED <<op, policy, src>> /\ Return
      /\ src[p] # Dir /\ ~op.move
    BY DEF Cp
<1>2. /\ todo # <<>> /\ todo[1].do = "put" /\ todo[1].path = p /\ LogTyped
      /\ Works(todo[1]) /\ TaskOK(todo[1]) /\ TopTask(todo[1])
      /\ SrcTyped /\ DstTyped
    BY <1>1, HeadIs DEF Worker
<1>3. src[p] # None /\ dst[To(p)] = None
    BY <1>1, <1>2, SrcPathFacts DEF TaskOK, TopTask, Merge
<1>4. src[p] = File(p) /\ p \in op.given
    <2>1. IsPrefix(p, p)
        BY PrefixFacts DEF AnyPath
    <2>. QED BY <1>1, <1>2, <1>3, <2>1, UnderTask
<1>5. PICK v \in {None, Part, File(p)} :
          /\ DOMAIN dst' = DstPaths /\ dst'[To(p)] = v
          /\ \A q \in DstPaths : q # To(p) => dst'[q] = dst[q]
          /\ Logged({}, {}) /\ (v = File(p) \/ log'.errors)
    <2>1. CASE dst' = Landed({p}) /\ UNCHANGED log
        <3>1. /\ \E f \in {p} : To(f) = To(p) /\ (CHOOSE g \in {p} : To(g) = To(p)) = p
              /\ \A q : q # To(p) => ~ \E f \in {p} : To(f) = q
            <4>1. \E f \in {p} : To(f) = To(p)
                OBVIOUS
            <4>2. (CHOOSE f \in {p} : To(f) = To(p)) \in {p}
                BY <4>1
            <4>. QED BY <4>1, <4>2
        <3>2. dst' = [q \in DstPaths |-> IF \E f \in {p} : To(f) = q
                          THEN File(CHOOSE f \in {p} : To(f) = q) ELSE dst[q]]
            BY <2>1 DEF Landed
        <3>3. To(p) \in DstPaths
            BY ToFacts
        <3>4. dst'[To(p)] = File(p)
            BY <3>1, <3>2, <3>3
        <3>5. \A q \in DstPaths : q # To(p) => dst'[q] = dst[q]
            BY <3>1, <3>2
        <3>. QED BY <1>2, <2>1, <3>2, <3>4, <3>5, LogIs
    <2>2. CASE \E left \in {None, Part, File(p)} : dst' = [dst EXCEPT ![To(p)] = left] /\ Error
        <3>1. To(p) \in DstPaths /\ DOMAIN dst = DstPaths
            BY <1>2, ToFacts DEF DstTyped
        <3>2. PICK v \in {None, Part, File(p)} : dst' = [dst EXCEPT ![To(p)] = v] /\ Error
            BY <2>2
        <3>. QED BY <1>2, <3>1, <3>2, LogIs
    <2>. QED BY <2>1, <2>2 DEF Cp
<1>6. \A f \in SrcPaths : f # p => dst'[To(f)] = dst[To(f)]
    BY <1>5, ToFacts, ToOnce
<1>7. ASSUME NEW f \in SrcPaths, ~IsPrefix(p, f)
      PROVE  src'[f] = src[f] /\ dst'[To(f)] = dst[To(f)]
    BY <1>1, <1>6, <1>7, PrefixFacts DEF AnyPath
<1>8. ASSUME NEW f \in SrcPaths, IsPrefix(p, f) PROVE Placed(<<>>, {}, f)
    <2>1. CASE f = p
        <3>1. Len(p) = 2 => /\ src'[Up(p)] = Dir /\ dst'[To(Up(p))] = Dir
            <4>1. Len(p) = 2 => dst[To(Up(p))] = Dir /\ Up(p) \in SrcPaths /\ Up(p) # p
                BY <1>2, SrcPathFacts DEF TaskOK
            <4>2. Len(p) = 2 => src[Up(p)] = Dir
                <5>1. IsTree(src) /\ DOMAIN src = SrcPaths
                    BY DEF Inv, Typed, SrcTyped
                <5>. QED BY <1>3, <5>1, SrcTree
            <4>. QED BY <1>1, <1>6, <4>1, <4>2
        <3>. QED BY <1>1, <1>3, <1>4, <1>5, <2>1, <3>1, NothingWaits, FilesApart, ValuesDiffer
                 DEF Placed
    <2>2. CASE f # p
        <3>1. src[f] = None /\ dst[To(f)] = None /\ dst'[To(f)] = None /\ src'[f] = None
            BY <1>1, <1>3, <1>6, <1>8, <2>2, Below, ValuesDiffer
        <3>2. f \notin op.given
            BY <1>2, <1>8, <3>1, UnderTask, ValuesDiffer
        <3>. QED BY <3>1, <3>2, NothingWaits, ValuesDiffer DEF Placed
    <2>. QED BY <2>1, <2>2
<1>9. DOMAIN src' = SrcPaths
    BY <1>1, <1>2 DEF SrcTyped
<1>. QED BY <1>1, <1>2, <1>5, <1>7, <1>8, <1>9, PlaceReturns


LEMMA LandedIs ==
    ASSUME Distinct, NEW C \in SUBSET SrcPaths
    PROVE  /\ DOMAIN Landed(C) = DstPaths
           /\ \A f \in SrcPaths :
                 Landed(C)[To(f)] = IF f \in C THEN File(f) ELSE dst[To(f)]
<1>1. DOMAIN Landed(C) = DstPaths
    BY DEF Landed
<1>2. ASSUME NEW f \in SrcPaths
      PROVE  Landed(C)[To(f)] = IF f \in C THEN File(f) ELSE dst[To(f)]
    <2>1. To(f) \in DstPaths
        BY ToFacts
    <2>2. Landed(C)[To(f)] = IF \E g \in C : To(g) = To(f)
                             THEN File(CHOOSE g \in C : To(g) = To(f)) ELSE dst[To(f)]
        BY <2>1 DEF Landed
    <2>3. (\E g \in C : To(g) = To(f)) <=> f \in C
        BY ToOnce
    <2>4. CASE f \in C
        <3>1. (CHOOSE g \in C : To(g) = To(f)) \in C
              /\ To(CHOOSE g \in C : To(g) = To(f)) = To(f)
            BY <2>4
        <3>2. (CHOOSE g \in C : To(g) = To(f)) = f
            BY <3>1, ToOnce
        <3>. QED BY <2>2, <2>3, <2>4, <3>2
    <2>. QED BY <2>2, <2>3, <2>4
<1>. QED BY <1>1, <1>2

LEMMA SetIs ==
    ASSUME NEW tree, NEW S, NEW v
    PROVE  /\ DOMAIN Set(tree, S, v) = DOMAIN tree
           /\ \A q \in DOMAIN tree : Set(tree, S, v)[q] = IF q \in S THEN v ELSE tree[q]
BY DEF Set

LEMMA FastStep ==
    ASSUME Distinct, Inv, NEW p \in SrcPaths, Fast(p)
    PROVE  Inv' /\ Moves
<1>1. Doing("fast", p) /\ UNCHANGED <<op, policy, src>>
    BY DEF Fast
<1>2. /\ todo # <<>> /\ todo[1].do = "fast" /\ todo[1].path = p /\ LogTyped /\ todo[1] \in Tasks
      /\ Works(todo[1]) /\ TaskOK(todo[1]) /\ SrcTyped /\ DstTyped
      /\ policy' \in {"ask", "replace", "skip", "newer"}
    BY <1>1, HeadIs DEF Worker
<1>3. Len(p) = 1 /\ src[p] # None
    BY <1>2, SrcPathFacts DEF TaskOK
<1>4. CASE ~OtherKind(p) /\ Then(<<Task("rsync", p)>>) /\ UNCHANGED <<dst, log>>
    <2>1. Logged({}, {})
        BY <1>2, <1>4, LogIs
    <2>2. SameKind(p)
        BY <1>4 DEF OtherKind, SameKind
    <2>. QED BY <1>1, <1>2, <1>3, <1>4, <2>1, <2>2, Becomes DEF Worker
<1>5. CASE Return /\ Decline({p}) /\ UNCHANGED dst
    <2>1. Logged({}, {p})
        BY <1>2, <1>5, LogIs
    <2>. QED BY <1>1, <1>2, <1>5, <2>1, GivesUp, QuietMoves
<1>6. CASE Return /\ Error /\ UNCHANGED dst
    <2>1. Logged({}, {}) /\ log'.errors
        BY <1>2, <1>6, LogIs
    <2>. QED BY <1>1, <1>2, <1>6, <2>1, GivesUp, QuietMoves
<1>7. CASE /\ Empty(dst, To(p)) \/ dst[To(p)] # Dir
           /\ dst' = [dst EXCEPT ![To(p)] = None]
           /\ Then(<<Task("rsync", p)>>) /\ Agree({To(p)})
    <2>1. PICK t \in Tasks : t = Task("rsync", p)
        BY TaskIs DEF Kinds, AnyPath
    <2>2. Works(t) /\ t.path = p /\ t.do = "rsync"
        BY <2>1, TaskIs DEF Kinds, AnyPath, Worker
    <2>3. PICK L \in Seq(Tasks) : L = <<t>>
        BY <<t>> \in Seq(Tasks)
    <2>4. /\ Replaces(L, todo[1]) /\ L[1] = t /\ Len(L) = 1 /\ Then(L)
          /\ \A f : In2(L, f) <=> IsPrefix(p, f)
        BY <1>2, <1>7, <2>1, <2>2, <2>3, OneTask
    <2>5. To(p) \in DstPaths /\ DOMAIN dst = DstPaths
        BY <1>2, ToFacts DEF DstTyped
    <2>6. Logged({To(p)}, {}) /\ To(p) \in log'.agreed
        BY <1>2, <1>7, <2>5, LogIs DEF Logged
    <2>7. DOMAIN dst' = DstPaths /\ dst'[To(p)] = None
        BY <1>7, <2>5
    <2>8. \A f \in SrcPaths : f # p => dst'[To(f)] = dst[To(f)]
        BY <1>7, <2>5, ToFacts, ToOnce
    <2>9. DOMAIN src' = SrcPaths
        BY <1>1, <1>2 DEF SrcTyped
    <2>10. ASSUME NEW f \in SrcPaths, ~IsPrefix(p, f)
           PROVE  src'[f] = src[f] /\ dst'[To(f)] = dst[To(f)]
        BY <1>1, <2>8, <2>10, PrefixFacts DEF AnyPath
    <2>11. ASSUME NEW f \in SrcPaths, IsPrefix(p, f) PROVE Placed(L, {}, f)
        <3>1. src'[f] = src[f] /\ (f \in op.given => src[f] = File(f))
            BY <1>1, <1>2, <2>11, UnderTask
        <3>2. Len(f) = 2 /\ src[f] # None => src'[Up(f)] = Dir
            <4>1. IsTree(src) /\ DOMAIN src = SrcPaths
                BY DEF Inv, Typed, SrcTyped
            <4>. QED BY <1>1, <4>1, SrcTree
        <3>3. dst[To(f)] # File(f)
            BY <1>2, <2>11, UnderTask
        <3>4. In2(L, f) /\ ~Passed({}, f)
            BY <2>4, <2>11, NothingWaits
        <3>5. CASE f = p
            BY <1>3, <2>6, <2>7, <3>1, <3>2, <3>4, <3>5, ValuesDiffer DEF Placed
        <3>6. CASE f # p
            <4>1. Len(p) = 1 /\ Up(f) = p /\ (dst[To(p)] # Dir => dst[To(f)] = None)
                BY <2>11, <3>6, Below
            <4>2. Empty(dst, To(p)) => dst[To(f)] = None
                <5>1. To(f) \in DstPaths /\ Len(To(f)) = 2 /\ To(f)[1] = To(p)[1]
                    BY <2>11, <3>6, <4>1, Below, ToFacts, SrcPathFacts DEF Up
                <5>. QED BY <2>5, <5>1 DEF Empty, In
            <4>3. dst'[To(f)] = None
                BY <1>7, <2>8, <3>6, <4>1, <4>2
            <4>4. dst[To(f)] = None
                BY <1>7, <4>1, <4>2
            <4>. QED BY <3>1, <3>2, <3>4, <4>3, <4>4, ValuesDiffer DEF Placed
        <3>. QED BY <3>5, <3>6
    <2>12. TaskOK(t)'
        <3>1. p # <<>> /\ Len(p) # 2 /\ Len(p) < 2 /\ src'[p] # None
            BY <1>1, <1>3, SrcPathFacts
        <3>2. t.do # "clear" /\ ~Sweeps(t)
            BY <2>2 DEF Sweeps
        <3> HIDE <1>1
        <3>. QED BY <2>2, <3>1, <3>2 DEF TaskOK
    <2>13. TopTask(t)'
        <3>1. \A q \in SrcPaths : Len(q) = 1 /\ IsPrefix(p, q) => q = p
            BY <1>3, OneUnderOne
        <3>2. SameKind(p)'
            BY <2>7 DEF SameKind
        <3>. QED BY <2>2, <3>1, <3>2 DEF TopTask
    <2>14. \A k \in 1..Len(L) : TaskOK(L[k])'
        <3>1. \A k \in 1..1 : k = 1
            OBVIOUS
        <3>. QED BY <2>4, <2>12, <3>1 DEF TaskOK
    <2>15. L # <<>> => TopTask(L[1])'
        BY <2>4, <2>13
    <2>. QED BY <1>1, <1>2, <2>4, <2>6, <2>7, <2>9, <2>10, <2>11, <2>14, <2>15, PlaceStep
<1>. QED BY <1>4, <1>5, <1>6, <1>7 DEF Fast


\* The sweep that takes the place of a task.
LEMMA SweepTask ==
    ASSUME NEW h \in Tasks, Works(h), h.path \in SrcPaths, NEW d \in {"rmdir", "prune"}
    PROVE  LET t == Task(d, h.path)
           IN  /\ t \in Tasks /\ t.do = d /\ t.path = h.path /\ <<t>> \in Seq(Tasks)
               /\ Replaces(<<t>>, h) /\ <<t>>[1] = t /\ Len(<<t>>) = 1
               /\ \A f : ~In2(<<t>>, f)
<1> DEFINE t == Task(d, h.path)
<1>1. t \in Tasks /\ t.do = d /\ t.path = h.path
    BY TaskIs DEF Kinds, AnyPath
<1>2. <<t>> \in Seq(Tasks) /\ <<t>>[1] = t /\ Len(<<t>>) = 1 /\ \A k \in 1..1 : k = 1
    BY <1>1
<1>3. ~Works(t) /\ t.do # "clear" /\ h.path # <<>>
    BY <1>1, SrcPathFacts DEF Works, Worker
<1>4. \A k : ~(k \in 2..1)
    OBVIOUS
<1> HIDE DEF t
<1>5. OneOf(<<t>>) /\ Below2(<<t>>)
    BY <1>2, <1>3, <1>4 DEF OneOf, Below2
<1>6. Replaces(<<t>>, h) /\ \A f : ~In2(<<t>>, f)
    BY <1>1, <1>2, <1>3, <1>5 DEF Replaces, In2
<1>. QED BY <1>1, <1>2, <1>6 DEF t

LEMMA RsyncStep ==
    ASSUME Distinct, Inv, NEW p \in AnyPath, Rsync(p)
    PROVE  Inv' /\ Moves
<1> DEFINE F == Files(p)
           Dirs == {q \in SrcPaths : IsPrefix(p, q) /\ src[q] = Dir}
<1>1. Doing("rsync", p) /\ UNCHANGED <<op, policy>>
    BY DEF Rsync
<1>2. /\ todo # <<>> /\ todo[1].do = "rsync" /\ todo[1].path = p /\ LogTyped
      /\ todo[1] \in Tasks /\ Works(todo[1]) /\ TaskOK(todo[1]) /\ TopTask(todo[1])
      /\ SrcTyped /\ DstTyped /\ IsTree(src) /\ IsTree(dst)
    BY <1>1, HeadIs DEF Worker
<1>3. /\ Len(p) < 2 /\ (p = <<>> => ~op.move) /\ (p # <<>> => p \in SrcPaths)
      /\ \A q \in SrcPaths : Len(q) = 1 /\ IsPrefix(p, q) => SameKind(q)
    BY <1>2 DEF TaskOK, TopTask, AnyPath
<1> DEFINE Done(ok, P, C, R) ==
               /\ ok => C = F \ P /\ (op.move => R = C)
               /\ ~op.move => R = {}
               /\ \E half \in SUBSET (F \ (P \cup C)) :
                     /\ Cardinality(half) <= 1
                     /\ dst' = Set(Set(Landed(C), {To(f) : f \in half}, Part),
                                   {To(q) : q \in Dirs}, Dir)
               /\ src' = Set(src, R, None)
               /\ log' = [log EXCEPT !.declined = @ \cup P,
                                     !.agreed = @ \cup {To(f) : f \in F \ P},
                                     !.errors = @ \/ ~ok]
               /\ Then(IF ok /\ op.move /\ src[p] = Dir THEN <<Task("prune", p)>> ELSE <<>>)
<1>a. \E ok \in BOOLEAN, P \in PassedOver(F) : \E C \in SUBSET (F \ P) : \E R \in SUBSET C :
          Done(ok, P, C, R)
    BY DEF Rsync
<1> HIDE DEF Done
<1>b. PICK ok \in BOOLEAN, P \in PassedOver(F) :
          \E C \in SUBSET (F \ P) : \E R \in SUBSET C : Done(ok, P, C, R)
    BY <1>a
<1>c. PICK C \in SUBSET (F \ P) : \E R \in SUBSET C : Done(ok, P, C, R)
    BY <1>b
<1>d. PICK R \in SUBSET C : Done(ok, P, C, R)
    BY <1>c
<1>e. PICK half \in SUBSET (F \ (P \cup C)) :
          dst' = Set(Set(Landed(C), {To(f) : f \in half}, Part), {To(q) : q \in Dirs}, Dir)
    BY ONLY <1>d, Zenon DEF Done
<1>4. /\ C \subseteq F \ P /\ R \subseteq C /\ half \subseteq F \ (P \cup C)
      /\ ok => C = F \ P /\ (op.move => R = C)
      /\ ~op.move => R = {}
      /\ dst' = Set(Set(Landed(C), {To(f) : f \in half}, Part),
                    {To(q) : q \in Dirs}, Dir)
      /\ src' = Set(src, R, None)
      /\ log' = [log EXCEPT !.declined = @ \cup P,
                            !.agreed = @ \cup {To(f) : f \in F \ P},
                            !.errors = @ \/ ~ok]
      /\ Then(IF ok /\ op.move /\ src[p] = Dir THEN <<Task("prune", p)>> ELSE <<>>)
    BY <1>d, <1>e DEF Done
<1>5. \A f \in SrcPaths : /\ f \in F <=> IsPrefix(p, f) /\ src[f] \notin {None, Dir}
                          /\ f \in Dirs <=> IsPrefix(p, f) /\ src[f] = Dir
    BY DEF Files
<1>6. F \subseteq SrcPaths /\ Dirs \subseteq SrcPaths /\ P \subseteq F
    BY DEF Files, PassedOver
<1> HIDE DEF F, Dirs
<1>7. /\ DOMAIN dst' = DstPaths
      /\ \A f \in SrcPaths : dst'[To(f)] = IF f \in Dirs THEN Dir
                                           ELSE IF f \in half THEN Part
                                           ELSE IF f \in C THEN File(f) ELSE dst[To(f)]
    <2>0. PICK one, H, two, E, three :
              /\ one = Landed(C)
              /\ H = {To(f) : f \in half} /\ two = Set(one, H, Part)
              /\ E = {To(q) : q \in Dirs} /\ three = Set(two, E, Dir)
              /\ dst' = three
        BY <1>4
    <2>1. C \in SUBSET SrcPaths /\ half \in SUBSET SrcPaths /\ Dirs \in SUBSET SrcPaths
        BY <1>6
    <2>2. /\ \A q : q \in H <=> \E f \in half : To(f) = q
          /\ \A q : q \in E <=> \E f \in Dirs : To(f) = q
        BY <2>0
    <2>3. /\ DOMAIN one = DstPaths
          /\ \A f \in SrcPaths : one[To(f)] = IF f \in C THEN File(f) ELSE dst[To(f)]
        BY <2>0, <2>1, LandedIs
    <2>4. /\ DOMAIN two = DstPaths
          /\ \A f \in SrcPaths : two[To(f)] = IF f \in half THEN Part ELSE one[To(f)]
        <3>1. /\ DOMAIN two = DstPaths
              /\ \A q \in DstPaths : two[q] = IF q \in H THEN Part ELSE one[q]
            BY <2>0, <2>3, SetIs
        <3>2. \A f \in SrcPaths : To(f) \in DstPaths /\ (To(f) \in H <=> f \in half)
            BY <2>1, <2>2, ToFacts, ToOnce
        <3>. QED BY <3>1, <3>2
    <2>5. /\ DOMAIN three = DstPaths
          /\ \A f \in SrcPaths : three[To(f)] = IF f \in Dirs THEN Dir ELSE two[To(f)]
        <3>1. /\ DOMAIN three = DstPaths
              /\ \A q \in DstPaths : three[q] = IF q \in E THEN Dir ELSE two[q]
            BY <2>0, <2>4, SetIs
        <3>2. \A f \in SrcPaths : To(f) \in DstPaths /\ (To(f) \in E <=> f \in Dirs)
            BY <2>1, <2>2, ToFacts, ToOnce
        <3>. QED BY <3>1, <3>2
    <2>6. dst' = three
        BY <2>0
    <2>. QED BY <2>3, <2>4, <2>5, <2>6
<1>8. /\ DOMAIN src' = SrcPaths
      /\ \A f \in SrcPaths : src'[f] = IF f \in R THEN None ELSE src[f]
    BY <1>2, <1>4, SetIs DEF SrcTyped
<1>9. /\ Logged({To(f) : f \in F \ P}, P) /\ (log'.errors <=> log.errors \/ ~ok)
      /\ \A f \in F \ P : To(f) \in log'.agreed
    <2> DEFINE A == {To(f) : f \in F \ P}
    <2>1. A \subseteq DstPaths /\ P \subseteq SrcPaths
        BY <1>6, ToFacts
    <2> HIDE DEF A
    <2>2. log' = [log EXCEPT !.declined = @ \cup P, !.agreed = @ \cup A,
                             !.errors = @ \/ ~ok]
        BY <1>4 DEF A
    <2>3. Logged(A, P) /\ (log'.errors <=> log.errors \/ ~ok)
        BY <1>2, <2>1, <2>2 DEF LogTyped, Logged
    <2>4. A \subseteq log'.agreed
        BY <2>3 DEF Logged
    <2>. QED BY <2>3, <2>4 DEF A
<1>10. PICK L \in Seq(Tasks) :
           /\ Then(L) /\ Replaces(L, todo[1]) /\ \A f : ~In2(L, f)
           /\ \A k \in 1..Len(L) : k = 1 /\ L[1].do = "prune" /\ L[1].path = p /\ src[p] = Dir
                                   /\ p \in SrcPaths
    <2>1. CASE ok /\ op.move /\ src[p] = Dir
        <3>1. p \in SrcPaths
            BY <1>3, <2>1
        <3>2. PICK t : t = Task("prune", p)
            OBVIOUS
        <3>3. PICK L \in Seq(Tasks) : L = <<t>>
            BY <1>2, <3>1, <3>2, SweepTask
        <3>4. /\ Replaces(L, todo[1]) /\ L[1].do = "prune" /\ L[1].path = p /\ Len(L) = 1
              /\ \A f : ~In2(L, f)
            BY <1>2, <3>1, <3>2, <3>3, SweepTask
        <3>5. \A k \in 1..1 : k = 1
            OBVIOUS
        <3>6. Then(L)
            BY <1>4, <2>1, <3>2, <3>3
        <3>. QED BY <2>1, <3>1, <3>4, <3>5, <3>6
    <2>2. CASE ~(ok /\ op.move /\ src[p] = Dir)
        <3>1. PICK L \in Seq(Tasks) : L = <<>>
            BY <<>> \in Seq(Tasks)
        <3>2. Then(L) /\ Replaces(L, todo[1]) /\ \A f : ~In2(L, f)
            BY <1>4, <2>2, <3>1, NothingReplaces, NothingWaits
        <3>3. \A k \in 1..Len(L) : FALSE
            BY <3>1
        <3>. QED BY <3>2, <3>3
    <2>. QED BY <2>1, <2>2
<1>11. ASSUME NEW f \in SrcPaths, ~IsPrefix(p, f)
       PROVE  src'[f] = src[f] /\ dst'[To(f)] = dst[To(f)]
    BY <1>5, <1>6, <1>7, <1>8, <1>11
<1>12. ASSUME NEW f \in SrcPaths, src[f] # None PROVE Passed(P, f) <=> f \in P
    <2>1. ASSUME NEW d \in P, IsPrefix(d, f), d # f PROVE FALSE
        <3>1. d \in SrcPaths /\ src[d] # Dir
            BY <1>5, <1>6
        <3>2. src[f] = None
            BY <2>1, <3>1, Below
        <3>. QED BY <1>12, <3>2
    <2>2. f \in P => IsPrefix(f, f)
        BY PrefixFacts DEF AnyPath
    <2>. QED BY <2>1, <2>2 DEF Passed
<1>13. ASSUME NEW f \in SrcPaths, IsPrefix(p, f) PROVE Placed(L, P, f)
    <2>1. /\ f \in op.given => src[f] = File(f)
          /\ f \notin op.given => src[f] \in {None, Dir}
          /\ dst[To(f)] # File(f) /\ ~In2(L, f)
        BY <1>2, <1>10, <1>13, UnderTask
    <2>2. /\ f \in F <=> f \in op.given
          /\ f \in Dirs <=> src[f] = Dir
          /\ f \in C => f \in F /\ f \notin P
          /\ f \in half => f \in F /\ f \notin P /\ f \notin C
          /\ f \in R => f \in C
          /\ f \in P => f \in F
          /\ f \in F => f \notin Dirs
        <3>1. f \in F <=> f \in op.given
            BY <1>5, <1>13, <2>1, ValuesDiffer
        <3>2. (f \in Dirs <=> src[f] = Dir) /\ (f \in F => f \notin Dirs)
            BY <1>5, <1>13
        <3>. QED BY <1>4, <1>6, <3>1, <3>2
    <2>3. Len(f) = 2 /\ src'[f] # None => src'[Up(f)] = Dir
        <3>1. ASSUME Len(f) = 2, src'[f] # None PROVE src'[Up(f)] = Dir
            <4>1. src[f] # None /\ src[Up(f)] = Dir
                BY <1>2, <1>8, <3>1, SrcTree DEF SrcTyped
            <4>2. Up(f) \in SrcPaths /\ Up(f) \notin R
                BY <1>5, <1>6, <4>1, SrcPathFacts
            <4>. QED BY <1>8, <4>1, <4>2
        <3>. QED BY <3>1
    <2>4. Len(f) = 2 /\ dst'[To(f)] # None => dst'[To(Up(f))] = Dir
        <3>1. ASSUME Len(f) = 2, dst'[To(f)] # None PROVE dst'[To(Up(f))] = Dir
            <4>0. Up(f) \in SrcPaths /\ Len(Up(f)) = 1 /\ IsPrefix(p, Up(f))
                <5>1. p = <<>> \/ p = Up(f)
                    <6>1. CASE p # <<>>
                        <7>1. Len(p) = 1 /\ p # f
                            BY <1>3, <3>1, <6>1, SrcPathFacts
                        <7>. QED BY <1>3, <1>13, <6>1, <7>1, Below
                    <6>. QED BY <6>1
                <5>. QED BY <5>1, SrcPathFacts, PrefixFacts DEF AnyPath
            <4>1. CASE src[f] # None
                <5>1. src[Up(f)] = Dir
                    BY <1>2, <3>1, <4>1, SrcTree DEF SrcTyped
                <5>. QED BY <1>5, <1>7, <4>0, <5>1
            <4>2. CASE src[f] = None
                <5>1. f \notin F /\ f \notin Dirs
                    BY <1>5, <4>2, ValuesDiffer
                <5>2. dst[To(f)] # None
                    BY <1>6, <1>7, <3>1, <5>1
                <5>3. dst[To(Up(f))] = Dir
                    BY <1>2, <3>1, <5>2, DstTree DEF DstTyped
                <5>4. src[Up(f)] = Dir
                    BY <1>3, <4>0, <5>3, ValuesDiffer DEF SameKind
                <5>. QED BY <1>5, <1>7, <4>0, <5>4
            <4>. QED BY <4>1, <4>2
        <3>. QED BY <3>1
    <2>5. src'[f] \in {src[f], None}
        BY <1>8
    <2>6. src[f] = Dir => Len(f) = 1
        BY <1>2, ValuesDiffer DEF SrcTyped
    <2>7. \/ dst'[To(f)] \in {dst[To(f)], None, Part, File(f)}
          \/ Len(f) = 1 /\ dst'[To(f)] = Dir
        BY <1>7, <2>2, <2>6
    <2>8. src[f] = File(f) /\ src'[f] # File(f) => op.move /\ dst'[To(f)] = File(f)
        BY <1>4, <1>7, <1>8, <2>2
    <2>9. dst'[To(f)] = File(f) => src[f] = File(f)
        BY <1>7, <2>1, <2>2, ValuesDiffer
    <2>10. dst[To(f)] = File(To(f)) => dst'[To(f)] = File(To(f)) \/ To(f) \in log'.agreed
        <3>1. CASE f \in F \ P
            BY <1>9, <3>1
        <3>2. CASE f \in Dirs
            BY <1>3, <1>13, <2>2, <2>6, <3>2, ValuesDiffer DEF SameKind
        <3>3. CASE f \notin F \ P /\ f \notin Dirs
            BY <1>7, <2>2, <3>3
        <3>. QED BY <3>1, <3>2, <3>3
    <2>11. f \in op.given => (Passed(P, f) <=> f \in P)
        BY <1>12, <2>1, ValuesDiffer
    <2>12. f \in op.given /\ Passed(P, f) => src'[f] = File(f) /\ dst'[To(f)] # File(f)
        BY <1>7, <1>8, <2>1, <2>2, <2>11
    <2>13. f \in op.given /\ ~Passed(P, f) /\ ~log'.errors =>
               dst'[To(f)] = File(f) /\ (src'[f] = File(f) <=> ~op.move)
        <3>1. ASSUME f \in op.given, ~Passed(P, f), ~log'.errors
              PROVE  dst'[To(f)] = File(f) /\ (src'[f] = File(f) <=> ~op.move)
            <4>1. f \in F \ P /\ ok
                BY <1>9, <2>2, <2>11, <3>1
            <4>2. f \in C /\ (f \in R <=> op.move)
                BY <1>4, <4>1
            <4>3. dst'[To(f)] = File(f)
                BY <1>7, <2>2, <4>1, <4>2
            <4>4. src'[f] = File(f) <=> ~op.move
                BY <1>8, <2>1, <3>1, <4>2, ValuesDiffer
            <4>. QED BY <4>3, <4>4
        <3>. QED BY <3>1
    <2>. QED BY <2>1, <2>3, <2>4, <2>5, <2>7, <2>8, <2>9, <2>10, <2>12, <2>13 DEF Placed
<1>14. \A k \in 1..Len(L) : TaskOK(L[k])'
    <2> SUFFICES ASSUME NEW k \in 1..Len(L), NEW t, t = L[k] PROVE TaskOK(t)'
        BY DEF TaskOK
    <2>1. t.do = "prune" /\ t.path = p /\ src[p] = Dir /\ p \in SrcPaths
        BY <1>10
    <2>2. Len(p) = 1
        BY <1>2, <2>1, ValuesDiffer DEF SrcTyped
    <2>3. p \notin op.given /\ p \notin op'.given
        <3>1. IsPrefix(p, p)
            BY <2>1, PrefixFacts DEF AnyPath
        <3>. QED BY <1>1, <1>2, <2>1, <3>1, UnderTask, ValuesDiffer
    <2>. QED BY <2>1, <2>2, <2>3 DEF TaskOK, Works, Worker
<1>15. L # <<>> => TopTask(L[1])'
    <2>1. L # <<>> => Len(L) > 0 /\ 1 \in 1..Len(L)
        OBVIOUS
    <2>2. L # <<>> => L[1].do = "prune"
        BY <1>10, <2>1
    <2>. QED BY <2>2 DEF TopTask
<1>16. P \in SUBSET SrcPaths /\ \A d \in P : IsPrefix(p, d)
    BY <1>5, <1>6
<1>. QED BY <1>1, <1>2, <1>7, <1>8, <1>9, <1>10, <1>11, <1>13, <1>14, <1>15, <1>16, PlaceStep


KidsOf(p) == {q \in SrcPaths : Len(q) = 2 /\ q[1] = p[1]}

\* for_dir_contents has each item of the folder once.
LEMMA OrderIs ==
    ASSUME NEW p \in SrcPaths, NEW S \in SUBSET KidsOf(p),
           NEW order \in SetToSeqs(S)
    PROVE  /\ order \in Seq(SrcPaths)
           /\ \A k \in 1..Len(order) : order[k] \in S
           /\ \A j, k \in 1..Len(order) : j # k => order[j] # order[k]
           /\ \A f \in S : \E k \in 1..Len(order) : order[k] = f
<1> DEFINE n == Cardinality(S)
           g == [q \in S |-> q[2]]
<1>1. \A q \in S : q \in SrcPaths /\ q[2] \in Kids /\ q = <<p[1], q[2]>>
    BY SrcPathFacts DEF KidsOf
<1>2. g \in Injection(S, Kids)
    <2>1. g \in [S -> Kids]
        BY <1>1
    <2>2. \A q, r \in S : g[q] = g[r] => q = r
        BY <1>1
    <2>. QED BY <2>1, <2>2 DEF Injection, IsInjective
<1> HIDE DEF g
<1>3. IsFiniteSet(S)
    BY <1>2, FS_Injection, NamesAssumption
<1>4. n \in Nat
    BY <1>3, FS_CardinalityType
<1>5. order \in [1..n -> S] /\ \A i, j \in 1..n : i # j => order[i] # order[j]
    BY DEF SetToSeqs
<1> HIDE DEF n
<1>6. order \in Injection(1..n, S)
    BY <1>5 DEF Injection, IsInjective
<1>7. IsFiniteSet(1..n) /\ Cardinality(1..n) = n
    BY <1>4, FS_Interval
<1>8. order \in Surjection(1..n, S)
    BY <1>3, <1>6, <1>7, FS_Injection DEF n
<1>9. order \in Seq(SrcPaths) /\ Len(order) = n
    BY <1>1, <1>4, <1>5
<1>10. \A f \in S : \E k \in 1..n : order[k] = f
    BY <1>8 DEF Surjection
<1>. QED BY <1>5, <1>9, <1>10

LEMMA KidsAre ==
    ASSUME NEW p \in SrcPaths, Len(p) = 1
    PROVE  \A q, r \in KidsOf(p) : /\ q \in SrcPaths /\ Len(q) = 2
                                  /\ ~IsPrefix(q, p) /\ IsPrefix(p, q)
                                  /\ (IsPrefix(q, r) => q = r)
<1>1. \A q \in KidsOf(p) : q \in SrcPaths /\ Len(q) = 2 /\ q[1] = p[1]
    BY DEF KidsOf
<1>2. \A q \in KidsOf(p) : q # p
    BY <1>1
<1>. QED BY <1>1, <1>2, PrefixFacts, PrefixIs DEF AnyPath

\* What a folder gives way to: an item for each of its contents, and then perhaps
\* the removal of the folder.
Listing(p, S, after, L) ==
    /\ Len(p) = 1 /\ S \in SUBSET KidsOf(p)
    /\ after \in Seq(Tasks) /\ Len(after) \in {0, 1}
    /\ Len(after) = 1 => after[1] = Task("rmdir", p)
    /\ \E order \in SetToSeqs(S), I \in Seq(Tasks) :
          /\ Len(I) = Len(order) /\ \A k \in 1..Len(order) : I[k] = Task("item", order[k])
          /\ L = I \o after

Listed(t, p, S) == (t.do = "item" /\ t.path \in S) \/ (t.do = "rmdir" /\ t.path = p)

LEMMA FolderTasks ==
    ASSUME NEW h \in Tasks, Works(h), NEW p \in SrcPaths, h.path = p,
           NEW S, NEW after, NEW L, Listing(p, S, after, L)
    PROVE  /\ L \in Seq(Tasks) /\ Replaces(L, h)
           /\ \A k \in 1..Len(L) : Listed(L[k], p, S)
           /\ \A f \in SrcPaths : In2(L, f) <=> f \in S
<1>a. PICK order \in SetToSeqs(S), I \in Seq(Tasks) :
          /\ Len(I) = Len(order) /\ \A k \in 1..Len(order) : I[k] = Task("item", order[k])
          /\ L = I \o after
    BY DEF Listing
<1>b. /\ Len(p) = 1 /\ S \in SUBSET KidsOf(p)
      /\ after \in Seq(Tasks) /\ Len(after) \in {0, 1}
      /\ Len(after) = 1 => after[1] = Task("rmdir", p)
    BY DEF Listing
<1> DEFINE m == Len(order)
<1>1. /\ order \in Seq(SrcPaths) /\ m \in Nat /\ DOMAIN order = 1..m
      /\ \A k \in 1..m : order[k] \in S
      /\ \A j, k \in 1..m : j # k => order[j] # order[k]
      /\ \A f \in S : \E k \in 1..m : order[k] = f
    BY <1>b, OrderIs
<1> HIDE DEF m
<1>3. I \in Seq(Tasks) /\ Len(I) = m /\ \A k \in 1..m : I[k] = Task("item", order[k])
    BY <1>a DEF m
<1>4. /\ after \in Seq(Tasks) /\ Len(after) \in {0, 1}
      /\ Len(after) = 1 => after[1].do = "rmdir" /\ after[1].path = p
    BY <1>b, TaskIs DEF Kinds, AnyPath
<1>5. /\ L \in Seq(Tasks) /\ Len(L) = m + Len(after)
      /\ \A k \in 1..(m + Len(after)) : L[k] = IF k <= m THEN I[k] ELSE after[k - m]
    <2>1. L = I \o after
        BY <1>a
    <2>2. I \in Seq(Tasks) /\ after \in Seq(Tasks) /\ Len(I) = m
        BY <1>3, <1>4
    <2>. QED BY ONLY <2>1, <2>2, ConcatProperties
<1>6. ASSUME NEW k \in 1..Len(L)
      PROVE  \/ k \in 1..m /\ L[k].do = "item" /\ L[k].path = order[k] /\ order[k] \in S
             \/ k = m + 1 /\ L[k].do = "rmdir" /\ L[k].path = p
    <2>1. CASE k <= m
        <3>1. k \in 1..m
            BY <1>1, <1>5, <2>1
        <3>2. L[k] = Task("item", order[k]) /\ order[k] \in AnyPath /\ order[k] \in S
            BY <1>1, <1>3, <1>4, <1>5, <2>1, <3>1 DEF AnyPath
        <3>3. L[k].do = "item" /\ L[k].path = order[k]
            BY <3>2, TaskIs DEF Kinds
        <3>. QED BY <3>1, <3>2, <3>3
    <2>2. CASE ~(k <= m)
        <3>1. k = m + 1 /\ Len(after) = 1 /\ k - m = 1
            BY <1>1, <1>4, <1>5, <2>2
        <3>. QED BY <1>4, <1>5, <2>2, <3>1
    <2>. QED BY <2>1, <2>2
<1>7. \A k \in 1..m : k \in 1..Len(L) /\ k # m + 1
    BY <1>1, <1>4, <1>5
<1>8. \A k \in 1..Len(L) : (Works(L[k]) <=> L[k].do = "item") /\ L[k].do # "clear"
                           /\ (Sweeps(L[k]) <=> L[k].do = "rmdir")
    BY <1>6 DEF Works, Worker, Sweeps
<1>9. \A q, r \in S : /\ q \in SrcPaths
                      /\ ~IsPrefix(q, p) /\ IsPrefix(p, q)
                      /\ (IsPrefix(q, r) => q = r)
    BY <1>b, KidsAre
<1>10. OneOf(L)
    <2>1. ASSUME NEW j \in 1..Len(L), NEW k \in 1..Len(L), Works(L[j])
          PROVE  /\ Works(L[k]) /\ j # k => Apart(L[j].path, L[k].path)
                 /\ Sweeps(L[k]) => ~IsPrefix(L[j].path, L[k].path)
        <3>1. j \in 1..m /\ L[j].path = order[j] /\ order[j] \in S
            BY <1>6, <1>8, <2>1
        <3>2. Works(L[k]) => k \in 1..m /\ L[k].path = order[k] /\ order[k] \in S
            BY <1>6, <1>8
        <3>3. Sweeps(L[k]) => L[k].path = p
            BY <1>6, <1>8
        <3>. QED BY <1>1, <1>9, <3>1, <3>2, <3>3 DEF Apart
    <2>. QED BY <2>1 DEF OneOf
<1>11. Below2(L)
    <2>1. \A k \in 1..Len(L) : L[k].do \in {"top", "item", "fast", "rmdir"} /\ L[k].do # "clear"
        BY <1>6, <1>8
    <2>2. /\ \A k \in 2..Len(L) : k \in 1..Len(L)
          /\ Len(L) > 0 => 1 \in 1..Len(L)
        BY <1>1, <1>4, <1>5
    <2>. QED BY <2>1, <2>2 DEF Below2
<1>12. Replaces(L, h)
    <2>1. p # <<>>
        BY SrcPathFacts
    <2>2. ASSUME NEW k \in 1..Len(L)
          PROVE  /\ Works(L[k]) => IsPrefix(p, L[k].path)
                 /\ Sweeps(L[k]) => L[k].path = p
        BY <1>6, <1>8, <1>9
    <2>. QED BY <1>10, <1>11, <2>1, <2>2 DEF Replaces
<1>13. ASSUME NEW f \in SrcPaths PROVE In2(L, f) <=> f \in S
    <2>1. ASSUME f \in S PROVE In2(L, f)
        <3>1. PICK k \in 1..m : order[k] = f
            BY <1>1, <2>1
        <3>2. k \in 1..Len(L) /\ L[k].path = f /\ L[k].do = "item"
            BY <1>6, <1>7, <3>1
        <3>3. IsPrefix(f, f)
            BY PrefixFacts DEF AnyPath
        <3>. QED BY <1>8, <3>2, <3>3 DEF In2
    <2>2. ASSUME In2(L, f) PROVE f \in S
        <3>1. PICK k \in 1..Len(L) : Works(L[k]) /\ IsPrefix(L[k].path, f)
            BY <2>2 DEF In2
        <3>2. L[k].path \in S
            BY <1>6, <1>8, <3>1
        <3>3. L[k].path \in SrcPaths /\ Len(L[k].path) = 2
            BY <1>b, <3>2, KidsAre
        <3>. QED BY <3>1, <3>2, <3>3, PrefixFacts
    <2>. QED BY <2>1, <2>2
<1>14. \A k \in 1..Len(L) : Listed(L[k], p, S)
    BY <1>6 DEF Listed
<1>. QED BY <1>5, <1>12, <1>13, <1>14


LEMMA PutFolderStep ==
    ASSUME Distinct, Inv, NEW p \in SrcPaths, PutFolder(p)
    PROVE  Inv' /\ Moves
<1> DEFINE S == In(src, p)
           after == IF op.move /\ dst[To(p)] = Dir THEN <<Task("rmdir", p)>> ELSE <<>>
<1>1. /\ Doing("put", p) /\ UNCHANGED <<op, policy, src>> /\ src[p] = Dir
      /\ op.move => dst[To(p)] = Dir
    BY DEF PutFolder
<1>2. /\ todo # <<>> /\ todo[1].do = "put" /\ todo[1].path = p /\ LogTyped /\ todo[1] \in Tasks
      /\ Works(todo[1]) /\ TaskOK(todo[1]) /\ SrcTyped /\ DstTyped /\ IsTree(src) /\ IsTree(dst)
      /\ policy' \in {"ask", "replace", "skip", "newer"}
    BY <1>1, HeadIs DEF Worker
<1>3. Len(p) = 1 /\ p \notin op.given
    <2>1. Len(p) = 1
        BY <1>1, <1>2, ValuesDiffer DEF SrcTyped
    <2>2. IsPrefix(p, p)
        BY PrefixFacts DEF AnyPath
    <2>. QED BY <1>1, <1>2, <2>1, <2>2, UnderTask, ValuesDiffer
<1>4. S = {q \in SrcPaths : Len(q) = 2 /\ q[1] = p[1] /\ src[q] # None}
    BY <1>2 DEF In, SrcTyped
<1>5. S \in SUBSET KidsOf(p)
    BY <1>4 DEF KidsOf
<1>6. To(p) \in DstPaths /\ DOMAIN dst = DstPaths
    BY <1>2, ToFacts DEF DstTyped
<1>7. CASE dst[To(p)] = None /\ Return /\ Error /\ UNCHANGED dst
    <2>1. Logged({}, {}) /\ log'.errors
        BY <1>2, <1>7, LogIs
    <2>. QED BY <1>1, <1>2, <1>7, <2>1, GivesUp, QuietMoves
<1>8. CASE /\ \/ dst[To(p)] = Dir /\ UNCHANGED dst
              \/ dst[To(p)] = None /\ dst' = [dst EXCEPT ![To(p)] = Dir]
           /\ \/ /\ \E order \in SetToSeqs(S) :
                       Then([k \in DOMAIN order |-> Task("item", order[k])] \o after)
                 /\ UNCHANGED log
              \/ Then(after) /\ Error
    <2>1. PICK L \in Seq(Tasks) :
              /\ Then(L) /\ Replaces(L, todo[1])
              /\ \A k \in 1..Len(L) : \/ L[k].do = "item" /\ L[k].path \in S
                                      \/ L[k].do = "rmdir" /\ L[k].path = p
              /\ \A f \in SrcPaths : In2(L, f) => f \in S
              /\ \A f \in SrcPaths : f \in S => In2(L, f) \/ log'.errors
              /\ Logged({}, {})
        <3>1. CASE Then(after) /\ Error
            <4>1. Logged({}, {}) /\ log'.errors
                BY <1>2, <3>1, LogIs
            <4>2. CASE after = <<>>
                <5>1. PICK L \in Seq(Tasks) : L = <<>>
                    BY <<>> \in Seq(Tasks)
                <5>2. Then(L) /\ Replaces(L, todo[1])
                    BY <3>1, <4>2, <5>1, NothingReplaces
                <5>3. /\ \A f : ~In2(L, f)
                      /\ \A k \in 1..Len(L) : FALSE
                    BY <5>1, NothingWaits
                <5>. QED BY <4>1, <5>2, <5>3
            <4>3. CASE after = <<Task("rmdir", p)>>
                <5>1. PICK t : t = Task("rmdir", p)
                    OBVIOUS
                <5>2. PICK L \in Seq(Tasks) : L = <<t>>
                    BY <1>2, <5>1, SweepTask
                <5>3. /\ Replaces(L, todo[1]) /\ L[1].do = "rmdir" /\ L[1].path = p
                      /\ Len(L) = 1 /\ \A f : ~In2(L, f)
                    BY <1>2, <5>1, <5>2, SweepTask
                <5>4. \A k \in 1..1 : k = 1
                    OBVIOUS
                <5>5. Then(L)
                    BY <3>1, <4>3, <5>1, <5>2
                <5>. QED BY <4>1, <5>3, <5>4, <5>5
            <4>. QED BY <4>2, <4>3
        <3>2. ASSUME NEW order \in SetToSeqs(S), UNCHANGED log,
                     Then([k \in DOMAIN order |-> Task("item", order[k])] \o after)
              PROVE  \E L \in Seq(Tasks) :
                        /\ Then(L) /\ Replaces(L, todo[1])
                        /\ \A k \in 1..Len(L) : \/ L[k].do = "item" /\ L[k].path \in S
                                                \/ L[k].do = "rmdir" /\ L[k].path = p
                        /\ \A f \in SrcPaths : In2(L, f) => f \in S
                        /\ \A f \in SrcPaths : f \in S => In2(L, f) \/ log'.errors
                        /\ Logged({}, {})
            <4>1. PICK h \in Tasks : h = todo[1]
                BY <1>2
            <4>2. h.path = p /\ Works(h)
                BY <1>2, <4>1
            <4>3. /\ after \in Seq(Tasks) /\ Len(after) \in {0, 1}
                  /\ Len(after) = 1 => after[1] = Task("rmdir", p)
                <5>1. PICK t \in Tasks : t = Task("rmdir", p)
                    BY TaskIs DEF Kinds, AnyPath
                <5>2. <<>> \in Seq(Tasks) /\ Len(<<>>) = 0
                    OBVIOUS
                <5>3. <<t>> \in Seq(Tasks) /\ Len(<<t>>) = 1 /\ <<t>>[1] = t
                    OBVIOUS
                <5>4. after = <<>> \/ after = <<t>>
                    BY <5>1
                <5>. QED BY <5>1, <5>2, <5>3, <5>4
            <4> HIDE DEF after, S
            <4>4. PICK I, L : /\ I = [k \in DOMAIN order |-> Task("item", order[k])]
                              /\ L = I \o after
                OBVIOUS
            <4>5. S \in SUBSET KidsOf(p)
                BY <1>5
            <4>6. Len(p) = 1
                BY <1>3
            <4>7. /\ L \in Seq(Tasks) /\ Replaces(L, h)
                  /\ \A k \in 1..Len(L) : \/ L[k].do = "item" /\ L[k].path \in S
                                          \/ L[k].do = "rmdir" /\ L[k].path = p
                  /\ \A f \in SrcPaths : In2(L, f) <=> f \in S
                <5>1. order \in Seq(SrcPaths) /\ \A k \in 1..Len(order) : order[k] \in SrcPaths
                    BY <1>5, OrderIs
                <5>2. \A k \in 1..Len(order) : Task("item", order[k]) \in Tasks
                    BY <5>1, TaskIs DEF Kinds, AnyPath
                <5>3. /\ I \in Seq(Tasks) /\ Len(I) = Len(order)
                      /\ \A k \in 1..Len(order) : I[k] = Task("item", order[k])
                    BY <4>4, <5>1, <5>2
                <5>4. L = I \o after
                    BY <4>4
                <5>5. Listing(p, S, after, L)
                    BY <4>3, <4>5, <4>6, <5>3, <5>4 DEF Listing
                <5>6. PICK Z, a : Z = S /\ a = after
                    OBVIOUS
                <5>7. Listing(p, Z, a, L)
                    BY <5>5, <5>6
                <5>8. L \in Seq(Tasks) /\ Replaces(L, h)
                    BY <4>2, <5>7, FolderTasks
                <5>9. \A f \in SrcPaths : In2(L, f) <=> f \in Z
                    BY <4>2, <5>7, FolderTasks
                <5>10. \A k \in 1..Len(L) : Listed(L[k], p, Z)
                    BY <4>2, <5>7, FolderTasks
                <5>. QED BY <5>6, <5>8, <5>9, <5>10 DEF Listed
            <4>8. Then(L) /\ Logged({}, {})
                BY <1>2, <3>2, <4>4, LogIs
            <4>. QED BY <4>1, <4>2, <4>7, <4>8
        <3>. QED BY <1>8, <3>1, <3>2
    <2>2. /\ DOMAIN dst' = DstPaths /\ dst'[To(p)] = Dir
          /\ \A f \in SrcPaths : f # p => dst'[To(f)] = dst[To(f)]
        <3>1. \A f \in SrcPaths : f # p => To(f) # To(p) /\ To(f) \in DstPaths
            BY ToFacts, ToOnce
        <3>. QED BY <1>6, <1>8, <3>1
    <2>3. DOMAIN src' = SrcPaths
        BY <1>1, <1>2 DEF SrcTyped
    <2>4. ASSUME NEW f \in SrcPaths, ~IsPrefix(p, f)
          PROVE  src'[f] = src[f] /\ dst'[To(f)] = dst[To(f)]
        BY <1>1, <2>2, <2>4, PrefixFacts DEF AnyPath
    <2>5. ASSUME NEW f \in SrcPaths, IsPrefix(p, f) PROVE Placed(L, {}, f)
        <3>1. /\ f \in op.given => src[f] = File(f)
              /\ dst[To(f)] # File(f) /\ ~Passed({}, f) /\ src'[f] = src[f]
            BY <1>1, <1>2, <2>5, UnderTask, NothingWaits
        <3>2. CASE f = p
            <4>1. src[p] = Dir /\ src'[p] = Dir
                BY <1>1
            <4>2. dst[To(p)] \in {Dir, None}
                BY <1>8
            <4>3. /\ src[f] = Dir /\ src'[f] = Dir /\ dst'[To(f)] = Dir
                  /\ dst[To(f)] \in {Dir, None} /\ f \notin op.given /\ Len(f) = 1
                BY <1>3, <2>2, <3>2, <4>1, <4>2
            <4>4. Dir # None /\ Dir # File(f) /\ Dir # File(To(f)) /\ None # File(To(f))
                BY ValuesDiffer
            <4>. QED BY <3>1, <4>3, <4>4 DEF Placed
        <3>3. CASE f # p
            <4>1. Len(f) = 2 /\ Up(f) = p /\ f[1] = p[1]
                BY <2>5, <3>3, Below, SrcPathFacts
            <4>2. dst'[To(f)] = dst[To(f)] /\ dst'[To(Up(f))] = Dir /\ src'[Up(f)] = Dir
                BY <1>1, <2>2, <3>3, <4>1
            <4>3. f \in op.given => In2(L, f) \/ log'.errors
                BY <1>4, <2>1, <3>1, <4>1, ValuesDiffer
            <4>. QED BY <3>1, <4>1, <4>2, <4>3 DEF Placed
        <3>. QED BY <3>2, <3>3
    <2>6. \A k \in 1..Len(L) : TaskOK(L[k])'
        <3> SUFFICES ASSUME NEW k \in 1..Len(L), NEW t, t = L[k] PROVE TaskOK(t)'
            BY DEF TaskOK
        <3>1. CASE t.do = "item" /\ t.path \in S
            <4>1. PICK q \in SrcPaths : q = t.path /\ Len(q) = 2 /\ q[1] = p[1] /\ src[q] # None
                BY <1>4, <3>1
            <4>2. Up(q) = p /\ q # <<>>
                BY <1>3, <4>1, SrcPathFacts DEF Up
            <4>. QED BY <1>1, <2>2, <3>1, <4>1, <4>2 DEF TaskOK, Sweeps
        <3>2. CASE t.do = "rmdir" /\ t.path = p
            BY <1>1, <1>3, <3>2 DEF TaskOK, Works, Worker
        <3>. QED BY <2>1, <3>1, <3>2
    <2>7. L # <<>> => TopTask(L[1])'
        <3>1. L # <<>> => 1 \in 1..Len(L)
            OBVIOUS
        <3>2. L # <<>> => L[1].do \in {"item", "rmdir"}
            BY <2>1, <3>1
        <3>. QED BY <3>2 DEF TopTask
    <2>. QED BY <1>1, <1>2, <2>1, <2>2, <2>3, <2>4, <2>5, <2>6, <2>7, PlaceStep
<1>9. \/ dst[To(p)] = Dir /\ UNCHANGED dst /\ Contents(p, after)
      \/ dst[To(p)] = None /\ dst' = [dst EXCEPT ![To(p)] = Dir] /\ Contents(p, after)
      \/ dst[To(p)] = None /\ Return /\ Error /\ UNCHANGED dst
    BY <1>1, ValuesDiffer DEF PutFolder
<1>10. Contents(p, after) =>
          \/ /\ \E order \in SetToSeqs(S) :
                   Then([k \in DOMAIN order |-> Task("item", order[k])] \o after)
             /\ UNCHANGED log
          \/ Then(after) /\ Error
    <2> HIDE DEF after
    <2>. QED BY Zenon DEF Contents
<1> HIDE DEF after, S
<1>. QED BY <1>7, <1>8, <1>9, <1>10, Zenon


LEMMA SrcPathsFinite == IsFiniteSet(SrcPaths)
<1> DEFINE Ones == {<<i>> : i \in Source}
           g == [q \in Ones |-> q[1]]
<1>1. IsFiniteSet(Source)
    BY CopyMoveAssumption, FS_Interval DEF Source
<1>2. \A q \in Ones : q[1] \in Source /\ q = <<q[1]>>
    OBVIOUS
<1>3. g \in Injection(Ones, Source)
    BY <1>2 DEF Injection, IsInjective
<1> HIDE DEF g, Ones
<1>4. IsFiniteSet(Ones)
    BY <1>1, <1>3, FS_Injection
<1>5. IsFiniteSet(Source \X Kids)
    BY <1>1, NamesAssumption, FS_Product
<1>. QED BY <1>4, <1>5, FS_Union DEF SrcPaths, Ones

LEMMA MvStep ==
    ASSUME Distinct, Inv, NEW p \in SrcPaths, Mv(p)
    PROVE  Inv' /\ Moves
<1> DEFINE F == Files(p)
           Gone(ok, R) == IF ok THEN {p} \cup R ELSE R
           There(C, half) == Set(Landed(C), {To(f) : f \in half}, Part)
           Made(ok) == src[p] = Dir /\ (ok \/ ~op.same)
<1>1. Doing("put", p) /\ UNCHANGED <<op, policy>> /\ op.move /\ ~Merge(p) /\ Return
    BY DEF Mv
<1>2. /\ todo # <<>> /\ todo[1].do = "put" /\ todo[1].path = p /\ LogTyped
      /\ Works(todo[1]) /\ TaskOK(todo[1]) /\ TopTask(todo[1])
      /\ SrcTyped /\ DstTyped /\ IsTree(src) /\ IsTree(dst)
    BY <1>1, HeadIs DEF Worker
<1>3. src[p] # None /\ dst[To(p)] = None
    BY <1>1, <1>2, SrcPathFacts DEF TaskOK, TopTask, Merge
<1>a. PICK ok \in BOOLEAN, C \in SUBSET F, R \in SUBSET F :
          /\ ok => C = F /\ R = C
          /\ R # {} => C = F
          /\ op.same /\ ~ok => C = {}
          /\ \E half \in SUBSET (F \ C) :
                /\ Cardinality(half) <= IF op.same THEN 0 ELSE 1
                /\ dst' = IF Made(ok) THEN [There(C, half) EXCEPT ![To(p)] = Dir]
                          ELSE There(C, half)
          /\ src' = Set(src, Gone(ok, R), None)
          /\ IF ok THEN UNCHANGED log ELSE Error
    BY Zenon DEF Mv
<1>b. PICK half \in SUBSET (F \ C) :
          /\ Cardinality(half) <= IF op.same THEN 0 ELSE 1
          /\ dst' = IF Made(ok) THEN [There(C, half) EXCEPT ![To(p)] = Dir]
                    ELSE There(C, half)
    BY <1>a
<1>5. \A f \in SrcPaths : f \in F <=> IsPrefix(p, f) /\ src[f] \notin {None, Dir}
    BY DEF Files
<1>6. F \subseteq SrcPaths
    BY DEF Files
<1> HIDE DEF F, There, Gone
<1>4. op.same /\ ~ok => C = {} /\ half = {}
    <2>1. ASSUME op.same PROVE half = {}
        <3>1. IsFiniteSet(half)
            <4>1. half \in SUBSET SrcPaths
                BY <1>6
            <4>. QED BY <4>1, SrcPathsFinite, FS_Subset
        <3>2. Cardinality(half) <= 0 /\ Cardinality(half) \in Nat
            BY <1>b, <2>1, <3>1, FS_CardinalityType
        <3>3. Cardinality(half) = 0
            BY <3>2
        <3>. QED BY <3>1, <3>3, FS_EmptySet
    <2>. QED BY <1>a, <2>1
<1>7. /\ DOMAIN dst' = DstPaths
      /\ \A f \in SrcPaths : dst'[To(f)] = IF f = p /\ Made(ok) THEN Dir
                                           ELSE IF f \in half THEN Part
                                           ELSE IF f \in C THEN File(f) ELSE dst[To(f)]
    <2>0. PICK one, H, two :
              one = Landed(C) /\ H = {To(f) : f \in half} /\ two = Set(one, H, Part)
        OBVIOUS
    <2>1. C \in SUBSET SrcPaths /\ half \in SUBSET SrcPaths
        BY <1>6
    <2>2. \A q : q \in H <=> \E f \in half : To(f) = q
        BY <2>0
    <2>3. /\ DOMAIN one = DstPaths
          /\ \A f \in SrcPaths : one[To(f)] = IF f \in C THEN File(f) ELSE dst[To(f)]
        BY <2>0, <2>1, LandedIs
    <2>4. /\ DOMAIN two = DstPaths
          /\ \A f \in SrcPaths : two[To(f)] = IF f \in half THEN Part ELSE one[To(f)]
        <3>1. /\ DOMAIN two = DstPaths
              /\ \A q \in DstPaths : two[q] = IF q \in H THEN Part ELSE one[q]
            BY <2>0, <2>3, SetIs
        <3>2. \A f \in SrcPaths : To(f) \in DstPaths /\ (To(f) \in H <=> f \in half)
            BY <2>1, <2>2, ToFacts, ToOnce
        <3>. QED BY <3>1, <3>2
    <2>5. two = There(C, half)
        BY <2>0 DEF There
    <2>6. dst' = IF Made(ok) THEN [two EXCEPT ![To(p)] = Dir] ELSE two
        BY <1>b, <2>5
    <2> HIDE <2>0, <2>5
    <2>7. \A f \in SrcPaths : To(f) \in DstPaths /\ (To(f) = To(p) <=> f = p)
        BY ToFacts, ToOnce
    <2> HIDE DEF Made
    <2>8. DOMAIN dst' = DstPaths
        BY <2>4, <2>6
    <2>9. \A f \in SrcPaths : dst'[To(f)] = IF f = p /\ Made(ok) THEN Dir ELSE two[To(f)]
        BY <2>4, <2>6, <2>7
    <2>. QED BY <2>3, <2>4, <2>8, <2>9
<1>8. /\ DOMAIN src' = SrcPaths
      /\ \A f \in SrcPaths :
            src'[f] = IF f \in R \/ (ok /\ f = p) THEN None ELSE src[f]
    <2>1. \A f : f \in Gone(ok, R) <=> f \in R \/ (ok /\ f = p)
        BY DEF Gone
    <2>. QED BY <1>2, <1>a, <2>1, SetIs DEF SrcTyped
<1>9. Logged({}, {}) /\ (ok \/ log'.errors)
    BY <1>2, <1>a, LogIs
<1>10. ASSUME NEW f \in SrcPaths, ~IsPrefix(p, f)
       PROVE  src'[f] = src[f] /\ dst'[To(f)] = dst[To(f)]
    <2>1. f # p /\ f \notin F
        BY <1>5, <1>10, PrefixFacts DEF AnyPath
    <2>. QED BY <1>7, <1>8, <2>1
<1>11. ASSUME NEW f \in SrcPaths, IsPrefix(p, f) PROVE Placed(<<>>, {}, f)
    <2>1. /\ f \in op.given => src[f] = File(f)
          /\ f \notin op.given => src[f] \in {None, Dir}
          /\ dst[To(f)] # File(f) /\ ~In2(<<>>, f) /\ ~Passed({}, f)
        BY <1>2, <1>11, UnderTask, NothingWaits
    <2>2. f \in F <=> f \in op.given
        BY <1>5, <1>11, <2>1, ValuesDiffer
    <2>3. dst[To(f)] = None
        BY <1>3, <1>11, Below, ValuesDiffer
    <2>4. f = p /\ Len(p) = 2 => /\ src'[Up(f)] = Dir /\ dst'[To(Up(f))] = Dir
        <3>1. ASSUME f = p, Len(p) = 2 PROVE src'[Up(p)] = Dir /\ dst'[To(Up(p))] = Dir
            <4>1. dst[To(Up(p))] = Dir /\ Up(p) \in SrcPaths /\ ~IsPrefix(p, Up(p))
                <5>1. Up(p) \in SrcPaths /\ Up(p) # p
                    BY <3>1, SrcPathFacts
                <5>. QED BY <1>2, <3>1, <5>1, PrefixFacts DEF TaskOK
            <4>2. src[Up(p)] = Dir
                BY <1>2, <1>3, <3>1, SrcTree DEF SrcTyped
            <4>. QED BY <1>10, <4>1, <4>2
        <3>. QED BY <3>1
    <2>5. src[p] = Dir => p \notin F /\ Len(p) = 1
        BY <1>2, <1>5, ValuesDiffer DEF SrcTyped
    <2>6. f # p /\ src[f] # None => Up(f) = p /\ src[p] = Dir /\ f \in F
        <3>1. ASSUME f # p, src[f] # None PROVE Up(f) = p /\ src[p] = Dir /\ f \in F
            <4>1. Len(f) = 2 /\ Up(f) = p /\ src[p] = Dir
                BY <1>11, <3>1, Below
            <4>2. src[f] # Dir
                <5>1. SrcTyped /\ File(f) # Dir /\ None # Dir
                    BY <1>2, ValuesDiffer
                <5>. QED BY ONLY <4>1, <5>1, f \in SrcPaths DEF SrcTyped
            <4>. QED BY <1>5, <1>11, <3>1, <4>1, <4>2
        <3>. QED BY <3>1
    <2>7. Len(f) = 2 /\ src'[f] # None => src'[Up(f)] = Dir
        <3>1. ASSUME f # p, src'[f] # None PROVE src'[Up(f)] = Dir
            <4>1. Up(f) = p /\ src[p] = Dir /\ f \in F /\ f \notin R
                BY <1>8, <2>6, <3>1
            <4>2. ~ok /\ p \notin R
                BY <1>a, <2>5, <4>1
            <4>. QED BY <1>8, <4>1, <4>2
        <3>. QED BY <2>4, <3>1
    <2>8. Len(f) = 2 /\ dst'[To(f)] # None => dst'[To(Up(f))] = Dir
        <3>1. ASSUME f # p, dst'[To(f)] # None PROVE dst'[To(Up(f))] = Dir
            <4>1. (f \in C \/ f \in half) /\ f \in F
                BY <1>7, <2>3, <3>1
            <4>2. Up(f) = p /\ src[p] = Dir
                BY <2>1, <2>2, <2>6, <3>1, <4>1, ValuesDiffer
            <4>3. Made(ok)
                BY <1>4, <4>1, <4>2
            <4>. QED BY <1>7, <4>2, <4>3
        <3>. QED BY <2>4, <3>1
    <2>9. src[f] = File(f) /\ src'[f] # File(f) => op.move /\ dst'[To(f)] = File(f)
        <3>1. ASSUME src[f] = File(f), src'[f] # File(f) PROVE dst'[To(f)] = File(f)
            <4>1. f \in R \/ (ok /\ f = p)
                BY <1>8, <3>1
            <4>2. f \in F
                BY <1>5, <1>11, <3>1, ValuesDiffer
            <4>3. f \in C /\ f \notin half
                BY <1>a, <4>1, <4>2
            <4>4. ~(f = p /\ Made(ok))
                BY <3>1, ValuesDiffer
            <4>. QED BY <1>7, <4>3, <4>4
        <3>. QED BY <1>1, <3>1
    <2>10. dst'[To(f)] = File(f) => src[f] = File(f)
        <3>1. ASSUME dst'[To(f)] = File(f) PROVE src[f] = File(f)
            <4>1. f \in C
                BY <1>7, <2>3, <3>1, ValuesDiffer
            <4>. QED BY <2>1, <2>2, <4>1
        <3>. QED BY <3>1
    <2>11. f \in op.given /\ ~log'.errors =>
               dst'[To(f)] = File(f) /\ (src'[f] = File(f) <=> ~op.move)
        <3>1. ASSUME f \in op.given, ~log'.errors
              PROVE  dst'[To(f)] = File(f) /\ src'[f] # File(f)
            <4>1. ok /\ f \in C /\ f \in R
                BY <1>9, <1>a, <2>2, <3>1
            <4>2. src'[f] = None
                BY <1>8, <4>1
            <4>. QED BY <2>1, <2>9, <3>1, <4>2, ValuesDiffer
        <3>. QED BY <1>1, <3>1
    <2>12. src'[f] \in {src[f], None}
        BY <1>8
    <2>13. \/ dst'[To(f)] \in {dst[To(f)], None, Part, File(f)}
           \/ Len(f) = 1 /\ dst'[To(f)] = Dir
        BY <1>7, <2>5
    <2>14. dst[To(f)] # File(To(f))
        BY <2>3, ValuesDiffer
    <2>. QED BY <2>1, <2>7, <2>8, <2>9, <2>10, <2>11, <2>12, <2>13, <2>14 DEF Placed
<1>. QED BY <1>1, <1>2, <1>7, <1>8, <1>9, <1>10, <1>11, PlaceReturns


----------------------------------------------------------------------------
(* The steps of tasks that place nothing.                                  *)

LEMMA PopIs ==
    ASSUME Inv, todo # <<>>, ~Works(todo[1]), Return
    PROVE  /\ todo' \in Seq(Tasks) /\ Len(todo') = Len(todo) - 1
           /\ \A k \in 1..Len(todo') : k + 1 \in 2..Len(todo) /\ todo'[k] = todo[k + 1]
           /\ OneOf(todo') /\ Below2(todo')
           /\ \A f \in SrcPaths : Waiting(f)' <=> Waiting(f)
<1>1. PICK L \in Seq(Tasks) : L = <<>>
    BY <<>> \in Seq(Tasks)
<1>2. Then(L) /\ Replaces(L, todo[1]) /\ Len(L) = 0
    BY <1>1, NothingReplaces DEF Return
<1>3. /\ todo' \in Seq(Tasks) /\ Len(todo') = Len(L) + Len(todo) - 1
      /\ Len(todo) \in Nat
      /\ \A k \in 1..Len(todo') :
            \/ k \in 1..Len(L) /\ todo'[k] = L[k]
            \/ k - Len(L) + 1 \in 2..Len(todo) /\ todo'[k] = todo[k - Len(L) + 1]
    BY <1>2, TopIs, ThenIs
<1>4. OneOf(todo') /\ Below2(todo')
    BY <1>1, <1>2, TopIs, StackKeeps
<1>5. \A f \in SrcPaths : Waiting(f)' <=> Waiting(f)
    BY <1>1, <1>2, TopIs, WaitingThen
<1>6. Len(todo') = Len(todo) - 1
    BY <1>2, <1>3
<1>7. ASSUME NEW k \in 1..Len(todo')
      PROVE  k + 1 \in 2..Len(todo) /\ todo'[k] = todo[k + 1]
    <2>1. k \in Nat /\ k - Len(L) + 1 = k + 1 /\ k \notin 1..Len(L)
        BY <1>2, <1>3
    <2>2. k + 1 \in 2..Len(todo)
        BY <1>3, <1>6
    <2>. QED BY <1>3, <2>1, <2>2
<1>. QED BY <1>3, <1>4, <1>5, <1>6, <1>7

LEMMA SweepStep ==
    ASSUME Inv, NEW p \in SrcPaths, NEW d \in {"rmdir", "prune"}, Doing(d, p), Return,
           src' \in {src} \cup IF Empty(src, p) THEN {[src EXCEPT ![p] = None]} ELSE {},
           UNCHANGED <<op, policy, dst, log>>
    PROVE  Inv' /\ Moves
<1>1. /\ todo # <<>> /\ todo[1].do = d /\ todo[1].path = p /\ TaskOK(todo[1])
      /\ SrcTyped /\ DstTyped /\ IsTree(src) /\ IsTree(dst)
    BY HeadIs
<1>2. Sweeps(todo[1]) /\ ~Works(todo[1]) /\ todo[1].do # "clear"
    BY <1>1 DEF Sweeps, Works, Worker
<1>3. Len(p) = 1 /\ p \notin op.given
    BY <1>1, <1>2 DEF TaskOK
<1>4. /\ DOMAIN src' = SrcPaths /\ \A f \in SrcPaths : f # p => src'[f] = src[f]
      /\ src'[p] = src[p] \/ (src'[p] = None /\ Empty(src, p))
    BY <1>1 DEF SrcTyped
<1>5. Fate(p) /\ src[p] \in {None, Dir} /\ src'[p] \in {None, Dir} /\ src[p] # File(p)
    BY <1>3, <1>4, ValuesDiffer DEF Inv, Fates, Fate
<1>6. /\ todo' \in Seq(Tasks) /\ Len(todo') = Len(todo) - 1
      /\ \A k \in 1..Len(todo') : k + 1 \in 2..Len(todo) /\ todo'[k] = todo[k + 1]
      /\ OneOf(todo') /\ Below2(todo')
      /\ \A f \in SrcPaths : Waiting(f)' <=> Waiting(f)
    BY <1>1, <1>2, PopIs
<1>7. ASSUME NEW f \in SrcPaths PROVE Fate(f)'
    <2>1. Fate(f) /\ (Waiting(f)' <=> Waiting(f)) /\ (Declined(f)' <=> Declined(f))
        BY <1>6 DEF Inv, Fates, Declined
    <2>2. CASE f = p
        BY <1>3, <1>5, <2>1, <2>2 DEF Fate
    <2>3. CASE f # p
        <3>1. (Untouched(f)' <=> Untouched(f)) /\ (Arrived(f)' <=> Arrived(f))
              /\ src'[f] = src[f]
            BY <1>4, <2>3 DEF Untouched, Arrived
        <3>. QED BY <2>1, <3>1 DEF Fate
    <2>. QED BY <2>2, <2>3
<1>8. ASSUME NEW k \in 1..Len(todo'), NEW u, u = todo'[k] PROVE TaskOK(u)'
    <2>1. k + 1 \in 2..Len(todo) /\ u = todo[k + 1]
        BY <1>6, <1>8
    <2>2. PICK n \in 2..Len(todo) : u = todo[n]
        BY <2>1
    <2>3. n \in 1..Len(todo) /\ 1 \in 1..Len(todo) /\ TaskOK(u) /\ u.path \in AnyPath
        BY <1>1, <2>2, TopIs
    <2>4. Works(u) => u.path # p
        <3>1. Works(u) => ~IsPrefix(u.path, p)
            BY <1>1, <1>2, <2>2, <2>3, TopIs DEF OneOf
        <3>. QED BY <3>1, PrefixFacts DEF AnyPath
    <2>5. u.path \in AnyPath => u.path = <<>> \/ u.path \in SrcPaths
        BY DEF AnyPath
    <2>6. Works(u) /\ u.path # <<>> => src'[u.path] # None
        BY <1>4, <2>3, <2>4, <2>5 DEF TaskOK
    <2>. QED BY <2>3, <2>6 DEF TaskOK
<1>9. Ready'
    <2>1. (\A k \in 1..Len(todo) : TaskOK(todo[k]))'
        BY <1>8 DEF TaskOK
    <2>2. ASSUME todo' # <<>>, NEW u, u = todo'[1] PROVE TopTask(u)'
        <3>1. 1 \in 1..Len(todo')
            BY <1>6, <2>2
        <3>2. 2 \in 2..Len(todo) /\ u = todo[2]
            BY <1>6, <2>2, <3>1
        <3>3. todo[2].do \in {"top", "item", "fast", "rmdir"}
            BY <1>1, <1>2, <3>2, TopIs DEF Below2
        <3>. QED BY <3>2, <3>3 DEF TopTask
    <2>3. (todo # <<>> => TopTask(todo[1]))'
        BY <2>2 DEF TopTask
    <2>. QED BY <2>1, <2>3 DEF Ready
<1>10. SrcTyped'
    BY <1>1, <1>4 DEF SrcTyped
<1>11. IsTree(src')
    <2>1. ASSUME NEW f \in SrcPaths, Len(f) = 2, src'[f] # None PROVE src'[Up(f)] = Dir
        <3>1. f # p /\ src[f] # None
            BY <1>3, <1>4, <2>1
        <3>2. src[Up(f)] = Dir /\ Up(f) \in SrcPaths
            BY <1>1, <2>1, <3>1, SrcTree, SrcPathFacts DEF SrcTyped
        <3>3. Up(f) = p => ~Empty(src, p)
            <4>1. f \in DOMAIN src /\ f[1] = Up(f)[1]
                BY <1>1, SrcPathFacts DEF SrcTyped
            <4>. QED BY <2>1, <3>1, <4>1 DEF Empty, In
        <3>. QED BY <1>4, <3>2, <3>3
    <2>. QED BY <1>4, <2>1, SrcTree
<1>12. DstTyped' /\ IsTree(dst)' /\ LogTyped'
    BY DEF Inv, Typed, DstTyped, IsTree, LogTyped
<1>13. Typed'
    BY <1>6, <1>10, <1>11, <1>12 DEF Inv, Typed
<1>14. Inv'
    BY <1>6, <1>7, <1>9, <1>13 DEF Inv, Fates
<1>15. Moves
    BY <1>4, <1>5, ValuesDiffer DEF Moves
<1>. QED BY <1>14, <1>15

LEMMA StopStep ==
    ASSUME Inv, Stop
    PROVE  Inv' /\ Moves
<1>1. /\ todo' = <<>> /\ log' = [log EXCEPT !.stopped = TRUE]
      /\ UNCHANGED <<op, policy, src, dst>>
    BY DEF Stop
<1>2. /\ LogTyped' /\ log'.stopped /\ log'.agreed = log.agreed /\ log'.declined = log.declined
      /\ log'.errors = log.errors
    BY <1>1 DEF Inv, Typed, LogTyped
<1>3. todo' \in Seq(Tasks) /\ Len(todo') = 0
    BY <1>1
<1>4. Typed'
    BY <1>1, <1>2, <1>3 DEF Inv, Typed, SrcTyped, DstTyped, IsTree
<1>5. OneOf(todo') /\ Below2(todo') /\ Ready'
    BY <1>1, <1>3 DEF OneOf, Below2, Ready
<1>6. ASSUME NEW f \in SrcPaths PROVE Fate(f)'
    <2>1. Fate(f) /\ ~Waiting(f)' /\ (Declined(f)' <=> Declined(f))
        BY <1>2, <1>3, <1>6 DEF Inv, Fates, Waiting, In2, Declined
    <2>2. Untouched(f)' <=> Untouched(f)
        BY <1>1 DEF Untouched
    <2>. QED BY <1>1, <1>2, <2>1, <2>2 DEF Fate
<1>7. Inv'
    BY <1>4, <1>5, <1>6 DEF Inv, Fates
<1>8. Moves
    BY <1>1, <1>2 DEF Moves
<1>. QED BY <1>7, <1>8


\* The clear of a destination that works: the put behind it is next.
LEMMA Cleared ==
    ASSUME Distinct, Inv, NEW p \in SrcPaths, Doing("clear", p), Return,
           Empty(dst, To(p)) \/ dst[To(p)] # Dir,
           dst' = [dst EXCEPT ![To(p)] = None], UNCHANGED <<op, policy, src>>,
           Logged({}, {})
    PROVE  Inv' /\ Moves
<1>1. /\ todo # <<>> /\ todo[1].do = "clear" /\ todo[1].path = p /\ TaskOK(todo[1])
      /\ TopTask(todo[1]) /\ SrcTyped /\ DstTyped /\ IsTree(src) /\ IsTree(dst)
    BY HeadIs
<1>2. ~Works(todo[1]) /\ To(p) \in log.agreed
    BY <1>1 DEF Works, Worker, TopTask
<1>3. /\ Len(todo) > 1 /\ Len(todo) \in Nat /\ todo[2] = Task("put", p)
      /\ 2 \in 1..Len(todo) /\ 2 \in 2..Len(todo)
    BY <1>1, TopIs DEF Below2
<1>4. PICK t : t = todo[2] /\ t.do = "put" /\ t.path = p /\ Works(t)
    <2>1. Task("put", p).do = "put" /\ Task("put", p).path = p /\ Works(Task("put", p))
        BY TaskIs DEF Kinds, AnyPath, Worker
    <2>. QED BY <1>3, <2>1
<1>5. /\ todo' \in Seq(Tasks) /\ Len(todo') = Len(todo) - 1
      /\ \A k \in 1..Len(todo') : k + 1 \in 2..Len(todo) /\ todo'[k] = todo[k + 1]
      /\ OneOf(todo') /\ Below2(todo')
      /\ \A f \in SrcPaths : Waiting(f)' <=> Waiting(f)
    BY <1>1, <1>2, PopIs
<1>6. To(p) \in DstPaths /\ DOMAIN dst = DstPaths
    BY <1>1, ToFacts DEF DstTyped
<1>7. /\ DOMAIN dst' = DstPaths /\ dst'[To(p)] = None
      /\ \A q \in DstPaths : q # To(p) => dst'[q] = dst[q]
      /\ \A f \in SrcPaths : f # p => dst'[To(f)] = dst[To(f)]
    BY <1>6, ToFacts, ToOnce
<1>8. Waiting(p) /\ Fate(p) /\ dst[To(p)] # File(p)
    <2>1. Waiting(p)
        BY <1>3, <1>4, PrefixFacts DEF Waiting, In2, AnyPath
    <2>2. Fate(p)
        BY DEF Inv, Fates
    <2>. QED BY <2>1, <2>2 DEF Fate, Untouched
<1>9. ASSUME NEW f \in SrcPaths PROVE Fate(f)'
    <2>1. Fate(f) /\ (Waiting(f)' <=> Waiting(f)) /\ (Declined(f)' <=> Declined(f))
          /\ (log.errors => log'.errors) /\ log'.stopped = log.stopped
        BY <1>5 DEF Inv, Fates, Declined, Logged
    <2>2. CASE f = p
        <3>1. dst'[To(p)] # File(p)
            BY <1>7, ValuesDiffer
        <3>2. Untouched(p) => Untouched(p)'
            BY <3>1 DEF Untouched
        <3>. QED BY <1>8, <2>1, <2>2, <3>1, <3>2 DEF Fate
    <2>3. CASE f # p
        <3>1. (Untouched(f)' <=> Untouched(f)) /\ (Arrived(f)' <=> Arrived(f))
              /\ dst'[To(f)] = dst[To(f)]
            BY <1>7, <2>3 DEF Untouched, Arrived
        <3>. QED BY <2>1, <3>1 DEF Fate
    <2>. QED BY <2>2, <2>3
<1>10. ASSUME NEW k \in 1..Len(todo'), NEW u, u = todo'[k] PROVE TaskOK(u)'
    <2>1. PICK n \in 2..Len(todo) : u = todo[n]
        BY <1>5, <1>10
    <2>2. n \in 1..Len(todo) /\ TaskOK(u) /\ u.path \in AnyPath
        BY <1>1, <2>1, TopIs
    <2>3. PICK q \in AnyPath : q = u.path
        BY <2>2
    <2>4. Works(u) /\ Len(q) = 2 => dst'[To(Up(q))] = dst[To(Up(q))]
        <3>1. ASSUME Works(u), Len(q) = 2 PROVE dst'[To(Up(q))] = dst[To(Up(q))]
            <4>1. q \in SrcPaths /\ Up(q) \in SrcPaths /\ Len(Up(q)) = 1 /\ q # Up(q)
                BY <3>1, SrcPathFacts DEF AnyPath
            <4>2. ASSUME Up(q) = p PROVE FALSE
                <5>1. q # p
                    BY <4>1, <4>2
                <5>2. n # 2
                    BY <1>4, <2>1, <2>3, <5>1
                <5>3. Apart(p, q)
                    BY <1>1, <1>3, <1>4, <2>1, <2>2, <2>3, <3>1, <5>2, TopIs DEF OneOf
                <5>. QED BY <4>1, <4>2, <5>3, PrefixFacts DEF Apart
            <4>. QED BY <1>7, <4>1, <4>2
        <3>. QED BY <3>1
    <2>5. /\ Works(u) /\ q # <<>> => src[q] # None
          /\ Works(u) /\ Len(q) = 2 => dst'[To(Up(q))] = Dir
        BY <2>2, <2>3, <2>4 DEF TaskOK
    <2>. QED BY <2>2, <2>3, <2>5 DEF TaskOK
<1>11. Ready'
    <2>1. (\A k \in 1..Len(todo) : TaskOK(todo[k]))'
        BY <1>10 DEF TaskOK
    <2>2. todo'[1] = t
        BY <1>3, <1>4, <1>5
    <2>3. TopTask(t)'
        BY <1>4, <1>7 DEF TopTask
    <2>4. (todo # <<>> => TopTask(todo[1]))'
        BY <2>2, <2>3 DEF TopTask
    <2>. QED BY <2>1, <2>4 DEF Ready
<1>12. DstTyped'
    BY <1>1, <1>7 DEF DstTyped
<1>13. IsTree(dst')
    <2>1. ASSUME NEW f \in SrcPaths, Len(f) = 2, dst'[To(f)] # None
          PROVE  dst'[To(Up(f))] = Dir
        <3>1. f # p /\ dst[To(f)] # None
            BY <1>7, <2>1
        <3>2. dst[To(Up(f))] = Dir /\ Up(f) \in SrcPaths
            BY <1>1, <1>6, <2>1, <3>1, DstTree, SrcPathFacts
        <3>3. Up(f) # p
            <4>1. ASSUME Up(f) = p PROVE FALSE
                <5>1. To(f) \in DstPaths /\ Len(To(f)) = 2 /\ To(f)[1] = To(p)[1]
                    BY <2>1, <4>1, ToFacts, SrcPathFacts DEF Up
                <5>2. ~Empty(dst, To(p))
                    BY <1>6, <3>1, <5>1 DEF Empty, In
                <5>. QED BY <3>2, <4>1, <5>2
            <4>. QED BY <4>1
        <3>. QED BY <1>7, <3>2, <3>3
    <2>. QED BY <1>7, <2>1, DstTree
<1>14. SrcTyped' /\ IsTree(src)'
    BY DEF Inv, Typed, SrcTyped, IsTree
<1>15. Typed'
    BY <1>5, <1>12, <1>13, <1>14 DEF Inv, Typed, Logged
<1>16. Inv'
    BY <1>5, <1>9, <1>11, <1>15 DEF Inv, Fates
<1>17. Moves
    <2>1. log.agreed \subseteq log'.agreed
        BY DEF Logged
    <2>2. To(p) \in log'.agreed
        BY <1>2, <2>1
    <2>. QED BY <1>7, <1>8, <2>1, <2>2, ValuesDiffer DEF Moves
<1>. QED BY <1>16, <1>17

\* The clear that fails: the put behind it is given up too.
LEMMA NotCleared ==
    ASSUME Inv, NEW p \in SrcPaths, Doing("clear", p), todo' = Tail(Tail(todo)),
           Error, UNCHANGED <<op, policy, src, dst>>
    PROVE  Inv' /\ Moves
<1>1. /\ todo # <<>> /\ todo[1].do = "clear" /\ todo[1].path = p /\ LogTyped
    BY HeadIs
<1>2. Logged({}, {}) /\ log'.errors
    BY <1>1, LogIs
<1>3. /\ Len(todo) > 1 /\ Len(todo) \in Nat /\ todo \in Seq(Tasks)
    BY <1>1, TopIs DEF Below2
<1>4. /\ todo' \in Seq(Tasks) /\ Len(todo') = Len(todo) - 2
      /\ \A k \in 1..Len(todo') : todo'[k] = todo[k + 2]
    <2>1. PICK R : R = Tail(todo)
        OBVIOUS
    <2>2. /\ R \in Seq(Tasks) /\ Len(R) = Len(todo) - 1 /\ R # <<>>
          /\ \A k \in 1..Len(R) : R[k] = todo[k + 1]
        <3>1. R \in Seq(Tasks) /\ Len(R) = Len(todo) - 1
            BY <1>3, <2>1
        <3>2. \A k \in 1..Len(R) : R[k] = todo[k + 1]
            BY <1>3, <2>1, <3>1
        <3>3. Len(R) > 0
            BY <1>3, <3>1
        <3>. QED BY <3>1, <3>2, <3>3
    <2>3. /\ todo' \in Seq(Tasks) /\ Len(todo') = Len(R) - 1
          /\ \A k \in 1..Len(todo') : todo'[k] = R[k + 1]
        BY <2>1, <2>2
    <2>4. ASSUME NEW k \in 1..Len(todo') PROVE todo'[k] = todo[k + 2]
        <3>1. k \in Nat /\ k + 1 \in 1..Len(R) /\ (k + 1) + 1 = k + 2
            BY <1>3, <2>2, <2>3
        <3>2. PICK m \in 1..Len(R) : m = k + 1
            BY <3>1
        <3>. QED BY <2>2, <2>3, <3>1, <3>2
    <2>5. Len(todo') = Len(todo) - 2
        BY ONLY <1>3, <2>2, <2>3
    <2>. QED BY <2>3, <2>4, <2>5
<1>5. ASSUME NEW k \in 1..Len(todo')
      PROVE  \E n \in 3..Len(todo) : n = k + 2 /\ todo'[k] = todo[n]
    BY <1>3, <1>4
<1>6. \A n \in 3..Len(todo) : /\ n \in 1..Len(todo) /\ n \in 2..Len(todo) /\ n # 2
                              /\ todo[n].do \in {"top", "item", "fast", "rmdir"}
    <2>1. \A n \in 3..Len(todo) : n \in 1..Len(todo) /\ n \in 2..Len(todo) /\ n # 2
        BY <1>3
    <2>. QED BY <1>1, <2>1, TopIs DEF Below2
<1>7. OneOf(todo')
    <2>1. ASSUME NEW j \in 1..Len(todo'), NEW k \in 1..Len(todo'), Works(todo'[j])
          PROVE  /\ Works(todo'[k]) /\ j # k => Apart(todo'[j].path, todo'[k].path)
                 /\ Sweeps(todo'[k]) => ~IsPrefix(todo'[j].path, todo'[k].path)
        <3>1. PICK m \in 3..Len(todo) : m = j + 2 /\ todo'[j] = todo[m]
            BY <1>5
        <3>2. PICK n \in 3..Len(todo) : n = k + 2 /\ todo'[k] = todo[n]
            BY <1>5
        <3>3. m \in 1..Len(todo) /\ n \in 1..Len(todo) /\ (j # k => m # n)
            BY <1>3, <1>4, <1>6, <3>1, <3>2
        <3>. QED BY <1>1, <2>1, <3>1, <3>2, <3>3, TopIs DEF OneOf
    <2>. QED BY <2>1 DEF OneOf
<1>8. \A k \in 1..Len(todo') : todo'[k].do \in {"top", "item", "fast", "rmdir"}
    BY <1>5, <1>6
<1>9. Below2(todo')
    <2>1. /\ \A k \in 2..Len(todo') : k \in 1..Len(todo')
          /\ Len(todo') > 0 => 1 \in 1..Len(todo')
        BY <1>3, <1>4
    <2>2. Len(todo') > 0 => todo'[1].do # "clear"
        BY <1>8, <2>1
    <2>3. \A k \in 2..Len(todo') : todo'[k].do \in {"top", "item", "fast", "rmdir"}
        BY <1>8, <2>1
    <2>. QED BY <2>2, <2>3 DEF Below2
<1>10. ASSUME NEW k \in 1..Len(todo'), NEW u, u = todo'[k] PROVE TaskOK(u)' /\ TopTask(u)'
    <2>1. PICK n \in 3..Len(todo) : u = todo[n]
        BY <1>5, <1>10
    <2>2. TaskOK(u) /\ u.do \in {"top", "item", "fast", "rmdir"}
        BY <1>1, <1>6, <2>1, TopIs
    <2>. QED BY <2>2 DEF TaskOK, TopTask
<1>11. Ready'
    <2>1. (\A k \in 1..Len(todo) : TaskOK(todo[k]))'
        BY <1>10 DEF TaskOK
    <2>2. todo' # <<>> => 1 \in 1..Len(todo')
        BY <1>4
    <2>3. (todo # <<>> => TopTask(todo[1]))'
        BY <1>10, <2>2 DEF TopTask
    <2>. QED BY <2>1, <2>3 DEF Ready
<1>12. ASSUME NEW f \in SrcPaths PROVE Fate(f)'
    <2>1. Fate(f) /\ (Declined(f)' <=> Declined(f)) /\ (Untouched(f)' <=> Untouched(f))
        BY <1>2 DEF Inv, Fates, Declined, Untouched, Logged
    <2>2. Waiting(f)' => Waiting(f)
        BY <1>5, <1>6 DEF Waiting, In2
    <2>. QED BY <1>2, <2>1, <2>2 DEF Fate
<1>13. Typed'
    BY <1>2, <1>4 DEF Inv, Typed, Logged, SrcTyped, DstTyped, IsTree
<1>14. Inv'
    BY <1>7, <1>9, <1>11, <1>12, <1>13 DEF Inv, Fates
<1>. QED BY <1>2, <1>14, QuietMoves

LEMMA ClearStep ==
    ASSUME Distinct, Inv, NEW p \in SrcPaths, Clear(p)
    PROVE  Inv' /\ Moves
<1>1. Doing("clear", p) /\ UNCHANGED <<op, policy, src>>
    BY DEF Clear
<1>2. LogTyped
    BY DEF Inv, Typed
<1>3. CASE /\ Empty(dst, To(p)) \/ dst[To(p)] # Dir
           /\ dst' = [dst EXCEPT ![To(p)] = None]
           /\ Return
           /\ UNCHANGED log \/ Error
    <2>1. Logged({}, {})
        BY <1>2, <1>3, LogIs
    <2>. QED BY <1>1, <1>3, <2>1, Cleared
<1>4. CASE todo' = Tail(Tail(todo)) /\ Error /\ UNCHANGED dst
    BY <1>1, <1>4, NotCleared
<1>. QED BY <1>3, <1>4 DEF Clear


----------------------------------------------------------------------------
(* The invariant holds.                                                    *)

LEMMA WorkIs ==
    ASSUME Init
    PROVE  /\ todo \in Seq(Tasks) /\ Len(todo) > 0
           /\ \A k \in 1..Len(todo) : TaskOK(todo[k]) /\ TopTask(todo[k]) /\ Works(todo[k])
                                      /\ todo[k].do \in {"top", "fast", "rsync"}
           /\ OneOf(todo) /\ Below2(todo)
           /\ \A f \in SrcPaths : Waiting(f)
<1>1. /\ \A p \in SrcPaths : src[p] \in {File(p)} \cup IF Len(p) = 2 THEN {None}
                                           ELSE IF p[1] \in Folders THEN {Dir} ELSE {}
      /\ todo = Work
    BY DEF Init
<1>2. \A i \in Source : <<i>> \in SrcPaths /\ <<i>> # <<>> /\ Len(<<i>>) = 1 /\ src[<<i>>] # None
    <2>1. \A i \in Source : <<i>> \in SrcPaths /\ <<i>> # <<>> /\ Len(<<i>>) = 1
        BY SrcPathIs
    <2>2. \A p \in SrcPaths : Len(p) = 1 => src[p] \in {File(p), Dir}
        BY <1>1
    <2>. QED BY <2>1, <2>2, ValuesDiffer
<1>3. CASE CanBatch
    <2>1. PICK t \in Tasks : t = Task("rsync", <<>>)
        BY TaskIs DEF Kinds, AnyPath
    <2>2. t.do = "rsync" /\ t.path = <<>> /\ Works(t)
        BY <2>1, TaskIs DEF Kinds, AnyPath, Worker
    <2>3. todo = <<t>> /\ <<t>> \in Seq(Tasks) /\ Len(<<t>>) = 1 /\ <<t>>[1] = t
        BY <1>1, <1>3, <2>1 DEF Work
    <2>4. \A k \in 1..1 : k = 1
        OBVIOUS
    <2>5. todo \in Seq(Tasks) /\ Len(todo) = 1 /\ \A k \in 1..Len(todo) : k = 1 /\ todo[k] = t
        BY <2>3, <2>4
    <2>6. TaskOK(t)
        BY <1>3, <2>2 DEF TaskOK, CanBatch, Sweeps
    <2>7. TopTask(t)
        <3>1. ASSUME NEW q \in SrcPaths, Len(q) = 1 PROVE SameKind(q)
            <4>1. PICK i \in Source : q = <<i>>
                BY <3>1, SrcPathFacts DEF Up
            <4>2. dst[To(<<i>>)] = None \/ ((src[<<i>>] = Dir) = (dst[To(<<i>>)] = Dir))
                BY <1>3 DEF CanBatch
            <4>. QED BY <4>1, <4>2 DEF SameKind
        <3>. QED BY <2>2, <3>1 DEF TopTask
    <2>8. OneOf(todo)
        BY <2>2, <2>5 DEF OneOf, Sweeps
    <2>9. Below2(todo)
        <3>1. \A k : ~(k \in 2..1)
            OBVIOUS
        <3>. QED BY <2>2, <2>3, <3>1 DEF Below2
    <2>10. \A f \in SrcPaths : Waiting(f)
        <3>1. 1 \in 1..Len(todo) /\ todo[1] = t
            BY <2>3
        <3>. QED BY <2>2, <3>1, PrefixFacts DEF Waiting, In2, AnyPath
    <2>. QED BY <2>2, <2>5, <2>6, <2>7, <2>8, <2>9, <2>10
<1>4. CASE ~CanBatch
    <2>1. PICK d \in {"fast", "top"} : todo = [i \in Source |-> Task(d, <<i>>)]
        BY <1>1, <1>4 DEF Work
    <2>2. N \in Nat /\ N > 0 /\ Source = 1..N
        BY CopyMoveAssumption DEF Source
    <2>3. \A i \in Source : /\ Task(d, <<i>>) \in Tasks /\ Task(d, <<i>>).do = d
                            /\ Task(d, <<i>>).path = <<i>> /\ Works(Task(d, <<i>>))
        <3>1. d \in Kinds /\ d \in Worker
            BY DEF Kinds, Worker
        <3>. QED BY <1>2, <3>1, TaskIs DEF AnyPath
    <2>4. todo \in [1..N -> Tasks]
        BY <2>1, <2>2, <2>3
    <2>5. todo \in Seq(Tasks) /\ Len(todo) = N
        BY <2>2, <2>4
    <2>6. \A k \in 1..N : /\ todo[k].do = d /\ todo[k].path = <<k>> /\ Works(todo[k])
                          /\ ~Sweeps(todo[k])
        <3>1. \A k \in 1..N : todo[k] = Task(d, <<k>>)
            BY <2>1, <2>2
        <3>. QED BY <2>2, <2>3, <3>1 DEF Sweeps
    <2>7. ASSUME NEW k \in 1..N, NEW u, u = todo[k] PROVE TaskOK(u) /\ TopTask(u)
        <3>1. u.do = d /\ u.path = <<k>> /\ <<k>> # <<>> /\ Len(<<k>>) = 1 /\ src[<<k>>] # None
              /\ ~Sweeps(u)
            BY <1>2, <2>2, <2>6, <2>7
        <3>2. d # "rsync" /\ d # "clear" /\ d # "put"
            OBVIOUS
        <3>. QED BY <3>1, <3>2 DEF TaskOK, TopTask
    <2>8. OneOf(todo)
        <3>1. ASSUME NEW j \in 1..N, NEW k \in 1..N, j # k PROVE Apart(<<j>>, <<k>>)
            <4>1. <<j>> \in SrcPaths /\ <<k>> \in SrcPaths /\ <<j>>[1] = j /\ <<k>>[1] = k
                BY <1>2, <2>2
            <4>2. <<j>> # <<k>> /\ <<j>> # <<>> /\ <<k>> # <<>>
                BY <3>1, <4>1, SrcPathFacts
            <4>. QED BY <3>1, <4>1, <4>2, PrefixIs DEF Apart, AnyPath
        <3>. QED BY <2>5, <2>6, <3>1 DEF OneOf
    <2>9. Below2(todo)
        <3>1. \A k \in 1..N : todo[k].do \in {"top", "item", "fast", "rmdir"}
                              /\ todo[k].do # "clear"
            BY <2>6
        <3>2. 1 \in 1..N /\ \A k \in 2..N : k \in 1..N
            BY <2>2
        <3>. QED BY <2>5, <3>1, <3>2 DEF Below2
    <2>10. ASSUME NEW f \in SrcPaths PROVE Waiting(f)
        <3>1. f[1] \in 1..N /\ Up(f) \in SrcPaths /\ Up(f) = <<f[1]>> /\ IsPrefix(Up(f), f)
            BY <2>2, SrcPathFacts, PrefixFacts DEF Up
        <3>2. todo[f[1]].path = Up(f) /\ Works(todo[f[1]])
            BY <2>6, <3>1
        <3>. QED BY <2>5, <3>1, <3>2 DEF Waiting, In2
    <2>. QED BY <2>2, <2>5, <2>6, <2>7, <2>8, <2>9, <2>10
<1>. QED BY <1>3, <1>4

LEMMA InitInv == Init => Inv
<1> SUFFICES ASSUME Init PROVE Inv
    OBVIOUS
<1>1. /\ \A p \in SrcPaths : src[p] \in {File(p)} \cup IF Len(p) = 2 THEN {None}
                                           ELSE IF p[1] \in Folders THEN {Dir} ELSE {}
      /\ src \in [SrcPaths -> {None, Dir} \cup {File(p) : p \in SrcPaths}]
      /\ dst \in [DstPaths -> {None, Dir} \cup {File(q) : q \in DstPaths}]
      /\ \A q \in DstPaths : dst[q] \in {File(q), None} \cup IF Len(q) = 1 THEN {Dir} ELSE {}
      /\ IsTree(src) /\ IsTree(dst)
      /\ policy \in Policies(dst)
      /\ op.move \in BOOLEAN /\ op.same \in BOOLEAN
      /\ op.given = {p \in SrcPaths : src[p] \notin {None, Dir}}
      /\ log = [errors |-> FALSE, stopped |-> FALSE, agreed |-> {}, declined |-> {}]
    BY DEF Init
<1>2. SrcTyped
    BY <1>1, SrcPathFacts DEF SrcTyped
<1>3. DstTyped
    BY <1>1 DEF DstTyped
<1>4. LogTyped
    BY <1>1 DEF LogTyped
<1>5. Typed
    <2>1. policy \in {"ask", "replace", "skip", "newer"}
        BY <1>1 DEF Policies
    <2>. QED BY <1>1, <1>2, <1>3, <1>4, <2>1, WorkIs DEF Typed
<1>6. Ready
    <2>1. todo # <<>> => 1 \in 1..Len(todo)
        BY WorkIs
    <2>. QED BY <2>1, WorkIs DEF Ready
<1>7. ASSUME NEW f \in SrcPaths PROVE Fate(f)
    <2>1. Waiting(f) /\ ~Declined(f)
        BY <1>1, WorkIs DEF Declined
    <2>2. dst[To(f)] # File(f)
        <3>1. To(f) \in DstPaths
            BY ToFacts
        <3>2. dst[To(f)] \in {File(To(f)), None, Dir}
            BY <1>1, <3>1
        <3>. QED BY <3>2, FilesApart, ValuesDiffer
    <2>3. /\ f \in op.given => src[f] = File(f)
          /\ f \notin op.given => src[f] \in {None, Dir}
        BY <1>1, <1>2, ValuesDiffer DEF SrcTyped
    <2>. QED BY <2>1, <2>2, <2>3 DEF Fate, Untouched
<1>. QED BY <1>5, <1>6, <1>7, WorkIs DEF Inv, Fates

LEMMA NextInv ==
    ASSUME Distinct, Inv, [Next]_vars
    PROVE  Inv' /\ Moves
<1>1. CASE UNCHANGED vars
    <2>1. UNCHANGED <<op, policy, todo, src, dst, log>>
        BY <1>1 DEF vars
    <2>2. Inv'
        BY <2>1 DEF Inv, Typed, SrcTyped, DstTyped, LogTyped, IsTree, Ready, TaskOK, TopTask,
               SameKind, Merge, Fates, Fate, Waiting, Declined, Untouched, Arrived
    <2>. QED BY <2>1, <2>2 DEF Moves
<1>2. ASSUME NEW p \in SrcPaths,
             \/ Top(p) \/ Existing(p) \/ Fresh(p) \/ Unreadable(p)
             \/ \E c \in {"Y", "N", "A", "S"} : Answer(p, c)
             \/ Clear(p) \/ PutFolder(p) \/ Cp(p) \/ Mv(p) \/ Rmdir(p)
             \/ Rename(p) \/ Fast(p) \/ Prune(p)
      PROVE  Inv' /\ Moves
    <2>1. Top(p) => Inv' /\ Moves
        BY TopStep
    <2>2. Existing(p) => Inv' /\ Moves
        BY ExistingStep
    <2>3. Fresh(p) => Inv' /\ Moves
        BY FreshStep
    <2>4. Unreadable(p) => Inv' /\ Moves
        BY UnreadableStep
    <2>5. \A c \in {"Y", "N", "A", "S"} : Answer(p, c) => Inv' /\ Moves
        BY AnswerStep
    <2>6. Clear(p) => Inv' /\ Moves
        BY ClearStep
    <2>7. PutFolder(p) => Inv' /\ Moves
        BY PutFolderStep
    <2>8. Cp(p) => Inv' /\ Moves
        BY CpStep
    <2>9. Mv(p) => Inv' /\ Moves
        BY MvStep
    <2>10. Rmdir(p) => Inv' /\ Moves
        BY SweepStep DEF Rmdir
    <2>11. Prune(p) => Inv' /\ Moves
        BY SweepStep DEF Prune
    <2>12. Rename(p) => Inv' /\ Moves
        BY RenameStep
    <2>13. Fast(p) => Inv' /\ Moves
        BY FastStep
    <2>. QED BY <1>2, <2>1, <2>2, <2>3, <2>4, <2>5, <2>6, <2>7, <2>8, <2>9, <2>10, <2>11,
                <2>12, <2>13
<1>3. ASSUME NEW p \in SrcPaths \cup {<<>>}, Rsync(p) PROVE Inv' /\ Moves
    BY <1>3, RsyncStep DEF AnyPath
<1>4. CASE Stop
    BY <1>4, StopStep
<1>5. CASE Over
    BY <1>1, <1>5 DEF Over
<1>. QED BY <1>1, <1>2, <1>3, <1>4, <1>5 DEF Next

\* In every state the call stack is well-formed, and each file's content is where the
\* place it has reached in the stack says it is.
THEOREM Invariant ==
    ASSUME Distinct
    PROVE  Spec => []Inv
<1>1. Inv /\ [Next]_vars => Inv'
    BY NextInv
<1>. QED BY InitInv, <1>1, PTL DEF Spec

\* No failure goes unreported: an operation that ends without an error, and that
\* nobody stopped, has brought every file that was not passed over or refused.
THEOREM SilentMeansDoneHolds ==
    ASSUME Distinct
    PROVE  Spec => []SilentMeansDone
<1>1. Inv => SilentMeansDone
    <2> SUFFICES ASSUME Inv, todo = <<>>, ~log.errors, ~log.stopped, NEW p \in op.given
                 PROVE  \/ \E d \in log.declined : IsPrefix(d, p)
                        \/ At(p) = IF op.move THEN {"dest"} ELSE {"source", "dest"}
        BY DEF SilentMeansDone
    <2>1. p \in SrcPaths /\ op.move \in BOOLEAN
        BY DEF Inv, Typed
    <2>2. Fate(p) /\ ~Waiting(p)
        BY <2>1 DEF Inv, Fates, Waiting, In2
    <2>3. CASE Declined(p)
        BY <2>3 DEF Declined
    <2>4. CASE ~Declined(p)
        <3>1. dst[To(p)] = File(p) /\ (src[p] = File(p) <=> ~op.move)
            BY <2>2, <2>4 DEF Fate, Arrived
        <3>. QED BY <2>1, <3>1 DEF At
    <2>. QED BY <2>3, <2>4
<1>. QED BY <1>1, Invariant, PTL

\* What was passed over or refused is where it was, whatever happens to the rest.
THEOREM DeclinedIsLeftHolds ==
    ASSUME Distinct
    PROVE  Spec => []DeclinedIsLeft
<1>1. Inv => DeclinedIsLeft
    <2> SUFFICES ASSUME Inv, NEW p \in op.given, NEW d \in log.declined, IsPrefix(d, p)
                 PROVE  At(p) = {"source"}
        BY DEF DeclinedIsLeft
    <2>1. p \in SrcPaths
        BY DEF Inv, Typed
    <2>2. src[p] = File(p) /\ dst[To(p)] # File(p)
        BY <2>1 DEF Inv, Fates, Fate, Declined, Untouched
    <2>. QED BY <2>2 DEF At
<1>. QED BY <1>1, Invariant, PTL


OpTyped ==
    op \in [move : BOOLEAN, rsync : BOOLEAN, same : BOOLEAN, given : SUBSET SrcPaths]

\* Every task is of a kind the child knows and about a source, what a place holds is a
\* file that belongs there or a part of one, and no file is in a folder that is gone.
THEOREM TypeCorrect ==
    ASSUME Distinct
    PROVE  Spec => []TypeOK
<1>1. Init => OpTyped
    BY DEF Init, OpTyped
<1>2. Inv /\ OpTyped /\ [Next]_vars => OpTyped'
    BY NextInv DEF Moves, OpTyped
<1>3. Inv /\ OpTyped => TypeOK
    <2> SUFFICES ASSUME Inv, OpTyped PROVE TypeOK
        OBVIOUS
    <2>1. Typed
        BY DEF Inv
    <2>2. ASSUME NEW k \in DOMAIN todo
          PROVE  todo[k].do \in Kinds /\ todo[k].path \in AnyPath
        <3>1. todo[k] \in Tasks
            BY <2>1, <2>2, ElementOfSeq DEF Typed
        <3>. QED BY <3>1 DEF Tasks
    <2>3. \A p \in SrcPaths : src[p] \in {None, Dir, File(p)}
        BY <2>1 DEF Typed, SrcTyped
    <2>4. \A q \in DstPaths :
             dst[q] \in {None, Dir, Part, File(q)} \cup {File(p) : p \in SrcPaths}
        BY <2>1 DEF Typed, DstTyped
    <2>5. /\ policy \in {"ask", "replace", "skip", "newer"}
          /\ log.agreed \subseteq DstPaths /\ log.declined \subseteq SrcPaths
          /\ IsTree(src) /\ IsTree(dst)
        BY <2>1 DEF Typed, LogTyped
    <2>. QED BY <2>2, <2>3, <2>4, <2>5 DEF TypeOK, OpTyped, Kinds, AnyPath
<1>4. Spec => []OpTyped
    BY <1>1, <1>2, Invariant, PTL DEF Spec
<1>. QED BY <1>3, <1>4, Invariant, PTL

----------------------------------------------------------------------------
(* The child implements module Transfer.                                   *)

LEMMA AtIs ==
    ASSUME NEW p
    PROVE  /\ At(p) \in SUBSET {"source", "dest"}
           /\ "source" \in At(p) <=> src[p] = File(p)
           /\ "dest" \in At(p) <=> dst[To(p)] = File(p)
BY DEF At

\* The child starts as module Transfer does, and each of its steps is one that
\* Transfer allows: no source is given up but for a whole copy that stays, and
\* what was at the destination goes only where the user has agreed to it.
THEOREM TransfersHolds ==
    ASSUME Distinct
    PROVE  Spec => Transfers
<1> DEFINE at == [p \in SrcPaths |-> At(p)]
           kept == {q \in DstPaths : dst[q] = File(q)}
<1>1. Init => T!TInit
    <2> SUFFICES ASSUME Init PROVE T!TInit
        OBVIOUS
    <2>1. Inv
        BY InitInv
    <2>2. ASSUME NEW p \in SrcPaths PROVE At(p) \in {{}, {"source"}}
        <3>1. dst[To(p)] # File(p)
            <4>1. To(p) \in DstPaths
                BY ToFacts
            <4>2. dst[To(p)] \in {File(To(p)), None, Dir}
                BY <4>1 DEF Init
            <4>. QED BY <4>2, FilesApart, ValuesDiffer
        <3>2. "dest" \notin At(p) /\ At(p) \in SUBSET {"source", "dest"}
            BY <3>1, AtIs
        <3>. QED BY <3>2
    <2>3. op.move \in BOOLEAN /\ log.agreed = {}
        BY DEF Init
    <2>. QED BY <2>2, <2>3 DEF T!TInit
<1>2. Inv /\ [Next]_vars => [T!Transferring]_(T!tvars)
    <2> SUFFICES ASSUME Inv, [Next]_vars PROVE T!Transferring
        OBVIOUS
    <2>1. Inv' /\ Moves
        BY NextInv
    <2>2. /\ \A p \in SrcPaths : at[p] = At(p) /\ at'[p] = At(p)'
          /\ at' \in [SrcPaths -> SUBSET {"source", "dest"}]
        <3>1. \A p \in SrcPaths : At(p)' \in SUBSET {"source", "dest"}
            BY DEF At
        <3>. QED BY <3>1
    <2>3. \A p \in SrcPaths :
             /\ "source" \in At(p)' <=> src'[p] = File(p)
             /\ "dest" \in At(p)' <=> dst'[To(p)] = File(p)
             /\ At(p)' \in SUBSET {"source", "dest"}
        BY DEF At
    <2>4. \A p \in SrcPaths : "source" \in at[p] /\ "source" \notin at'[p] =>
                                 op.move /\ "dest" \in at'[p]
        BY <2>1, <2>2, <2>3, AtIs DEF Moves
    <2>5. \A p \in SrcPaths : "dest" \in at[p] => "dest" \in at'[p]
        BY <2>1, <2>2, <2>3, AtIs DEF Moves
    <2>6. \A p \in SrcPaths :
             at'[p] \subseteq IF at[p] = {} THEN {} ELSE {"source", "dest"}
        <3>1. ASSUME NEW p \in SrcPaths, NEW x \in At(p)' PROVE At(p) # {}
            <4>1. x = "source" \/ x = "dest"
                BY <2>3, <3>1
            <4>2. src[p] = File(p) \/ dst[To(p)] = File(p)
                BY <2>1, <2>3, <3>1, <4>1 DEF Moves
            <4>. QED BY <4>2, AtIs
        <3>. QED BY <2>2, <2>3, <3>1
    <2>7. kept' \subseteq kept /\ kept \ kept' \subseteq log'.agreed
        <3>1. ASSUME NEW q \in DstPaths
              PROVE  /\ dst'[q] = File(q) => dst[q] = File(q)
                     /\ dst[q] = File(q) => dst'[q] = File(q) \/ q \in log'.agreed
            <4>1. PICK f \in SrcPaths : To(f) = q
                BY ToOnto
            <4>. QED BY <2>1, <4>1 DEF Moves
        <3>. QED BY <3>1
    <2>8. log.agreed \subseteq log'.agreed /\ log'.agreed \subseteq DstPaths /\ op'.move = op.move
        BY <2>1 DEF Moves, Inv, Typed, LogTyped
    <2> HIDE DEF at, kept
    <2>. QED BY <2>2, <2>4, <2>5, <2>6, <2>7, <2>8
             DEF T!Transferring, T!GivenUpForACopy, T!ArrivedStays, T!NothingFromNowhere,
                 T!LostByAgreement, at, kept
<1>. QED BY <1>1, <1>2, Invariant, PTL DEF Spec, Transfers, T!TSpec

\* What Transfer comes to for the user: the content of a source is at every moment at
\* its source or, whole, at its destination; a copy never takes it from its source; and
\* a file of the destination goes only after he has agreed to lose that one.
THEOREM NothingIsLost ==
    ASSUME Distinct, NEW p \in SrcPaths, NEW q \in DstPaths
    PROVE  /\ Spec /\ src[p] = File(p) => [](src[p] = File(p) \/ dst[To(p)] = File(p))
           /\ Spec /\ src[p] = File(p) /\ ~op.move => [](src[p] = File(p))
           /\ Spec /\ dst[q] = File(q) => [](dst[q] = File(q) \/ q \in log.agreed)
<1> DEFINE Somewhere == src[p] = File(p) \/ dst[To(p)] = File(p)
           Copied == src[p] = File(p) /\ ~op.move
           Spared == dst[q] = File(q) \/ q \in log.agreed
<1>1. Inv /\ [Next]_vars => /\ Somewhere => Somewhere'
                            /\ Copied => Copied'
                            /\ Spared => Spared'
    <2> SUFFICES ASSUME Inv, [Next]_vars
                 PROVE  /\ Somewhere => Somewhere'
                        /\ Copied => Copied'
                        /\ Spared => Spared'
        OBVIOUS
    <2>1. Moves
        BY NextInv
    <2>2. PICK f \in SrcPaths : To(f) = q
        BY ToOnto
    <2>. QED BY <2>1, <2>2 DEF Moves
<1>2. Copied => src[p] = File(p)
    OBVIOUS
<1> HIDE DEF Copied
<1>3. src[p] = File(p) /\ ~op.move => Copied
    BY DEF Copied
<1>. QED BY <1>1, <1>2, <1>3, Invariant, PTL DEF Spec
=============================================================================
