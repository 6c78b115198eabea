--------------------------- MODULE WindowsProofs ---------------------------
(***************************************************************************)
(* The windows of a process, for any number of windows, tabs, directories  *)
(* and operations: host and pane live and die together, the count is that   *)
(* of what is open, the session has an owner or is given one, no two unique *)
(* windows are on one path, and a tab in the background keeps its place.   *)
(***************************************************************************)
EXTENDS Windows, SequenceTheorems, FiniteSetTheorems, TLAPS

\* filer_history_push keeps this much.
Hist == {h \in Seq(Paths) : Len(h) <= HistoryLimit}

TabRec == [id : 1..MaxTabs, path : Paths, back : Hist, fwd : Hist]

WinRec == [path : Paths \cup {None}, back : Hist, fwd : Hist,
           tabs : Seq(TabRec), act : Nat, host : Win \cup {None},
           right : Win \cup {None}, split : BOOLEAN, idle : SUBSET {"tab", "split"}]

SessionRec == [tabs : Seq(Paths), act : Nat, split : BOOLEAN, right : Paths \cup {None}]

UiRec == [win : [Win -> WinRec], all : Seq(Win), modern : Seq(Win),
          owner : Win \cup {None}, promote : BOOLEAN, once : BOOLEAN, count : Int,
          run : {"on", "off"}, saved : SessionRec]

\* A host has an active tab, a pane has none; the tabs tell themselves apart.
Formed(v) ==
    /\ v \in WinRec
    /\ Len(v.tabs) <= MaxTabs /\ v.act \in 0..Len(v.tabs)
    /\ \A i, j \in 1..Len(v.tabs) : v.tabs[i].id = v.tabs[j].id => i = j
    /\ v.path # None /\ v.host = None => v.act # 0
    /\ v.path = None => v.idle = {}
    /\ v.host # None => v.tabs = <<>> /\ v.act = 0 /\ v.right = None /\ v.idle = {}

IsHost(S, w) == S.win[w].path # None /\ S.win[w].host = None

\* A list has an element once.
Single(list) == \A i, j \in 1..Len(list) : list[i] = list[j] => i = j

\* The lists name what is open.
Listed(S) ==
    /\ Single(S.all) /\ Single(S.modern)
    /\ \A w \in Win : w \in Range(S.all) <=> IsOpen(S, w)
    /\ \A w \in Win : w \in Range(S.modern) <=> IsHost(S, w)

Paired(S) ==
    \A w \in Win : IsOpen(S, w) =>
        /\ S.win[w].host # None =>
              IsHost(S, S.win[w].host) /\ S.win[S.win[w].host].right = w
        /\ S.win[w].right # None =>
              IsOpen(S, S.win[w].right) /\ S.win[S.win[w].right].host = w

Owned(S) ==
    /\ S.owner # None => IsHost(S, S.owner)
    /\ S.modern # <<>> /\ S.owner = None => S.promote

Twinless(S) ==
    unique => \A v, w \in Win :
        IsHost(S, v) /\ IsHost(S, w) /\ S.win[v].path = S.win[w].path => v = w

Fit(S) ==
    /\ S \in UiRec /\ \A w \in Win : Formed(S.win[w])
    /\ Len(S.saved.tabs) <= MaxTabs
    /\ Listed(S) /\ Paired(S) /\ Owned(S) /\ Twinless(S)

\* n others than windows are counted.
Counts(S, n) == S.count = Len(S.all) + n /\ S.run = IF S.count > 0 THEN "on" ELSE "off"

Outside ==
    /\ exists \subseteq Paths /\ dialogs \in Nat /\ jobs \in Nat
    /\ unique \in BOOLEAN /\ steps \in Nat /\ userMounted \in BOOLEAN
    /\ walk \in [kind : {"none", "check", "close"}, path : Paths \cup {None},
                next : Win \cup {None}]
    /\ walk.next # None => walk.path # None

IInv == Fit(Ui) /\ Counts(Ui, dialogs + jobs) /\ Outside


----------------------------------------------------------------------------
(* Lists.                                                                   *)

LEMMA RemoveAtIs ==
    ASSUME NEW T, NEW s \in Seq(T), NEW i \in 1..Len(s)
    PROVE  /\ RemoveAt(s, i) \in Seq(T) /\ Len(RemoveAt(s, i)) = Len(s) - 1
           /\ \A k \in 1..(Len(s) - 1) :
                 RemoveAt(s, i)[k] = IF k < i THEN s[k] ELSE s[k + 1]
<1> DEFINE n == Len(s)
           left == SubSeq(s, 1, i - 1)
           right == SubSeq(s, i + 1, n)
<1>1. n \in Nat /\ i \in Int /\ 1 <= i /\ i <= n /\ \A k \in 1..n : s[k] \in T
    OBVIOUS
<1>2. /\ left \in Seq(T) /\ Len(left) = i - 1
      /\ \A k \in 1..(i - 1) : left[k] = s[k]
    <2>1. \A k \in 1..(i - 1) : s[k] \in T
        BY <1>1
    <2>2. /\ left \in Seq(T) /\ Len(left) = IF 1 <= i - 1 THEN (i - 1) - 1 + 1 ELSE 0
          /\ \A k \in 1..((i - 1) - 1 + 1) : left[k] = s[1 + k - 1]
        BY <1>1, <2>1, SubSeqProperties
    <2> HIDE DEF left
    <2>. QED BY <1>1, <2>2
<1>3. /\ right \in Seq(T) /\ Len(right) = n - i
      /\ \A k \in 1..(n - i) : right[k] = s[i + k]
    <2>1. \A k \in (i + 1)..n : s[k] \in T
        BY <1>1
    <2>2. /\ right \in Seq(T) /\ Len(right) = IF i + 1 <= n THEN n - (i + 1) + 1 ELSE 0
          /\ \A k \in 1..(n - (i + 1) + 1) : right[k] = s[(i + 1) + k - 1]
        BY <1>1, <2>1, SubSeqProperties
    <2> HIDE DEF right
    <2>. QED BY <1>1, <2>2
<1> HIDE DEF left, right
<1>4. /\ left \o right \in Seq(T) /\ Len(left \o right) = Len(left) + Len(right)
      /\ \A k \in 1..(Len(left) + Len(right)) :
            (left \o right)[k] = IF k <= Len(left) THEN left[k] ELSE right[k - Len(left)]
    BY <1>2, <1>3, ConcatProperties
<1>5. RemoveAt(s, i) = left \o right
    BY DEF RemoveAt, left, right
<1>6. ASSUME NEW k \in 1..(n - 1)
      PROVE  (left \o right)[k] = IF k < i THEN s[k] ELSE s[k + 1]
    <2>1. CASE k < i
        BY <1>1, <1>2, <1>3, <1>4, <2>1
    <2>2. CASE k >= i
        <3>1. k - (i - 1) \in 1..(n - i) /\ i + (k - (i - 1)) = k + 1
            BY <1>1, <2>2
        <3>2. (left \o right)[k] = right[k - (i - 1)]
            BY <1>1, <1>2, <1>3, <1>4, <2>2
        <3>. QED BY <1>3, <2>2, <3>1, <3>2
    <2>3. k < i \/ k >= i
        BY <1>1
    <2>. QED BY ONLY <2>1, <2>2, <2>3
<1>. QED BY <1>1, <1>2, <1>3, <1>4, <1>5, <1>6

LEMMA UnlinkedIs ==
    ASSUME NEW list \in Seq(Win), Single(list), NEW w
    PROVE  /\ Unlinked(list, w) \in Seq(Win) /\ Single(Unlinked(list, w))
           /\ \A o : o \in Range(Unlinked(list, w)) <=> o \in Range(list) /\ o # w
           /\ Len(Unlinked(list, w)) = IF w \in Range(list) THEN Len(list) - 1 ELSE Len(list)
<1> DEFINE n == Len(list)
<1>1. n \in Nat /\ DOMAIN list = 1..n
    OBVIOUS
<1>2. CASE w \notin Range(list)
    BY <1>2 DEF Unlinked
<1>3. CASE w \in Range(list)
    <2> DEFINE i == CHOOSE k \in DOMAIN list : list[k] = w
               rest == Unlinked(list, w)
    <2>1. i \in 1..n /\ list[i] = w
        BY <1>1, <1>3 DEF Range
    <2>2. rest = RemoveAt(list, i)
        BY <1>3 DEF Unlinked
    <2> HIDE DEF i, rest
    <2>5. /\ rest \in Seq(Win) /\ Len(rest) = n - 1
          /\ \A k \in 1..(n - 1) : rest[k] = IF k < i THEN list[k] ELSE list[k + 1]
        BY <2>1, <2>2, RemoveAtIs
    <2>6. Single(rest)
        BY <1>1, <2>1, <2>5 DEF Single
    <2>7. ASSUME NEW o, o \in Range(rest) PROVE o \in Range(list) /\ o # w
        <3>1. PICK k \in 1..(n - 1) : rest[k] = o
            BY <1>1, <2>5, <2>7 DEF Range
        <3>2. CASE k < i
            BY <1>1, <2>1, <2>5, <3>1, <3>2 DEF Single, Range
        <3>3. CASE k >= i
            <4>1. k + 1 \in 1..n /\ k + 1 # i /\ list[k + 1] = o
                BY <1>1, <2>1, <2>5, <3>1, <3>3
            <4>. QED BY <1>1, <2>1, <4>1 DEF Single, Range
        <3>. QED BY <2>1, <3>1, <3>2, <3>3
    <2>8. ASSUME NEW o, o \in Range(list), o # w PROVE o \in Range(rest)
        <3>1. PICK k \in 1..n : list[k] = o
            BY <1>1, <2>8 DEF Range
        <3>2. k # i
            BY <2>1, <2>8, <3>1
        <3>3. CASE k < i
            <4>1. k \in 1..(n - 1) /\ rest[k] = o /\ DOMAIN rest = 1..(n - 1)
                BY <1>1, <2>1, <2>5, <3>1, <3>3
            <4>. QED BY <4>1 DEF Range
        <3>4. CASE k > i
            <4>1. k - 1 \in 1..(n - 1) /\ rest[k - 1] = o /\ DOMAIN rest = 1..(n - 1)
                BY <1>1, <2>1, <2>5, <3>1, <3>4
            <4>. QED BY <4>1 DEF Range
        <3>. QED BY <2>1, <3>1, <3>2, <3>3, <3>4
    <2>. QED BY <1>3, <2>5, <2>6, <2>7, <2>8 DEF rest
<1>. QED BY <1>2, <1>3

LEMMA InFront ==
    ASSUME NEW list \in Seq(Win), Single(list), NEW w \in Win, w \notin Range(list)
    PROVE  /\ <<w>> \o list \in Seq(Win) /\ Single(<<w>> \o list)
           /\ \A o : o \in Range(<<w>> \o list) <=> o \in Range(list) \/ o = w
           /\ Len(<<w>> \o list) = Len(list) + 1
<1> DEFINE n == Len(list)
           longer == <<w>> \o list
<1>1. n \in Nat /\ DOMAIN list = 1..n
    OBVIOUS
<1>2. /\ longer \in Seq(Win) /\ Len(longer) = n + 1 /\ DOMAIN longer = 1..(n + 1)
      /\ \A k \in 1..(n + 1) : longer[k] = IF k = 1 THEN w ELSE list[k - 1]
    BY <1>1
<1> HIDE DEF longer
<1>3. \A k \in 1..n : list[k] # w
    BY <1>1 DEF Range
<1>4. Single(longer)
    <2>1. ASSUME NEW i \in 1..(n + 1), NEW j \in 1..(n + 1), longer[i] = longer[j]
          PROVE  i = j
        <3>1. CASE i = 1 /\ j # 1
            <4>1. j - 1 \in 1..n /\ longer[i] = w /\ longer[j] = list[j - 1]
                BY <1>1, <1>2, <3>1
            <4>. QED BY ONLY <1>3, <2>1, <4>1
        <3>2. CASE i # 1 /\ j = 1
            <4>1. i - 1 \in 1..n /\ longer[j] = w /\ longer[i] = list[i - 1]
                BY <1>1, <1>2, <3>2
            <4>. QED BY ONLY <1>3, <2>1, <4>1
        <3>3. CASE i # 1 /\ j # 1
            <4>1. i - 1 \in 1..n /\ j - 1 \in 1..n
                BY <1>1, <3>3
            <4>2. list[i - 1] = list[j - 1]
                BY <1>2, <2>1, <3>3
            <4>3. i - 1 = j - 1
                BY <4>1, <4>2 DEF Single
            <4>. QED BY ONLY <4>3, <1>1, i \in 1..(n + 1), j \in 1..(n + 1)
        <3>. QED BY <3>1, <3>2, <3>3
    <2>. QED BY <1>2, <2>1 DEF Single
<1>5. ASSUME NEW o PROVE o \in Range(longer) <=> o \in Range(list) \/ o = w
    <2>1. ASSUME NEW k \in 1..n PROVE list[k] \in Range(longer)
        <3>1. longer[k + 1] = list[k] /\ k + 1 \in 1..(n + 1)
            BY <1>1, <1>2
        <3>. QED BY <1>2, <3>1 DEF Range
    <2>2. longer[1] = w /\ w \in Range(longer)
        BY <1>1, <1>2 DEF Range
    <2>3. ASSUME NEW k \in 1..(n + 1) PROVE longer[k] = w \/ \E j \in 1..n : longer[k] = list[j]
        <3>1. CASE k # 1
            <4>1. k - 1 \in 1..n /\ longer[k] = list[k - 1]
                BY <1>1, <1>2, <3>1
            <4>. QED BY <4>1
        <3>. QED BY <2>2, <3>1
    <2>4. ASSUME o \in Range(longer) PROVE o \in Range(list) \/ o = w
        <3>1. PICK k \in 1..(n + 1) : longer[k] = o
            BY <1>2, <2>4 DEF Range
        <3>. QED BY <1>1, <2>3, <3>1 DEF Range
    <2>5. ASSUME o \in Range(list) PROVE o \in Range(longer)
        <3>1. PICK k \in 1..n : list[k] = o
            BY <1>1, <2>5 DEF Range
        <3>. QED BY <2>1, <3>1
    <2>. QED BY <2>2, <2>4, <2>5
<1>. QED BY <1>2, <1>4, <1>5 DEF longer

LEMMA AtEnd ==
    ASSUME NEW list \in Seq(Win), Single(list), NEW w \in Win, w \notin Range(list)
    PROVE  /\ Append(list, w) \in Seq(Win) /\ Single(Append(list, w))
           /\ \A o : o \in Range(Append(list, w)) <=> o \in Range(list) \/ o = w
<1> DEFINE n == Len(list)
           longer == Append(list, w)
<1>1. n \in Nat /\ DOMAIN list = 1..n
    OBVIOUS
<1>2. /\ longer \in Seq(Win) /\ Len(longer) = n + 1 /\ DOMAIN longer = 1..(n + 1)
      /\ \A k \in 1..n : longer[k] = list[k]
      /\ longer[n + 1] = w
    BY <1>1
<1> HIDE DEF longer
<1>3. \A k \in 1..n : list[k] # w
    BY <1>1 DEF Range
<1>4. Single(longer)
    <2>1. ASSUME NEW i \in 1..(n + 1), NEW j \in 1..(n + 1), longer[i] = longer[j]
          PROVE  i = j
        <3>1. CASE i = n + 1 /\ j # n + 1
            <4>1. j \in 1..n /\ longer[i] = w /\ longer[j] = list[j]
                BY <1>1, <1>2, <3>1
            <4>. QED BY ONLY <1>3, <2>1, <4>1
        <3>2. CASE i # n + 1 /\ j = n + 1
            <4>1. i \in 1..n /\ longer[j] = w /\ longer[i] = list[i]
                BY <1>1, <1>2, <3>2
            <4>. QED BY ONLY <1>3, <2>1, <4>1
        <3>3. CASE i # n + 1 /\ j # n + 1
            <4>1. i \in 1..n /\ j \in 1..n /\ list[i] = list[j]
                BY <1>1, <1>2, <2>1, <3>3
            <4>. QED BY <4>1 DEF Single
        <3>. QED BY <3>1, <3>2, <3>3
    <2>. QED BY <1>2, <2>1 DEF Single
<1>5. ASSUME NEW o PROVE o \in Range(longer) <=> o \in Range(list) \/ o = w
    BY <1>1, <1>2 DEF Range
<1>. QED BY <1>2, <1>4, <1>5 DEF longer

LEMMA PushIs ==
    ASSUME NEW h \in Hist, NEW p \in Paths
    PROVE  Push(h, p) \in Hist
<1> DEFINE longer == <<p>> \o h
           n == IF Len(longer) > HistoryLimit THEN HistoryLimit ELSE Len(longer)
<1>1. longer \in Seq(Paths) /\ Len(longer) \in Nat
    BY DEF Hist
<1>2. n \in Nat /\ n <= Len(longer) /\ n <= HistoryLimit
    BY <1>1, WindowsAssumption
<1> HIDE DEF n, longer
<1>3. SubSeq(longer, 1, n) \in Seq(Paths) /\ Len(SubSeq(longer, 1, n)) = n
    BY <1>1, <1>2
<1>. QED BY <1>2, <1>3 DEF Push, Hist, n, longer

LEMMA HistIs ==
    /\ <<>> \in Hist
    /\ \A h \in Hist : h # <<>> => Head(h) \in Paths /\ Tail(h) \in Hist
<1>1. <<>> \in Hist
    BY WindowsAssumption DEF Hist
<1>2. ASSUME NEW h \in Hist, h # <<>> PROVE Head(h) \in Paths /\ Tail(h) \in Hist
    <2>1. h \in Seq(Paths) /\ Len(h) <= HistoryLimit /\ Len(h) \in Nat
        BY DEF Hist
    <2>2. Head(h) \in Paths /\ Tail(h) \in Seq(Paths) /\ Len(Tail(h)) = Len(h) - 1
        BY <1>2, <2>1, HeadTailProperties
    <2>. QED BY <2>1, <2>2, WindowsAssumption DEF Hist
<1>. QED BY <1>1, <1>2


----------------------------------------------------------------------------
(* Windows as values.                                                       *)

\* The same window with the same tabs, of which only the active one may be
\* somewhere else.
SameTabs(v, u) ==
    /\ u.host = v.host /\ u.right = v.right /\ u.split = v.split /\ u.idle = v.idle
    /\ u.act = v.act /\ Len(u.tabs) = Len(v.tabs)
    /\ \A i \in 1..Len(v.tabs) :
          u.tabs[i].id = v.tabs[i].id /\ (i # v.act => u.tabs[i] = v.tabs[i])

SameShown(v, u) == u.path = v.path /\ u.back = v.back /\ u.fwd = v.fwd

\* The active tab is where the window is.
ActiveIsShown(u) ==
    u.act # 0 => u.tabs[u.act] = [id |-> u.tabs[u.act].id, path |-> u.path,
                                  back |-> u.back, fwd |-> u.fwd]

\* What formed windows have of each other's fields.
Holds(v) ==
    /\ v.path \in Paths \cup {None} /\ v.back \in Hist /\ v.fwd \in Hist
    /\ v.tabs \in Seq(TabRec) /\ v.act \in 0..Len(v.tabs)
    /\ v.host \in Win \cup {None} /\ v.right \in Win \cup {None}
    /\ v.split \in BOOLEAN /\ v.idle \in SUBSET {"tab", "split"} /\ Len(v.tabs) \in Nat
    /\ Len(v.tabs) <= MaxTabs

LEMMA FormedHolds ==
    ASSUME NEW v, Formed(v)
    PROVE  Holds(v)
BY DEF Formed, WinRec, Holds

LEMMA RecordedIs ==
    ASSUME NEW v, Formed(v), v.path \in Paths
    PROVE  LET u == Recorded(v)
           IN  Formed(u) /\ SameTabs(v, u) /\ SameShown(v, u) /\ ActiveIsShown(u)
<1> DEFINE u == Recorded(v)
<1>1. Holds(v)
    BY FormedHolds
<1>2. CASE v.act = 0
    BY <1>1, <1>2 DEF Recorded, SameTabs, SameShown, ActiveIsShown
<1>3. CASE v.act # 0
    <2> DEFINE a == v.act
               new == [id |-> v.tabs[a].id, path |-> v.path, back |-> v.back, fwd |-> v.fwd]
               tabs == [v.tabs EXCEPT ![a] = new]
    <2>1. a \in 1..Len(v.tabs) /\ v.tabs[a] \in TabRec
        BY <1>1, <1>3 DEF Holds
    <2>2. new \in TabRec /\ new.id = v.tabs[a].id
        BY <1>1, <2>1 DEF Holds, TabRec
    <2>3. /\ tabs \in Seq(TabRec) /\ Len(tabs) = Len(v.tabs)
          /\ \A j \in 1..Len(v.tabs) : tabs[j] = IF j = a THEN new ELSE v.tabs[j]
        BY <1>1, <2>1, <2>2, ExceptSeq DEF Holds
    <2>4. u = [v EXCEPT !.tabs = tabs]
        BY <1>3 DEF Recorded
    <2> HIDE DEF u, new, tabs
    <2>5. /\ u.path = v.path /\ u.back = v.back /\ u.fwd = v.fwd /\ u.tabs = tabs
          /\ u.act = v.act /\ u.host = v.host /\ u.right = v.right /\ u.split = v.split
          /\ u.idle = v.idle
        BY <2>4 DEF Formed, WinRec
    <2>6. u \in WinRec
        BY <2>3, <2>4 DEF Formed, WinRec
    <2>7. Formed(u)
        <3>1. \A i \in 1..Len(tabs) : tabs[i].id = v.tabs[i].id
            BY <2>2, <2>3
        <3>2. \A i, j \in 1..Len(u.tabs) : u.tabs[i].id = u.tabs[j].id => i = j
            BY <2>3, <2>5, <3>1 DEF Formed
        <3>3. Len(u.tabs) <= MaxTabs /\ u.act \in 0..Len(u.tabs)
            BY <1>1, <2>3, <2>5 DEF Holds
        <3>4. u.host = None /\ u.act # 0
            BY <1>3, <2>5 DEF Formed
        <3>5. u.path # None
            BY <2>5, WindowsAssumption
        <3>. QED BY <2>6, <3>2, <3>3, <3>4, <3>5 DEF Formed
    <2>8. SameTabs(v, u)
        BY <1>1, <2>2, <2>3, <2>5 DEF SameTabs
    <2>9. ActiveIsShown(u)
        BY <2>1, <2>2, <2>3, <2>5 DEF ActiveIsShown, new
    <2>10. SameShown(v, u)
        BY <2>5 DEF SameShown
    <2>. QED BY <2>7, <2>8, <2>9, <2>10 DEF u
<1>. QED BY <1>2, <1>3

\* Another path and other histories.
Elsewhere(v, p, b, f) == [v EXCEPT !.path = p, !.back = b, !.fwd = f]

LEMMA ElsewhereIs ==
    ASSUME NEW v, Formed(v), v.path \in Paths, NEW p \in Paths,
           NEW b, b \in Hist, NEW f, f \in Hist,
           NEW u, u = Elsewhere(v, p, b, f)
    PROVE  /\ Formed(u) /\ SameTabs(v, u)
           /\ u.path = p /\ u.back = b /\ u.fwd = f /\ u.tabs = v.tabs
<1>1. u \in WinRec
    BY DEF Formed, WinRec, Elsewhere
<1>2. /\ u.path = p /\ u.back = b /\ u.fwd = f /\ u.tabs = v.tabs /\ u.act = v.act
      /\ u.host = v.host /\ u.right = v.right /\ u.split = v.split /\ u.idle = v.idle
    BY DEF Formed, WinRec, Elsewhere
<1>3. p # None /\ v.path # None
    BY WindowsAssumption
<1>. QED BY <1>1, <1>2, <1>3 DEF Formed, SameTabs

LEMMA SameTabsTrans ==
    ASSUME NEW v, NEW u, NEW x, SameTabs(v, u), SameTabs(u, x)
    PROVE  SameTabs(v, x)
BY DEF SameTabs


----------------------------------------------------------------------------
(* One window changes, or goes.                                             *)

\* The lists, the session and the counters are the same.
SameLists(S, D) ==
    /\ D.all = S.all /\ D.modern = S.modern /\ D.owner = S.owner
    /\ D.promote = S.promote /\ D.once = S.once /\ D.count = S.count
    /\ D.run = S.run /\ D.saved = S.saved

\* A window takes another value of the same host and pane.
LEMMA PutIs ==
    ASSUME NEW S, S \in UiRec, NEW w \in Win, NEW v, v \in WinRec,
           NEW D, D = [S EXCEPT !.win[w] = v]
    PROVE  D \in UiRec /\ D.win = [S.win EXCEPT ![w] = v] /\ SameLists(S, D)
BY DEF UiRec, SameLists

\* No other host is on the path of v.
Alone(S, w, v) ==
    unique /\ v.host = None =>
        \A o \in Win : IsHost(S, o) /\ o # w => S.win[o].path # v.path

LEMMA PutFit ==
    ASSUME NEW S, Fit(S), NEW w \in Win, IsOpen(S, w), NEW v, Formed(v), v.path \in Paths,
           v.host = S.win[w].host, v.right = S.win[w].right, Alone(S, w, v),
           NEW D, D = [S EXCEPT !.win[w] = v]
    PROVE  Fit(D)
<1>1. S \in UiRec /\ \A o \in Win : Formed(S.win[o])
    BY DEF Fit
<1>0. v \in WinRec
    BY DEF Formed
<1>2. D \in UiRec /\ D.win = [S.win EXCEPT ![w] = v] /\ SameLists(S, D)
    BY <1>0, <1>1 DEF UiRec, SameLists
<1>3. /\ D.win[w] = v /\ v.path # None /\ S.win[w].path # None
      /\ \A o \in Win : o # w => D.win[o] = S.win[o]
    BY <1>1, <1>2, WindowsAssumption DEF UiRec, IsOpen
<1>4. \A o \in Win : /\ IsOpen(D, o) <=> IsOpen(S, o)
                     /\ IsHost(D, o) <=> IsHost(S, o)
                     /\ D.win[o].host = S.win[o].host /\ D.win[o].right = S.win[o].right
    BY <1>3 DEF IsOpen, IsHost
<1>5. \A o \in Win : Formed(D.win[o])
    BY <1>1, <1>3
<1>6. Listed(D)
    BY <1>2, <1>4 DEF Fit, Listed, SameLists
<1>7. Paired(D)
    <2>1. \A o \in Win : S.win[o].host \in Win \cup {None} /\ S.win[o].right \in Win \cup {None}
        BY <1>1 DEF Formed, WinRec
    <2>. QED BY <1>4, <2>1 DEF Fit, Paired
<1>8. Owned(D)
    BY <1>1, <1>2, <1>4 DEF Fit, Owned, SameLists, UiRec
<1>9. Twinless(D)
    <2> SUFFICES ASSUME unique, NEW a \in Win, NEW b \in Win, IsHost(D, a), IsHost(D, b),
                        D.win[a].path = D.win[b].path
                 PROVE  a = b
        BY DEF Twinless
    <2>1. IsHost(S, a) /\ IsHost(S, b)
        BY <1>4
    <2>2. CASE a # w /\ b # w
        BY <1>3, <2>1, <2>2 DEF Fit, Twinless
    <2>3. CASE a = w /\ b # w
        BY <1>3, <2>1, <2>3 DEF Alone, IsHost
    <2>4. CASE a # w /\ b = w
        BY <1>3, <2>1, <2>4 DEF Alone, IsHost
    <2>. QED BY <2>2, <2>3, <2>4
<1>. QED BY <1>2, <1>5, <1>6, <1>7, <1>8, <1>9 DEF Fit, SameLists

\* A window on the path on which it is stays alone there.
LEMMA StaysAlone ==
    ASSUME NEW S, Fit(S), NEW w \in Win, IsOpen(S, w), NEW v,
           v.host = S.win[w].host, v.path = S.win[w].path
    PROVE  Alone(S, w, v)
BY DEF Fit, Twinless, Alone, IsHost, IsOpen

LEMMA ClosedIs ==
    Closed \in WinRec /\ Formed(Closed) /\ Closed.path = None /\ Closed.tabs = <<>>
BY WindowsAssumption, HistIs DEF Closed, WinRec, Formed

\* filer_window_destroyed: the window leaves the list and is counted no more.
LEMMA DestroyedIs ==
    ASSUME NEW S, S \in UiRec, NEW w \in Win, Single(S.all), w \in Range(S.all),
           NEW n \in Nat, Counts(S, n), NEW D, D = Destroyed(S, w)
    PROVE  /\ D \in UiRec /\ D.win = [S.win EXCEPT ![w] = Closed] /\ D.all = Unlinked(S.all, w)
           /\ Counts(D, n) /\ D.modern = S.modern /\ D.owner = S.owner
           /\ D.promote = S.promote /\ D.once = S.once /\ D.saved = S.saved
<1>1. /\ S.all \in Seq(Win) /\ Len(S.all) \in Nat /\ Len(S.all) > 0 /\ S.count \in Int
    BY DEF UiRec, Range
<1>2. /\ Unlinked(S.all, w) \in Seq(Win) /\ Len(Unlinked(S.all, w)) = Len(S.all) - 1
    BY <1>1, UnlinkedIs
<1>3. Closed \in WinRec
    BY ClosedIs
<1> DEFINE all1 == Unlinked(S.all, w)
           win1 == [S.win EXCEPT ![w] = Closed]
           run1 == IF S.count <= 1 THEN "off" ELSE S.run
<1>4. win1 \in [Win -> WinRec] /\ run1 \in {"on", "off"}
    BY <1>3 DEF UiRec
<1>5. D = [[S EXCEPT !.all = all1, !.win = win1] EXCEPT !.count = S.count - 1, !.run = run1]
    BY DEF Destroyed, OneLess, UiRec
<1>9. all1 \in Seq(Win) /\ S.count - 1 \in Int
    BY <1>1, <1>2
<1> HIDE DEF all1, win1, run1
<1>6. /\ D \in UiRec /\ D.win = win1 /\ D.all = all1
      /\ D.count = S.count - 1 /\ D.run = run1 /\ D.modern = S.modern /\ D.owner = S.owner
      /\ D.promote = S.promote /\ D.once = S.once /\ D.saved = S.saved
    BY <1>4, <1>5, <1>9 DEF UiRec
<1>7. Counts(D, n)
    BY <1>1, <1>2, <1>6 DEF Counts, run1, all1
<1>. QED BY <1>6, <1>7 DEF win1, all1


LEMMA SessionOfIs ==
    ASSUME NEW S, Fit(S), NEW w \in Win, IsHost(S, w), NEW s, s = SessionOf(S, w)
    PROVE  s \in SessionRec /\ Len(s.tabs) <= MaxTabs
<1> DEFINE v == Recorded(S.win[w])
           tabs == [k \in DOMAIN v.tabs |-> v.tabs[k].path]
           right == IF v.right = None THEN S.saved.right ELSE S.win[v.right].path
<1>1. S \in UiRec /\ \A o \in Win : Formed(S.win[o])
    BY DEF Fit
<1>2. S.win[w].path \in Paths
    BY <1>1 DEF Formed, WinRec, IsHost
<1>3. Formed(v)
    BY <1>1, <1>2, RecordedIs
<1>4. s = [tabs |-> tabs, act |-> v.act, split |-> v.split, right |-> right]
    BY DEF SessionOf
<1> HIDE DEF v
<1>5. Holds(v)
    BY <1>3, FormedHolds
<1>6. v.tabs \in Seq(TabRec) /\ DOMAIN v.tabs = 1..Len(v.tabs)
    BY <1>5 DEF Holds
<1>7. tabs \in Seq(Paths) /\ Len(tabs) = Len(v.tabs)
    <2>1. \A k \in 1..Len(v.tabs) : v.tabs[k].path \in Paths
        <3> SUFFICES ASSUME NEW t, t \in TabRec PROVE t.path \in Paths
            BY <1>5, <1>6 DEF Holds
        <3>. QED BY DEF TabRec
    <2>. QED BY <1>5, <1>6, <2>1 DEF Holds
<1>8. right \in Paths \cup {None}
    <2>1. \A o \in Win : S.win[o].path \in Paths \cup {None}
        BY <1>1 DEF Formed, WinRec
    <2>. QED BY <1>1, <1>5, <2>1 DEF Holds, UiRec, SessionRec
<1> HIDE DEF tabs, right
<1>. QED BY <1>4, <1>5, <1>7, <1>8 DEF Holds, SessionRec

\* A host goes with its pane; an owner of the session saves it and another
\* window is queued to own it.
LEMMA DestroyHostIs ==
    ASSUME NEW S, Fit(S), NEW w \in Win, IsHost(S, w), NEW n \in Nat, Counts(S, n),
           NEW D, D = DestroyHost(S, w)
    PROVE  /\ Fit(D) /\ Counts(D, n)
           /\ D.win = [o \in Win |-> IF o = w \/ o = S.win[w].right THEN Closed ELSE S.win[o]]
<1> DEFINE owned == S.owner = w
           session == SessionOf(S, w)
           r == S.win[w].right
           S1 == IF owned THEN [S EXCEPT !.saved = session] ELSE S
           S2 == IF r = None THEN S1 ELSE Destroyed(S1, r)
           rest == Unlinked(S2.modern, w)
           owner1 == IF owned THEN None ELSE S2.owner
           promote1 == S2.promote \/ (owned /\ rest # <<>>)
           S3 == [S2 EXCEPT !.modern = rest, !.owner = owner1, !.promote = promote1]
<1>1. S \in UiRec /\ Listed(S) /\ Paired(S) /\ \A o \in Win : Formed(S.win[o])
    BY DEF Fit
<1>2. session \in SessionRec /\ Len(session.tabs) <= MaxTabs
    BY SessionOfIs
<1>3. D = Destroyed(S3, w)
    BY <1>1 DEF DestroyHost, UiRec
<1>4. /\ r \in Win \cup {None} /\ S.win[w].path \in Paths
      /\ r # None => IsOpen(S, r) /\ S.win[r].host = w /\ r # w
    BY <1>1 DEF Formed, WinRec, Paired, IsHost, IsOpen
<1> HIDE DEF session
<1>5. /\ S1 \in UiRec /\ S1.win = S.win /\ S1.all = S.all /\ S1.modern = S.modern
      /\ S1.owner = S.owner /\ S1.promote = S.promote /\ Counts(S1, n)
      /\ Len(S1.saved.tabs) <= MaxTabs
    <2>1. CASE owned
        BY <1>1, <1>2, <2>1 DEF UiRec, Counts
    <2>2. CASE ~owned
        BY <1>1, <2>2 DEF Fit
    <2>. QED BY <2>1, <2>2
<1> HIDE DEF S1
<1>6. /\ S2 \in UiRec /\ S2.modern = S.modern /\ S2.owner = S.owner
      /\ S2.promote = S.promote /\ Counts(S2, n) /\ Len(S2.saved.tabs) <= MaxTabs
      /\ S2.win = [o \in Win |-> IF o = r THEN Closed ELSE S.win[o]]
      /\ S2.all \in Seq(Win) /\ Single(S2.all)
      /\ \A o : o \in Range(S2.all) <=> o \in Range(S.all) /\ o # r
    <2>1. CASE r = None
        <3>1. r \notin Win
            BY <2>1, WindowsAssumption
        <3>2. \A o : o \in Range(S.all) => o \in Win
            BY <1>1 DEF UiRec, Range
        <3>3. S2 = S1 /\ S1.win = [o \in Win |-> IF o = r THEN Closed ELSE S.win[o]]
            BY <1>1, <1>5, <2>1, <3>1 DEF UiRec
        <3> HIDE DEF r, S2
        <3>. QED BY <1>1, <1>5, <3>1, <3>2, <3>3 DEF Listed, UiRec
    <2>2. CASE r # None
        <3>1. r \in Win /\ r \in Range(S1.all) /\ Single(S1.all) /\ S1.all \in Seq(Win)
            BY <1>1, <1>4, <1>5, <2>2 DEF Listed, UiRec
        <3>2. S2 = Destroyed(S1, r)
            BY <2>2
        <3> HIDE DEF r, S2
        <3>3. /\ S2 \in UiRec /\ S2.win = [S1.win EXCEPT ![r] = Closed]
              /\ S2.all = Unlinked(S1.all, r)
              /\ Counts(S2, n) /\ S2.modern = S1.modern /\ S2.owner = S1.owner
              /\ S2.promote = S1.promote /\ S2.saved = S1.saved
            <4>1. /\ S1 \in UiRec /\ r \in Win /\ Single(S1.all) /\ r \in Range(S1.all)
                  /\ Counts(S1, n)
                BY <1>5, <3>1
            <4> HIDE DEF rest, owner1, promote1, S3
            <4>. QED BY ONLY <3>2, <4>1, n \in Nat, DestroyedIs
        <3>4. /\ Unlinked(S1.all, r) \in Seq(Win) /\ Single(Unlinked(S1.all, r))
              /\ \A o : o \in Range(Unlinked(S1.all, r)) <=> o \in Range(S1.all) /\ o # r
            BY <3>1, UnlinkedIs
        <3>5. S2.win = [o \in Win |-> IF o = r THEN Closed ELSE S.win[o]]
            BY <1>1, <1>5, <3>1, <3>3 DEF UiRec
        <3>. QED BY <1>5, <3>3, <3>4, <3>5
    <2>. QED BY <2>1, <2>2
<1> HIDE DEF S2
<1>7. /\ rest \in Seq(Win) /\ Single(rest)
      /\ \A o : o \in Range(rest) <=> o \in Range(S.modern) /\ o # w
    BY <1>1, <1>6, UnlinkedIs DEF Listed, UiRec
<1>8. owner1 \in Win \cup {None} /\ promote1 \in BOOLEAN
    BY <1>6 DEF UiRec
<1> HIDE DEF rest
<1>9. /\ S3 \in UiRec /\ S3.win = S2.win /\ S3.all = S2.all /\ S3.modern = rest
      /\ S3.owner = owner1 /\ S3.promote = promote1 /\ Counts(S3, n)
      /\ S3.saved = S2.saved
    BY <1>6, <1>7, <1>8 DEF UiRec, Counts
<1> HIDE DEF S3
<1>10. w \in Range(S3.all) /\ w # r
    BY <1>1, <1>4, <1>6, <1>9, WindowsAssumption DEF Listed, IsHost, IsOpen
<1>11. /\ D \in UiRec /\ D.win = [S3.win EXCEPT ![w] = Closed] /\ D.all = Unlinked(S3.all, w)
       /\ Counts(D, n) /\ D.modern = S3.modern /\ D.owner = S3.owner
       /\ D.promote = S3.promote /\ D.saved = S3.saved
    BY <1>3, <1>6, <1>9, <1>10, DestroyedIs
<1>12. /\ Single(D.all)
       /\ \A o : o \in Range(D.all) <=> o \in Range(S3.all) /\ o # w
    BY <1>6, <1>9, <1>11, UnlinkedIs
<1> HIDE DEF r
<1>13. D.win = [o \in Win |-> IF o = w \/ o = r THEN Closed ELSE S.win[o]]
    BY <1>6, <1>9, <1>11
<1>14. \A o \in Win : /\ IsOpen(D, o) <=> IsOpen(S, o) /\ o # w /\ o # r
                      /\ IsHost(D, o) <=> IsHost(S, o) /\ o # w /\ o # r
                      /\ o # w /\ o # r => D.win[o] = S.win[o]
    BY <1>13, ClosedIs DEF IsOpen, IsHost
<1>15. r \in Win => ~IsHost(S, r)
    BY <1>4, WindowsAssumption DEF IsHost
<1>16. Listed(D)
    BY <1>1, <1>6, <1>7, <1>9, <1>11, <1>12, <1>14, <1>15 DEF Listed
<1>17. Paired(D)
    <2> SUFFICES ASSUME NEW o \in Win, IsOpen(D, o)
                 PROVE  /\ D.win[o].host # None =>
                           IsHost(D, D.win[o].host) /\ D.win[D.win[o].host].right = o
                        /\ D.win[o].right # None =>
                           IsOpen(D, D.win[o].right) /\ D.win[D.win[o].right].host = o
        BY DEF Paired
    <2>1. IsOpen(S, o) /\ o # w /\ o # r /\ D.win[o] = S.win[o]
        BY <1>14
    <2>2. /\ S.win[o].host \in Win \cup {None} /\ S.win[o].right \in Win \cup {None}
        BY <1>1 DEF Formed, WinRec
    <2>3. ASSUME S.win[o].host # None
          PROVE  S.win[o].host # w /\ S.win[o].host # r
        BY <1>1, <1>15, <2>1, <2>2, <2>3 DEF Paired, r
    <2>4. ASSUME S.win[o].right # None
          PROVE  S.win[o].right # w /\ S.win[o].right # r
        BY <1>1, <1>4, <2>1, <2>2, <2>4, WindowsAssumption DEF Paired, IsHost
    <2>. QED BY <1>1, <1>14, <2>1, <2>2, <2>3, <2>4 DEF Paired
<1>18. Owned(D)
    <2>1. D.owner = owner1 /\ D.promote = promote1 /\ D.modern = rest
        BY <1>9, <1>11
    <2>2. CASE owned
        BY <1>6, <2>1, <2>2 DEF Owned
    <2>3. CASE ~owned
        <3>1. owner1 = S.owner /\ promote1 = S.promote
            BY <1>6, <2>3, <1>1 DEF UiRec
        <3>2. rest # <<>> => S.modern # <<>>
            <4>1. rest # <<>> => rest[1] \in Range(rest)
                BY <1>7 DEF Range
            <4>2. S.modern = <<>> => Range(S.modern) = {}
                BY DEF Range
            <4>. QED BY <1>7, <4>1, <4>2
        <3>3. S.owner # None => IsHost(D, S.owner)
            BY <1>1, <1>14, <1>15, <2>3 DEF Fit, Owned, UiRec
        <3>. QED BY <2>1, <3>1, <3>2, <3>3 DEF Fit, Owned
    <2>. QED BY <2>2, <2>3
<1>19. Twinless(D)
    BY <1>14 DEF Fit, Twinless
<1>20. \A o \in Win : Formed(D.win[o])
    BY <1>1, <1>13, ClosedIs
<1>. QED
    BY <1>6, <1>9, <1>11, <1>13, <1>16, <1>17, <1>18, <1>19, <1>20 DEF Fit, r


\* The windows other than w stay as they are or go.
Spares(S, w, D) == \A o \in Win : o # w => D.win[o] = S.win[o] \/ D.win[o] = Closed

LEMMA CloseVisibleIs ==
    ASSUME NEW S, Fit(S), NEW w \in Win, IsOpen(S, w), NEW n \in Nat, Counts(S, n),
           NEW D, D = CloseVisible(S, w)
    PROVE  /\ Fit(D) /\ Counts(D, n) /\ D.win[w] = Closed
           /\ \A o \in Win : D.win[o] = S.win[o] \/ D.win[o] = Closed
<1> DEFINE h == Host(S, w)
<1>1. h \in Win /\ IsHost(S, h) /\ (h # w => S.win[h].right = w)
    <2>1. S.win[w].host \in Win \cup {None} /\ Paired(S)
        BY DEF Fit, Formed, WinRec
    <2>. QED BY <2>1 DEF Host, Paired, IsHost, IsOpen
<1>2. D = DestroyHost(S, h)
    BY DEF CloseVisible
<1> HIDE DEF h
<1>3. /\ Fit(D) /\ Counts(D, n)
      /\ D.win = [o \in Win |-> IF o = h \/ o = S.win[h].right THEN Closed ELSE S.win[o]]
    BY <1>1, <1>2, DestroyHostIs
<1>. QED BY <1>1, <1>3

\* The two states before and after w is another window of the same tabs.
LEMMA TwinIs ==
    ASSUME NEW S, Fit(S), NEW w \in Win, NEW p \in Paths, NEW t, t = Twin(S, p, w)
    PROVE  /\ t = None => \A o \in Win : IsHost(S, o) /\ o # w => S.win[o].path # p
           /\ t # None => t \in Win /\ t # w /\ IsHost(S, t) /\ S.win[t].path = p
<1> DEFINE same == {o \in Range(S.all) \ {w} : S.win[o].host = None /\ S.win[o].path = p}
<1>1. /\ Range(S.all) \subseteq Win
      /\ \A o \in Win : o \in Range(S.all) <=> S.win[o].path # None
    BY DEF Fit, Listed, UiRec, Range, IsOpen
<1>2. p # None /\ None \notin Win
    BY WindowsAssumption
<1>3. t = IF same = {} THEN None ELSE CHOOSE o \in same : TRUE
    BY DEF Twin
<1>4. CASE same = {}
    BY <1>1, <1>2, <1>3, <1>4 DEF IsHost
<1>5. CASE same # {}
    <2>1. t \in same
        BY <1>3, <1>5
    <2>. QED BY <1>1, <1>2, <2>1 DEF IsHost
<1>. QED BY <1>4, <1>5

\* filer_change_to: the twin goes, the window and its active tab are on the path.
LEMMA ChangeToIs ==
    ASSUME NEW S, Fit(S), NEW w \in Win, IsOpen(S, w), NEW p \in Paths, NEW nav, nav \in BOOLEAN,
           NEW n \in Nat, Counts(S, n), NEW D, D = ChangeTo(S, w, p, nav)
    PROVE  /\ Fit(D) /\ Counts(D, n) /\ Spares(S, w, D)
           /\ SameTabs(S.win[w], D.win[w]) /\ ActiveIsShown(D.win[w]) /\ D.win[w].path = p
           /\ nav => D.win[w].back = S.win[w].back /\ D.win[w].fwd = S.win[w].fwd
<1> DEFINE v == S.win[w]
           b == IF nav \/ v.path = p THEN v.back ELSE Push(v.back, v.path)
           f == IF nav \/ v.path = p THEN v.fwd ELSE <<>>
           x == [v EXCEPT !.path = p, !.back = b, !.fwd = f]
           u == Recorded(x)
           t == Twin(S, p, w)
           S1 == IF unique /\ v.host = None /\ t # None THEN DestroyHost(S, t) ELSE S
<1>1. S \in UiRec /\ Formed(v) /\ Paired(S) /\ v.path \in Paths
    BY DEF Fit, Formed, WinRec, IsOpen
<1>2. Holds(v)
    BY <1>1, FormedHolds
<1>3. b \in Hist /\ f \in Hist
    <2>1. Push(v.back, v.path) \in Hist /\ <<>> \in Hist
        <3>1. v.back \in Hist /\ v.path \in Paths
            BY <1>1, <1>2 DEF Holds
        <3>2. Push(v.back, v.path) \in Hist
            BY ONLY <3>1, PushIs
        <3>. QED BY ONLY <3>2, HistIs
    <2>. QED BY <1>2, <2>1 DEF Holds
<1>4. D = [S1 EXCEPT !.win[w] = u]
    BY <1>1 DEF ChangeTo, Formed, WinRec
<1> HIDE DEF b, f
<1>5. /\ Formed(x) /\ SameTabs(v, x) /\ x.path = p /\ x.back = b /\ x.fwd = f
    <2>1. x = Elsewhere(v, p, b, f)
        BY DEF Elsewhere
    <2> HIDE DEF x, v
    <2>. QED BY <1>1, <1>3, <2>1, ElsewhereIs
<1> HIDE DEF x
<1>6. Formed(u) /\ SameTabs(x, u) /\ SameShown(x, u) /\ ActiveIsShown(u)
    BY <1>5, RecordedIs
<1> HIDE DEF u
<1>7. SameTabs(v, u) /\ u.path = p /\ u.back = b /\ u.fwd = f
    BY <1>5, <1>6, SameTabsTrans DEF SameShown
<1>8. /\ Fit(S1) /\ Counts(S1, n) /\ S1.win[w] = v /\ Spares(S, w, S1) /\ Alone(S1, w, u)
    <2>1. CASE unique /\ v.host = None /\ t # None
        <3>1. t \in Win /\ t # w /\ IsHost(S, t) /\ S.win[t].path = p
            BY <2>1, TwinIs
        <3>2. S1 = DestroyHost(S, t)
            BY <2>1
        <3> HIDE DEF t, S1
        <3>3. /\ Fit(S1) /\ Counts(S1, n)
              /\ S1.win = [o \in Win |-> IF o = t \/ o = S.win[t].right THEN Closed ELSE S.win[o]]
            BY <3>1, <3>2, DestroyHostIs
        <3>4. S.win[t].right # w
            BY <1>1, <2>1, <3>1, WindowsAssumption DEF Paired, IsHost, IsOpen
        <3>5. S1.win[w] = v
            BY <3>1, <3>3, <3>4
        <3>6. Spares(S, w, S1)
            BY <3>3 DEF Spares
        <3>7. ASSUME NEW o \in Win, IsHost(S1, o), o # w PROVE S1.win[o].path # p
            <4>1. o # t /\ S1.win[o] = S.win[o] /\ IsHost(S, o)
                BY <3>3, <3>7, ClosedIs DEF IsHost
            <4>. QED BY <2>1, <3>1, <4>1 DEF Fit, Twinless
        <3>. QED BY <1>7, <3>3, <3>5, <3>6, <3>7 DEF Alone
    <2>2. CASE ~(unique /\ v.host = None /\ t # None)
        <3>1. S1 = S
            BY <2>2
        <3>2. unique /\ v.host = None => \A o \in Win : IsHost(S, o) /\ o # w => S.win[o].path # p
            BY <2>2, TwinIs
        <3> HIDE DEF t, S1
        <3>3. u.host = v.host
            BY <1>7 DEF SameTabs
        <3>. QED BY <1>7, <3>1, <3>2, <3>3 DEF Alone, Spares
    <2>. QED BY <2>1, <2>2
<1> HIDE DEF S1, t
<1>9. IsOpen(S1, w) /\ u.host = S1.win[w].host /\ u.right = S1.win[w].right
    BY <1>7, <1>8 DEF IsOpen, SameTabs
<1>10. Fit(D)
    BY <1>4, <1>6, <1>7, <1>8, <1>9, PutFit
<1>11. S1 \in UiRec /\ u \in WinRec
    BY <1>6, <1>8 DEF Fit, Formed
<1>12. D.win = [S1.win EXCEPT ![w] = u] /\ SameLists(S1, D)
    BY <1>4, <1>11 DEF UiRec, SameLists
<1>13. D.win[w] = u /\ \A o \in Win : o # w => D.win[o] = S1.win[o]
    BY <1>11, <1>12 DEF UiRec
<1>14. Counts(D, n) /\ Spares(S, w, D)
    BY <1>8, <1>12, <1>13 DEF Counts, SameLists, Spares
<1>15. nav => u.back = v.back /\ u.fwd = v.fwd
    BY <1>7 DEF b, f
<1>. QED BY <1>6, <1>7, <1>10, <1>13, <1>14, <1>15


WalkTo(S, w, p) == ChangeTo(S, w, p, TRUE)
GoTo(S, w, p) == ChangeTo(S, w, p, FALSE)

\* By a tab or the history: the histories are left alone.
LEMMA WalkToIs ==
    ASSUME NEW S, Fit(S), NEW w \in Win, IsOpen(S, w), NEW p \in Paths,
           NEW n \in Nat, Counts(S, n), NEW D, D = WalkTo(S, w, p)
    PROVE  /\ Fit(D) /\ Counts(D, n) /\ Spares(S, w, D)
           /\ SameTabs(S.win[w], D.win[w]) /\ D.win[w].path = p
           /\ D.win[w].back = S.win[w].back /\ D.win[w].fwd = S.win[w].fwd
<1>1. PICK nav \in BOOLEAN : nav = TRUE
    OBVIOUS
<1>2. D = ChangeTo(S, w, p, nav)
    BY <1>1 DEF WalkTo, GoTo
<1>3. /\ Fit(D) /\ Counts(D, n) /\ Spares(S, w, D)
      /\ SameTabs(S.win[w], D.win[w]) /\ D.win[w].path = p
      /\ nav => D.win[w].back = S.win[w].back /\ D.win[w].fwd = S.win[w].fwd
    BY <1>2, ChangeToIs
<1>. QED BY <1>1, <1>3

\* By the user.
LEMMA GoToIs ==
    ASSUME NEW S, Fit(S), NEW w \in Win, IsOpen(S, w), NEW p \in Paths,
           NEW n \in Nat, Counts(S, n), NEW D, D = GoTo(S, w, p)
    PROVE  /\ Fit(D) /\ Counts(D, n) /\ Spares(S, w, D)
           /\ SameTabs(S.win[w], D.win[w]) /\ D.win[w].path = p
<1>1. PICK nav \in BOOLEAN : nav = FALSE
    OBVIOUS
<1>2. D = ChangeTo(S, w, p, nav)
    BY <1>1 DEF WalkTo, GoTo
<1>3. /\ Fit(D) /\ Counts(D, n) /\ Spares(S, w, D)
      /\ SameTabs(S.win[w], D.win[w]) /\ D.win[w].path = p
      /\ nav => D.win[w].back = S.win[w].back /\ D.win[w].fwd = S.win[w].fwd
    BY <1>2, ChangeToIs
<1>. QED BY <1>1, <1>3

Put(S, w, u) == [S EXCEPT !.win[w] = u]

\* A window changes on its path.
LEMMA PutHere ==
    ASSUME NEW S, Fit(S), NEW w \in Win, IsOpen(S, w), NEW n \in Nat, Counts(S, n),
           NEW u, Formed(u), u.host = S.win[w].host, u.right = S.win[w].right,
           u.path = S.win[w].path, NEW D, D = Put(S, w, u)
    PROVE  /\ Fit(D) /\ Counts(D, n) /\ D.win[w] = u /\ IsOpen(D, w) /\ SameLists(S, D)
           /\ \A o \in Win : o # w => D.win[o] = S.win[o]
<1>1. S \in UiRec /\ u \in WinRec /\ S.win[w].path \in Paths
    BY DEF Fit, Formed, WinRec, IsOpen
<1>2. D = [S EXCEPT !.win[w] = u]
    BY DEF Put
<1>3. Alone(S, w, u)
    BY StaysAlone
<1>4. Fit(D)
    BY <1>1, <1>2, <1>3, PutFit
<1>5. D.win = [S.win EXCEPT ![w] = u] /\ SameLists(S, D)
    BY <1>1, <1>2 DEF UiRec, SameLists
<1>6. D.win[w] = u /\ \A o \in Win : o # w => D.win[o] = S.win[o]
    BY <1>1, <1>5 DEF UiRec
<1>. QED BY <1>4, <1>5, <1>6 DEF IsOpen, SameLists, Counts

\* The tabs are those of before and the window is on its active one.
Restored(v, u) ==
    /\ Len(u.tabs) = Len(v.tabs) /\ \A i \in 1..Len(v.tabs) : u.tabs[i] = v.tabs[i]
    /\ u.act = v.act /\ u.path = v.tabs[v.act].path

\* Of two updates of a window the last holds.
LEMMA PutTwice ==
    ASSUME NEW S, S \in UiRec, NEW w \in Win, NEW x, NEW y
    PROVE  /\ Put(S, w, x).win[w] = x
           /\ Put(Put(S, w, x), w, y) = Put(S, w, y)
<1> DEFINE W == [S.win EXCEPT ![w] = x]
           V == [S.win EXCEPT ![w] = y]
<1>1. Put(S, w, x) = [S EXCEPT !.win = W] /\ Put(S, w, y) = [S EXCEPT !.win = V]
    BY DEF Put
<1>2. W[w] = x /\ [W EXCEPT ![w] = y] = V
    BY DEF UiRec
<1> HIDE DEF W, V
<1>3. [S EXCEPT !.win = W].win = W
    BY DEF UiRec
<1>4. [[S EXCEPT !.win = W] EXCEPT !.win = V] = [S EXCEPT !.win = V]
    BY DEF UiRec
<1>5. Put(Put(S, w, x), w, y) = [[S EXCEPT !.win = W] EXCEPT !.win = V]
    BY <1>1, <1>2, <1>3 DEF Put
<1>. QED BY <1>1, <1>2, <1>3, <1>4, <1>5

\* modern_tab_restore_state.
LEMMA RestoreIs ==
    ASSUME NEW S, Fit(S), NEW w \in Win, IsOpen(S, w), S.win[w].act # 0,
           NEW n \in Nat, Counts(S, n), NEW D, D = Restore(S, w)
    PROVE  Fit(D) /\ Counts(D, n) /\ Spares(S, w, D) /\ Restored(S.win[w], D.win[w])
<1> DEFINE v == S.win[w]
           t == v.tabs[v.act]
           x == Elsewhere(v, v.path, t.back, t.fwd)
           S1 == Put(S, w, x)
           S2 == IF t.path = v.path THEN S1 ELSE ChangeTo(S1, w, t.path, TRUE)
           y == S2.win[w]
           u == Recorded(y)
<1>1. S \in UiRec /\ Formed(v) /\ v.path \in Paths /\ v \in WinRec
    BY DEF Fit, Formed, WinRec, IsOpen
<1>2. Holds(v)
    BY <1>1, FormedHolds
<1>3. v.act \in 1..Len(v.tabs) /\ t \in TabRec
    BY <1>2 DEF Holds
<1>4. t.path \in Paths /\ t.back \in Hist /\ t.fwd \in Hist
    BY <1>3 DEF TabRec
<1>5. [S EXCEPT !.win[w].back = t.back, !.win[w].fwd = t.fwd] = S1
    <2> DEFINE v1 == [v EXCEPT !.back = t.back]
    <2>1. [v1 EXCEPT !.fwd = t.fwd] = x
        <3> HIDE DEF t
        <3>. QED BY <1>1 DEF Elsewhere, WinRec
    <2> HIDE DEF t, x
    <2>2. Put(S, w, v1).win[w] = v1 /\ Put(Put(S, w, v1), w, x) = S1
        BY <1>1, PutTwice
    <2>3. [S EXCEPT !.win[w].back = t.back, !.win[w].fwd = t.fwd]
          = Put(Put(S, w, v1), w, [Put(S, w, v1).win[w] EXCEPT !.fwd = t.fwd])
        BY DEF Put
    <2>. QED BY <2>1, <2>2, <2>3
<1>6. D = [S2 EXCEPT !.win[w] = Recorded(@)]
    <2> DEFINE S0 == [S EXCEPT !.win[w].back = t.back, !.win[w].fwd = t.fwd]
    <2>1. D = [(IF t.path = v.path THEN S0 ELSE ChangeTo(S0, w, t.path, TRUE))
                  EXCEPT !.win[w] = Recorded(@)]
        BY DEF Restore
    <2>2. S0 = S1
        BY <1>5
    <2> HIDE DEF S0, S1
    <2>. QED BY <2>1, <2>2
<1> HIDE DEF t, v
<1>7. /\ Formed(x) /\ SameTabs(v, x) /\ x.path = v.path /\ x.back = t.back /\ x.fwd = t.fwd
    BY <1>1, <1>4, ElsewhereIs
<1> HIDE DEF x
<1>8. /\ Fit(S1) /\ Counts(S1, n) /\ S1.win[w] = x /\ IsOpen(S1, w)
      /\ \A o \in Win : o # w => S1.win[o] = S.win[o]
    <2>1. x.host = S.win[w].host /\ x.right = S.win[w].right /\ x.path = S.win[w].path
        BY <1>7 DEF SameTabs, v
    <2>. QED BY <1>7, <2>1, PutHere
<1> HIDE DEF S1
<1>9. /\ Fit(S2) /\ Counts(S2, n) /\ Spares(S1, w, S2)
      /\ SameTabs(x, y) /\ y.path = t.path /\ y.back = t.back /\ y.fwd = t.fwd
    <2>1. CASE t.path = v.path
        BY <1>7, <1>8, <2>1 DEF Spares, SameTabs
    <2>2. CASE t.path # v.path
        <3>1. S2 = WalkTo(S1, w, t.path)
            BY <2>2 DEF WalkTo
        <3> HIDE DEF S2, t
        <3>2. /\ Fit(S2) /\ Counts(S2, n) /\ Spares(S1, w, S2)
              /\ SameTabs(S1.win[w], S2.win[w]) /\ S2.win[w].path = t.path
              /\ S2.win[w].back = S1.win[w].back /\ S2.win[w].fwd = S1.win[w].fwd
            BY <1>4, <1>8, <3>1, WalkToIs
        <3>. QED BY <1>7, <1>8, <3>2
    <2>. QED BY <2>1, <2>2
<1>10. Formed(y) /\ S2 \in UiRec /\ y.path \in Paths /\ IsOpen(S2, w)
    BY <1>4, <1>9, WindowsAssumption DEF Fit, IsOpen
<1>11. D = Put(S2, w, u)
    BY <1>6, <1>10 DEF UiRec, Put
<1> HIDE DEF S2
<1>12. Formed(u) /\ SameTabs(y, u) /\ SameShown(y, u) /\ ActiveIsShown(u)
    BY <1>10, RecordedIs
<1>13. SameTabs(v, u) /\ u.path = t.path /\ u.back = t.back /\ u.fwd = t.fwd
    <2> HIDE DEF u, y
    <2>. QED BY <1>7, <1>9, <1>12, SameTabsTrans DEF SameShown
<1>14. u.host = S2.win[w].host /\ u.right = S2.win[w].right /\ u.path = S2.win[w].path
    <2> HIDE DEF u
    <2>. QED BY <1>12 DEF SameTabs, SameShown
<1> HIDE DEF u
<1>15. /\ Fit(D) /\ Counts(D, n) /\ D.win[w] = u
       /\ \A o \in Win : o # w => D.win[o] = S2.win[o]
    BY <1>9, <1>10, <1>11, <1>12, <1>14, PutHere
<1>16. Spares(S, w, D)
    BY <1>8, <1>9, <1>15 DEF Spares
<1>17. u.tabs[v.act] = t
    <2>1. u.act = v.act /\ u.tabs[v.act].id = t.id
        BY <1>3, <1>13 DEF SameTabs, t
    <2>2. u.tabs[v.act] = [id |-> t.id, path |-> t.path, back |-> t.back, fwd |-> t.fwd]
        BY <1>3, <1>12, <1>13, <2>1 DEF ActiveIsShown
    <2>3. \A s \in TabRec : s = [id |-> s.id, path |-> s.path, back |-> s.back, fwd |-> s.fwd]
        BY DEF TabRec
    <2>. QED BY <1>3, <2>2, <2>3
<1>18. Restored(v, u)
    BY <1>3, <1>13, <1>17 DEF Restored, SameTabs, t
<1>. QED BY <1>15, <1>16, <1>18 DEF v


----------------------------------------------------------------------------
(* New tabs.                                                                *)

\* A set of places can be gone through in order.
LEMMA InOrder ==
    ASSUME NEW n \in Nat, NEW H, H \subseteq 1..n
    PROVE  /\ Cardinality(H) \in Nat /\ Cardinality(H) <= n
           /\ \E f \in [1..Cardinality(H) -> H] :
                 \A i, j \in 1..Cardinality(H) : i < j => f[i] < f[j]
<1> DEFINE m == Cardinality(H)
           upto(k) == {j \in H : j <= k}
           rank == [k \in H |-> Cardinality(upto(k))]
<1>1. IsFiniteSet(1..n) /\ Cardinality(1..n) = n
    BY FS_Interval
<1>2. IsFiniteSet(H) /\ m <= n
    BY <1>1, FS_Subset
<1>3. m \in Nat
    BY <1>2, FS_CardinalityType
<1>4. \A k \in H : /\ IsFiniteSet(upto(k)) /\ upto(k) \subseteq H
                   /\ Cardinality(upto(k)) \in Nat /\ Cardinality(upto(k)) <= m
    <2> TAKE k \in H
    <2>1. upto(k) \in SUBSET H
        OBVIOUS
    <2>. QED BY <1>2, <2>1, FS_Subset, FS_CardinalityType
<1>5. \A k \in H : Cardinality(upto(k)) >= 1
    <2> TAKE k \in H
    <2>1. k \in upto(k)
        OBVIOUS
    <2> DEFINE U == upto(k)
    <2>2. IsFiniteSet(U) /\ U # {} /\ Cardinality(U) \in Nat
        BY <1>4, <2>1
    <2> HIDE DEF U
    <2>3. Cardinality(U) # 0
        BY <2>2, FS_EmptySet
    <2>. QED BY <2>2, <2>3 DEF U
<1>6. \A i, j \in H : i < j => Cardinality(upto(i)) < Cardinality(upto(j))
    <2> SUFFICES ASSUME NEW i \in H, NEW j \in H, i < j
                 PROVE  Cardinality(upto(i)) < Cardinality(upto(j))
        OBVIOUS
    <2> DEFINE U == upto(i)
               V == upto(j)
    <2>1. U \in SUBSET V /\ j \in V /\ j \notin U
        <3>1. \A k \in H : k <= i => k <= j
            <4>1. i \in 1..n /\ j \in 1..n /\ \A k \in H : k \in 1..n
                OBVIOUS
            <4>. QED BY <4>1
        <3>2. i <= i /\ ~(j <= i)
            <4>1. i \in 1..n /\ j \in 1..n
                OBVIOUS
            <4>. QED BY <4>1
        <3>3. j <= j
            <4>1. j \in 1..n
                OBVIOUS
            <4>. QED BY <4>1
        <3>. QED BY <3>1, <3>2, <3>3
    <2>2. IsFiniteSet(V) /\ Cardinality(U) \in Nat /\ Cardinality(V) \in Nat
        BY <1>4
    <2> HIDE DEF U, V
    <2>3. Cardinality(U) <= Cardinality(V) /\ (Cardinality(V) = Cardinality(U) => V = U)
        BY <2>1, <2>2, FS_Subset
    <2>4. Cardinality(U) < Cardinality(V)
        BY <2>1, <2>2, <2>3
    <2>. QED BY <2>4 DEF U, V
<1> HIDE DEF upto
<1>7. rank \in [H -> 1..m]
    BY <1>3, <1>4, <1>5
<1>8. \A i, j \in H : i < j => rank[i] < rank[j]
    BY <1>6
<1>9. \A i \in H : i \in Int
    OBVIOUS
<1> HIDE DEF rank, m
<1>10. \A i, j \in H : rank[i] = rank[j] => i = j
    <2> SUFFICES ASSUME NEW i \in H, NEW j \in H, rank[i] = rank[j] PROVE i = j
        OBVIOUS
    <2>1. rank[i] \in 1..m /\ rank[j] \in 1..m
        BY <1>7
    <2>2. ~(i < j) /\ ~(j < i)
        BY <1>3, <1>8, <2>1
    <2>. QED BY <1>9, <2>2
<1>11. rank \in Injection(H, 1..m)
    BY <1>7, <1>10 DEF Injection, IsInjective
<1>12. IsFiniteSet(1..m) /\ Cardinality(1..m) = m
    BY <1>3, FS_Interval
<1>13. rank \in Surjection(H, 1..m)
    BY <1>2, <1>11, <1>12, FS_Injection DEF m
<1>14. \A i \in 1..m : \E k \in H : rank[k] = i
    BY <1>13 DEF Surjection
<1> DEFINE f == [i \in 1..m |-> CHOOSE k \in H : rank[k] = i]
<1>15. f \in [1..m -> H] /\ \A i \in 1..m : rank[f[i]] = i
    BY <1>14
<1> HIDE DEF f
<1>16. ASSUME NEW i \in 1..m, NEW j \in 1..m, i < j PROVE f[i] < f[j]
    <2>1. f[i] \in H /\ f[j] \in H /\ rank[f[i]] = i /\ rank[f[j]] = j
        BY <1>15
    <2>2. i \in Int /\ j \in Int
        BY <1>3
    <2>3. \A a, b \in H : a < b \/ a = b \/ b < a
        BY <1>9
    <2>4. f[j] < f[i] => j < i
        BY <1>8, <2>1
    <2>5. f[i] = f[j] => i = j
        BY <2>1
    <2>6. f[i] < f[j] \/ f[i] = f[j] \/ f[j] < f[i]
        BY <2>1, <2>3
    <2>7. i # j /\ ~(j < i)
        BY <1>16, <2>2
    <2>. QED BY ONLY <2>4, <2>5, <2>6, <2>7
<1>. QED BY <1>2, <1>3, <1>15, <1>16 DEF m

\* The tabs of a restored session: some directories that are there.
LEMMA KeptIs ==
    ASSUME NEW tabs, tabs \in Seq(Paths), NEW kept, kept = Kept(tabs)
    PROVE  kept \in Seq(Paths) /\ Len(kept) <= Len(tabs)
<1> DEFINE here == {k \in DOMAIN tabs : tabs[k] \in exists}
           n == Cardinality(here)
           place == CHOOSE f \in [1..n -> here] : \A i, j \in 1..n : i < j => f[i] < f[j]
<1>1. DOMAIN tabs = 1..Len(tabs) /\ Len(tabs) \in Nat /\ here \subseteq 1..Len(tabs)
    OBVIOUS
<1>2. kept = [k \in 1..n |-> tabs[place[k]]]
    BY DEF Kept
<1> HIDE DEF here
<1>3. /\ n \in Nat /\ n <= Len(tabs)
      /\ \E f \in [1..n -> here] : \A i, j \in 1..n : i < j => f[i] < f[j]
    BY <1>1, InOrder
<1>4. place \in [1..n -> here]
    BY <1>3
<1> HIDE DEF place, n
<1>5. \A k \in 1..n : tabs[place[k]] \in Paths
    <2>1. \A j \in 1..Len(tabs) : tabs[j] \in Paths
        OBVIOUS
    <2>. QED BY <1>1, <1>4, <2>1
<1>. QED BY <1>2, <1>3, <1>5

\* Tabs of a window: not too many, each with an identity of its own.
Told(tabs) ==
    /\ tabs \in Seq(TabRec) /\ Len(tabs) <= MaxTabs
    /\ \A i, j \in 1..Len(tabs) : tabs[i].id = tabs[j].id => i = j

\* A tab can be told from those that are there.
LEMMA NewTabIdIs ==
    ASSUME NEW v, Told(v.tabs), Len(v.tabs) < MaxTabs, NEW i, i = NewTabId(v)
    PROVE  i \in 1..MaxTabs /\ \A k \in 1..Len(v.tabs) : v.tabs[k].id # i
<1> DEFINE n == Len(v.tabs)
<1>1. v.tabs \in Seq(TabRec) /\ n \in Nat /\ DOMAIN v.tabs = 1..n
    BY DEF Told
<1>2. MaxTabs \in Nat
    BY WindowsAssumption
<1>3. \E j \in 1..MaxTabs : \A k \in 1..n : v.tabs[k].id # j
    <2> SUFFICES ASSUME \A j \in 1..MaxTabs : \E k \in 1..n : v.tabs[k].id = j PROVE FALSE
        OBVIOUS
    <2> DEFINE f == [j \in 1..MaxTabs |-> CHOOSE k \in 1..n : v.tabs[k].id = j]
    <2>1. f \in [1..MaxTabs -> 1..n] /\ \A j \in 1..MaxTabs : v.tabs[f[j]].id = j
        OBVIOUS
    <2> HIDE DEF f, n
    <2>2. /\ IsFiniteSet(1..MaxTabs) /\ Cardinality(1..MaxTabs) = MaxTabs
          /\ IsFiniteSet(1..n) /\ Cardinality(1..n) = n
        <3>1. 1 \in Int /\ n \in Int /\ MaxTabs \in Int /\ 0 <= n /\ 0 <= MaxTabs
            BY <1>1, <1>2
        <3>2. IsFiniteSet(1..MaxTabs) /\ Cardinality(1..MaxTabs) = MaxTabs
            BY <3>1, FS_Interval
        <3>3. IsFiniteSet(1..n) /\ Cardinality(1..n) = n
            BY ONLY <3>1, FS_Interval
        <3>. QED BY <3>2, <3>3
    <2>3. n < MaxTabs
        BY DEF n
    <2>4. \E a, b \in 1..MaxTabs : a # b /\ f[a] = f[b]
        BY ONLY <2>1, <2>2, <2>3, FS_PigeonHole
    <2>. QED BY <2>1, <2>4
<1>. QED BY <1>1, <1>3 DEF NewTabId


LEMMA FormedTold ==
    ASSUME NEW v, Formed(v)
    PROVE  Told(v.tabs)
BY DEF Formed, Told, WinRec

\* tabs are those of v with a new one on p behind.
WithNew(v, p) == Append(v.tabs, NewTab(NewTabId(v), p))
Grown(v, p, tabs) ==
    /\ Told(tabs) /\ Len(tabs) = Len(v.tabs) + 1
    /\ \A i \in 1..Len(v.tabs) : tabs[i] = v.tabs[i] /\ tabs[i].id # tabs[Len(tabs)].id
    /\ tabs[Len(tabs)] = NewTab(NewTabId(v), p)
HasRoom(v) == Told(v.tabs) /\ Len(v.tabs) < MaxTabs

LEMMA NewTabFits ==
    ASSUME NEW v, HasRoom(v), NEW p \in Paths
    PROVE  Grown(v, p, WithNew(v, p))
<1> DEFINE tabs == WithNew(v, p)
           n == Len(v.tabs)
           id == NewTabId(v)
           t == NewTab(id, p)
<1> USE DEF HasRoom
<1>1. id \in 1..MaxTabs /\ \A k \in 1..n : v.tabs[k].id # id
    BY NewTabIdIs
<1> HIDE DEF id
<1>2. t \in TabRec /\ t.id = id
    BY <1>1, HistIs DEF NewTab, TabRec
<1> HIDE DEF t
<1>3. v.tabs \in Seq(TabRec) /\ n \in Nat
    BY DEF Told
<1>4. /\ tabs \in Seq(TabRec) /\ Len(tabs) = n + 1
      /\ \A i \in 1..n : tabs[i] = v.tabs[i]
      /\ tabs[n + 1] = t
    BY <1>2, <1>3 DEF t, id, WithNew
<1> HIDE DEF tabs
<1>5. Told(tabs)
    <2>1. Len(tabs) <= MaxTabs
        BY <1>3, <1>4, WindowsAssumption
    <2>2. \A i \in 1..(n + 1) : i \in 1..n \/ i = n + 1
        BY <1>3
    <2>3. \A i \in 1..n : tabs[i].id # tabs[n + 1].id
        BY <1>1, <1>2, <1>4
    <2>4. \A i, j \in 1..n : tabs[i].id = tabs[j].id => i = j
        BY <1>4 DEF Told
    <2>5. \A i, j \in 1..(n + 1) : tabs[i].id = tabs[j].id => i = j
        BY <2>2, <2>3, <2>4
    <2>. QED BY <1>4, <2>1, <2>5 DEF Told
<1>6. \A i \in 1..n : tabs[i] = v.tabs[i] /\ tabs[i].id # tabs[n + 1].id
    BY <1>1, <1>2, <1>4
<1>. QED BY <1>4, <1>5, <1>6 DEF t, id, tabs, Grown

\* The tabs of a new window.
LEMMA WithTabsIs ==
    ASSUME NEW S, Fit(S), NEW v0, v0 \in WinRec, v0.path \in Paths, v0.tabs = <<>>,
           v0.host = None, NEW v, v = WithTabs(S, v0)
    PROVE  Formed(v) /\ v.host = None /\ v.right = v0.right /\ v.path = v0.path
<1> DEFINE kept == Kept(S.saved.tabs)
           again == S.once \/ kept = <<>>
           fresh == Append(v0.tabs, NewTab(NewTabId(v0), v0.path))
           back == [k \in DOMAIN kept |-> NewTab(k, kept[k])]
           tabs == IF again THEN fresh ELSE back
           act == IF S.once \/ S.saved.act \notin 1..Len(tabs) THEN 1 ELSE S.saved.act
           v2 == [v0 EXCEPT !.tabs = tabs, !.act = act]
<1>1. S.saved.tabs \in Seq(Paths) /\ Len(S.saved.tabs) <= MaxTabs
    BY DEF Fit, UiRec, SessionRec
<1>2. kept \in Seq(Paths) /\ Len(kept) <= Len(S.saved.tabs)
    BY <1>1, KeptIs
<1> HIDE DEF kept
<1>3. v = Recorded(v2)
    <2> DEFINE v1 == IF again THEN WithTab(v0, v0.path) ELSE [v0 EXCEPT !.tabs = back]
               act1 == IF S.once \/ S.saved.act \notin 1..Len(v1.tabs) THEN 1 ELSE S.saved.act
    <2>1. v = Recorded([v1 EXCEPT !.act = act1])
        BY DEF WithTabs, kept
    <2>2. WithTab(v0, v0.path) = [v0 EXCEPT !.tabs = fresh]
        BY DEF WithTab, WinRec
    <2>3. v1 = [v0 EXCEPT !.tabs = tabs]
        BY <2>2
    <2> HIDE DEF v1, tabs
    <2>4. v1.tabs = tabs
        BY <2>3 DEF WinRec
    <2>5. act1 = act
        BY <2>4
    <2> HIDE DEF act, act1
    <2>6. [v1 EXCEPT !.act = act1] = v2
        BY <2>3, <2>5 DEF WinRec
    <2>. QED BY <2>1, <2>6
<1>4. Told(fresh) /\ Len(fresh) = 1
    <2>1. Told(v0.tabs) /\ Len(v0.tabs) = 0 /\ 0 < MaxTabs
        BY WindowsAssumption DEF Told
    <2>2. fresh = WithNew(v0, v0.path)
        BY DEF WithNew
    <2> HIDE DEF fresh
    <2>3. HasRoom(v0)
        BY <2>1 DEF HasRoom
    <2>4. Grown(v0, v0.path, fresh)
        BY <2>2, <2>3, NewTabFits
    <2>. QED BY <2>1, <2>4 DEF Grown
<1>5. kept # <<>> => Told(back) /\ Len(back) >= 1
    <2> SUFFICES ASSUME kept # <<>> PROVE Told(back) /\ Len(back) >= 1
        OBVIOUS
    <2> DEFINE n == Len(kept)
    <2>1. n \in Nat /\ n # 0 /\ n <= MaxTabs /\ DOMAIN kept = 1..n
        BY <1>1, <1>2, WindowsAssumption
    <2>2. \A k \in 1..n : NewTab(k, kept[k]) \in TabRec /\ NewTab(k, kept[k]).id = k
        <3> TAKE k \in 1..n
        <3>1. kept[k] \in Paths /\ k \in 1..MaxTabs
            BY <1>2, <2>1, WindowsAssumption
        <3>. QED BY <3>1, HistIs DEF NewTab, TabRec
    <2>3. /\ back \in Seq(TabRec) /\ Len(back) = n
          /\ \A k \in 1..n : back[k].id = k
        BY <2>1, <2>2
    <2> HIDE DEF back
    <2>. QED BY <2>1, <2>3 DEF Told
<1> HIDE DEF fresh, back
<1>6. Told(tabs) /\ Len(tabs) >= 1 /\ Len(tabs) \in Nat
    <2>1. CASE again
        <3>1. tabs = fresh
            BY <2>1
        <3>. QED BY ONLY <1>4, <3>1
    <2>2. CASE ~again
        <3>1. tabs = back /\ Told(back) /\ Len(back) >= 1
            BY <1>5, <2>2
        <3>. QED BY <3>1 DEF Told
    <2>. QED BY <2>1, <2>2
<1> HIDE DEF tabs
<1>7. act \in 1..Len(tabs)
    BY <1>6
<1> HIDE DEF act
<1>8. v2 \in WinRec
    <2>1. tabs \in Seq(TabRec) /\ act \in Nat
        BY <1>6, <1>7 DEF Told
    <2>. QED BY <2>1 DEF WinRec
<1>9. /\ v2.tabs = tabs /\ v2.act = act /\ v2.path = v0.path /\ v2.host = None
      /\ v2.right = v0.right
    BY DEF WinRec
<1> HIDE DEF v2
<1>10. Formed(v2)
    BY <1>6, <1>7, <1>8, <1>9, WindowsAssumption DEF Formed, Told
<1>11. Formed(v) /\ SameTabs(v2, v) /\ SameShown(v2, v)
    BY <1>3, <1>9, <1>10, RecordedIs
<1>. QED BY <1>9, <1>11 DEF SameTabs, SameShown


----------------------------------------------------------------------------
(* New windows.                                                             *)

\* A new window on a path, of a host or its own.
Pane(p, h) == [Closed EXCEPT !.path = p, !.host = h]

LEMMA PaneIs ==
    ASSUME NEW p \in Paths, NEW h \in Win \cup {None}, NEW v, v = Pane(p, h)
    PROVE  /\ v \in WinRec /\ v.path = p /\ v.tabs = <<>> /\ v.host = h /\ v.right = None
           /\ v.act = 0 /\ v.idle = {}
<1>1. Closed.right = None /\ Closed.act = 0 /\ Closed.idle = {}
    BY DEF Closed
<1>. QED BY <1>1, ClosedIs DEF Pane, WinRec

\* n others are counted by a process that runs, which may have no window yet.
Running(S, n) == S.count = Len(S.all) + n /\ S.run = "on"

LEMMA OpenedIs ==
    ASSUME NEW S, Fit(S), NEW w \in Win, ~IsOpen(S, w), NEW p \in Paths,
           unique => \A o \in Win : IsHost(S, o) => S.win[o].path # p,
           NEW n \in Nat, Running(S, n), NEW D, D = Opened(S, w, p)
    PROVE  Fit(D) /\ Counts(D, n) /\ \A o \in Win : o # w => D.win[o] = S.win[o]
<1> DEFINE v0 == Pane(p, None)
           v == WithTabs(S, v0)
           idle == (IF S.once THEN {} ELSE {"tab"}) \cup
                   (IF S.saved.split THEN {"split"} ELSE {})
           x == [v EXCEPT !.idle = idle]
           win1 == [S.win EXCEPT ![w] = x]
           all1 == <<w>> \o S.all
           modern1 == Append(S.modern, w)
           owner1 == IF S.owner = None THEN w ELSE S.owner
<1>1. S \in UiRec /\ Listed(S) /\ Paired(S) /\ Owned(S) /\ \A o \in Win : Formed(S.win[o])
    BY DEF Fit
<1>2. v0 \in WinRec /\ v0.path = p /\ v0.tabs = <<>> /\ v0.host = None /\ v0.right = None
    BY PaneIs, WindowsAssumption
<1>3. D = [S EXCEPT !.win = win1, !.all = all1, !.modern = modern1, !.owner = owner1,
                    !.once = TRUE, !.count = S.count + 1]
    <2>1. v0 = [Closed EXCEPT !.path = p]
        <3>1. Closed.host = None
            BY DEF Closed
        <3>. QED BY <3>1, ClosedIs DEF Pane, WinRec
    <2> HIDE DEF v0
    <2>. QED BY <1>1, <2>1 DEF Opened, UiRec
<1> HIDE DEF v0
<1>4. Formed(v) /\ v.host = None /\ v.right = None /\ v.path = p
    BY <1>2, WithTabsIs
<1>5. idle \in SUBSET {"tab", "split"}
    OBVIOUS
<1> HIDE DEF v, idle
<1>6. Formed(x) /\ x.host = None /\ x.right = None /\ x.path = p /\ p # None
    BY <1>4, <1>5, WindowsAssumption DEF Formed, WinRec
<1> HIDE DEF x
<1>7. w \notin Range(S.all) /\ w \notin Range(S.modern)
    BY <1>1 DEF Listed, IsHost, IsOpen
<1>8. /\ all1 \in Seq(Win) /\ Single(all1) /\ Len(all1) = Len(S.all) + 1
      /\ \A o : o \in Range(all1) <=> o \in Range(S.all) \/ o = w
    BY <1>1, <1>7, InFront DEF Listed, UiRec
<1>9. /\ modern1 \in Seq(Win) /\ Single(modern1)
      /\ \A o : o \in Range(modern1) <=> o \in Range(S.modern) \/ o = w
    BY <1>1, <1>7, AtEnd DEF Listed, UiRec
<1>10. /\ win1 \in [Win -> WinRec] /\ win1[w] = x
       /\ \A o \in Win : o # w => win1[o] = S.win[o]
    BY <1>1, <1>6 DEF UiRec, Formed
<1>11. owner1 \in Win \cup {None} /\ owner1 # None
    BY <1>1, WindowsAssumption DEF UiRec
<1> HIDE DEF win1, all1, modern1
<1>12. /\ D \in UiRec /\ D.win = win1 /\ D.all = all1 /\ D.modern = modern1
       /\ D.owner = owner1 /\ D.promote = S.promote /\ D.saved = S.saved
       /\ D.count = S.count + 1 /\ D.run = S.run
    <2> HIDE DEF owner1
    <2>1. PICK again \in BOOLEAN : again = TRUE
        OBVIOUS
    <2>2. S.count + 1 \in Int /\ owner1 \in Win \cup {None}
        BY <1>1, <1>11 DEF UiRec
    <2>3. D = [S EXCEPT !.win = win1, !.all = all1, !.modern = modern1, !.owner = owner1,
                        !.once = again, !.count = S.count + 1]
        BY <1>3, <2>1
    <2>. QED BY ONLY <1>1, <1>8, <1>9, <1>10, <2>2, <2>3, again \in BOOLEAN DEF UiRec
<1>13. \A o \in Win : /\ IsOpen(D, o) <=> IsOpen(S, o) \/ o = w
                      /\ IsHost(D, o) <=> IsHost(S, o) \/ o = w
                      /\ o # w => D.win[o] = S.win[o]
    BY <1>6, <1>10, <1>12 DEF IsOpen, IsHost
<1>14. D.win[w] = x
    BY <1>10, <1>12
<1>15. Listed(D)
    BY <1>1, <1>8, <1>9, <1>12, <1>13 DEF Listed
<1>16. Paired(D)
    <2> SUFFICES ASSUME NEW o \in Win, IsOpen(D, o)
                 PROVE  /\ D.win[o].host # None =>
                           IsHost(D, D.win[o].host) /\ D.win[D.win[o].host].right = o
                        /\ D.win[o].right # None =>
                           IsOpen(D, D.win[o].right) /\ D.win[D.win[o].right].host = o
        BY DEF Paired
    <2>1. CASE o = w
        BY <1>6, <1>14, <2>1
    <2>2. CASE o # w
        <3>1. /\ S.win[o].host \in Win \cup {None} /\ S.win[o].right \in Win \cup {None}
              /\ IsOpen(S, o) /\ D.win[o] = S.win[o]
            BY <1>1, <1>13, <2>2 DEF Formed, WinRec
        <3>2. /\ S.win[o].host # None =>
                    IsHost(S, S.win[o].host) /\ S.win[S.win[o].host].right = o
              /\ S.win[o].right # None =>
                    IsOpen(S, S.win[o].right) /\ S.win[S.win[o].right].host = o
            BY <1>1, <3>1 DEF Paired
        <3>3. ~IsHost(S, w)
            BY DEF IsHost, IsOpen
        <3>. QED BY <1>13, <3>1, <3>2, <3>3
    <2>. QED BY <2>1, <2>2
<1>17. Owned(D)
    BY <1>1, <1>11, <1>12, <1>13 DEF Owned, UiRec
<1>18. Twinless(D)
    BY <1>6, <1>13, <1>14 DEF Fit, Twinless
<1>19. \A o \in Win : Formed(D.win[o])
    BY <1>1, <1>6, <1>13, <1>14
<1>20. Counts(D, n)
    <2>1. Len(S.all) \in Nat
        BY <1>1 DEF UiRec
    <2>. QED BY <1>8, <1>12, <2>1 DEF Running, Counts
<1>. QED BY <1>12, <1>13, <1>15, <1>16, <1>17, <1>18, <1>19, <1>20 DEF Fit

\* modern_split_create_right: a pane is opened and paired with its host.
LEMMA WithRightIs ==
    ASSUME NEW S, Fit(S), NEW w \in Win, IsHost(S, w), S.win[w].right = None,
           NEW r \in Win, ~IsOpen(S, r), exists \subseteq Paths,
           NEW n \in Nat, Counts(S, n), NEW D, D = WithRight(S, w, r)
    PROVE  /\ Fit(D) /\ Counts(D, n) /\ IsHost(D, w)
           /\ D.win[w] = [S.win[w] EXCEPT !.right = r]
           /\ \A o \in Win \ {w, r} : D.win[o] = S.win[o]
<1> DEFINE p == IF S.saved.right \in exists THEN S.saved.right ELSE S.win[w].path
           x == [Closed EXCEPT !.path = p, !.host = w]
           u == [S.win[w] EXCEPT !.right = r]
           win1 == [o \in Win |-> IF o = r THEN x ELSE IF o = w THEN u ELSE S.win[o]]
           all1 == <<r>> \o S.all
<1>1. S \in UiRec /\ Listed(S) /\ Paired(S) /\ Owned(S) /\ \A o \in Win : Formed(S.win[o])
    BY DEF Fit
<1>2. S.win[w].path \in Paths /\ p \in Paths /\ r # w /\ r # None /\ w # None
    <2>1. S.win[w].path \in Paths
        BY <1>1 DEF Formed, WinRec, IsHost
    <2>. QED BY <2>1, WindowsAssumption DEF IsHost, IsOpen
<1>3. D = [S EXCEPT !.win = win1, !.all = all1, !.count = S.count + 1]
    <2>1. [[S.win EXCEPT ![r] = x] EXCEPT ![w].right = r] = win1
        BY <1>1, <1>2 DEF UiRec
    <2> HIDE DEF win1, x
    <2>2. D = [S EXCEPT !.win = [[S.win EXCEPT ![r] = x] EXCEPT ![w].right = r],
                        !.all = all1, !.count = S.count + 1]
        BY <1>1 DEF WithRight, UiRec, x
    <2>. QED BY <2>1, <2>2
<1> HIDE DEF p
<1>4. Formed(x) /\ x.host = w /\ x.right = None /\ x.path = p /\ p # None
    <2>1. x = Pane(p, w)
        BY DEF Pane
    <2> HIDE DEF x
    <2>2. /\ x \in WinRec /\ x.path = p /\ x.host = w /\ x.right = None
          /\ x.tabs = <<>> /\ x.act = 0 /\ x.idle = {}
        BY <1>2, <2>1, PaneIs
    <2>. QED BY <1>2, <2>2, WindowsAssumption DEF Formed
<1>5. Formed(u) /\ u.host = None /\ u.right = r /\ u.path = S.win[w].path
    <2>1. S.win[w] \in WinRec /\ S.win[w].host = None
        BY <1>1 DEF Formed, IsHost
    <2>2. /\ u \in WinRec /\ u.tabs = S.win[w].tabs /\ u.act = S.win[w].act
          /\ u.idle = S.win[w].idle /\ u.host = None /\ u.right = r /\ u.path = S.win[w].path
        BY ONLY <2>1, r \in Win DEF WinRec
    <2> HIDE DEF u
    <2>. QED BY <1>1, <2>1, <2>2 DEF Formed
<1> HIDE DEF x, u
<1>6. r \notin Range(S.all)
    BY <1>1 DEF Listed
<1>7. /\ all1 \in Seq(Win) /\ Single(all1) /\ Len(all1) = Len(S.all) + 1
      /\ \A o : o \in Range(all1) <=> o \in Range(S.all) \/ o = r
    BY <1>1, <1>6, InFront DEF Listed, UiRec
<1>8. /\ win1 \in [Win -> WinRec] /\ win1[w] = u /\ win1[r] = x
      /\ \A o \in Win : o # w /\ o # r => win1[o] = S.win[o]
    BY <1>1, <1>2, <1>4, <1>5 DEF UiRec, Formed
<1> HIDE DEF win1, all1
<1>9. /\ D \in UiRec /\ D.win = win1 /\ D.all = all1 /\ D.modern = S.modern
      /\ D.owner = S.owner /\ D.promote = S.promote /\ D.saved = S.saved
      /\ D.count = S.count + 1 /\ D.run = S.run
    <2>1. S.count + 1 \in Int
        BY <1>1 DEF UiRec
    <2>. QED BY ONLY <1>1, <1>3, <1>7, <1>8, <2>1 DEF UiRec
<1>10. \A o \in Win : /\ IsOpen(D, o) <=> IsOpen(S, o) \/ o = r
                      /\ IsHost(D, o) <=> IsHost(S, o)
                      /\ o # w /\ o # r => D.win[o] = S.win[o]
    BY <1>2, <1>4, <1>5, <1>8, <1>9 DEF IsOpen, IsHost
<1>11. D.win[w] = u /\ D.win[r] = x
    BY <1>8, <1>9
<1>12. Listed(D)
    BY <1>1, <1>7, <1>9, <1>10 DEF Listed
<1>13. Paired(D)
    <2> SUFFICES ASSUME NEW o \in Win, IsOpen(D, o)
                 PROVE  /\ D.win[o].host # None =>
                           IsHost(D, D.win[o].host) /\ D.win[D.win[o].host].right = o
                        /\ D.win[o].right # None =>
                           IsOpen(D, D.win[o].right) /\ D.win[D.win[o].right].host = o
        BY DEF Paired
    <2>1. CASE o = w
        BY <1>4, <1>5, <1>10, <1>11, <2>1
    <2>2. CASE o = r
        BY <1>4, <1>5, <1>10, <1>11, <2>2
    <2>3. CASE o # w /\ o # r
        <3>1. /\ S.win[o].host \in Win \cup {None} /\ S.win[o].right \in Win \cup {None}
              /\ IsOpen(S, o) /\ D.win[o] = S.win[o]
            BY <1>1, <1>10, <2>3 DEF Formed, WinRec
        <3>2. /\ S.win[o].host # None =>
                    IsHost(S, S.win[o].host) /\ S.win[S.win[o].host].right = o
              /\ S.win[o].right # None =>
                    IsOpen(S, S.win[o].right) /\ S.win[S.win[o].right].host = o
            BY <1>1, <3>1 DEF Paired
        <3>3. ~IsHost(S, r)
            BY DEF IsHost, IsOpen
        <3>4. S.win[o].host # w
            BY <1>2, <3>2, WindowsAssumption
        <3>5. S.win[o].right # w
            BY <1>2, <3>2, WindowsAssumption DEF IsHost
        <3>. QED BY <1>10, <3>1, <3>2, <3>3, <3>4, <3>5
    <2>. QED BY <2>1, <2>2, <2>3
<1>14. Owned(D)
    BY <1>1, <1>9, <1>10 DEF Owned, UiRec
<1>15. Twinless(D)
    <2>1. \A o \in Win : IsHost(D, o) => D.win[o].path = S.win[o].path
        BY <1>2, <1>4, <1>5, <1>10, <1>11 DEF IsHost
    <2>. QED BY <1>10, <2>1 DEF Fit, Twinless
<1>16. \A o \in Win : Formed(D.win[o])
    BY <1>1, <1>4, <1>5, <1>10, <1>11
<1>17. Counts(D, n)
    <2>1. Len(S.all) \in Nat /\ Len(S.all) # 0
        <3>1. w \in Range(S.all)
            BY <1>1 DEF Listed, IsHost, IsOpen
        <3>. QED BY <1>1, <3>1 DEF UiRec, Range
    <2>. QED BY <1>7, <1>9, <2>1 DEF Counts
<1>. QED BY <1>9, <1>10, <1>11, <1>12, <1>13, <1>14, <1>15, <1>16, <1>17 DEF Fit, u


\* modern_split_toggle.
LEMMA ToggledIs ==
    ASSUME NEW S, Fit(S), NEW w \in Win, IsHost(S, w), NEW r \in Win,
           S.win[w].right = None => ~IsOpen(S, r), exists \subseteq Paths,
           NEW n \in Nat, Counts(S, n), NEW D, D = Toggled(S, w, r)
    PROVE  /\ Fit(D) /\ Counts(D, n)
           /\ D.win[w].tabs = S.win[w].tabs /\ D.win[w].act = S.win[w].act
           /\ D.win[w].path = S.win[w].path
           /\ \A o \in Win : o # w /\ IsOpen(S, o) => D.win[o] = S.win[o]
<1> DEFINE S1 == IF S.win[w].right = None THEN WithRight(S, w, r) ELSE S
           v == S1.win[w]
           u == [v EXCEPT !.split = ~@]
<1>1. /\ Fit(S1) /\ Counts(S1, n) /\ IsHost(S1, w)
      /\ v.tabs = S.win[w].tabs /\ v.act = S.win[w].act /\ v.path = S.win[w].path
      /\ \A o \in Win : o # w /\ IsOpen(S, o) => S1.win[o] = S.win[o]
    <2>1. CASE S.win[w].right = None
        <3>1. S1 = WithRight(S, w, r) /\ ~IsOpen(S, r)
            BY <2>1
        <3> HIDE DEF S1
        <3>2. /\ Fit(S1) /\ Counts(S1, n) /\ IsHost(S1, w)
              /\ v = [S.win[w] EXCEPT !.right = r]
              /\ \A o \in Win \ {w, r} : S1.win[o] = S.win[o]
            BY <2>1, <3>1, WithRightIs
        <3>3. S.win[w] \in WinRec
            BY DEF Fit, Formed
        <3>4. v.tabs = S.win[w].tabs /\ v.act = S.win[w].act /\ v.path = S.win[w].path
            BY <3>2, <3>3 DEF WinRec
        <3>. QED BY <3>1, <3>2, <3>4
    <2>2. CASE S.win[w].right # None
        BY <2>2
    <2>. QED BY <2>1, <2>2
<1>2. D = [S1 EXCEPT !.win[w].split = ~@]
    BY DEF Toggled
<1> HIDE DEF S1
<1>3. Formed(v) /\ v \in WinRec /\ v.path # None /\ S1 \in UiRec
    BY <1>1 DEF Fit, Formed, IsHost
<1>4. D = Put(S1, w, u)
    BY <1>2, <1>3 DEF Put, UiRec
<1> HIDE DEF v
<1>5. PICK split \in BOOLEAN : split = ~v.split
    BY <1>3 DEF WinRec
<1>6. u = [v EXCEPT !.split = split]
    BY <1>5
<1> HIDE DEF u
<1>7. /\ u \in WinRec /\ u.path = v.path /\ u.tabs = v.tabs /\ u.act = v.act
      /\ u.host = v.host /\ u.right = v.right /\ u.idle = v.idle
    BY <1>3, <1>6 DEF WinRec
<1>8. Formed(u)
    BY <1>3, <1>7 DEF Formed
<1>9. /\ Fit(D) /\ Counts(D, n) /\ D.win[w] = u
      /\ \A o \in Win : o # w => D.win[o] = S1.win[o]
    <2>1. IsOpen(S1, w)
        BY <1>1 DEF IsHost, IsOpen
    <2>. QED BY <1>1, <1>4, <1>7, <1>8, <2>1, PutHere DEF v
<1>. QED BY <1>1, <1>7, <1>9

----------------------------------------------------------------------------
(* Steps.                                                                   *)

LEMMA UiIs ==
    /\ Ui.win = win /\ Ui.all = all /\ Ui.modern = modern /\ Ui.owner = owner
    /\ Ui.promote = promote /\ Ui.once = once /\ Ui.count = count /\ Ui.run = run
    /\ Ui.saved = saved
BY DEF Ui

LEMMA BecomeIs ==
    ASSUME NEW D, D \in UiRec, Become(D)
    PROVE  Ui' = D
BY DEF Become, Ui, UiRec

LEMMA FitNext ==
    ASSUME NEW D, Fit(D), NEW n \in Nat, Counts(D, n), Become(D),
           unique' = unique, n = dialogs' + jobs'
    PROVE  Fit(Ui)' /\ Counts(Ui, dialogs + jobs)'
<1>1. Ui' = D
    BY BecomeIs DEF Fit
<1>2. Fit(Ui)'
    <2>1. Listed(Ui)'
        BY <1>1 DEF Fit, Listed, Single, IsHost, IsOpen
    <2>2. Paired(Ui)' /\ Owned(Ui)'
        BY <1>1 DEF Fit, Paired, Owned, IsHost, IsOpen
    <2>3. Twinless(Ui)'
        BY <1>1 DEF Fit, Twinless, IsHost
    <2>4. \A w \in Win : Formed(Ui.win[w])'
        BY <1>1 DEF Fit, Formed
    <2>. QED BY <1>1, <2>1, <2>2, <2>3, <2>4 DEF Fit
<1>3. Counts(Ui, dialogs + jobs)'
    BY <1>1 DEF Counts
<1>. QED BY <1>2, <1>3


\* What TabsKeepTheirPlace asks of one window.
Keeps(v, u) ==
    \A i \in 1..Len(v.tabs) : i # v.act =>
        \A j \in 1..Len(u.tabs) : u.tabs[j].id = v.tabs[i].id =>
            u.tabs[j] = v.tabs[i] /\ (j = u.act => u.path = v.tabs[i].path)

KeepAll(S, D) == \A w \in Win : IsHost(S, w) => Keeps(S.win[w], D.win[w])

\* The tabs in the background are where they were in the list.
LEMMA KeepsInPlace ==
    ASSUME NEW v, NEW u, Formed(u), Len(v.tabs) \in Nat, Len(v.tabs) <= Len(u.tabs),
           \A i \in 1..Len(v.tabs) : i # v.act =>
               u.tabs[i] = v.tabs[i] /\ (i = u.act => u.path = v.tabs[i].path)
    PROVE  Keeps(v, u)
<1> SUFFICES ASSUME NEW i \in 1..Len(v.tabs), i # v.act, NEW j \in 1..Len(u.tabs),
                    u.tabs[j].id = v.tabs[i].id
             PROVE  u.tabs[j] = v.tabs[i] /\ (j = u.act => u.path = v.tabs[i].path)
    BY DEF Keeps
<1>1. Len(u.tabs) \in Nat
    BY FormedHolds DEF Holds
<1>2. i \in 1..Len(u.tabs) /\ u.tabs[i] = v.tabs[i]
    BY <1>1
<1>3. i = j
    BY <1>2 DEF Formed
<1>. QED BY <1>2, <1>3

\* Some tabs have been closed.
LEMMA KeepsOfThese ==
    ASSUME NEW v, Formed(v), NEW u,
           \A j \in 1..Len(u.tabs) : \E i \in 1..Len(v.tabs) :
               u.tabs[j] = v.tabs[i] /\ (j = u.act => i = v.act \/ u.path = v.tabs[i].path)
    PROVE  Keeps(v, u)
<1> SUFFICES ASSUME NEW i \in 1..Len(v.tabs), i # v.act, NEW j \in 1..Len(u.tabs),
                    u.tabs[j].id = v.tabs[i].id
             PROVE  u.tabs[j] = v.tabs[i] /\ (j = u.act => u.path = v.tabs[i].path)
    BY DEF Keeps
<1>1. PICK k \in 1..Len(v.tabs) :
          u.tabs[j] = v.tabs[k] /\ (j = u.act => k = v.act \/ u.path = v.tabs[k].path)
    OBVIOUS
<1>2. k = i
    BY <1>1 DEF Formed
<1>. QED BY <1>1, <1>2

LEMMA KeepsSame ==
    ASSUME NEW v, Formed(v), NEW u, Formed(u), SameTabs(v, u)
    PROVE  Keeps(v, u)
<1>1. Len(v.tabs) \in Nat /\ Len(u.tabs) = Len(v.tabs) /\ u.act = v.act
    BY FormedHolds DEF Holds, SameTabs
<1>. QED BY <1>1, KeepsInPlace DEF SameTabs

LEMMA KeepsClosed ==
    ASSUME NEW v
    PROVE  Keeps(v, Closed)
BY ClosedIs DEF Keeps

LEMMA SameTabsRefl ==
    ASSUME NEW v
    PROVE  SameTabs(v, v)
BY DEF SameTabs

\* One window is worked on, the others stay as they are or go.
LEMMA KeepOne ==
    ASSUME NEW S, Fit(S), NEW w \in Win, NEW D,
           \A o \in Win : o # w /\ IsOpen(S, o) => D.win[o] = S.win[o] \/ D.win[o] = Closed,
           IsHost(S, w) => Keeps(S.win[w], D.win[w])
    PROVE  KeepAll(S, D)
<1> SUFFICES ASSUME NEW o \in Win, IsHost(S, o) PROVE Keeps(S.win[o], D.win[o])
    BY DEF KeepAll
<1>1. Formed(S.win[o])
    BY DEF Fit
<1>2. CASE o = w
    BY <1>2
<1>3. CASE o # w
    <2>1. Keeps(S.win[o], S.win[o])
        BY <1>1, SameTabsRefl, KeepsSame
    <2>2. D.win[o] = S.win[o] \/ D.win[o] = Closed
        BY <1>3 DEF IsHost, IsOpen
    <2>. QED BY <2>1, <2>2, KeepsClosed
<1>. QED BY <1>2, <1>3

\* What every step keeps.
Safe == IInv' /\ KeepAll(Ui, Ui')

LEMMA SafeIs ==
    ASSUME NEW D, Fit(D), NEW n \in Nat, Counts(D, n), Become(D), KeepAll(Ui, D),
           unique' = unique, n = dialogs' + jobs', Outside'
    PROVE  Safe
<1>1. Fit(Ui)' /\ Counts(Ui, dialogs + jobs)'
    BY FitNext
<1>2. Ui' = D
    BY BecomeIs DEF Fit
<1>. QED BY <1>1, <1>2 DEF Safe, IInv

\* The actions that only work on the windows.
LEMMA SafeRest ==
    ASSUME IInv, NEW D, Fit(D), NEW n \in Nat, n = dialogs + jobs, Counts(D, n), Become(D),
           KeepAll(Ui, D), Rest, Step \/ UNCHANGED steps
    PROVE  Safe
<1>1. unique' = unique /\ n = dialogs' + jobs'
    BY DEF Rest
<1>2. Outside'
    BY DEF IInv, Outside, Rest, Step
<1>. QED BY <1>1, <1>2, SafeIs


\* A window on which an action works is open and formed; n others are counted.
LEMMA Working ==
    ASSUME IInv, NEW S, S = Ui
    PROVE  /\ Fit(S) /\ dialogs + jobs \in Nat /\ Counts(S, dialogs + jobs)
           /\ S \in UiRec /\ S.win = win /\ exists \subseteq Paths
           /\ \A w \in Win : Formed(win[w]) /\ win[w] \in WinRec
           /\ \A w \in Win : IsOpen(S, w) => win[w].path \in Paths
BY UiIs DEF IInv, Fit, Outside, Formed, WinRec, IsOpen

\* filer_change_to by the user.
LEMMA NavigateIs ==
    ASSUME IInv, NEW w \in Win, NEW p \in Paths, Navigate(w, p)
    PROVE  Safe
<1>1. PICK S : S = Ui
    OBVIOUS
<1> DEFINE n == dialogs + jobs
<1>2. /\ Fit(S) /\ n \in Nat /\ Counts(S, n) /\ S.win = win
      /\ Formed(win[w])
    BY <1>1, Working
<1>3. PICK D : D = GoTo(S, w, p)
    OBVIOUS
<1>4. Become(D) /\ IsOpen(S, w) /\ Rest /\ Step
    BY <1>1, <1>3 DEF Navigate, GoTo, Shown
<1> HIDE DEF n
<1>5. /\ Fit(D) /\ Counts(D, n) /\ Spares(S, w, D)
      /\ SameTabs(S.win[w], D.win[w]) /\ D.win[w].path = p
    BY <1>2, <1>3, <1>4, GoToIs
<1>6. Keeps(S.win[w], D.win[w])
    BY <1>2, <1>5, KeepsSame DEF Fit
<1>7. KeepAll(S, D)
    BY <1>2, <1>5, <1>6, KeepOne DEF Spares
<1>. QED BY <1>1, <1>2, <1>4, <1>5, <1>7, SafeRest DEF n

\* filer_history_go: the histories change, then the path.
LEMMA HistoryIs ==
    ASSUME IInv, NEW w \in Win, NEW S, S = Ui, IsOpen(S, w),
           NEW p \in Paths, NEW b, b \in Hist, NEW f, f \in Hist,
           NEW D, D = WalkTo(Put(S, w, Elsewhere(win[w], win[w].path, b, f)), w, p),
           Become(D), Rest, Step
    PROVE  Safe
<1> DEFINE n == dialogs + jobs
           v == win[w]
           x == Elsewhere(v, v.path, b, f)
           S1 == Put(S, w, x)
<1>1. /\ Fit(S) /\ n \in Nat /\ Counts(S, n) /\ S.win = win /\ Formed(v) /\ v.path \in Paths
    BY Working
<1> HIDE DEF n
<1>2. Formed(x) /\ SameTabs(v, x) /\ x.path = v.path
    BY <1>1, ElsewhereIs
<1> HIDE DEF x
<1>3. x.host = S.win[w].host /\ x.right = S.win[w].right /\ x.path = S.win[w].path
    BY <1>1, <1>2 DEF SameTabs
<1>4. /\ Fit(S1) /\ Counts(S1, n) /\ S1.win[w] = x /\ IsOpen(S1, w)
      /\ \A o \in Win : o # w => S1.win[o] = S.win[o]
    BY <1>1, <1>2, <1>3, PutHere
<1>5. D = WalkTo(S1, w, p)
    BY DEF x
<1> HIDE DEF S1, v
<1>6. /\ Fit(D) /\ Counts(D, n) /\ Spares(S1, w, D) /\ SameTabs(S1.win[w], D.win[w])
    BY <1>1, <1>4, <1>5, WalkToIs
<1>7. SameTabs(v, D.win[w])
    BY <1>2, <1>4, <1>6, SameTabsTrans
<1>8. Keeps(S.win[w], D.win[w])
    BY <1>1, <1>6, <1>7, KeepsSame DEF Fit, v
<1>9. KeepAll(S, D)
    BY <1>1, <1>4, <1>6, <1>8, KeepOne DEF Spares
<1>. QED BY <1>1, <1>6, <1>9, SafeRest DEF n

LEMMA GoBackIs ==
    ASSUME IInv, NEW w \in Win, GoBack(w)
    PROVE  Safe
<1> DEFINE v == win[w]
           b == Tail(v.back)
           f == Push(v.fwd, v.path)
<1>1. PICK S : S = Ui
    OBVIOUS
<1>2. IsOpen(S, w) /\ Rest /\ Step /\ v.back # <<>>
    BY <1>1 DEF GoBack, Shown
<1>3. Formed(v) /\ v \in WinRec /\ v.path \in Paths /\ S \in UiRec /\ S.win = win
    BY <1>1, <1>2, Working
<1>4. Head(v.back) \in Paths /\ b \in Hist /\ f \in Hist
    <2>1. v.back \in Hist /\ v.fwd \in Hist
        BY <1>3 DEF WinRec
    <2>. QED BY <1>2, <1>3, <2>1, PushIs, HistIs
<1>5. PICK D : D = WalkTo(Put(S, w, Elsewhere(v, v.path, b, f)), w, Head(v.back))
    OBVIOUS
<1>6. [Ui EXCEPT !.win[w].back = Tail(@), !.win[w].fwd = Push(@, v.path)]
      = Put(S, w, Elsewhere(v, v.path, b, f))
    <2> DEFINE v1 == [v EXCEPT !.back = b]
               v2 == [v1 EXCEPT !.fwd = Push(@, v.path)]
    <2>1. S.win[w] = v /\ v1.fwd = v.fwd
        BY <1>3 DEF WinRec
    <2>2. v2 = [v1 EXCEPT !.fwd = f]
        BY <2>1
    <2>3. v2 = Elsewhere(v, v.path, b, f)
        <3> HIDE DEF v2, b, f
        <3>. QED BY <1>3, <2>2 DEF Elsewhere, WinRec
    <2>4. [S EXCEPT !.win[w].back = Tail(@), !.win[w].fwd = Push(@, v.path)]
          = Put(Put(S, w, v1), w, [Put(S, w, v1).win[w] EXCEPT !.fwd = Push(@, v.path)])
        <3>1. v1 = [S.win[w] EXCEPT !.back = Tail(@)]
            BY <2>1
        <3> HIDE DEF v, v1
        <3>. QED BY <3>1 DEF Put
    <2>5. Put(S, w, v1).win[w] = v1 /\ Put(Put(S, w, v1), w, v2) = Put(S, w, v2)
        <3> HIDE DEF v1, v2
        <3>. QED BY <1>3, PutTwice
    <2>6. [Put(S, w, v1).win[w] EXCEPT !.fwd = Push(@, v.path)] = v2
        BY <2>5
    <2> HIDE DEF v1, v2
    <2>. QED BY <1>1, <2>3, <2>4, <2>5, <2>6
<1>7. Become(D)
    BY <1>5, <1>6 DEF GoBack, WalkTo
<1> HIDE DEF b, f
<1>. QED BY <1>1, <1>2, <1>4, <1>5, <1>7, HistoryIs

LEMMA GoForwardIs ==
    ASSUME IInv, NEW w \in Win, GoForward(w)
    PROVE  Safe
<1> DEFINE v == win[w]
           b == Push(v.back, v.path)
           f == Tail(v.fwd)
<1>1. PICK S : S = Ui
    OBVIOUS
<1>2. IsOpen(S, w) /\ Rest /\ Step /\ v.fwd # <<>>
    BY <1>1 DEF GoForward, Shown
<1>3. Formed(v) /\ v \in WinRec /\ v.path \in Paths /\ S \in UiRec /\ S.win = win
    BY <1>1, <1>2, Working
<1>4. Head(v.fwd) \in Paths /\ b \in Hist /\ f \in Hist
    <2>1. v.back \in Hist /\ v.fwd \in Hist
        BY <1>3 DEF WinRec
    <2>. QED BY <1>2, <1>3, <2>1, PushIs, HistIs
<1>5. PICK D : D = WalkTo(Put(S, w, Elsewhere(v, v.path, b, f)), w, Head(v.fwd))
    OBVIOUS
<1>6. [Ui EXCEPT !.win[w].fwd = Tail(@), !.win[w].back = Push(@, v.path)]
      = Put(S, w, Elsewhere(v, v.path, b, f))
    <2> DEFINE v1 == [v EXCEPT !.fwd = f]
               v2 == [v1 EXCEPT !.back = Push(@, v.path)]
    <2>1. S.win[w] = v /\ v1.back = v.back
        BY <1>3 DEF WinRec
    <2>2. v2 = [v1 EXCEPT !.back = b]
        BY <2>1
    <2>3. v2 = Elsewhere(v, v.path, b, f)
        <3> HIDE DEF v2, b, f
        <3>. QED BY <1>3, <2>2 DEF Elsewhere, WinRec
    <2>4. [S EXCEPT !.win[w].fwd = Tail(@), !.win[w].back = Push(@, v.path)]
          = Put(Put(S, w, v1), w, [Put(S, w, v1).win[w] EXCEPT !.back = Push(@, v.path)])
        <3>1. v1 = [S.win[w] EXCEPT !.fwd = Tail(@)]
            BY <2>1
        <3> HIDE DEF v, v1
        <3>. QED BY <3>1 DEF Put
    <2>5. Put(S, w, v1).win[w] = v1 /\ Put(Put(S, w, v1), w, v2) = Put(S, w, v2)
        <3> HIDE DEF v1, v2
        <3>. QED BY <1>3, PutTwice
    <2>6. [Put(S, w, v1).win[w] EXCEPT !.back = Push(@, v.path)] = v2
        BY <2>5
    <2> HIDE DEF v1, v2
    <2>. QED BY <1>1, <2>3, <2>4, <2>5, <2>6
<1>7. Become(D)
    BY <1>5, <1>6 DEF GoForward, WalkTo
<1> HIDE DEF b, f
<1>. QED BY <1>1, <1>2, <1>4, <1>5, <1>7, HistoryIs

\* modern_split_toggle.
LEMMA SplitToggleIs ==
    ASSUME IInv, NEW w \in Win, SplitToggle(w)
    PROVE  Safe
<1> DEFINE n == dialogs + jobs
<1>1. PICK S : S = Ui
    OBVIOUS
<1>2. /\ Fit(S) /\ n \in Nat /\ Counts(S, n) /\ S.win = win /\ exists \subseteq Paths
      /\ win[w] \in WinRec
    BY <1>1, Working
<1>3. PICK r \in Free(Ui) \cup {win[w].right} :
          /\ r # None /\ (win[w].right # None => r = win[w].right)
          /\ Become(Toggled(Ui, w, r))
    BY DEF SplitToggle
<1>4. PICK D : D = Toggled(S, w, r)
    OBVIOUS
<1>5. Become(D) /\ IsHost(S, w) /\ Rest /\ Step
    BY <1>1, <1>2, <1>3, <1>4 DEF SplitToggle, Shown, IsHost, IsOpen
<1>6. r \in Win /\ (S.win[w].right = None => ~IsOpen(S, r))
    BY <1>1, <1>2, <1>3 DEF Free, WinRec
<1> HIDE DEF n
<1>7. /\ Fit(D) /\ Counts(D, n)
      /\ D.win[w].tabs = S.win[w].tabs /\ D.win[w].act = S.win[w].act
      /\ D.win[w].path = S.win[w].path
      /\ \A o \in Win : o # w /\ IsOpen(S, o) => D.win[o] = S.win[o]
    BY <1>2, <1>4, <1>5, <1>6, ToggledIs
<1>8. Keeps(S.win[w], D.win[w])
    <2>1. Len(S.win[w].tabs) \in Nat /\ Formed(D.win[w])
        BY <1>2, <1>7 DEF WinRec, Fit
    <2>. QED BY <1>7, <2>1, KeepsInPlace
<1>9. KeepAll(S, D)
    BY <1>2, <1>7, <1>8, KeepOne
<1>. QED BY <1>1, <1>2, <1>5, <1>7, <1>9, SafeRest DEF n


\* Another value of the window, on its path.
Alike(v, x) == Formed(x) /\ x.host = v.host /\ x.right = v.right /\ x.path = v.path

LEMMA PutSafe ==
    ASSUME IInv, NEW w \in Win, NEW S, S = Ui, IsOpen(S, w),
           NEW x, Alike(win[w], x), Keeps(win[w], x), NEW D, D = Put(S, w, x),
           Become(D), Rest, Step \/ UNCHANGED steps
    PROVE  Safe
<1> DEFINE n == dialogs + jobs
<1>1. /\ Fit(S) /\ n \in Nat /\ Counts(S, n) /\ S.win = win
    BY Working
<1> HIDE DEF n
<1>2. Formed(x) /\ x.host = S.win[w].host /\ x.right = S.win[w].right /\ x.path = S.win[w].path
    BY <1>1 DEF Alike
<1>3. /\ Fit(D) /\ Counts(D, n) /\ D.win[w] = x
      /\ \A o \in Win : o # w => D.win[o] = S.win[o]
    BY <1>1, <1>2, PutHere
<1>4. KeepAll(S, D)
    BY <1>1, <1>3, KeepOne
<1>. QED BY <1>1, <1>3, <1>4, SafeRest DEF n

LEMMA RestoreSafe ==
    ASSUME IInv, NEW w \in Win, NEW S, S = Ui, IsOpen(S, w),
           NEW x, Alike(win[w], x), x.act # 0,
           \A u : Formed(u) /\ Restored(x, u) => Keeps(win[w], u),
           NEW D, D = Restore(Put(S, w, x), w), Become(D), Rest, Step \/ UNCHANGED steps
    PROVE  Safe
<1> DEFINE n == dialogs + jobs
           S1 == Put(S, w, x)
<1>1. /\ Fit(S) /\ n \in Nat /\ Counts(S, n) /\ S.win = win
    BY Working
<1> HIDE DEF n
<1>2. Formed(x) /\ x.host = S.win[w].host /\ x.right = S.win[w].right /\ x.path = S.win[w].path
    BY <1>1 DEF Alike
<1>3. /\ Fit(S1) /\ Counts(S1, n) /\ S1.win[w] = x /\ IsOpen(S1, w)
      /\ \A o \in Win : o # w => S1.win[o] = S.win[o]
    BY <1>1, <1>2, PutHere
<1> HIDE DEF S1
<1>4. Fit(D) /\ Counts(D, n) /\ Spares(S1, w, D) /\ Restored(S1.win[w], D.win[w])
    BY <1>1, <1>3, RestoreIs DEF S1
<1>5. Keeps(S.win[w], D.win[w])
    BY <1>1, <1>3, <1>4 DEF Fit
<1>6. KeepAll(S, D)
    BY <1>1, <1>3, <1>4, <1>5, KeepOne DEF Spares
<1>. QED BY <1>1, <1>4, <1>6, SafeRest DEF n

\* The window is put back to its active tab, its tabs as they are.
LEMMA RestoredKeeps ==
    ASSUME NEW v, Formed(v), NEW x, Formed(x), Len(v.tabs) <= Len(x.tabs),
           \A i \in 1..Len(v.tabs) : i # v.act => x.tabs[i] = v.tabs[i],
           NEW u, Formed(u), Restored(x, u)
    PROVE  Keeps(v, u)
<1>1. Len(v.tabs) \in Nat /\ Len(x.tabs) \in Nat
    BY FormedHolds DEF Holds
<1>2. Len(u.tabs) = Len(x.tabs) /\ u.act = x.act /\ u.path = x.tabs[x.act].path
    BY DEF Restored
<1>3. \A i \in 1..Len(v.tabs) : i # v.act => u.tabs[i] = v.tabs[i]
    BY <1>1 DEF Restored
<1>. QED BY <1>1, <1>2, <1>3, KeepsInPlace

\* modern_tab_activate.
LEMMA ActivateIs ==
    ASSUME IInv, NEW w \in Win, NEW k \in 1..MaxTabs, Activate(w, k)
    PROVE  Safe
<1> DEFINE v == win[w]
           r == Recorded(v)
           x == [r EXCEPT !.act = k]
<1>1. PICK S : S = Ui
    OBVIOUS
<1>2. IsOpen(S, w) /\ Rest /\ Step /\ k \in DOMAIN v.tabs
    BY <1>1 DEF Activate, Shown
<1>3. Formed(v) /\ v.path \in Paths /\ S.win = win
    BY <1>1, <1>2, Working
<1>4. Holds(v) /\ k \in 1..Len(v.tabs)
    BY <1>2, <1>3, FormedHolds DEF Holds
<1>5. PICK D : D = Restore(Put(S, w, x), w)
    OBVIOUS
<1>6. Become(D)
    BY <1>1, <1>5 DEF Activate, Put
<1> HIDE DEF r
<1>7. Formed(r) /\ SameTabs(v, r) /\ SameShown(v, r)
    BY <1>3, RecordedIs DEF r
<1>8. /\ x \in WinRec /\ x.act = k /\ x.tabs = r.tabs /\ x.host = r.host /\ x.right = r.right
      /\ x.path = r.path /\ x.idle = r.idle
    <2>1. r \in WinRec
        BY <1>7 DEF Formed
    <2>. QED BY ONLY <2>1, k \in Nat DEF WinRec
<1> HIDE DEF x
<1>9. Formed(x)
    BY <1>4, <1>7, <1>8 DEF Formed, SameTabs
<1>10. Alike(v, x) /\ x.act # 0
    BY <1>4, <1>7, <1>8, <1>9 DEF Alike, SameTabs, SameShown
<1>11. /\ Len(v.tabs) <= Len(x.tabs)
       /\ \A i \in 1..Len(v.tabs) : i # v.act => x.tabs[i] = v.tabs[i]
    BY <1>4, <1>7, <1>8 DEF SameTabs, Holds
<1>12. \A u : Formed(u) /\ Restored(x, u) => Keeps(v, u)
    BY <1>3, <1>9, <1>11, RestoredKeeps
<1> HIDE DEF v
<1>. QED BY <1>1, <1>2, <1>5, <1>6, <1>10, <1>12, RestoreSafe DEF v

\* modern_tab_restore_state_idle_cb.
LEMMA TabIdleIs ==
    ASSUME IInv, NEW w \in Win, TabIdle(w)
    PROVE  Safe
<1> DEFINE v == win[w]
           x == [v EXCEPT !.idle = @ \ {"tab"}]
<1>1. PICK S : S = Ui
    OBVIOUS
<1>2. "tab" \in v.idle /\ Rest /\ UNCHANGED steps
    BY DEF TabIdle
<1>3. Formed(v) /\ v \in WinRec /\ S \in UiRec /\ S.win = win
    BY <1>1, Working
<1>4. v.path # None /\ v.host = None /\ v.act # 0 /\ IsOpen(S, w)
    BY <1>2, <1>3 DEF Formed, IsOpen
<1>5. PICK D : D = Restore(Put(S, w, x), w)
    OBVIOUS
<1>6. [Ui EXCEPT !.win[w].idle = @ \ {"tab"}] = Put(S, w, x)
    BY <1>1, <1>3 DEF Put, UiRec
<1>7. Become(D)
    BY <1>5, <1>6 DEF TabIdle
<1>8. /\ x \in WinRec /\ x.act = v.act /\ x.tabs = v.tabs /\ x.host = v.host
      /\ x.right = v.right /\ x.path = v.path
    BY <1>3 DEF WinRec
<1> HIDE DEF x
<1>9. Formed(x)
    BY <1>3, <1>4, <1>8 DEF Formed
<1>10. Alike(v, x) /\ x.act # 0
    BY <1>4, <1>8, <1>9 DEF Alike
<1>11. Len(v.tabs) \in Nat
    BY <1>3, FormedHolds DEF Holds
<1>12. \A u : Formed(u) /\ Restored(x, u) => Keeps(v, u)
    BY <1>3, <1>8, <1>9, <1>11, RestoredKeeps
<1> HIDE DEF v
<1>. QED BY <1>1, <1>2, <1>4, <1>5, <1>7, <1>10, <1>12, RestoreSafe DEF v


\* modern_tabs_add of a window that is open, its active tab up to date.
LEMMA AddedIs ==
    ASSUME NEW v, Formed(v), v.path \in Paths, v.host = None, Len(v.tabs) < MaxTabs,
           NEW p \in Paths, NEW x, x = WithTab(Recorded(v), p)
    PROVE  /\ x \in WinRec /\ Told(x.tabs) /\ Len(x.tabs) = Len(v.tabs) + 1
           /\ Len(v.tabs) \in Nat
           /\ \A i \in 1..Len(v.tabs) : i # v.act => x.tabs[i] = v.tabs[i]
           /\ x.act = v.act /\ x.host = None /\ x.right = v.right /\ x.path = v.path
           /\ x.back = v.back /\ x.fwd = v.fwd
           /\ x.tabs[Len(x.tabs)] = NewTab(NewTabId(Recorded(v)), p)
<1> DEFINE r == Recorded(v)
           tabs == Append(r.tabs, NewTab(NewTabId(r), p))
<1>1. Formed(r) /\ SameTabs(v, r) /\ SameShown(v, r) /\ r \in WinRec /\ Len(v.tabs) \in Nat
    BY RecordedIs, FormedHolds DEF Formed, Holds
<1> HIDE DEF r
<1>2. Told(r.tabs) /\ Len(r.tabs) = Len(v.tabs)
    BY <1>1, FormedTold DEF SameTabs
<1>3. /\ Told(tabs) /\ Len(tabs) = Len(r.tabs) + 1
      /\ \A i \in 1..Len(r.tabs) : tabs[i] = r.tabs[i]
      /\ tabs[Len(tabs)] = NewTab(NewTabId(r), p)
    <2>1. HasRoom(r)
        BY <1>2 DEF HasRoom
    <2>2. tabs = WithNew(r, p)
        BY DEF WithNew
    <2> HIDE DEF tabs
    <2>3. Grown(r, p, tabs)
        BY <2>1, <2>2, NewTabFits
    <2>. QED BY ONLY <2>3 DEF Grown
<1>4. x = [r EXCEPT !.tabs = tabs]
    BY <1>1 DEF WithTab, WinRec, r
<1> HIDE DEF tabs
<1>5. tabs \in Seq(TabRec)
    BY <1>3 DEF Told
<1>6. /\ x \in WinRec /\ x.tabs = tabs /\ x.act = r.act /\ x.host = r.host
      /\ x.right = r.right /\ x.path = r.path /\ x.back = r.back /\ x.fwd = r.fwd
    BY <1>1, <1>4, <1>5 DEF WinRec
<1>. QED BY <1>1, <1>2, <1>3, <1>6 DEF SameTabs, SameShown, r

\* modern_ui_open_path_in_new_tab.
LEMMA OpenTabIs ==
    ASSUME IInv, NEW w \in Win, NEW p \in Paths, OpenTab(w, p)
    PROVE  Safe
<1> DEFINE n == dialogs + jobs
           v == win[w]
           r == WithTab(Recorded(v), p)
           x == [r EXCEPT !.act = Len(r.tabs), !.back = <<>>, !.fwd = <<>>,
                          !.idle = @ \ {"tab"}]
<1>1. PICK S : S = Ui
    OBVIOUS
<1>2. /\ IsOpen(S, w) /\ v.host = None /\ Len(v.tabs) < MaxTabs /\ Rest /\ Step
    BY <1>1 DEF OpenTab
<1>3. /\ Fit(S) /\ n \in Nat /\ Counts(S, n) /\ S.win = win /\ S \in UiRec
      /\ Formed(v) /\ v.path \in Paths
    BY <1>1, <1>2, Working
<1>4. PICK S1 : S1 = Put(S, w, x)
    OBVIOUS
<1>5. PICK S2 : S2 = IF r.path = p THEN S1 ELSE WalkTo(S1, w, p)
    OBVIOUS
<1>6. PICK D : D = [S2 EXCEPT !.win[w] = Recorded(@)]
    OBVIOUS
<1>7. Become(D)
    BY <1>1, <1>4, <1>5, <1>6 DEF OpenTab, Put, WalkTo
<1> HIDE DEF r, n
<1>8. /\ r \in WinRec /\ Told(r.tabs) /\ Len(r.tabs) = Len(v.tabs) + 1
      /\ Len(v.tabs) \in Nat
      /\ \A i \in 1..Len(v.tabs) : i # v.act => r.tabs[i] = v.tabs[i]
      /\ r.host = None /\ r.right = v.right /\ r.path = v.path
    <2>1. PICK u : u = WithTab(Recorded(v), p)
        OBVIOUS
    <2>2. PICK y : y = v
        OBVIOUS
    <2>3. /\ Formed(y) /\ y.path \in Paths /\ y.host = None /\ Len(y.tabs) < MaxTabs
          /\ u = WithTab(Recorded(y), p)
        BY ONLY <1>2, <1>3, <2>1, <2>2
    <2>4. /\ u \in WinRec /\ Told(u.tabs) /\ Len(u.tabs) = Len(y.tabs) + 1
          /\ Len(y.tabs) \in Nat
          /\ \A i \in 1..Len(y.tabs) : i # y.act => u.tabs[i] = y.tabs[i]
          /\ u.host = None /\ u.right = y.right /\ u.path = y.path
        BY ONLY <2>3, p \in Paths, AddedIs
    <2>5. r = u
        BY ONLY <2>1 DEF r
    <2>. QED BY ONLY <2>2, <2>4, <2>5
<1>9. /\ x \in WinRec /\ x.tabs = r.tabs /\ x.act = Len(r.tabs) /\ x.host = None
      /\ x.right = v.right /\ x.path = v.path
    <2>1. <<>> \in Hist /\ Len(r.tabs) \in Nat
        BY <1>8, HistIs
    <2>2. r.idle \ {"tab"} \in SUBSET {"tab", "split"}
        BY <1>8 DEF WinRec
    <2>. QED BY <1>8, <2>1, <2>2 DEF WinRec
<1> HIDE DEF x
<1>10. Formed(x)
    <2>1. PICK tabs : tabs = r.tabs
        OBVIOUS
    <2>2. /\ Len(tabs) <= MaxTabs
          /\ \A i, j \in 1..Len(tabs) : tabs[i].id = tabs[j].id => i = j
        BY ONLY <1>8, <2>1 DEF Told
    <2>3. Len(tabs) \in Nat /\ Len(tabs) # 0
        BY ONLY <1>8, <2>1
    <2>4. x \in WinRec /\ x.tabs = tabs /\ x.act = Len(tabs) /\ x.host = None
        BY ONLY <1>9, <2>1
    <2>5. x.path # None
        BY <1>3, <1>9, WindowsAssumption
    <2>6. Len(tabs) \in 0..Len(tabs)
        BY ONLY <2>3
    <2>. QED BY ONLY <2>2, <2>3, <2>4, <2>5, <2>6 DEF Formed
<1>11. /\ Fit(S1) /\ Counts(S1, n) /\ S1.win[w] = x /\ IsOpen(S1, w)
       /\ \A o \in Win : o # w => S1.win[o] = S.win[o]
    <2>1. x.host = S.win[w].host /\ x.right = S.win[w].right /\ x.path = S.win[w].path
        BY <1>2, <1>3, <1>9
    <2>. QED BY <1>2, <1>3, <1>4, <1>10, <2>1, PutHere
<1> DEFINE y == S2.win[w]
           u == Recorded(y)
<1>12. /\ Fit(S2) /\ Counts(S2, n) /\ Spares(S1, w, S2) /\ SameTabs(x, y) /\ y.path = p
    <2>1. CASE r.path = p
        BY <1>5, <1>8, <1>9, <1>11, <2>1, SameTabsRefl DEF Spares
    <2>2. CASE r.path # p
        <3>1. S2 = WalkTo(S1, w, p)
            BY <1>5, <2>2
        <3>. QED BY <1>3, <1>11, <3>1, WalkToIs
    <2>. QED BY <2>1, <2>2
<1>13. Formed(y) /\ S2 \in UiRec /\ y.path \in Paths /\ IsOpen(S2, w)
    BY <1>12, WindowsAssumption DEF Fit, IsOpen
<1>14. D = Put(S2, w, u)
    BY <1>6, <1>13 DEF UiRec, Put
<1>15. Formed(u) /\ SameTabs(y, u) /\ SameShown(y, u)
    BY <1>13, RecordedIs
<1> HIDE DEF u
<1>16. u.host = S2.win[w].host /\ u.right = S2.win[w].right /\ u.path = S2.win[w].path
    BY <1>15 DEF SameTabs, SameShown
<1>17. /\ Fit(D) /\ Counts(D, n) /\ D.win[w] = u
       /\ \A o \in Win : o # w => D.win[o] = S2.win[o]
    BY <1>3, <1>12, <1>13, <1>14, <1>15, <1>16, PutHere
<1> HIDE DEF y
<1>18. SameTabs(x, u)
    BY <1>12, <1>15, SameTabsTrans
<1>19. Keeps(v, u)
    <2>1. /\ Len(u.tabs) = Len(v.tabs) + 1 /\ u.act = Len(v.tabs) + 1
          /\ \A i \in 1..Len(v.tabs) : i # v.act => u.tabs[i] = v.tabs[i]
        BY <1>8, <1>9, <1>18 DEF SameTabs
    <2>2. Len(v.tabs) <= Len(u.tabs) /\ \A i \in 1..Len(v.tabs) : i # u.act
        BY <1>8, <2>1
    <2> HIDE DEF v
    <2>. QED BY <1>8, <1>15, <2>1, <2>2, KeepsInPlace
<1>20. KeepAll(S, D)
    BY <1>3, <1>11, <1>12, <1>17, <1>19, KeepOne DEF Spares
<1>. QED BY <1>1, <1>2, <1>3, <1>7, <1>17, <1>20, SafeRest DEF n

\* modern_duplicate_tab.
LEMMA DuplicateIs ==
    ASSUME IInv, NEW w \in Win, Duplicate(w)
    PROVE  Safe
<1> DEFINE v == win[w]
           c == Recorded(v)
           r == WithTab(c, c.path)
           new == Len(r.tabs)
           b == c.tabs[c.act].back
           f == c.tabs[c.act].fwd
           x == [r EXCEPT !.act = new, !.tabs[new].back = b, !.tabs[new].fwd = f]
<1>1. PICK S : S = Ui
    OBVIOUS
<1>2. IsOpen(S, w) /\ v.host = None /\ Len(v.tabs) < MaxTabs /\ Rest /\ Step
    BY <1>1 DEF Duplicate, Shown
<1>3. S.win = win /\ Formed(v) /\ v.path \in Paths
    BY <1>1, <1>2, Working
<1>4. PICK D : D = Restore(Put(S, w, x), w)
    OBVIOUS
<1>5. Become(D)
    BY <1>1, <1>4 DEF Duplicate, Put
<1> HIDE DEF r
<1>6. Formed(c) /\ SameTabs(v, c) /\ SameShown(v, c) /\ Holds(c)
    BY <1>3, RecordedIs, FormedHolds
<1>7. /\ r \in WinRec /\ Told(r.tabs) /\ new = Len(v.tabs) + 1 /\ Len(v.tabs) \in Nat
      /\ \A i \in 1..Len(v.tabs) : i # v.act => r.tabs[i] = v.tabs[i]
      /\ r.host = None /\ r.right = v.right /\ r.path = v.path
    <2>1. c.path = v.path
        BY <1>6 DEF SameShown
    <2>. QED BY <1>2, <1>3, <2>1, AddedIs DEF r
<1>8. v.act # 0 /\ c.act = v.act /\ b \in Hist /\ f \in Hist
    <2>1. v.act # 0 /\ c.act = v.act
        BY <1>2, <1>3, <1>6, WindowsAssumption DEF Formed, SameTabs
    <2>2. c.tabs[c.act] \in TabRec
        BY <1>6, <2>1 DEF Holds
    <2>. QED BY <2>1, <2>2 DEF TabRec
<1> HIDE DEF b, f, c
<1> DEFINE t == [r.tabs[new] EXCEPT !.back = b, !.fwd = f]
           tabs == [r.tabs EXCEPT ![new] = t]
<1>9. new \in 1..Len(r.tabs) /\ r.tabs \in Seq(TabRec) /\ r.tabs[new] \in TabRec
    BY <1>7 DEF Told
<1>10. t \in TabRec /\ t.id = r.tabs[new].id
    BY <1>8, <1>9 DEF TabRec
<1>11. x = [r EXCEPT !.act = new, !.tabs = tabs]
    <2>1. [[r.tabs EXCEPT ![new].back = b] EXCEPT ![new].fwd = f] = tabs
        BY <1>9 DEF TabRec
    <2>2. x = [r EXCEPT !.act = new,
                        !.tabs = [[r.tabs EXCEPT ![new].back = b] EXCEPT ![new].fwd = f]]
        <3> DEFINE r1 == [r EXCEPT !.act = new]
                   t1 == [r.tabs EXCEPT ![new].back = b]
                   r2 == [r1 EXCEPT !.tabs = t1]
                   t2 == [t1 EXCEPT ![new].fwd = f]
        <3>1. r \in WinRec
            BY <1>7
        <3>2. r1.tabs = r.tabs
            BY ONLY <3>1 DEF WinRec
        <3>3. r2 = [r1 EXCEPT !.tabs[new].back = b]
            BY ONLY <3>2
        <3>4. r2.tabs = t1
            <4> HIDE DEF t1
            <4>. QED BY ONLY <3>1 DEF WinRec
        <3>5. x = [r2 EXCEPT !.tabs = t2]
            BY ONLY <3>3, <3>4
        <3>6. [r2 EXCEPT !.tabs = t2] = [r1 EXCEPT !.tabs = t2]
            <4> HIDE DEF t1, t2
            <4>. QED BY ONLY <3>1 DEF WinRec
        <3> HIDE DEF t1, t2, r2, x
        <3>. QED BY <3>5, <3>6 DEF t1, t2
    <2> HIDE DEF tabs, x
    <2>. QED BY <2>1, <2>2
<1> HIDE DEF t, x
<1>12. /\ tabs \in Seq(TabRec) /\ Len(tabs) = Len(r.tabs)
       /\ \A j \in 1..Len(r.tabs) : tabs[j] = IF j = new THEN t ELSE r.tabs[j]
    BY <1>9, <1>10, ExceptSeq
<1> HIDE DEF tabs
<1>13. /\ x \in WinRec /\ x.tabs = tabs /\ x.act = new /\ x.host = None
       /\ x.right = v.right /\ x.path = v.path
    <2>1. new \in Nat
        BY <1>7
    <2> HIDE DEF new
    <2>. QED BY <1>7, <1>11, <1>12, <2>1 DEF WinRec
<1>14. Told(tabs)
    <2>1. \A i \in 1..Len(tabs) : tabs[i].id = r.tabs[i].id
        BY <1>10, <1>12
    <2>. QED BY <1>7, <1>12, <2>1 DEF Told
<1>15. Formed(x)
    BY <1>3, <1>7, <1>12, <1>13, <1>14, WindowsAssumption DEF Formed, Told
<1>16. Alike(v, x) /\ x.act # 0
    BY <1>2, <1>7, <1>13, <1>15 DEF Alike
<1>17. /\ Len(v.tabs) <= Len(x.tabs)
       /\ \A i \in 1..Len(v.tabs) : i # v.act => x.tabs[i] = v.tabs[i]
    BY <1>7, <1>12, <1>13
<1>18. \A u : Formed(u) /\ Restored(x, u) => Keeps(v, u)
    BY <1>3, <1>15, <1>17, RestoredKeeps
<1> HIDE DEF v
<1>. QED BY <1>1, <1>2, <1>4, <1>5, <1>16, <1>18, RestoreSafe DEF v


\* modern_tab_close of one of several tabs.
LEMMA CloseTabIs ==
    ASSUME IInv, NEW w \in Win, NEW k \in 1..MaxTabs, CloseTab(w, k)
    PROVE  Safe
<1> DEFINE v == win[w]
           n == Len(v.tabs)
           tabs == RemoveAt(v.tabs, k)
           act == IF k < v.act \/ (k = v.act /\ k = n) THEN v.act - 1 ELSE v.act
           x == [v EXCEPT !.tabs = tabs, !.act = act]
<1>1. PICK S : S = Ui
    OBVIOUS
<1>2. IsOpen(S, w) /\ Rest /\ Step /\ n > 1 /\ k \in DOMAIN v.tabs
    BY <1>1 DEF CloseTab, Shown
<1>3. Formed(v) /\ v \in WinRec /\ v.path \in Paths /\ S.win = win
    BY <1>1, <1>2, Working
<1>4. Told(v.tabs) /\ Holds(v)
    BY <1>3, FormedTold, FormedHolds
<1>5. n \in Nat /\ k \in 1..n /\ v.host = None /\ v.act \in 1..n
    <2>1. n \in Nat /\ k \in 1..n
        BY <1>2, <1>4 DEF Told
    <2>2. v.host = None
        <3>1. v.host # None => v.tabs = <<>>
            BY <1>3 DEF Formed
        <3>2. v.tabs = <<>> => n = 0
            OBVIOUS
        <3>. QED BY <1>2, <3>1, <3>2
    <2>3. v.act # 0 /\ v.act \in 0..n
        BY <1>3, <2>2, WindowsAssumption DEF Formed
    <2>. QED BY <2>1, <2>2, <2>3
<1>6. PICK D : D = IF k = v.act THEN Restore(Put(S, w, x), w) ELSE Put(S, w, x)
    OBVIOUS
<1>7. Become(D)
    BY <1>1, <1>6 DEF CloseTab, Put
<1>8. /\ tabs \in Seq(TabRec) /\ Len(tabs) = n - 1
      /\ \A j \in 1..(n - 1) : tabs[j] = IF j < k THEN v.tabs[j] ELSE v.tabs[j + 1]
    BY <1>4, <1>5, RemoveAtIs DEF Told
<1>9. act \in 1..(n - 1)
    BY <1>2, <1>5
<1> HIDE DEF tabs
<1>10. /\ x \in WinRec /\ x.tabs = tabs /\ x.act = act /\ x.host = None /\ x.right = v.right
       /\ x.path = v.path
    <2>1. act \in Nat
        BY <1>9
    <2> HIDE DEF act
    <2>. QED BY <1>3, <1>5, <1>8, <2>1 DEF WinRec
<1> HIDE DEF x
<1>11. Told(tabs)
    <2>1. Len(tabs) <= MaxTabs
        BY <1>4, <1>5, <1>8, WindowsAssumption DEF Told
    <2>2. ASSUME NEW i \in 1..(n - 1), NEW j \in 1..(n - 1), tabs[i].id = tabs[j].id
          PROVE  i = j
        <3>1. PICK a \in 1..n : a = IF i < k THEN i ELSE i + 1
            BY <1>5
        <3>2. PICK b \in 1..n : b = IF j < k THEN j ELSE j + 1
            BY <1>5
        <3>3. tabs[i] = v.tabs[a] /\ tabs[j] = v.tabs[b]
            BY <1>8, <3>1, <3>2
        <3>4. a = b
            BY <1>4, <2>2, <3>3 DEF Told
        <3>. QED BY <1>5, <3>1, <3>2, <3>4
    <2>. QED BY <1>8, <2>1, <2>2 DEF Told
<1>12. Formed(x)
    <2>1. x.act # 0 /\ x.act \in 0..Len(x.tabs) /\ x.path # None
        BY <1>3, <1>5, <1>8, <1>9, <1>10, WindowsAssumption
    <2>. QED BY <1>10, <1>11, <2>1 DEF Formed, Told
<1>13. Alike(v, x) /\ x.act # 0
    BY <1>5, <1>9, <1>10, <1>12 DEF Alike
<1>14. \A j \in 1..Len(x.tabs) : \E i \in 1..Len(v.tabs) : x.tabs[j] = v.tabs[i]
    <2> SUFFICES ASSUME NEW j \in 1..(n - 1) PROVE \E i \in 1..n : tabs[j] = v.tabs[i]
        BY <1>8, <1>10
    <2>1. PICK a \in 1..n : a = IF j < k THEN j ELSE j + 1
        BY <1>5
    <2>. QED BY <1>8, <2>1
<1>15. CASE k = v.act
    <2>1. ASSUME NEW u, Formed(u), Restored(x, u) PROVE Keeps(v, u)
        <3>1. ASSUME NEW j \in 1..Len(u.tabs)
              PROVE  \E i \in 1..Len(v.tabs) :
                         u.tabs[j] = v.tabs[i] /\ (j = u.act => u.path = v.tabs[i].path)
            <4> HIDE DEF x, v
            <4>1. /\ j \in 1..Len(x.tabs) /\ u.tabs[j] = x.tabs[j]
                  /\ (j = u.act => u.path = x.tabs[j].path)
                BY ONLY <2>1, <3>1 DEF Restored
            <4>2. PICK i \in 1..Len(v.tabs) : x.tabs[j] = v.tabs[i]
                BY ONLY <1>14, <4>1
            <4>. QED BY ONLY <4>1, <4>2
        <3>. QED BY <1>3, <3>1, KeepsOfThese
    <2>2. D = Restore(Put(S, w, x), w)
        BY <1>6, <1>15
    <2> HIDE DEF v
    <2>. QED BY <1>1, <1>2, <1>7, <1>13, <2>1, <2>2, RestoreSafe DEF v
<1>16. CASE k # v.act
    <2>1. ASSUME NEW j \in 1..Len(x.tabs)
          PROVE  \E i \in 1..Len(v.tabs) : x.tabs[j] = v.tabs[i] /\ (j = x.act => i = v.act)
        <3>1. j \in 1..(n - 1) /\ x.tabs[j] = tabs[j]
            BY <1>8, <1>10
        <3>2. PICK a \in 1..n : a = IF j < k THEN j ELSE j + 1
            BY <1>5, <3>1
        <3>3. j = act => a = v.act
            BY <1>5, <1>16, <3>1, <3>2
        <3>. QED BY <1>8, <1>10, <3>1, <3>2, <3>3
    <2>2. Keeps(v, x)
        BY <1>3, <2>1, KeepsOfThese
    <2>3. D = Put(S, w, x)
        BY <1>6, <1>16
    <2> HIDE DEF v
    <2>. QED BY <1>1, <1>2, <1>7, <1>13, <2>2, <2>3, PutSafe DEF v
<1>. QED BY <1>15, <1>16

\* modern_tab_close of the last tab.
LEMMA CloseLastTabIs ==
    ASSUME IInv, NEW w \in Win, CloseLastTab(w)
    PROVE  Safe
<1> DEFINE n == dialogs + jobs
<1>1. PICK S : S = Ui
    OBVIOUS
<1>2. PICK D : D = DestroyHost(S, w)
    OBVIOUS
<1>3. IsOpen(S, w) /\ Rest /\ Step /\ Len(win[w].tabs) = 1 /\ Become(D)
    BY <1>1, <1>2 DEF CloseLastTab, Shown
<1>4. /\ Fit(S) /\ n \in Nat /\ Counts(S, n) /\ S.win = win /\ Formed(win[w])
    BY <1>1, Working
<1> HIDE DEF n
<1>5. IsHost(S, w)
    <2>1. win[w].host # None => win[w].tabs = <<>>
        BY <1>4 DEF Formed
    <2>2. Len(<<>>) = 0
        OBVIOUS
    <2>. QED BY <1>3, <1>4, <2>1, <2>2 DEF IsHost, IsOpen
<1>6. /\ Fit(D) /\ Counts(D, n)
      /\ D.win = [o \in Win |-> IF o = w \/ o = S.win[w].right THEN Closed ELSE S.win[o]]
    BY <1>2, <1>4, <1>5, DestroyHostIs
<1>7. KeepAll(S, D)
    <2>1. D.win[w] = Closed /\ \A o \in Win : D.win[o] = S.win[o] \/ D.win[o] = Closed
        BY <1>6
    <2>. QED BY <1>4, <2>1, KeepOne, KeepsClosed
<1>. QED BY <1>1, <1>3, <1>4, <1>6, <1>7, SafeRest DEF n

\* modern_close_other_tabs and modern_close_tabs_right.
LEMMA CloseTabsIs ==
    ASSUME IInv, NEW w \in Win, NEW kept \in {"active", "left"}, CloseTabs(w, kept)
    PROVE  Safe
<1> DEFINE v == win[w]
           n == Len(v.tabs)
           from == IF kept = "active" THEN v.act ELSE 1
           tabs == SubSeq(v.tabs, from, v.act)
           act == IF kept = "active" THEN 1 ELSE v.act
           x == [v EXCEPT !.tabs = tabs, !.act = act]
<1>1. PICK S : S = Ui
    OBVIOUS
<1>2. IsOpen(S, w) /\ Rest /\ Step /\ v.host = None
    BY <1>1 DEF CloseTabs, Shown
<1>3. Formed(v) /\ v \in WinRec /\ v.path \in Paths /\ S.win = win /\ S \in UiRec
    BY <1>1, <1>2, Working
<1>4. Told(v.tabs) /\ Holds(v)
    BY <1>3, FormedTold, FormedHolds
<1>5. n \in Nat /\ v.act \in 1..n /\ from \in 1..v.act /\ act = v.act - from + 1
    <2>1. v.act # 0 /\ v.act \in 0..n /\ n \in Nat
        BY <1>2, <1>3, <1>4, WindowsAssumption DEF Formed, Told
    <2>. QED BY <2>1
<1>6. PICK D : D = Put(S, w, x)
    OBVIOUS
<1>7. Become(D)
    <2>1. [Ui EXCEPT !.win[w].tabs = SubSeq(@, from, v.act),
                     !.win[w].act = IF kept = "active" THEN 1 ELSE @] = Put(S, w, x)
        <3> DEFINE a == IF kept = "active" THEN 1 ELSE S.win[w].act
                   t == SubSeq(S.win[w].tabs, from, v.act)
        <3>1. a = act /\ t = tabs
            BY <1>3
        <3> DEFINE v1 == [S.win[w] EXCEPT !.tabs = t]
                   v2 == [v1 EXCEPT !.act = a]
                   S1 == Put(S, w, v1)
        <3>2. S1.win[w] = v1 /\ Put(S1, w, v2) = Put(S, w, v2)
            <4> HIDE DEF v1, v2
            <4>. QED BY <1>3, PutTwice
        <3>3. v1.act = S.win[w].act
            <4> HIDE DEF t
            <4>. QED BY <1>3 DEF WinRec
        <3>4. [S EXCEPT !.win[w].tabs = SubSeq(@, from, v.act),
                        !.win[w].act = IF kept = "active" THEN 1 ELSE @]
              = Put(S1, w, [S1.win[w] EXCEPT !.act = IF kept = "active" THEN 1 ELSE @])
            <4> HIDE DEF v, from
            <4>. QED BY DEF Put
        <3>5. [S1.win[w] EXCEPT !.act = IF kept = "active" THEN 1 ELSE @] = v2
            BY <3>2, <3>3
        <3>6. v2 = x
            BY <1>3, <3>1
        <3> HIDE DEF v1, v2, S1, a, t, act, tabs, x
        <3>. QED BY <1>1, <3>2, <3>4, <3>5, <3>6
    <2>. QED BY <1>6, <2>1 DEF CloseTabs
<1>8. /\ tabs \in Seq(TabRec) /\ Len(tabs) = act
      /\ \A j \in 1..act : tabs[j] = v.tabs[from + j - 1]
    <2>1. \A j \in from..v.act : v.tabs[j] \in TabRec
        BY <1>4, <1>5 DEF Told
    <2>2. /\ tabs \in Seq(TabRec)
          /\ Len(tabs) = IF from <= v.act THEN v.act - from + 1 ELSE 0
          /\ \A j \in 1..(v.act - from + 1) : tabs[j] = v.tabs[from + j - 1]
        <3>1. v.tabs \in Seq(TabRec) /\ from \in Int /\ v.act \in Int
            BY <1>4, <1>5 DEF Told
        <3> HIDE DEF from, tabs, v
        <3>. QED BY <2>1, <3>1, SubSeqProperties DEF tabs
    <2> HIDE DEF tabs, from, act
    <2>. QED BY <1>5, <2>2
<1>9. act \in 1..n /\ act <= n
    BY <1>5
<1> HIDE DEF tabs, act, from
<1>10. /\ x \in WinRec /\ x.tabs = tabs /\ x.act = act /\ x.host = None /\ x.right = v.right
       /\ x.path = v.path
    <2>1. act \in Nat
        BY <1>9
    <2>. QED BY <1>2, <1>3, <1>8, <2>1 DEF WinRec
<1> HIDE DEF x
<1>11. \A j \in 1..act : from + j - 1 \in 1..n /\ (j = act => from + j - 1 = v.act)
    BY <1>5
<1>12. Told(tabs)
    <2>1. Len(tabs) <= MaxTabs
        BY <1>4, <1>5, <1>8, <1>9, WindowsAssumption DEF Told
    <2>2. ASSUME NEW i \in 1..act, NEW j \in 1..act, tabs[i].id = tabs[j].id
          PROVE  i = j
        <3>1. tabs[i] = v.tabs[from + i - 1] /\ tabs[j] = v.tabs[from + j - 1]
            BY ONLY <1>8, i \in 1..act, j \in 1..act
        <3>2. PICK p \in 1..n, q \in 1..n : p = from + i - 1 /\ q = from + j - 1
            BY ONLY <1>11, i \in 1..act, j \in 1..act
        <3>3. v.tabs[p].id = v.tabs[q].id
            BY ONLY <2>2, <3>1, <3>2
        <3>4. p = q
            BY ONLY <1>4, <3>3 DEF Told
        <3>. QED BY <1>5, <1>9, <3>2, <3>4
    <2>. QED BY <1>8, <2>1, <2>2 DEF Told
<1>13. Formed(x)
    <2>1. x.act # 0 /\ x.act \in 0..Len(x.tabs) /\ x.path # None
        BY <1>3, <1>8, <1>9, <1>10, WindowsAssumption
    <2>. QED BY <1>10, <1>12, <2>1 DEF Formed, Told
<1>14. Alike(v, x)
    BY <1>2, <1>10, <1>13 DEF Alike
<1>15. Keeps(v, x)
    <2>1. ASSUME NEW j \in 1..Len(x.tabs)
          PROVE  \E i \in 1..Len(v.tabs) : x.tabs[j] = v.tabs[i] /\ (j = x.act => i = v.act)
        <3>1. j \in 1..act /\ x.tabs[j] = tabs[j] /\ x.act = act
            BY ONLY <1>8, <1>10, <2>1
        <3>2. PICK i \in 1..n : i = from + j - 1 /\ (j = act => i = v.act)
            BY ONLY <1>11, <3>1
        <3>3. tabs[j] = v.tabs[i]
            BY ONLY <1>8, <3>1, <3>2
        <3>. QED BY <3>1, <3>2, <3>3
    <2>. QED BY <1>3, <2>1, KeepsOfThese
<1> HIDE DEF v
<1>. QED BY <1>1, <1>2, <1>6, <1>7, <1>14, <1>15, PutSafe DEF v


\* modern_split_restore_idle.
LEMMA SplitIdleIs ==
    ASSUME IInv, NEW w \in Win, SplitIdle(w)
    PROVE  Safe
<1> DEFINE n == dialogs + jobs
           v == win[w]
           x == [v EXCEPT !.idle = @ \ {"split"}]
<1>1. PICK S : S = Ui
    OBVIOUS
<1>2. "split" \in v.idle /\ Rest /\ UNCHANGED steps
    BY DEF SplitIdle
<1>3. /\ Fit(S) /\ n \in Nat /\ Counts(S, n) /\ S.win = win /\ S \in UiRec
      /\ Formed(v) /\ v \in WinRec /\ exists \subseteq Paths
    BY <1>1, Working
<1>4. v.path # None /\ v.host = None /\ IsOpen(S, w) /\ IsHost(S, w)
    BY <1>2, <1>3 DEF Formed, IsOpen, IsHost
<1>5. PICK S1 : S1 = Put(S, w, x)
    OBVIOUS
<1>6. [Ui EXCEPT !.win[w].idle = @ \ {"split"}] = S1
    BY <1>1, <1>3, <1>5 DEF Put, UiRec
<1>7. /\ x \in WinRec /\ x.act = v.act /\ x.tabs = v.tabs /\ x.host = v.host
      /\ x.right = v.right /\ x.path = v.path
    BY <1>3 DEF WinRec
<1> HIDE DEF x
<1>8. Formed(x)
    BY <1>3, <1>4, <1>7 DEF Formed
<1>9. Len(v.tabs) \in Nat
    BY <1>3, FormedHolds DEF Holds
<1>10. CASE v.split
    <2>1. Become(S1)
        BY <1>6, <1>10 DEF SplitIdle
    <2>2. Alike(v, x)
        BY <1>7, <1>8 DEF Alike
    <2>3. Keeps(v, x)
        BY <1>7, <1>8, <1>9, KeepsInPlace
    <2> HIDE DEF v
    <2>. QED BY <1>1, <1>2, <1>4, <1>5, <2>1, <2>2, <2>3, PutSafe DEF v
<1>11. CASE ~v.split
    <2>1. PICK r \in Free(Ui) : Become(Toggled(S1, w, r))
        BY <1>6, <1>11 DEF SplitIdle
    <2>2. PICK D : D = Toggled(S1, w, r)
        OBVIOUS
    <2> HIDE DEF n
    <2>3. /\ Fit(S1) /\ Counts(S1, n) /\ S1.win[w] = x
          /\ \A o \in Win : o # w => S1.win[o] = S.win[o]
        <3>1. x.host = S.win[w].host /\ x.right = S.win[w].right /\ x.path = S.win[w].path
            BY <1>3, <1>7
        <3>. QED BY <1>3, <1>4, <1>5, <1>8, <3>1, PutHere
    <2>4. r \in Win /\ ~IsOpen(S, r) /\ r # w
        BY <1>1, <1>4, <2>1 DEF Free
    <2>5. ~IsOpen(S1, r) /\ IsHost(S1, w)
        BY <1>4, <1>7, <2>3, <2>4 DEF IsOpen, IsHost
    <2>6. /\ Fit(D) /\ Counts(D, n)
          /\ D.win[w].tabs = S1.win[w].tabs /\ D.win[w].act = S1.win[w].act
          /\ D.win[w].path = S1.win[w].path
          /\ \A o \in Win : o # w /\ IsOpen(S1, o) => D.win[o] = S1.win[o]
        BY <1>3, <2>2, <2>3, <2>4, <2>5, ToggledIs
    <2>7. Keeps(S.win[w], D.win[w])
        <3>1. D.win[w].tabs = v.tabs /\ D.win[w].act = v.act /\ Formed(D.win[w])
            BY <1>7, <2>3, <2>6 DEF Fit
        <3> HIDE DEF v
        <3>2. Keeps(v, D.win[w])
            BY <1>9, <3>1, KeepsInPlace
        <3>. QED BY <1>3, <3>2 DEF v
    <2>8. KeepAll(S, D)
        BY <1>3, <2>3, <2>6, <2>7, KeepOne DEF IsOpen
    <2>9. Become(D)
        BY <2>1, <2>2
    <2>. QED BY <1>1, <1>2, <1>3, <2>6, <2>8, <2>9, SafeRest DEF n
<1>. QED BY <1>10, <1>11

\* modern_promote_session_owner_idle.
LEMMA PromoteIdleIs ==
    ASSUME IInv, PromoteIdle
    PROVE  Safe
<1> DEFINE n == dialogs + jobs
<1>1. PICK S : S = Ui
    OBVIOUS
<1> DEFINE heir == S.owner = None /\ S.modern # <<>>
           owner1 == IF heir THEN Head(S.modern) ELSE S.owner
<1>2. /\ Fit(S) /\ n \in Nat /\ Counts(S, n) /\ S.win = win /\ S \in UiRec
    BY <1>1, Working
<1>3. PICK idle \in BOOLEAN : idle = FALSE
    OBVIOUS
<1>4. PICK D : D = [S EXCEPT !.promote = idle, !.owner = owner1]
    OBVIOUS
<1>5. Become(D) /\ Rest /\ UNCHANGED steps
    BY <1>1, <1>2, <1>3, <1>4, UiIs DEF PromoteIdle, UiRec
<1> HIDE DEF n
<1>6. S.modern # <<>> => Head(S.modern) \in Win /\ IsHost(S, Head(S.modern))
    <2> SUFFICES ASSUME S.modern # <<>>
                 PROVE  Head(S.modern) \in Win /\ IsHost(S, Head(S.modern))
        OBVIOUS
    <2>1. S.modern \in Seq(Win)
        BY <1>2 DEF UiRec
    <2>2. Head(S.modern) \in Range(S.modern) /\ Head(S.modern) \in Win
        BY <2>1 DEF Range
    <2>. QED BY <1>2, <2>2 DEF Fit, Listed
<1>7. owner1 \in Win \cup {None} /\ (owner1 # None => IsHost(S, owner1))
      /\ (S.modern # <<>> => owner1 # None)
    BY <1>2, <1>6, WindowsAssumption DEF Fit, Owned, UiRec
<1> HIDE DEF owner1
<1>8. /\ D \in UiRec /\ D.win = S.win /\ D.all = S.all /\ D.modern = S.modern
      /\ D.owner = owner1 /\ D.saved = S.saved /\ D.count = S.count /\ D.run = S.run
    BY <1>2, <1>4, <1>7 DEF UiRec
<1>9. Fit(D)
    <2>1. Listed(D) /\ Paired(D) /\ Twinless(D)
        BY <1>2, <1>8 DEF Fit, Listed, Paired, Twinless, IsHost, IsOpen
    <2>2. Owned(D)
        BY <1>7, <1>8 DEF Owned, IsHost
    <2>. QED BY <1>2, <1>8, <2>1, <2>2 DEF Fit
<1>10. Counts(D, n)
    BY <1>2, <1>8 DEF Counts
<1>11. KeepAll(S, D)
    <2> SUFFICES ASSUME NEW o \in Win PROVE Keeps(S.win[o], D.win[o])
        BY DEF KeepAll
    <2>1. Formed(S.win[o])
        BY <1>2 DEF Fit
    <2>2. Keeps(S.win[o], S.win[o])
        BY <2>1, SameTabsRefl, KeepsSame
    <2>. QED BY <1>8, <2>2
<1>. QED BY <1>1, <1>2, <1>5, <1>9, <1>10, <1>11, SafeRest DEF n

\* filer_opendir of a window that is not there.
LEMMA OpenDirIs ==
    ASSUME IInv, NEW p \in Paths, OpenDir(p)
    PROVE  Safe
<1> DEFINE n == dialogs + jobs
<1>1. PICK S : S = Ui
    OBVIOUS
<1>2. /\ Fit(S) /\ n \in Nat /\ Counts(S, n) /\ S \in UiRec
    BY <1>1, Working
<1>3. PICK w \in Free(Ui) : Become(Opened(Ui, w, p))
    BY DEF OpenDir
<1>4. PICK D : D = Opened(S, w, p)
    OBVIOUS
<1>5. /\ Become(D) /\ Rest /\ Step /\ run = "on" /\ w \in Win /\ ~IsOpen(S, w)
    BY <1>1, <1>3, <1>4 DEF OpenDir, Idle, Free
<1>6. unique => \A o \in Win : IsHost(S, o) => S.win[o].path # p
    <2> SUFFICES ASSUME unique, NEW o \in Win, IsHost(S, o), S.win[o].path = p PROVE FALSE
        OBVIOUS
    <2>1. Twin(S, p, None) = None
        BY <1>1 DEF OpenDir
    <2> DEFINE same == {x \in Range(S.all) \ {None} : S.win[x].host = None /\ S.win[x].path = p}
    <2>2. o \in same
        BY <1>2, WindowsAssumption DEF Fit, Listed, IsHost, IsOpen
    <2>3. None \notin same
        OBVIOUS
    <2>4. Twin(S, p, None) = IF same = {} THEN None ELSE CHOOSE x \in same : TRUE
        BY DEF Twin
    <2> HIDE DEF same
    <2>. QED BY <2>1, <2>2, <2>3, <2>4
<1>7. Running(S, n)
    BY <1>1, <1>2, <1>5, UiIs DEF Counts, Running
<1> HIDE DEF n
<1>8. Fit(D) /\ Counts(D, n) /\ \A o \in Win : o # w => D.win[o] = S.win[o]
    BY <1>2, <1>4, <1>5, <1>6, <1>7, OpenedIs
<1>9. KeepAll(S, D)
    BY <1>2, <1>5, <1>8, KeepOne DEF IsHost, IsOpen
<1>. QED BY <1>1, <1>2, <1>5, <1>8, <1>9, SafeRest DEF n

\* main: the first window of a process.
LEMMA StartIs ==
    ASSUME IInv, NEW p \in Paths, Start(p)
    PROVE  Safe
<1> DEFINE n == dialogs + jobs
<1>1. PICK S : S = Ui
    OBVIOUS
<1>2. /\ Fit(S) /\ n \in Nat /\ Counts(S, n) /\ S \in UiRec
    BY <1>1, Working
<1>3. PICK w \in Free(Ui) : Become(Opened([Ui EXCEPT !.run = "on", !.once = FALSE,
                                                     !.promote = FALSE], w, p))
    BY DEF Start
<1>4. PICK no \in BOOLEAN : no = FALSE
    OBVIOUS
<1>5. PICK S1 : S1 = [S EXCEPT !.run = "on", !.once = no, !.promote = no]
    OBVIOUS
<1>6. PICK D : D = Opened(S1, w, p)
    OBVIOUS
<1>7. /\ Become(D) /\ Rest /\ Step /\ run = "off" /\ w \in Win
    BY <1>1, <1>3, <1>4, <1>5, <1>6 DEF Start, Free
<1>8. S1 \in UiRec /\ S1.win = S.win /\ S1.all = S.all /\ S1.modern = S.modern
      /\ S1.owner = S.owner /\ S1.saved = S.saved /\ S1.count = S.count /\ S1.run = "on"
    BY <1>2, <1>5 DEF UiRec
<1>9. S.count = 0 /\ n = 0 /\ S.all = <<>>
    <2>1. S.run = "off" /\ S.all \in Seq(Win)
        BY <1>1, <1>2, <1>7, UiIs DEF UiRec
    <2> HIDE DEF n
    <2>2. S.count = Len(S.all) + n /\ ~(S.count > 0) /\ Len(S.all) \in Nat
        BY <1>2, <2>1 DEF Counts
    <2>3. S.count = 0 /\ n = 0 /\ Len(S.all) = 0
        BY <1>2, <2>2
    <2>. QED BY <2>1, <2>3
<1>10. /\ \A o \in Win : ~IsOpen(S, o) /\ ~IsHost(S, o)
       /\ S.modern = <<>>
    <2>1. Range(S.all) = {}
        BY <1>9 DEF Range
    <2>2. \A o \in Win : ~IsOpen(S, o) /\ ~IsHost(S, o)
        BY <1>2, <2>1 DEF Fit, Listed, IsHost, IsOpen
    <2>3. S.modern # <<>> => S.modern[1] \in Range(S.modern) /\ S.modern[1] \in Win
        BY <1>2 DEF UiRec, Range
    <2>. QED BY <1>2, <2>2, <2>3 DEF Fit, Listed
<1>11. Fit(S1)
    <2>1. Listed(S1) /\ Paired(S1) /\ Twinless(S1)
        <3>1. Listed(S) /\ Paired(S) /\ Twinless(S)
            BY ONLY <1>2 DEF Fit
        <3>2. S1.win = S.win /\ S1.all = S.all /\ S1.modern = S.modern
            BY ONLY <1>8
        <3>3. Listed(S1)
            BY ONLY <3>1, <3>2 DEF Listed, IsHost, IsOpen
        <3>4. Paired(S1)
            BY ONLY <3>1, <3>2 DEF Paired, IsHost, IsOpen
        <3>5. Twinless(S1)
            BY ONLY <3>1, <3>2 DEF Twinless, IsHost
        <3>. QED BY ONLY <3>3, <3>4, <3>5
    <2>2. Owned(S1)
        BY <1>2, <1>8, <1>10 DEF Fit, Owned, IsHost
    <2>. QED BY <1>2, <1>8, <2>1, <2>2 DEF Fit
<1>12. Running(S1, n)
    BY <1>2, <1>8 DEF Running, Counts
<1>13. ~IsOpen(S1, w) /\ \A o \in Win : ~IsHost(S1, o)
    BY <1>7, <1>8, <1>10 DEF IsOpen, IsHost
<1> HIDE DEF n
<1>14. Fit(D) /\ Counts(D, n)
    BY <1>2, <1>6, <1>7, <1>11, <1>12, <1>13, OpenedIs
<1>15. KeepAll(S, D)
    BY <1>10 DEF KeepAll
<1>. QED BY <1>1, <1>2, <1>7, <1>14, <1>15, SafeRest DEF n


----------------------------------------------------------------------------
(* Questions, actions and walks.                                            *)

\* Only the count, or the main loop, changes.
LEMMA SameFit ==
    ASSUME NEW S, Fit(S), NEW D, D \in UiRec, D.win = S.win, D.all = S.all,
           D.modern = S.modern, D.owner = S.owner, D.promote = S.promote, D.saved = S.saved
    PROVE  Fit(D)
<1>1. \A w \in Win : (IsHost(D, w) <=> IsHost(S, w)) /\ (IsOpen(D, w) <=> IsOpen(S, w))
    BY DEF IsHost, IsOpen
<1>2. Listed(D)
    BY <1>1 DEF Fit, Listed
<1>3. Paired(D)
    BY DEF Fit, Paired, IsHost, IsOpen
<1>4. Owned(D)
    BY DEF Fit, Owned, IsHost
<1>5. Twinless(D)
    BY <1>1 DEF Fit, Twinless
<1>. QED BY <1>2, <1>3, <1>4, <1>5 DEF Fit

\* may_offer_unmount: one more is counted while the question is open.
LEMMA AskedIs ==
    ASSUME NEW S, Fit(S), NEW n \in Nat, Counts(S, n), S.run = "on", NEW offer \in BOOLEAN,
           NEW D, D = Asked(S, offer)
    PROVE  /\ Fit(D) /\ Counts(D, IF offer THEN n + 1 ELSE n) /\ D.win = S.win
           /\ D.run = "on"
<1>1. S \in UiRec
    BY DEF Fit
<1>2. CASE ~offer
    BY <1>2 DEF Asked
<1>3. CASE offer
    <2>1. D = [S EXCEPT !.count = @ + 1]
        BY <1>3 DEF Asked
    <2>2. /\ D \in UiRec /\ D.win = S.win /\ D.all = S.all /\ D.modern = S.modern
          /\ D.owner = S.owner /\ D.promote = S.promote /\ D.saved = S.saved
          /\ D.count = S.count + 1 /\ D.run = S.run
        BY <1>1, <2>1 DEF UiRec
    <2>3. Fit(D)
        BY <2>2, SameFit
    <2>4. S.count \in Int /\ S.count > 0 /\ Len(S.all) \in Nat
        BY <1>1 DEF Counts, UiRec
    <2>5. D.count = Len(D.all) + (n + 1) /\ D.count > 0
        <3>1. PICK c \in Int, k \in Nat : c = S.count /\ k = Len(S.all)
            BY <2>4
        <3>2. c = k + n /\ c > 0
            BY <2>4, <3>1 DEF Counts
        <3>3. c + 1 = k + (n + 1) /\ c + 1 > 0
            BY ONLY c \in Int, k \in Nat, n \in Nat, <3>2
        <3>. QED BY <2>2, <3>1, <3>3
    <2>6. Counts(D, n + 1)
        <3>1. D.run = "on"
            BY <2>2
        <3>. QED BY ONLY <2>5, <3>1 DEF Counts
    <2>. QED BY <1>3, <2>2, <2>3, <2>6
<1>. QED BY <1>2, <1>3

\* one_less_window of a question or of an action.
LEMMA OneLessIs ==
    ASSUME NEW S, Fit(S), NEW n \in Nat, Counts(S, n + 1), NEW D, D = OneLess(S)
    PROVE  Fit(D) /\ Counts(D, n) /\ D.win = S.win
<1> DEFINE run1 == IF S.count <= 1 THEN "off" ELSE S.run
<1>1. S \in UiRec /\ S.count - 1 \in Int /\ run1 \in {"on", "off"}
    BY DEF Fit, UiRec
<1>2. D = [S EXCEPT !.count = S.count - 1, !.run = run1]
    BY <1>1 DEF OneLess, UiRec
<1> HIDE DEF run1
<1>3. /\ D \in UiRec /\ D.win = S.win /\ D.all = S.all /\ D.modern = S.modern
      /\ D.owner = S.owner /\ D.promote = S.promote /\ D.saved = S.saved
      /\ D.count = S.count - 1 /\ D.run = run1
    BY <1>1, <1>2 DEF UiRec
<1>4. Fit(D)
    BY <1>3, SameFit
<1>5. S.count \in Int /\ Len(S.all) \in Nat
    BY <1>1 DEF UiRec
<1>6. Counts(D, n)
    <2>1. S.count = Len(S.all) + (n + 1) /\ S.run = IF S.count > 0 THEN "on" ELSE "off"
        BY DEF Counts
    <2>2. S.run = "on" /\ D.count = Len(D.all) + n /\ (D.count > 0 <=> ~(S.count <= 1))
        <3>0. PICK all1 \in Nat, c \in Int : all1 = Len(S.all) /\ c = S.count
            BY <1>5
        <3>5. c = all1 + (n + 1)
            BY <2>1, <3>0
        <3>6. c > 0
            BY ONLY n \in Nat, all1 \in Nat, <3>5
        <3>1. S.count > 0
            BY <3>0, <3>6
        <3>2. S.run = "on"
            BY <2>1, <3>1
        <3>3. D.count = Len(D.all) + n /\ D.count \in Int
            <4>1. c - 1 = all1 + n
                BY ONLY n \in Nat, all1 \in Nat, <3>5
            <4>. QED BY <1>3, <3>0, <4>1
        <3>4. D.count > 0 <=> ~(S.count <= 1)
            BY <1>3, <1>5
        <3>. QED BY <3>2, <3>3, <3>4
    <2>3. D.run = IF D.count > 0 THEN "on" ELSE "off"
        BY <1>3, <2>2 DEF run1
    <2>. QED BY <2>2, <2>3 DEF Counts
<1>. QED BY <1>3, <1>4, <1>6

\* Nothing has happened to the windows.
LEMMA KeepAllSame ==
    ASSUME NEW S, Fit(S), NEW D, D.win = S.win
    PROVE  KeepAll(S, D)
<1> SUFFICES ASSUME NEW o \in Win PROVE Keeps(S.win[o], D.win[o])
    BY DEF KeepAll
<1>1. Formed(S.win[o])
    BY DEF Fit
<1>. QED BY <1>1, SameTabsRefl, KeepsSame

\* filer_window_delete, then the visible window goes.
LEMMA CloseIs ==
    ASSUME IInv, NEW w \in Win, Close(w)
    PROVE  Safe
<1> DEFINE n == dialogs + jobs
<1>1. PICK S : S = Ui
    OBVIOUS
<1>2. /\ Fit(S) /\ n \in Nat /\ Counts(S, n) /\ S.win = win
    BY <1>1, Working
<1>3. PICK offer \in BOOLEAN : offer = Offers(w, Below[Mount])
    BY DEF Offers
<1>4. PICK S1 : S1 = Asked(S, offer)
    OBVIOUS
<1>5. PICK D : D = CloseVisible(S1, w)
    OBVIOUS
<1>6. /\ Become(D) /\ IsOpen(S, w) /\ Step /\ S.run = "on"
      /\ dialogs' = IF offer THEN dialogs + 1 ELSE dialogs
      /\ UNCHANGED <<jobs, exists, userMounted, walk, unique>>
    BY <1>1, <1>3, <1>4, <1>5, UiIs DEF Close, Idle, Shown
<1>7. PICK m : m = IF offer THEN n + 1 ELSE n
    OBVIOUS
<1>8. m \in Nat /\ m = dialogs' + jobs'
    BY <1>2, <1>6, <1>7 DEF IInv, Outside
<1> HIDE DEF n
<1>9. Fit(S1) /\ Counts(S1, m) /\ S1.win = S.win
    BY <1>2, <1>4, <1>6, <1>7, AskedIs
<1>10. /\ Fit(D) /\ Counts(D, m) /\ D.win[w] = Closed
       /\ \A o \in Win : D.win[o] = S1.win[o] \/ D.win[o] = Closed
    BY <1>5, <1>6, <1>8, <1>9, CloseVisibleIs DEF IsOpen
<1>11. KeepAll(S, D)
    BY <1>2, <1>9, <1>10, KeepOne, KeepsClosed
<1>12. Outside'
    BY <1>6 DEF IInv, Outside, Step
<1>. QED BY <1>1, <1>6, <1>8, <1>10, <1>11, <1>12, SafeIs

\* change_to_parent.
LEMMA UpIs ==
    ASSUME IInv, NEW w \in Win, Up(w)
    PROVE  Safe
<1> DEFINE n == dialogs + jobs
           p == Parent[win[w].path]
<1>1. PICK S : S = Ui
    OBVIOUS
<1>2. /\ Fit(S) /\ n \in Nat /\ Counts(S, n) /\ S.win = win
      /\ IsOpen(S, w) => win[w].path \in Paths
    BY <1>1, Working
<1>3. PICK offer \in BOOLEAN : offer = Offers(w, {Mount})
    BY DEF Offers
<1>4. PICK S1 : S1 = Asked(S, offer)
    OBVIOUS
<1>5. PICK D : D = GoTo(S1, w, p)
    OBVIOUS
<1>6. /\ Become(D) /\ IsOpen(S, w) /\ Step /\ S.run = "on"
      /\ dialogs' = IF offer THEN dialogs + 1 ELSE dialogs
      /\ UNCHANGED <<jobs, exists, userMounted, walk, unique>>
    BY <1>1, <1>3, <1>4, <1>5, UiIs DEF Up, Idle, Shown, GoTo
<1>7. p \in Paths
    BY <1>2, <1>6, WindowsAssumption
<1> HIDE DEF p
<1>8. PICK m : m = IF offer THEN n + 1 ELSE n
    OBVIOUS
<1>9. m \in Nat /\ m = dialogs' + jobs'
    BY <1>2, <1>6, <1>8 DEF IInv, Outside
<1> HIDE DEF n
<1>10. Fit(S1) /\ Counts(S1, m) /\ S1.win = S.win
    BY <1>2, <1>4, <1>6, <1>8, AskedIs
<1>11. /\ Fit(D) /\ Counts(D, m) /\ Spares(S1, w, D) /\ SameTabs(S1.win[w], D.win[w])
    BY <1>5, <1>6, <1>7, <1>9, <1>10, GoToIs DEF IsOpen
<1>12. Keeps(S.win[w], D.win[w])
    BY <1>2, <1>10, <1>11, KeepsSame DEF Fit
<1>13. KeepAll(S, D)
    BY <1>2, <1>10, <1>11, <1>12, KeepOne DEF Spares
<1>14. Outside'
    BY <1>6 DEF IInv, Outside, Step
<1>. QED BY <1>1, <1>6, <1>9, <1>11, <1>13, <1>14, SafeIs

\* unmount_dialog_response.
LEMMA AnswerIs ==
    ASSUME IInv, NEW yes \in BOOLEAN, Answer(yes)
    PROVE  Safe
<1> DEFINE n == dialogs + jobs
<1>1. PICK S : S = Ui
    OBVIOUS
<1>2. /\ Fit(S) /\ n \in Nat /\ Counts(S, n) /\ S.win = win
    BY <1>1, Working
<1>3. PICK S1 : S1 = Asked(S, yes)
    OBVIOUS
<1>4. PICK D : D = OneLess(S1)
    OBVIOUS
<1>5. /\ Become(D) /\ S.run = "on" /\ dialogs > 0 /\ dialogs' = dialogs - 1
      /\ jobs' = (IF yes THEN jobs + 1 ELSE jobs)
      /\ UNCHANGED <<exists, userMounted, walk, unique, steps>>
    BY <1>1, <1>3, <1>4, UiIs DEF Answer, Asked, Idle
<1>6. PICK m : m = IF yes THEN n ELSE n - 1
    OBVIOUS
<1>7. m \in Nat /\ m = dialogs' + jobs' /\ m + 1 = (IF yes THEN n + 1 ELSE n)
    BY <1>2, <1>5, <1>6 DEF IInv, Outside
<1> HIDE DEF n
<1>8. Fit(S1) /\ Counts(S1, m + 1) /\ S1.win = S.win
    <2>1. Fit(S1) /\ Counts(S1, IF yes THEN n + 1 ELSE n) /\ S1.win = S.win
        BY <1>2, <1>3, <1>5, AskedIs
    <2>. QED BY <1>7, <2>1
<1>9. Fit(D) /\ Counts(D, m) /\ D.win = S1.win
    BY <1>4, <1>7, <1>8, OneLessIs
<1>10. KeepAll(S, D)
    BY <1>2, <1>8, <1>9, KeepAllSame
<1>11. Outside'
    BY <1>5 DEF IInv, Outside
<1>. QED BY <1>1, <1>5, <1>7, <1>9, <1>10, <1>11, SafeIs

\* The window of an action closes.
LEMMA JobEndsIs ==
    ASSUME IInv, JobEnds
    PROVE  Safe
<1> DEFINE n == dialogs + jobs
<1>1. PICK S : S = Ui
    OBVIOUS
<1>2. /\ Fit(S) /\ n \in Nat /\ Counts(S, n) /\ S.win = win
    BY <1>1, Working
<1>3. PICK D : D = OneLess(S)
    OBVIOUS
<1>4. /\ Become(D) /\ jobs > 0 /\ jobs' = jobs - 1
      /\ UNCHANGED <<dialogs, exists, userMounted, walk, unique, steps>>
    BY <1>1, <1>3 DEF JobEnds
<1>5. PICK m : m = n - 1
    OBVIOUS
<1>6. m \in Nat /\ m = dialogs' + jobs' /\ m + 1 = n
    BY <1>2, <1>4, <1>5 DEF IInv, Outside
<1> HIDE DEF n
<1>7. Fit(D) /\ Counts(D, m) /\ D.win = S.win
    BY <1>2, <1>3, <1>6, OneLessIs
<1>8. KeepAll(S, D)
    BY <1>2, <1>7, KeepAllSame
<1>9. Outside'
    BY <1>4 DEF IInv, Outside
<1>. QED BY <1>1, <1>4, <1>6, <1>7, <1>8, <1>9, SafeIs


\* The windows are as before.
LEMMA SafeSame ==
    ASSUME IInv, UNCHANGED <<win, all, modern, owner, promote, once, count, run, saved>>,
           UNCHANGED <<dialogs, jobs, unique>>, Outside'
    PROVE  Safe
<1>1. PICK S : S = Ui
    OBVIOUS
<1>2. PICK n : n = dialogs + jobs
    OBVIOUS
<1>3. Fit(S) /\ n \in Nat /\ Counts(S, n)
    BY <1>1, <1>2, Working
<1>4. Become(S)
    BY <1>1, UiIs DEF Become
<1>5. KeepAll(S, S)
    BY <1>3, KeepAllSame
<1>. QED BY <1>1, <1>2, <1>3, <1>4, <1>5, SafeIs

LEMMA UnmountedIs ==
    ASSUME IInv, Unmounted
    PROVE  Safe
<1>1. Outside'
    <2>1. First(all) \in Win \cup {None} /\ Mount \in Paths
        <3>1. all \in Seq(Win)
            BY UiIs DEF IInv, Fit, UiRec
        <3>. QED BY <3>1, WindowsAssumption DEF First
    <2>2. walk' \in [kind : {"none", "check", "close"}, path : Paths \cup {None},
                     next : Win \cup {None}] /\ walk'.path \in Paths
        BY <2>1 DEF Unmounted
    <2>3. exists' \subseteq Paths /\ userMounted' \in BOOLEAN
        BY DEF Unmounted, IInv, Outside
    <2>. QED BY <2>2, <2>3, WindowsAssumption DEF Unmounted, IInv, Outside
<1>. QED BY <1>1, SafeSame DEF Unmounted

LEMMA VanishIs ==
    ASSUME IInv, NEW p \in Paths, Vanish(p)
    PROVE  Safe
<1>1. Outside'
    BY DEF Vanish, IInv, Outside, Step
<1>. QED BY <1>1, SafeSame DEF Vanish

LEMMA StartWalkIs ==
    ASSUME IInv, NEW p \in Paths, NEW kind \in {"check", "close"}, StartWalk(kind, p)
    PROVE  Safe
<1>1. Outside'
    <2>1. Head(all) \in Win
        BY UiIs DEF StartWalk, IInv, Fit, UiRec
    <2>2. walk' \in [kind : {"none", "check", "close"}, path : Paths \cup {None},
                     next : Win \cup {None}] /\ walk'.path \in Paths
        BY <2>1 DEF StartWalk
    <2>. QED BY <2>2, WindowsAssumption DEF StartWalk, IInv, Outside, Step
<1>. QED BY <1>1, SafeSame DEF StartWalk

\* One turn of a walk: a window may go, with its host or its pane.
LEMMA WalkStepIs ==
    ASSUME IInv, WalkStep
    PROVE  Safe
<1> DEFINE w == walk.next
           next == NextOf(w)
<1>1. PICK S : S = Ui
    OBVIOUS
<1>2. PICK n : n = dialogs + jobs
    OBVIOUS
<1>3. /\ Fit(S) /\ n \in Nat /\ Counts(S, n) /\ S.win = win /\ all \in Seq(Win)
    BY <1>1, <1>2, Working, UiIs DEF UiRec
<1>4. PICK goes \in BOOLEAN : goes = (/\ win[w].path \in Below[walk.path]
                                      /\ walk.kind = "close" \/ win[w].path \notin exists)
    OBVIOUS
<1>5. PICK D : D = IF goes THEN CloseVisible(S, w) ELSE S
    OBVIOUS
<1>6. /\ Become(D) /\ w \in Range(all)
      /\ walk' = IF next = None THEN NoWalk ELSE [walk EXCEPT !.next = next]
      /\ UNCHANGED <<dialogs, jobs, exists, userMounted, unique, steps>>
    BY <1>1, <1>4, <1>5 DEF WalkStep
<1>7. w \in Win /\ IsOpen(S, w)
    <2>1. w \in Win /\ w \in Range(S.all)
        BY <1>1, <1>3, <1>6, UiIs DEF Range
    <2>. QED BY <1>3, <2>1 DEF Fit, Listed
<1>8. next \in Win \cup {None}
    <2> DEFINE i == CHOOSE k \in DOMAIN all : all[k] = w
    <2>1. \E k \in DOMAIN all : all[k] = w
        BY <1>6 DEF Range
    <2>2. i \in DOMAIN all
        BY <2>1
    <2>3. next = IF i = Len(all) THEN None ELSE all[i + 1]
        BY DEF NextOf
    <2> HIDE DEF i, next
    <2>4. i # Len(all) => i + 1 \in 1..Len(all)
        BY <1>3, <2>2
    <2>. QED BY <1>3, <2>3, <2>4
<1> HIDE DEF next
<1>9. Outside'
    <2>1. walk' \in [kind : {"none", "check", "close"}, path : Paths \cup {None},
                     next : Win \cup {None}]
        BY <1>6, <1>8 DEF IInv, Outside, NoWalk
    <2>2. walk.path # None
        BY <1>7, WindowsAssumption DEF IInv, Outside
    <2>3. walk'.next # None => walk'.path # None
        BY <1>6, <2>2 DEF IInv, Outside, NoWalk
    <2>. QED BY <1>6, <2>1, <2>3 DEF IInv, Outside
<1>10. /\ Fit(D) /\ Counts(D, n)
       /\ D.win[w] = S.win[w] \/ D.win[w] = Closed
       /\ \A o \in Win : D.win[o] = S.win[o] \/ D.win[o] = Closed
    <2>1. CASE goes
        <3>1. D = CloseVisible(S, w)
            BY <1>5, <2>1
        <3> HIDE DEF w
        <3>. QED BY <1>3, <1>7, <3>1, CloseVisibleIs
    <2>2. CASE ~goes
        BY <1>3, <1>5, <2>2
    <2>. QED BY <2>1, <2>2
<1>11. Keeps(S.win[w], D.win[w])
    <2>1. Formed(S.win[w])
        BY <1>3, <1>7 DEF Fit
    <2>. QED BY <1>10, <2>1, KeepsClosed, KeepsSame, SameTabsRefl
<1>12. KeepAll(S, D)
    <2> HIDE DEF w
    <2>. QED BY <1>3, <1>7, <1>10, <1>11, KeepOne
<1>. QED BY <1>1, <1>2, <1>3, <1>6, <1>9, <1>10, <1>12, SafeIs

\* All windows closed and nothing counted.
Empty(S) ==
    /\ S \in UiRec /\ \A w \in Win : S.win[w] = Closed
    /\ S.all = <<>> /\ S.modern = <<>> /\ S.owner = None /\ S.count = 0 /\ S.run = "off"
    /\ Len(S.saved.tabs) <= MaxTabs

LEMMA EmptyIs ==
    ASSUME NEW S, Empty(S)
    PROVE  Fit(S) /\ Counts(S, 0)
<1>1. \A w \in Win : Formed(S.win[w]) /\ ~IsOpen(S, w) /\ ~IsHost(S, w)
    BY ClosedIs DEF Empty, IsOpen, IsHost
<1>2. Range(<<>>) = {} /\ Single(<<>>) /\ Len(<<>>) = 0
    BY DEF Range, Single
<1>3. Listed(S)
    BY <1>1, <1>2 DEF Empty, Listed
<1>4. Paired(S) /\ Owned(S) /\ Twinless(S)
    BY <1>1 DEF Empty, Paired, Owned, Twinless
<1>. QED BY <1>1, <1>2, <1>3, <1>4 DEF Empty, Fit, Counts

\* The process is gone.
LEMMA DeadIs ==
    ASSUME IInv, Dead, steps' \in Nat
    PROVE  Safe
<1>1. PICK S : S = Ui
    OBVIOUS
<1>2. Fit(S) /\ S.saved = saved /\ S \in UiRec
    BY <1>1, Working, UiIs
<1>3. PICK D : D = [win |-> [w \in Win |-> Closed], all |-> <<>>, modern |-> <<>>,
                    owner |-> None, promote |-> FALSE, once |-> FALSE, count |-> 0,
                    run |-> "off", saved |-> saved]
    OBVIOUS
<1>4. Become(D)
    BY <1>3 DEF Dead, Become
<1>5. Empty(D)
    <2>1. /\ [w \in Win |-> Closed] \in [Win -> WinRec] /\ <<>> \in Seq(Win)
          /\ FALSE \in BOOLEAN /\ 0 \in Int /\ saved \in SessionRec
        BY <1>2, ClosedIs DEF UiRec
    <2>2. D \in UiRec
        BY <1>3, <2>1 DEF UiRec
    <2>3. Len(saved.tabs) <= MaxTabs
        BY <1>2 DEF Fit
    <2>. QED BY <1>3, <2>2, <2>3 DEF Empty
<1>6. Fit(D) /\ Counts(D, 0)
    BY <1>5, EmptyIs
<1>7. KeepAll(S, D)
    BY <1>5, KeepsClosed DEF KeepAll, Empty
<1>8. Outside'
    <2>1. walk' \in [kind : {"none", "check", "close"}, path : Paths \cup {None},
                     next : Win \cup {None}] /\ walk'.next = None
        BY DEF Dead, NoWalk
    <2>. QED BY <2>1 DEF IInv, Outside, Dead
<1>9. unique' = unique /\ 0 = dialogs' + jobs'
    BY DEF Dead
<1>. QED BY <1>1, <1>4, <1>6, <1>7, <1>8, <1>9, SafeIs

LEMMA WalkLostIs ==
    ASSUME IInv, WalkLost
    PROVE  Safe
<1>1. steps' \in Nat
    BY DEF WalkLost, IInv, Outside
<1>2. CASE Dead
    BY <1>1, <1>2, DeadIs
<1>3. CASE /\ walk' = NoWalk
           /\ UNCHANGED <<win, all, modern, owner, promote, once, count, run,
                          saved, dialogs, jobs, exists, userMounted, unique>>
    <2>1. walk' \in [kind : {"none", "check", "close"}, path : Paths \cup {None},
                     next : Win \cup {None}] /\ walk'.next = None
        BY <1>3 DEF NoWalk
    <2>2. Outside'
        BY <1>1, <1>3, <2>1 DEF IInv, Outside
    <2>. QED BY <1>3, <2>2, SafeSame
<1>. QED BY <1>2, <1>3 DEF WalkLost

LEMMA KillIs ==
    ASSUME IInv, Kill
    PROVE  Safe
<1>1. steps' \in Nat
    BY DEF Kill, Step, IInv, Outside
<1>. QED BY <1>1, DeadIs DEF Kill

LEMMA InitIs ==
    ASSUME Init
    PROVE  IInv
<1>1. PICK S : S = Ui
    OBVIOUS
<1>2. Empty(S)
    <2>1. /\ win \in [Win -> WinRec] /\ <<>> \in Seq(Win) /\ NoSession \in SessionRec
          /\ FALSE \in BOOLEAN /\ 0 \in Int /\ Len(NoSession.tabs) = 0
        <3>1. <<>> \in Seq(Paths) /\ FALSE \in BOOLEAN /\ 0 \in Nat
            OBVIOUS
        <3>2. NoSession \in SessionRec
            BY <3>1 DEF NoSession, SessionRec
        <3>3. win \in [Win -> WinRec]
            BY ClosedIs DEF Init
        <3>. QED BY <3>2, <3>3 DEF NoSession
    <2>2. S \in UiRec
        BY <1>1, <2>1 DEF Ui, UiRec, Init
    <2>. QED BY <1>1, <2>1, <2>2, UiIs, WindowsAssumption DEF Empty, Init
<1>3. Fit(S) /\ Counts(S, 0)
    BY <1>2, EmptyIs
<1>4. Outside /\ dialogs + jobs = 0
    BY DEF Init, Outside, NoWalk
<1>. QED BY <1>1, <1>3, <1>4 DEF IInv


----------------------------------------------------------------------------
(* The theorems.                                                            *)

LEMMA WindowActionIs ==
    ASSUME IInv, NEW w \in Win, WindowAction(w)
    PROVE  Safe
<1>1. CASE \E p \in Paths : OpenTab(w, p) \/ Navigate(w, p)
    BY <1>1, OpenTabIs, NavigateIs
<1>2. CASE \E k \in 1..MaxTabs : Activate(w, k) \/ CloseTab(w, k)
    BY <1>2, ActivateIs, CloseTabIs
<1>3. CASE \E kept \in {"active", "left"} : CloseTabs(w, kept)
    BY <1>3, CloseTabsIs
<1>4. CASE CloseLastTab(w) \/ Duplicate(w) \/ GoBack(w) \/ GoForward(w)
    BY <1>4, CloseLastTabIs, DuplicateIs, GoBackIs, GoForwardIs
<1>5. CASE SplitToggle(w) \/ TabIdle(w) \/ SplitIdle(w) \/ Close(w) \/ Up(w)
    BY <1>5, SplitToggleIs, TabIdleIs, SplitIdleIs, CloseIs, UpIs
<1>. QED BY <1>1, <1>2, <1>3, <1>4, <1>5 DEF WindowAction

LEMMA StepIs ==
    ASSUME IInv, [Next]_vars
    PROVE  Safe
<1>1. CASE \E w \in Win : WindowAction(w)
    BY <1>1, WindowActionIs
<1>2. CASE \E p \in Paths : Start(p) \/ OpenDir(p) \/ Vanish(p)
    BY <1>2, StartIs, OpenDirIs, VanishIs
<1>3. CASE \E p \in Paths, kind \in {"check", "close"} : StartWalk(kind, p)
    BY <1>3, StartWalkIs
<1>4. CASE \E yes \in BOOLEAN : Answer(yes)
    BY <1>4, AnswerIs
<1>5. CASE Unmounted \/ JobEnds \/ WalkStep \/ WalkLost \/ PromoteIdle \/ Kill
    BY <1>5, UnmountedIs, JobEndsIs, WalkStepIs, WalkLostIs, PromoteIdleIs, KillIs
<1>6. CASE UNCHANGED vars
    <2>1. Outside'
        BY <1>6 DEF IInv, Outside, vars
    <2>. QED BY <1>6, <2>1, SafeSame DEF vars
<1>. QED BY <1>1, <1>2, <1>3, <1>4, <1>5, <1>6 DEF Next

\* What the windows are at every moment.
THEOREM Invariant == Spec => []IInv
<1>1. Init => IInv
    BY InitIs
<1>2. IInv /\ [Next]_vars => IInv'
    BY StepIs DEF Safe
<1>. QED BY <1>1, <1>2, PTL DEF Spec

\* The list of windows names what is open, each window once; a history never grows
\* over its limit, nor the tabs over theirs, and the active tab is one of them.
THEOREM TypeCorrect == Spec => []TypeOK
<1>1. IInv => TypeOK
    <2> SUFFICES ASSUME IInv PROVE TypeOK
        OBVIOUS
    <2>1. /\ \A w \in Win : Formed(win[w])
          /\ all \in Seq(Win) /\ Single(all) /\ owner \in Win \cup {None}
          /\ \A w \in Win : w \in Range(all) <=> IsOpen(Ui, w)
          /\ count = Len(all) + (dialogs + jobs)
        BY UiIs DEF IInv, Fit, Listed, UiRec, Counts
    <2>2. dialogs \in Nat /\ jobs \in Nat /\ walk.next \in Win \cup {None}
        BY DEF IInv, Outside
    <2>3. ASSUME NEW w \in Win
          PROVE  /\ win[w].path \in Paths \cup {None}
                 /\ win[w].act \in 0..Len(win[w].tabs) /\ Len(win[w].tabs) <= MaxTabs
                 /\ Len(win[w].back) <= HistoryLimit /\ Len(win[w].fwd) <= HistoryLimit
                 /\ win[w].host \in Win \cup {None} /\ win[w].right \in Win \cup {None}
        BY <2>1 DEF Formed, WinRec, Hist
    <2>4. Range(all) = Open
        <3>1. \A w \in Win : w \in Open <=> IsOpen(Ui, w)
            BY UiIs DEF Open, IsOpen
        <3>2. Open \subseteq Win /\ Range(all) \subseteq Win
            BY <2>1 DEF Open, Range
        <3>. QED BY <2>1, <3>1, <3>2
    <2>5. Len(all) = Cardinality(Open) /\ Len(all) \in Nat
        <3>1. Len(all) \in Nat /\ DOMAIN all = 1..Len(all)
            BY <2>1
        <3>2. all \in [1..Len(all) -> Open]
            BY <2>1, <2>4, <3>1 DEF Range
        <3>3. all \in Bijection(1..Len(all), Open)
            BY <2>1, <2>4, <3>1, <3>2 DEF Single, Range, Bijection, Injection, Surjection,
               IsInjective
        <3>4. IsFiniteSet(1..Len(all)) /\ Cardinality(1..Len(all)) = Len(all)
            <4>1. PICK n \in Nat : n = Len(all)
                BY <3>1
            <4>2. 1 \in Int /\ n \in Int
                BY ONLY n \in Nat
            <4>3. IsFiniteSet(1..n) /\ Cardinality(1..n) = IF 1 > n THEN 0 ELSE n - 1 + 1
                BY ONLY <4>2, FS_Interval
            <4>4. Cardinality(1..n) = n
                BY ONLY <4>3, n \in Nat
            <4>. QED BY ONLY <4>1, <4>3, <4>4
        <3>. QED BY <3>1, <3>3, <3>4, FS_Bijection DEF ExistsBijection
    <2>6. count \in Nat
        BY <2>1, <2>2, <2>5
    <2>. QED BY <2>1, <2>2, <2>3, <2>4, <2>5, <2>6 DEF TypeOK
<1>. QED BY <1>1, Invariant, PTL

\* A second pane lives and dies with its host.
THEOREM PanesGoTogetherHolds == Spec => []PanesGoTogether
<1>1. IInv => PanesGoTogether
    <2> SUFFICES ASSUME IInv PROVE PanesGoTogether
        OBVIOUS
    <2>1. /\ \A w \in Win : Formed(win[w])
          /\ \A w \in Win : IsOpen(Ui, w) =>
                /\ win[w].host # None => IsHost(Ui, win[w].host) /\ win[win[w].host].right = w
                /\ win[w].right # None =>
                      IsOpen(Ui, win[w].right) /\ win[win[w].right].host = w
        BY UiIs DEF IInv, Fit, Paired
    <2>2. \A w \in Win : win[w].host \in Win \cup {None} /\ win[w].right \in Win \cup {None}
        BY <2>1 DEF Formed, WinRec
    <2>3. \A w \in Win : (w \in Open <=> IsOpen(Ui, w)) /\ (w \in Hosts <=> IsHost(Ui, w))
        BY UiIs DEF Open, Hosts, IsOpen, IsHost
    <2>4. Open \subseteq Win
        BY DEF Open
    <2>. QED BY <2>1, <2>2, <2>3, <2>4 DEF PanesGoTogether
<1>. QED BY <1>1, Invariant, PTL

\* The count that ends the process is that of what is open.
THEOREM CountIsWindowsHolds == Spec => []CountIsWindows
<1>1. IInv => CountIsWindows
    <2> SUFFICES ASSUME IInv PROVE CountIsWindows
        OBVIOUS
    <2>1. /\ count = Len(all) + (dialogs + jobs) /\ run = IF count > 0 THEN "on" ELSE "off"
          /\ all \in Seq(Win) /\ dialogs \in Nat /\ jobs \in Nat
        BY UiIs DEF IInv, Counts, Fit, UiRec, Outside
    <2>2. Len(all) \in Nat
        BY <2>1
    <2>3. CASE run = "on"
        BY <2>1, <2>2, <2>3 DEF CountIsWindows
    <2>4. CASE run # "on"
        <3>1. ~(count > 0)
            BY <2>1, <2>4
        <3>2. Len(all) = 0 /\ dialogs = 0 /\ jobs = 0
            BY <2>1, <2>2, <3>1
        <3>3. all = <<>>
            BY <2>1, <3>2
        <3>. QED BY <2>4, <3>2, <3>3 DEF CountIsWindows
    <2>. QED BY <2>3, <2>4
<1>. QED BY <1>1, Invariant, PTL

\* The session has an owner that is open, or is about to have one.
THEOREM OwnerServedHolds == Spec => []OwnerServed
<1>1. IInv => OwnerServed
    <2> SUFFICES ASSUME IInv PROVE OwnerServed
        OBVIOUS
    <2>1. /\ \A w \in Win : w \in Range(modern) <=> IsHost(Ui, w)
          /\ owner # None => IsHost(Ui, owner)
          /\ modern # <<>> /\ owner = None => promote
          /\ modern \in Seq(Win) /\ owner \in Win \cup {None}
        BY UiIs DEF IInv, Fit, Listed, Owned, UiRec
    <2>2. \A w \in Win : w \in Hosts <=> IsHost(Ui, w)
        BY UiIs DEF Open, Hosts, IsOpen, IsHost
    <2>3. Hosts \subseteq Win /\ Range(modern) \subseteq Win
        BY <2>1 DEF Open, Hosts, Range
    <2>4. Range(modern) = Hosts
        BY <2>1, <2>2, <2>3
    <2>. QED BY <2>1, <2>2, <2>4 DEF OwnerServed
<1>. QED BY <1>1, Invariant, PTL

\* No two unique windows are on one path.
THEOREM OneWindowPerPathHolds == Spec => []OneWindowPerPath
<1>1. IInv => OneWindowPerPath
    <2> SUFFICES ASSUME IInv PROVE OneWindowPerPath
        OBVIOUS
    <2>1. \A w \in Hosts : w \in Win /\ IsHost(Ui, w)
        BY UiIs DEF Open, Hosts, IsOpen, IsHost
    <2>. QED BY <2>1, UiIs DEF IInv, Fit, Twinless, OneWindowPerPath
<1>. QED BY <1>1, Invariant, PTL

\* A tab in the background keeps its place whatever is done to the others.
THEOREM TabsKeepTheirPlaceHolds == Spec => TabsKeepTheirPlace
<1> DEFINE Keep == \A w \in Hosts : \A i \in DOMAIN win[w].tabs \ {win[w].act} :
                       \A j \in DOMAIN win'[w].tabs :
                           win'[w].tabs[j].id = win[w].tabs[i].id =>
                              /\ win'[w].tabs[j] = win[w].tabs[i]
                              /\ j = win'[w].act => win'[w].path = win[w].tabs[i].path
<1>1. IInv /\ [Next]_vars => Keep
    <2> SUFFICES ASSUME IInv, [Next]_vars, NEW w \in Hosts PROVE
                        \A i \in DOMAIN win[w].tabs \ {win[w].act} :
                           \A j \in DOMAIN win'[w].tabs :
                              win'[w].tabs[j].id = win[w].tabs[i].id =>
                                 /\ win'[w].tabs[j] = win[w].tabs[i]
                                 /\ j = win'[w].act => win'[w].path = win[w].tabs[i].path
        OBVIOUS
    <2>1. Safe
        BY StepIs
    <2>2. PICK S : S = Ui
        OBVIOUS
    <2>3. PICK D : D = Ui'
        OBVIOUS
    <2>4. w \in Win /\ IsHost(S, w) /\ S.win = win /\ D.win = win'
        BY <2>2, <2>3, UiIs DEF Open, Hosts, IsOpen, IsHost, Ui
    <2>5. Keeps(win[w], win'[w])
        BY <2>1, <2>2, <2>3, <2>4 DEF Safe, KeepAll
    <2>6. Formed(win[w]) /\ Formed(win'[w])
        BY <2>1, <2>2, <2>3, <2>4 DEF Safe, IInv, Fit
    <2>7. DOMAIN win[w].tabs = 1..Len(win[w].tabs) /\ DOMAIN win'[w].tabs = 1..Len(win'[w].tabs)
        BY <2>6 DEF Formed, WinRec
    <2>. QED BY <2>5, <2>7 DEF Keeps
<1>. QED BY <1>1, Invariant, PTL DEF Spec, TabsKeepTheirPlace
=============================================================================
