---------------------------- MODULE ActionProofs ----------------------------
(***************************************************************************)
(* Questions and answers of an operation, for any number of items and of   *)
(* flags toggled: a question is on its way, on show, or its answer is, and *)
(* never two of these; so an answer is read for the item it was given      *)
(* about, and an item refused is left alone.                               *)
(***************************************************************************)
EXTENDS Action, SequenceTheorems, FiniteSetTheorems, TLAPS

Tags == Item \cup {0}
Messages == {"?", "C", "X", "s", "!", "D"} \X Tags
Chars == (Answers \cup {"Q", "F", "D", "X"}) \X Tags
PCs == {"forked", "flags", "reply", "close", "safe", "act", "done", "dead"}

Children == [pc : PCs, item : Item, ask : {"none", "?", "C"}, quiet : BOOLEAN,
             force : BOOLEAN, policy : {"ask", "replace", "skip", "newer", "none"}]
Guis == [alive : BOOLEAN, open : BOOLEAN, child : BOOLEAN, question : Tags,
         ask : {"none", "?", "C"}, quiet : BOOLEAN, force : BOOLEAN, errors : Nat,
         shown : BOOLEAN, timer : BOOLEAN, attempts : Nat]
Hists == [said : [Item -> Answers \cup {"none"}], risky : SUBSET Item,
          agreed : SUBSET Item, done : SUBSET Item, told : SUBSET Tags,
          closed : SUBSET Tags, forced : BOOLEAN, asking : BOOLEAN, exited : BOOLEAN]

Types ==
    /\ kind \in AllKinds /\ toggles \in Nat
    /\ child \in Children /\ gui \in Guis /\ hist \in Hists
    /\ toChild \in Seq(Chars) /\ toParent \in Seq(Messages)

IsAsk(m) == m[1] \in {"?", "C"}
IsAnswer(c) == c[1] \in Answers

NoAsk == \A k \in DOMAIN toParent : ~IsAsk(toParent[k])
NoAnswer == \A k \in DOMAIN toChild : ~IsAnswer(toChild[k])

\* The item at hand has not been answered about, nor anything done to it.
Open == hist.said[child.item] = "none" /\ child.item \notin hist.done

Waits == child.pc \in {"reply", "dead"}

\* A question on its way.
Asked ==
    \A k \in DOMAIN toParent : IsAsk(toParent[k]) =>
        /\ toParent[k][2] = child.item /\ Waits /\ Open /\ NoAnswer
        /\ gui.question = 0
        /\ \A l \in DOMAIN toParent : IsAsk(toParent[l]) => l = k

\* A question on show.
OnShow ==
    gui.question # 0 => gui.question = child.item /\ Waits /\ Open /\ NoAnswer

\* An answer on its way.
Told ==
    \A k \in DOMAIN toChild : IsAnswer(toChild[k]) =>
        /\ toChild[k] = <<hist.said[child.item], child.item>>
        /\ Waits /\ child.item \notin hist.done
        /\ \A l \in DOMAIN toChild : IsAnswer(toChild[l]) => l = k

Order ==
    /\ \A i \in hist.done : i <= child.item /\ hist.said[i] \notin {"N", "S"}
    /\ child.pc \notin {"done", "dead"} => child.item \notin hist.done
    /\ \A i \in Item : i > child.item => hist.said[i] = "none"
    /\ child.pc \in {"forked", "flags"} => hist.said[child.item] = "none"
    /\ child.pc \in {"close", "safe", "act"} => hist.said[child.item] \notin {"N", "S"}

IInv == Types /\ Asked /\ OnShow /\ Told /\ Order

----------------------------------------------------------------------------

Quiet(s) == s \in Seq(Messages) /\ \A k \in DOMAIN s : ~IsAsk(s[k])

LEMMA QuietOne == \A m \in Messages : ~IsAsk(m) => Quiet(<<m>>)
BY DEF Quiet

LEMMA QuietNone == Quiet(<<>>)
BY DEF Quiet

LEMMA QuietConcat == \A s, t : Quiet(s) /\ Quiet(t) => Quiet(s \o t)
<1> SUFFICES ASSUME NEW s, NEW t, Quiet(s), Quiet(t) PROVE Quiet(s \o t)
    OBVIOUS
<1>1. s \in Seq(Messages) /\ t \in Seq(Messages) /\ s \o t \in Seq(Messages)
    BY DEF Quiet
<1>2. ASSUME NEW k \in DOMAIN (s \o t) PROVE ~IsAsk((s \o t)[k])
    <2>1. CASE k <= Len(s)
        BY <1>1, <2>1 DEF Quiet
    <2>2. CASE k > Len(s)
        <3>1. k - Len(s) \in DOMAIN t /\ (s \o t)[k] = t[k - Len(s)]
            BY <1>1, <2>2
        <3>. QED BY <3>1 DEF Quiet
    <2>. QED BY <1>1, <2>1, <2>2
<1>. QED BY <1>1, <1>2 DEF Quiet

\* What is sent that is not a question leaves the questions where they are.
NoNewAsk ==
    /\ toParent' \in Seq(Messages)
    /\ \A k \in DOMAIN toParent' : IsAsk(toParent'[k]) =>
          k \in DOMAIN toParent /\ toParent'[k] = toParent[k]

LEMMA SendQuiet == Types => \A s : Quiet(s) /\ Send(s) => NoNewAsk
<1> SUFFICES ASSUME Types, NEW s, Quiet(s), Send(s) PROVE NoNewAsk
    OBVIOUS
<1>1. CASE toParent' = toParent
    BY <1>1 DEF Types, NoNewAsk
<1>2. CASE toParent' = toParent \o s
    <2>1. toParent \in Seq(Messages) /\ s \in Seq(Messages)
        BY DEF Types, Quiet
    <2>2. ASSUME NEW k \in DOMAIN toParent', IsAsk(toParent'[k])
          PROVE  k \in DOMAIN toParent /\ toParent'[k] = toParent[k]
        <3>1. CASE k <= Len(toParent)
            BY <1>2, <2>1, <3>1
        <3>2. CASE k > Len(toParent)
            <4>1. k - Len(toParent) \in DOMAIN s /\ toParent'[k] = s[k - Len(toParent)]
                BY <1>2, <2>1, <3>2
            <4>. QED BY <4>1, <2>2 DEF Quiet
        <3>. QED BY <1>2, <2>1, <3>1, <3>2
    <2>. QED BY <1>2, <2>1, <2>2 DEF NoNewAsk
<1>. QED BY <1>1, <1>2 DEF Send

\* What is sent with the end of an item.
LEMMA DoneWithQuiet ==
    Types => \A c \in Children : \A s : Quiet(s) /\ DoneWith(c, s) => NoNewAsk
<1> SUFFICES ASSUME Types, NEW c \in Children, NEW s, Quiet(s), DoneWith(c, s)
             PROVE  NoNewAsk
    OBVIOUS
<1>1. Quiet(<<<<"s", c.item>>>>)
    BY QuietOne DEF Messages, IsAsk, Children, Tags
<1>2. Quiet(s \o (IF kind = "delete_permanently" THEN <<<<"s", c.item>>>> ELSE <<>>))
    BY <1>1, QuietNone, QuietConcat
<1>. QED BY <1>2, SendQuiet DEF DoneWith

\* While the child is busy nothing is asked or answered.
LEMMA Calm ==
    ASSUME IInv, ~Waits PROVE NoAsk /\ NoAnswer /\ gui.question = 0
BY DEF IInv, Asked, OnShow, Told, NoAsk, NoAnswer

LEMMA StaysCalm ==
    ASSUME NoAsk', NoAnswer', gui'.question = 0 PROVE Asked' /\ OnShow' /\ Told'
BY DEF Asked, OnShow, Told, NoAsk, NoAnswer

LEMMA StillNoAsk == ASSUME NoAsk, NoNewAsk PROVE NoAsk'
BY DEF NoAsk, NoNewAsk

LEMMA NextItemIs ==
    \A c \in Children :
        /\ NextItem(c) \in Children
        /\ \/ NextItem(c).item = c.item /\ NextItem(c).pc = "done"
           \/ NextItem(c).item = c.item + 1 /\ NextItem(c).pc = "flags"
<1> SUFFICES ASSUME NEW c \in Children
             PROVE  /\ NextItem(c) \in Children
                    /\ \/ NextItem(c).item = c.item /\ NextItem(c).pc = "done"
                       \/ NextItem(c).item = c.item + 1 /\ NextItem(c).pc = "flags"
    OBVIOUS
<1>1. N \in Nat
    BY ActionAssumption
<1>2. CASE c.item = N
    BY <1>1, <1>2 DEF Children, NextItem, PCs
<1>3. CASE c.item # N
    <2>1. c.item + 1 \in Item
        BY <1>1, <1>3 DEF Children, Item
    <2>. QED BY <1>1, <1>3, <2>1 DEF Children, NextItem, PCs
<1>. QED BY <1>2, <1>3

\* The next item has not been asked about.
LEMMA NextItemInOrder ==
    ASSUME IInv, child.pc \notin {"done", "dead"}, UNCHANGED <<hist, kind, toggles, gui>>,
           child' = NextItem(child), toParent' \in Seq(Messages), toChild' \in Seq(Chars)
    PROVE  Types' /\ Order' /\ ~Waits'
<1>1. child \in Children /\ child' \in Children
    BY NextItemIs DEF IInv, Types
<1>2. Types'
    BY <1>1 DEF IInv, Types
<1>3. \/ child'.item = child.item /\ child'.pc = "done"
      \/ child'.item = child.item + 1 /\ child'.pc = "flags"
    BY <1>1, NextItemIs
<1>4. Order'
    BY <1>1, <1>3, ActionAssumption DEF IInv, Order, Types, Children, Hists, Item
<1>. QED BY <1>2, <1>3, <1>4 DEF Waits

LEMMA HeadTail ==
    ASSUME Types, toChild # <<>>, toChild' = Tail(toChild)
    PROVE  /\ Head(toChild) \in Chars /\ toChild' \in Seq(Chars)
           /\ 1 \in DOMAIN toChild /\ Head(toChild) = toChild[1]
           /\ \A k \in DOMAIN toChild' : k + 1 \in DOMAIN toChild /\ toChild'[k] = toChild[k + 1]
BY DEF Types

----------------------------------------------------------------------------

LEMMA SetPgidKeeps == ASSUME IInv, SetPgid PROVE IInv'
<1>1. NoAsk' /\ NoAnswer' /\ gui'.question = 0
    BY Calm DEF SetPgid, Waits, NoAsk, NoAnswer
<1>2. Types' /\ Order'
    BY DEF SetPgid, IInv, Types, Children, PCs, Order
<1>. QED BY <1>1, <1>2, StaysCalm DEF IInv

LEMMA FlagKeeps ==
    ASSUME IInv, NEW f, process_flag(f)
    PROVE  /\ child' \in Children /\ UNCHANGED hist
           /\ child'.pc = child.pc /\ child'.item = child.item
           /\ NoNewAsk
<1>1. child' \in Children /\ child'.pc = child.pc /\ child'.item = child.item
    BY DEF IInv, Types, Children, process_flag
<1>2. Quiet(<<<<"!", 0>>>>)
    BY QuietOne DEF Messages, Tags, IsAsk
<1>3. NoNewAsk
    <2>1. CASE UNCHANGED toParent
        BY <2>1 DEF NoNewAsk, IInv, Types
    <2>2. CASE Send(<<<<"!", 0>>>>)
        BY <2>2, <1>2, SendQuiet DEF IInv
    <2>. QED BY <2>1, <2>2 DEF process_flag
<1>. QED BY <1>1, <1>3 DEF process_flag

LEMMA CheckFlagKeeps == ASSUME IInv, CheckFlag PROVE IInv'
<1>1. NoAsk /\ NoAnswer /\ gui.question = 0
    BY Calm DEF CheckFlag, Waits
<1>2. CASE toChild # <<>> /\ process_flag(Head(toChild)[1]) /\ toChild' = Tail(toChild)
    <2>1. /\ child' \in Children /\ UNCHANGED hist
          /\ child'.pc = child.pc /\ child'.item = child.item /\ NoNewAsk
        BY <1>2, FlagKeeps
    <2>2. toChild' \in Seq(Chars) /\ NoAnswer'
        BY <1>1, <1>2, HeadTail DEF IInv, NoAnswer
    <2>3. NoAsk'
        BY <1>1, <2>1, StillNoAsk
    <2>4. Types' /\ Order'
        BY <2>1, <2>2 DEF CheckFlag, IInv, Types, NoNewAsk, Order
    <2>. QED BY <1>1, <2>2, <2>3, <2>4, StaysCalm DEF IInv, CheckFlag
<1>3. CASE UNCHANGED <<toChild, toParent, hist>> /\ child' = [child EXCEPT !.pc = "dead"]
    <2>1. Types' /\ Order'
        BY <1>3 DEF CheckFlag, IInv, Types, Children, PCs, Order
    <2>. QED BY <1>1, <1>3, <2>1, StaysCalm DEF IInv, CheckFlag, NoAsk, NoAnswer
<1>. QED BY <1>2, <1>3 DEF CheckFlag

\* What a look at an item makes of it, without a question.
LEMMA GoneOn ==
    ASSUME IInv, NoAsk, NoAnswer, gui.question = 0, NoNewAsk, Types', Order',
           UNCHANGED <<toChild, gui>>
    PROVE  IInv'
BY StillNoAsk, StaysCalm DEF IInv, NoAnswer

LEMMA LookKeeps == ASSUME IInv, Look PROVE IInv'
<1>1. NoAsk /\ NoAnswer /\ gui.question = 0
    BY Calm DEF Look, Waits
<1>2. child \in Children /\ child.item \in Item /\ child.pc = "flags"
    BY DEF Look, IInv, Types, Children
<1>3. CASE DoneWith(child, <<<<"!", child.item>>>>) /\ UNCHANGED hist
    <2>1. NoNewAsk
        BY <1>2, <1>3, QuietOne, DoneWithQuiet DEF IInv, Types, Messages, Tags, IsAsk
    <2>2. Types' /\ Order'
        BY <1>2, <1>3, <2>1, NextItemInOrder DEF Look, DoneWith, NoNewAsk, IInv, Types
    <2>. QED BY <1>1, <2>1, <2>2, GoneOn DEF Look
<1>4. ASSUME NEW risky \in BOOLEAN, NEW d \in Decision(child, risky),
             \/ d = "skip" /\ DoneWith(child, <<>>)
             \/ d = "go" /\ child' = Agreed(child) /\ UNCHANGED toParent
             \/ /\ d \in {"?", "C"}
                /\ child' = [child EXCEPT !.pc = "reply", !.ask = d]
                /\ Send(<<<<d, child.item>>>>),
             hist' = [hist EXCEPT !.risky = IF risky THEN @ \cup {child.item} ELSE @,
                                  !.agreed = IF d = "go" THEN @ \cup {child.item} ELSE @]
      PROVE  IInv'
    <2>1. hist' \in Hists /\ hist'.said = hist.said /\ hist'.done = hist.done
        BY <1>2, <1>4 DEF IInv, Types, Hists
    <2>2. CASE d = "skip" /\ DoneWith(child, <<>>)
        <3>1. NoNewAsk
            BY <2>2, QuietNone, DoneWithQuiet DEF IInv, Types
        <3>2. \/ child'.item = child.item /\ child'.pc = "done"
              \/ child'.item = child.item + 1 /\ child'.pc = "flags"
            BY <1>2, <2>2, NextItemIs DEF DoneWith
        <3>3. child' \in Children
            BY <1>2, <2>2, NextItemIs DEF DoneWith
        <3>4. Types'
            BY <2>1, <3>1, <3>3 DEF Look, NoNewAsk, IInv, Types
        <3>5. Order'
            BY <1>2, <2>1, <3>2, <3>3 DEF IInv, Types, Hists, Children, Order, Item
        <3>. QED BY <1>1, <3>1, <3>4, <3>5, GoneOn DEF Look
    <2>3. CASE d = "go" /\ child' = Agreed(child) /\ UNCHANGED toParent
        <3>1. child' \in Children /\ child'.item = child.item /\ child'.pc \in {"close", "act"}
            BY <1>2, <2>3 DEF Agreed, Children, PCs
        <3>2. Types' /\ NoNewAsk
            BY <2>1, <2>3, <3>1 DEF Look, IInv, Types, NoNewAsk
        <3>3. Order'
            BY <1>2, <2>1, <3>1 DEF IInv, Order
        <3>. QED BY <1>1, <3>2, <3>3, GoneOn DEF Look
    <2>4. CASE /\ d \in {"?", "C"}
               /\ child' = [child EXCEPT !.pc = "reply", !.ask = d]
               /\ Send(<<<<d, child.item>>>>)
        <3>1. child' \in Children /\ child'.item = child.item /\ child'.pc = "reply"
            BY <1>2, <2>4 DEF Children, PCs
        <3>2. toParent' = toParent \o <<<<d, child.item>>>>
            BY <2>4 DEF Send, Look
        <3>3. toParent' \in Seq(Messages)
            BY <1>2, <2>4, <3>2 DEF IInv, Types, Messages, Tags
        <3>4. Types'
            BY <2>1, <3>1, <3>3 DEF Look, IInv, Types
        <3>5. Order'
            BY <1>2, <2>1, <3>1 DEF IInv, Order
        <3>6. Open' /\ NoAnswer' /\ gui'.question = 0 /\ Waits'
            BY <1>1, <1>2, <2>1, <3>1 DEF Look, IInv, Order, Open, NoAnswer, Waits
        <3>7. \A k \in DOMAIN toParent' : IsAsk(toParent'[k]) =>
                 k = Len(toParent) + 1 /\ toParent'[k] = <<d, child.item>>
            BY <1>1, <3>2 DEF NoAsk, IInv, Types
        <3>8. Asked'
            BY <3>1, <3>6, <3>7 DEF Asked
        <3>9. OnShow' /\ Told'
            BY <3>6 DEF OnShow, Told, NoAnswer
        <3>. QED BY <3>4, <3>5, <3>8, <3>9 DEF IInv
    <2>. QED BY <1>4, <2>2, <2>3, <2>4
<1>. QED BY <1>3, <1>4 DEF Look

LEMMA ReplyKeeps == ASSUME IInv, Reply PROVE IInv'
<1>1. child \in Children /\ child.item \in Item /\ child.pc = "reply"
    BY DEF Reply, IInv, Types, Children
<1>2. CASE UNCHANGED <<toChild, toParent, hist>> /\ child' = [child EXCEPT !.pc = "dead"]
    <2>1. child' \in Children /\ child'.item = child.item /\ child'.pc = "dead"
        BY <1>1, <1>2 DEF Children, PCs
    <2>2. Types' /\ Order'
        BY <1>2, <2>1 DEF Reply, IInv, Types, Order
    <2>3. Open' = Open /\ NoAnswer' = NoAnswer /\ Waits'
        BY <1>2, <2>1 DEF Open, NoAnswer, Waits
    <2>. QED BY <1>2, <2>1, <2>2, <2>3 DEF Reply, IInv, Asked, OnShow, Told
<1>3. ASSUME toChild # <<>>, toChild' = Tail(toChild),
             process_flag(Head(toChild)[1])
      PROVE  IInv'
    <2>1. /\ child' \in Children /\ UNCHANGED hist
          /\ child'.pc = child.pc /\ child'.item = child.item /\ NoNewAsk
        BY <1>3, FlagKeeps
    <2>2. /\ toChild' \in Seq(Chars)
          /\ \A k \in DOMAIN toChild' :
                k + 1 \in DOMAIN toChild /\ toChild'[k] = toChild[k + 1]
        BY <1>3, HeadTail DEF IInv
    <2>3. Types' /\ Order'
        BY <2>1, <2>2 DEF Reply, IInv, Types, NoNewAsk, Order
    <2>4. Open' = Open /\ Waits' = Waits /\ (NoAnswer => NoAnswer')
        BY <2>1, <2>2 DEF Open, Waits, NoAnswer
    <2>5. Asked' /\ OnShow'
        BY <2>1, <2>4 DEF Reply, IInv, Asked, OnShow, NoNewAsk
    <2>6. Told'
        BY <2>1, <2>2, <2>4 DEF IInv, Types, Told
    <2>. QED BY <2>3, <2>5, <2>6 DEF IInv
<1>4. ASSUME toChild # <<>>, toChild' = Tail(toChild), IsAnswer(Head(toChild)),
             NEW c \in Children, c.item = child.item,
             \/ /\ Head(toChild)[1] \notin {"N", "S"}
                /\ child' = Agreed(c)
                /\ hist' = [hist EXCEPT !.agreed = @ \cup {child.item}]
                /\ UNCHANGED toParent
             \/ DoneWith(c, <<>>) /\ UNCHANGED hist
      PROVE  IInv'
    <2>1. /\ toChild' \in Seq(Chars) /\ 1 \in DOMAIN toChild /\ Head(toChild) = toChild[1]
          /\ \A k \in DOMAIN toChild' :
                k \in Nat /\ k + 1 \in DOMAIN toChild /\ toChild'[k] = toChild[k + 1]
        BY <1>4, HeadTail DEF IInv, Types
    <2>2. hist.said[child.item] = Head(toChild)[1]
        BY <1>4, <2>1 DEF IInv, Told
    <2>3. NoAnswer'
        <3> SUFFICES ASSUME NEW k \in DOMAIN toChild', IsAnswer(toChild'[k]) PROVE FALSE
            BY DEF NoAnswer
        <3>1. k + 1 = 1
            BY <1>4, <2>1 DEF IInv, Told
        <3>. QED BY <2>1, <3>1 DEF IInv, Types
    <2>4. NoAsk /\ gui.question = 0
        BY <1>4, <2>1 DEF IInv, Asked, OnShow, NoAsk, NoAnswer
    <2>5. CASE /\ Head(toChild)[1] \notin {"N", "S"}
               /\ child' = Agreed(c)
               /\ hist' = [hist EXCEPT !.agreed = @ \cup {child.item}]
               /\ UNCHANGED toParent
        <3>1. child' \in Children /\ child'.item = child.item /\ child'.pc \in {"close", "act"}
            BY <1>4, <2>5 DEF Agreed, Children, PCs
        <3>2. hist' \in Hists /\ hist'.said = hist.said /\ hist'.done = hist.done
            BY <1>1, <2>5 DEF IInv, Types, Hists
        <3>3. Types' /\ NoAsk'
            BY <2>1, <2>4, <2>5, <3>1, <3>2 DEF Reply, IInv, Types, NoAsk
        <3>4. Order'
            BY <1>1, <2>2, <2>5, <3>1, <3>2 DEF IInv, Order
        <3>. QED BY <2>3, <2>4, <3>3, <3>4, StaysCalm DEF Reply, IInv
    <2>6. CASE DoneWith(c, <<>>) /\ UNCHANGED hist
        <3>1. NoNewAsk
            BY <1>4, <2>6, QuietNone, DoneWithQuiet DEF IInv
        <3>2. \/ child'.item = child.item /\ child'.pc = "done"
              \/ child'.item = child.item + 1 /\ child'.pc = "flags"
            BY <1>4, <2>6, NextItemIs DEF DoneWith
        <3>3. child' \in Children
            BY <1>4, <2>6, NextItemIs DEF DoneWith
        <3>4. Types' /\ NoAsk'
            BY <2>1, <2>4, <2>6, <3>1, <3>3, StillNoAsk DEF Reply, NoNewAsk, IInv, Types
        <3>5. Order'
            BY <1>1, <2>6, <3>2, <3>3 DEF IInv, Types, Hists, Children, Order, Item
        <3>. QED BY <2>3, <2>4, <3>4, <3>5, StaysCalm DEF Reply, IInv
    <2>. QED BY <1>4, <2>5, <2>6
<1>5. ASSUME toChild # <<>>, toChild' = Tail(toChild),
             Head(toChild)[1] \in {"Y", "A"},
             child' = Agreed([child EXCEPT !.policy =
                                 IF Head(toChild)[1] = "A" THEN "replace" ELSE @]),
             hist' = [hist EXCEPT !.agreed = @ \cup {child.item}],
             UNCHANGED toParent
      PROVE  IInv'
    <2> DEFINE c == [child EXCEPT !.policy = IF Head(toChild)[1] = "A" THEN "replace" ELSE @]
    <2>1. c \in Children /\ c.item = child.item
        BY <1>1 DEF Children
    <2>2. IsAnswer(Head(toChild)) /\ Head(toChild)[1] \notin {"N", "S"}
        BY <1>5 DEF IsAnswer, Answers
    <2>. QED BY <1>4, <1>5, <2>1, <2>2
<1>6. ASSUME toChild # <<>>, toChild' = Tail(toChild),
             Head(toChild)[1] \in {"N", "S"},
             DoneWith([child EXCEPT !.policy =
                          IF Head(toChild)[1] = "S" THEN "skip" ELSE @], <<>>),
             UNCHANGED hist
      PROVE  IInv'
    <2> DEFINE c == [child EXCEPT !.policy = IF Head(toChild)[1] = "S" THEN "skip" ELSE @]
    <2>1. c \in Children /\ c.item = child.item
        BY <1>1 DEF Children
    <2>2. IsAnswer(Head(toChild))
        BY <1>6 DEF IsAnswer, Answers
    <2>. QED BY <1>4, <1>6, <2>1, <2>2
<1>. QED BY <1>2, <1>3, <1>5, <1>6 DEF Reply

LEMMA SendCloseKeeps == ASSUME IInv, SendClose PROVE IInv'
<1>1. NoAsk /\ NoAnswer /\ gui.question = 0
    BY Calm DEF SendClose, Waits
<1>2. child \in Children /\ child' \in Children /\ child'.item = child.item /\ child'.pc = "safe"
    BY DEF SendClose, IInv, Types, Children, PCs
<1>3. NoNewAsk
    <2>1. Quiet(<<<<"X", child.item>>>>)
        BY <1>2, QuietOne DEF Messages, Tags, IsAsk, Children
    <2>. QED BY <2>1, SendQuiet DEF SendClose, IInv
<1>4. Types' /\ Order'
    BY <1>2, <1>3 DEF SendClose, IInv, Types, NoNewAsk, Order
<1>. QED BY <1>1, <1>3, <1>4, GoneOn DEF SendClose

LEMMA ReadSafeKeeps == ASSUME IInv, ReadSafe PROVE IInv'
<1>1. NoAsk /\ NoAnswer /\ gui.question = 0
    BY Calm DEF ReadSafe, Waits
<1>2. toChild' \in Seq(Chars) /\ NoAnswer'
    <2>1. CASE toChild = <<>>
        BY <2>1 DEF ReadSafe, NoAnswer
    <2>2. CASE toChild # <<>>
        BY <1>1, <2>2, HeadTail DEF ReadSafe, IInv, NoAnswer
    <2>. QED BY <2>1, <2>2
<1>3. CASE child' = [child EXCEPT !.pc = "act"]
    <2>1. child' \in Children /\ child'.item = child.item /\ child'.pc = "act"
          /\ child.pc = "safe"
        BY <1>3 DEF ReadSafe, IInv, Types, Children, PCs
    <2>2. Types' /\ Order'
        BY <1>2, <2>1 DEF ReadSafe, IInv, Types, Order
    <2>. QED BY <1>1, <1>2, <2>2, StaysCalm DEF ReadSafe, IInv, NoAsk
<1>4. CASE child' = NextItem(child)
    <2>1. Types' /\ Order'
        BY <1>2, <1>4, NextItemInOrder DEF ReadSafe, IInv, Types
    <2>. QED BY <1>1, <1>2, <2>1, StaysCalm DEF ReadSafe, IInv, NoAsk
<1>. QED BY <1>3, <1>4 DEF ReadSafe

LEMMA ActKeeps == ASSUME IInv, Act PROVE IInv'
<1>1. NoAsk /\ NoAnswer /\ gui.question = 0
    BY Calm DEF Act, Waits
<1>2. child \in Children /\ child.item \in Item /\ child.pc = "act"
    BY DEF Act, IInv, Types, Children
<1>3. PICK ok \in BOOLEAN :
         /\ DoneWith(child, (IF ok THEN <<>> ELSE <<<<"!", child.item>>>>)
                         \o (IF ok \/ kind = "eject" THEN <<<<"s", child.item>>>> ELSE <<>>))
         /\ hist' = [hist EXCEPT !.done = @ \cup {child.item}]
    BY DEF Act
<1>4. NoNewAsk
    <2>1. Quiet(<<<<"!", child.item>>>>) /\ Quiet(<<<<"s", child.item>>>>) /\ Quiet(<<>>)
        BY <1>2, QuietOne, QuietNone DEF Messages, Tags, IsAsk
    <2>2. Quiet((IF ok THEN <<>> ELSE <<<<"!", child.item>>>>)
                \o (IF ok \/ kind = "eject" THEN <<<<"s", child.item>>>> ELSE <<>>))
        BY <2>1, QuietConcat
    <2>. QED BY <1>2, <1>3, <2>2, DoneWithQuiet DEF IInv
<1>5. /\ child' \in Children
      /\ \/ child'.item = child.item /\ child'.pc = "done"
         \/ child'.item = child.item + 1 /\ child'.pc = "flags"
    BY <1>2, <1>3, NextItemIs DEF DoneWith
<1>6. hist' \in Hists /\ hist'.said = hist.said /\ hist'.done = hist.done \cup {child.item}
    BY <1>2, <1>3 DEF IInv, Types, Hists
<1>7. Types'
    BY <1>4, <1>5, <1>6 DEF Act, NoNewAsk, IInv, Types
<1>8. Order'
    BY <1>2, <1>5, <1>6 DEF IInv, Types, Hists, Children, Order, Item
<1>. QED BY <1>1, <1>4, <1>7, <1>8, GoneOn DEF Act

LEMMA EndKeeps == ASSUME IInv, End PROVE IInv'
<1>1. NoAsk /\ NoAnswer /\ gui.question = 0
    BY Calm DEF End, Waits
<1>2. child' \in Children /\ child'.item = child.item /\ child'.pc = "dead"
    BY DEF End, IInv, Types, Children, PCs
<1>3. NoNewAsk
    <2>1. Quiet(<<<<"D", 0>>>>)
        BY QuietOne DEF Messages, Tags, IsAsk
    <2>. QED BY <2>1, SendQuiet DEF End, IInv
<1>4. Types' /\ Order'
    BY <1>2, <1>3 DEF End, IInv, Types, NoNewAsk, Order
<1>. QED BY <1>1, <1>3, <1>4, GoneOn DEF End

----------------------------------------------------------------------------
(* The filer *)

\* The window goes: nothing is on show, nothing new is asked.
LEMMA WindowGoes ==
    ASSUME IInv, UNCHANGED <<child, toChild, kind, toggles>>,
           gui' \in Guis, gui'.question = 0,
           hist' \in Hists, hist'.said = hist.said, hist'.done = hist.done,
           toParent' = toParent \/ toParent' = <<>>
    PROVE  IInv'
<1>1. toParent' \in Seq(Messages) /\ (toParent' = toParent \/ DOMAIN toParent' = {})
    <2>1. CASE toParent' = toParent
        BY <2>1 DEF IInv, Types
    <2>2. CASE toParent' = <<>>
        BY <2>2
    <2>. QED BY <2>1, <2>2
<1>2. Types' /\ Order'
    BY <1>1 DEF IInv, Types, Order
<1>3. Open' = Open /\ NoAnswer' = NoAnswer /\ Waits' = Waits
    BY DEF Open, NoAnswer, Waits
<1>4. Asked' /\ OnShow' /\ Told'
    BY <1>1, <1>3 DEF IInv, Asked, OnShow, Told
<1>. QED BY <1>2, <1>4 DEF IInv

LEMMA FinishIs ==
    \A g \in Guis : finish_action(g) \in Guis /\ finish_action(g).question = 0
<1> SUFFICES ASSUME NEW g \in Guis
             PROVE  finish_action(g) \in Guis /\ finish_action(g).question = 0
    OBVIOUS
<1>1. (g.alive /\ g.errors > 0) \in BOOLEAN /\ (g.errors > 0) \in BOOLEAN /\ 0 \in Tags
    BY DEF Tags
<1> DEFINE a == g.alive /\ g.errors > 0
           s == g.errors > 0
<1>2. finish_action(g) = [g EXCEPT !.open = FALSE, !.child = FALSE, !.question = 0,
                                   !.timer = FALSE, !.alive = a, !.shown = s]
    BY DEF finish_action, Guis
<1>3. a \in BOOLEAN /\ s \in BOOLEAN
    BY <1>1
<1>4. \A x, y \in BOOLEAN :
         LET h == [g EXCEPT !.open = FALSE, !.child = FALSE, !.question = 0,
                            !.timer = FALSE, !.alive = x, !.shown = y]
         IN  h \in Guis /\ h.question = 0
    <2> SUFFICES ASSUME NEW x \in BOOLEAN, NEW y \in BOOLEAN,
                        NEW h, h = [g EXCEPT !.open = FALSE, !.child = FALSE, !.question = 0,
                                             !.timer = FALSE, !.alive = x, !.shown = y]
                 PROVE  h \in Guis /\ h.question = 0
        OBVIOUS
    <2>1. g \in Guis /\ 0 \in Tags
        BY <1>1
    <2> HIDE DEF a, s
    <2>2. PICK b : b = [g EXCEPT !.open = FALSE, !.child = FALSE, !.question = 0]
        OBVIOUS
    <2>3. b \in Guis /\ b.question = 0
        BY ONLY <2>1, <2>2 DEF Guis
    <2>4. h = [b EXCEPT !.timer = FALSE, !.alive = x, !.shown = y]
        BY ONLY <2>2, h = [g EXCEPT !.open = FALSE, !.child = FALSE, !.question = 0,
                                    !.timer = FALSE, !.alive = x, !.shown = y]
    <2>5. PICK m : m = [b EXCEPT !.timer = FALSE]
        OBVIOUS
    <2>6. m \in Guis /\ m.question = 0
        BY ONLY <2>3, <2>5 DEF Guis
    <2>7. h = [m EXCEPT !.alive = x, !.shown = y]
        BY ONLY <2>4, <2>5
    <2>. QED BY ONLY <2>6, <2>7, x \in BOOLEAN, y \in BOOLEAN DEF Guis
<1> HIDE DEF a, s
<1>. QED BY <1>2, <1>3, <1>4

LEMMA HangUpKeeps == ASSUME IInv, HangUp PROVE IInv'
<1>1. gui' \in Guis /\ gui'.question = 0
    BY FinishIs DEF HangUp, IInv, Types
<1>2. hist' \in Hists /\ hist'.said = hist.said /\ hist'.done = hist.done
    BY DEF HangUp, IInv, Types
<1>. QED BY <1>1, <1>2, WindowGoes DEF HangUp

LEMMA FilerExitKeeps == ASSUME IInv, FilerExit PROVE IInv'
<1>1. gui' \in Guis /\ gui'.question = 0
    BY DEF FilerExit, IInv, Types, Guis, Tags
<1>2. hist' \in Hists /\ hist'.said = hist.said /\ hist'.done = hist.done
    BY DEF FilerExit, IInv, Types, Hists
<1>. QED BY <1>1, <1>2, WindowGoes DEF FilerExit

\* What is sent to the child that is no answer leaves the answers where they are.
NoNewAnswer ==
    /\ toChild' \in Seq(Chars)
    /\ \A k \in DOMAIN toChild' : IsAnswer(toChild'[k]) =>
          k \in DOMAIN toChild /\ toChild'[k] = toChild[k]

LEMMA AppendQuiet ==
    ASSUME Types, NEW c \in Chars, ~IsAnswer(c), toChild' = Append(toChild, c)
    PROVE  NoNewAnswer
<1>1. toChild \in Seq(Chars) /\ toChild' \in Seq(Chars)
    BY DEF Types
<1>2. ASSUME NEW k \in DOMAIN toChild', IsAnswer(toChild'[k])
      PROVE  k \in DOMAIN toChild /\ toChild'[k] = toChild[k]
    <2>1. k # Len(toChild) + 1
        BY <1>1, <1>2
    <2>. QED BY <1>1, <1>2, <2>1
<1>. QED BY <1>1, <1>2 DEF NoNewAnswer

\* The window changes in nothing that a question or an answer depends on.
LEMMA WindowKeeps ==
    ASSUME IInv, gui' \in Guis, gui'.question = gui.question,
           hist' \in Hists, hist'.said = hist.said, hist'.done = hist.done,
           child' \in Children, child'.item = child.item, child'.pc \in {child.pc, "dead"},
           toggles' \in Nat, toParent' = toParent, kind' = kind, NoNewAnswer
    PROVE  IInv'
<1>1. Types' /\ Order'
    BY DEF IInv, Types, Order, NoNewAnswer
<1>2. Open' = Open /\ (NoAnswer => NoAnswer') /\ (Waits => Waits')
    BY DEF Open, NoAnswer, Waits, NoNewAnswer
<1>3. Asked' /\ OnShow'
    BY <1>2 DEF IInv, Asked, OnShow
<1>4. Told'
    BY <1>2 DEF IInv, Told, NoNewAnswer
<1>. QED BY <1>1, <1>3, <1>4 DEF IInv

LEMMA SameChars == ASSUME Types, UNCHANGED toChild PROVE NoNewAnswer
BY DEF Types, NoNewAnswer

LEMMA ShowTimerKeeps == ASSUME IInv, ShowTimer PROVE IInv'
<1>1. gui' \in Guis /\ gui'.question = gui.question
    <2>1. gui \in Guis
        BY DEF IInv, Types
    <2>. QED BY <2>1 DEF ShowTimer, Guis
<1>. QED BY <1>1, WindowKeeps, SameChars DEF ShowTimer, IInv, Types

LEMMA AbortKeeps == ASSUME IInv, Abort PROVE IInv'
<1>1. gui' \in Guis /\ gui'.question = gui.question
    <2>0. gui \in Guis
        BY DEF IInv, Types
    <2>1. CASE gui' = [gui EXCEPT !.attempts = @ + 1]
        BY ONLY <2>0, <2>1 DEF Guis
    <2>2. CASE gui' = [gui EXCEPT !.alive = FALSE, !.shown = FALSE]
        BY ONLY <2>0, <2>2 DEF Guis
    <2>. QED BY <2>1, <2>2 DEF Abort
<1>2. child' \in Children /\ child'.item = child.item /\ child'.pc \in {child.pc, "dead"}
    BY DEF Abort, IInv, Types, Children, PCs
<1>. QED BY <1>1, <1>2, WindowKeeps, SameChars DEF Abort, IInv, Types

LEMMA ToggleKeeps == ASSUME IInv, NEW f \in Flags, Toggle(f) PROVE IInv'
<1>1. gui' \in Guis /\ gui'.question = gui.question
    <2>1. \E q, o \in BOOLEAN : gui' = [gui EXCEPT !.quiet = q, !.force = o]
        BY DEF Toggle, IInv, Types, Guis
    <2>. QED BY <2>1 DEF IInv, Types, Guis
<1>2. hist' \in Hists /\ hist'.said = hist.said /\ hist'.done = hist.done
    <2>1. (hist.forced \/ f = "F") \in BOOLEAN
        OBVIOUS
    <2>. QED BY <2>1, Zenon DEF Toggle, IInv, Types, Hists
<1>3. NoNewAnswer
    <2>1. CASE UNCHANGED toChild
        BY <2>1, SameChars DEF IInv
    <2>2. CASE toChild' = Append(toChild, <<f, 0>>)
        <3>1. <<f, 0>> \in Chars /\ ~IsAnswer(<<f, 0>>)
            BY DEF Flags, Chars, Tags, IsAnswer, Answers
        <3>. QED BY <2>2, <3>1, AppendQuiet DEF IInv
    <2>. QED BY <2>1, <2>2 DEF Toggle
<1>. QED BY <1>1, <1>2, <1>3, WindowKeeps DEF Toggle, IInv, Types

\* A message that asks nothing is read.
LEMMA ReadQuiet ==
    ASSUME IInv, toParent # <<>>, ~IsAsk(Head(toParent)), toParent' = Tail(toParent),
           gui' \in Guis, gui'.question = gui.question,
           hist' \in Hists, hist'.said = hist.said, hist'.done = hist.done,
           UNCHANGED <<kind, child, toggles>>, NoNewAnswer
    PROVE  IInv'
<1>1. /\ toParent' \in Seq(Messages)
      /\ \A k \in DOMAIN toParent' :
            k \in Nat /\ k + 1 \in DOMAIN toParent /\ toParent'[k] = toParent[k + 1]
    BY DEF IInv, Types
<1>2. Types' /\ Order'
    BY <1>1 DEF IInv, Types, Order, NoNewAnswer
<1>3. Open' = Open /\ (NoAnswer => NoAnswer') /\ Waits' = Waits
    BY DEF Open, NoAnswer, Waits, NoNewAnswer
<1>4. Asked'
    BY <1>1, <1>3 DEF IInv, Asked
<1>5. OnShow'
    BY <1>3 DEF IInv, OnShow
<1>6. Told'
    BY <1>3 DEF IInv, Told, NoNewAnswer
<1>. QED BY <1>2, <1>4, <1>5, <1>6 DEF IInv

LEMMA MessageKeeps == ASSUME IInv, Message PROVE IInv'
<1> DEFINE m == Head(toParent)[1]
           i == Head(toParent)[2]
<1>1. /\ toParent # <<>> /\ Head(toParent) \in Messages /\ i \in Tags
      /\ 1 \in DOMAIN toParent /\ Head(toParent) = toParent[1]
    BY DEF Message, IInv, Types, Messages
<1>2. hist' \in Hists /\ hist'.said = hist.said /\ hist'.done = hist.done
    BY <1>1 DEF Message, IInv, Types, Hists
<1>3. CASE m = "D"
    <2>1. gui' = finish_action(gui) /\ toParent' = <<>> /\ toChild' = toChild
        BY <1>3 DEF Message
    <2>2. gui' \in Guis /\ gui'.question = 0
        BY <2>1, FinishIs DEF IInv, Types
    <2>. QED BY <1>2, <2>1, <2>2, WindowGoes DEF Message
<1>4. CASE m \in {"?", "C"}
    <2>1. /\ gui' = [gui EXCEPT !.question = i, !.ask = m, !.shown = TRUE, !.timer = FALSE]
          /\ toParent' = Tail(toParent) /\ toChild' = toChild
        BY <1>4 DEF Message
    <2>2. i = child.item /\ Waits /\ Open /\ NoAnswer
        BY <1>1, <1>4 DEF IInv, Asked, IsAsk
    <2>3. gui' \in Guis /\ gui'.question = i
        BY <1>1, <1>4, <2>1 DEF IInv, Types, Guis
    <2>4. /\ toParent' \in Seq(Messages)
          /\ \A k \in DOMAIN toParent' :
                k \in Nat \ {0} /\ k + 1 \in DOMAIN toParent /\ toParent'[k] = toParent[k + 1]
        BY <1>1, <2>1 DEF IInv, Types
    <2>5. NoAsk'
        <3> SUFFICES ASSUME NEW k \in DOMAIN toParent', IsAsk(toParent'[k]) PROVE FALSE
            BY DEF NoAsk
        <3>1. k + 1 = 1
            BY <1>1, <1>4, <2>4 DEF IInv, Asked, IsAsk
        <3>. QED BY <2>4, <3>1
    <2>6. Types' /\ Order'
        BY <1>2, <2>1, <2>3, <2>4 DEF Message, IInv, Types, Order
    <2>7. Open' /\ NoAnswer' /\ Waits'
        BY <1>2, <2>1, <2>2 DEF Message, Open, NoAnswer, Waits
    <2>8. Asked' /\ OnShow' /\ Told'
        BY <2>2, <2>3, <2>5, <2>7 DEF Message, NoAsk, NoAnswer, Asked, OnShow, Told
    <2>. QED BY <2>6, <2>8 DEF IInv
<1>5. CASE m = "X"
    <2>1. gui' = gui /\ toParent' = Tail(toParent) /\ toChild' = Append(toChild, <<"X", i>>)
        BY <1>5 DEF Message
    <2>2. <<"X", i>> \in Chars /\ ~IsAnswer(<<"X", i>>)
        BY <1>1 DEF Chars, IsAnswer, Answers
    <2>3. NoNewAnswer
        BY <2>1, <2>2, AppendQuiet DEF IInv
    <2>. QED BY <1>1, <1>2, <1>5, <2>1, <2>3, ReadQuiet DEF Message, IInv, Types, IsAsk
<1>6. CASE m = "!"
    <2>1. gui' = [gui EXCEPT !.errors = @ + 1] /\ toParent' = Tail(toParent) /\ toChild' = toChild
        BY <1>6 DEF Message
    <2>2. gui' \in Guis /\ gui'.question = gui.question
        BY <2>1 DEF IInv, Types, Guis
    <2>. QED BY <1>1, <1>2, <1>6, <2>1, <2>2, SameChars, ReadQuiet DEF Message, IInv, IsAsk
<1>7. CASE m \notin {"D", "?", "C", "!", "X"}
    <2>1. gui' = gui /\ toParent' = Tail(toParent) /\ toChild' = toChild
        BY <1>7 DEF Message
    <2>. QED BY <1>1, <1>2, <1>7, <2>1, SameChars, ReadQuiet DEF Message, IInv, Types, IsAsk
<1>. QED BY <1>3, <1>4, <1>5, <1>6, <1>7

LEMMA LastChar ==
    ASSUME NEW S, NEW s \in Seq(S), NEW y \in S PROVE (s \o <<y>>)[Len(s) + 1] = y
OBVIOUS

LEMMA OneMore ==
    ASSUME NEW S, NEW s \in Seq(S), NEW y \in S
    PROVE  s \o <<y>> \in Seq(S) /\ Len(s \o <<y>>) = Len(s) + 1
<1>1. <<y>> \in Seq(S) /\ Len(<<y>>) = 1
    OBVIOUS
<1>. QED BY <1>1

LEMMA TwoChars == \A x, y : <<x>> \o <<y>> = <<x, y>>
<1> SUFFICES ASSUME NEW x, NEW y PROVE <<x>> \o <<y>> = <<x, y>>
    OBVIOUS
<1> DEFINE S == {x, y}
           s == <<x>>
           t == <<x, y>>
           u == <<x>> \o <<y>>
<1>1. s \in Seq(S) /\ y \in S /\ Len(s) = 1 /\ s[1] = x
    OBVIOUS
<1>2. t \in Seq(S) /\ Len(t) = 2 /\ t[1] = x /\ t[2] = y
    OBVIOUS
<1>3. u = s \o <<y>>
    OBVIOUS
<1> HIDE DEF S, s, t, u
<1>4. u \in Seq(S) /\ Len(u) = 2 /\ u[1] = x
    <2>1. u \in Seq(S) /\ Len(u) = Len(s) + 1
        BY <1>1, <1>3, OneMore
    <2>2. \A k \in 1..Len(s) : (s \o <<y>>)[k] = s[k]
        BY <1>1
    <2>. QED BY <1>1, <1>3, <2>1, <2>2
<1>5. u[2] = y
    <2>1. (s \o <<y>>)[Len(s) + 1] = y
        BY <1>1, LastChar
    <2>2. Len(s) + 1 = 2
        BY <1>1
    <2>. QED BY <1>3, <2>1, <2>2
<1>6. \A k \in 1..Len(u) : u[k] = t[k]
    BY <1>2, <1>4, <1>5
<1>7. u = t
    BY <1>2, <1>4, <1>6, SeqEqual
<1>. QED BY <1>7 DEF t, u

LEMMA ReactionIs ==
    \A c, i : \A quietly \in BOOLEAN :
        Reaction(c, quietly, i) \in {<<<<c, i>>>>, <<<<"Q", i>>, <<c, i>>>>}
<1> SUFFICES ASSUME NEW c, NEW i, NEW quietly \in BOOLEAN
             PROVE  Reaction(c, quietly, i) \in {<<<<c, i>>>>, <<<<"Q", i>>, <<c, i>>>>}
    OBVIOUS
<1>1. <<<<"Q", i>>>> \o <<<<c, i>>>> = <<<<"Q", i>>, <<c, i>>>>
    BY TwoChars
<1>2. <<>> \o <<<<c, i>>>> = <<<<c, i>>>>
    <2>1. <<<<c, i>>>> \in Seq({<<c, i>>})
        OBVIOUS
    <2>. QED BY <2>1, ConcatEmptySeq
<1>3. CASE quietly
    BY <1>1, <1>3, Zenon DEF Reaction
<1>4. CASE ~quietly
    BY <1>2, <1>4, Zenon DEF Reaction
<1>. QED BY <1>3, <1>4

\* The answer is the only one, and is to the item at hand.
LEMMA AnswerKeeps ==
    ASSUME IInv, NEW yes \in BOOLEAN, NEW all \in BOOLEAN, NEW quietly \in BOOLEAN,
           Answer(yes, all, quietly)
    PROVE  IInv'
<1> DEFINE c == IF yes THEN (IF all THEN "A" ELSE "Y") ELSE (IF all THEN "S" ELSE "N")
           i == child.item
<1>1. gui.question = i /\ i \in Item /\ Waits /\ Open /\ NoAnswer /\ c \in Answers
    BY DEF Answer, IInv, OnShow, Types, Children, Answers
<1>2. NoAsk
    BY DEF Answer, IInv, Asked, NoAsk
<1>3. gui' \in Guis /\ gui'.question = 0
    <2>1. (gui.quiet \/ quietly) \in BOOLEAN /\ 0 \in Tags
        BY DEF Tags
    <2>2. gui' = [gui EXCEPT !.question = 0, !.quiet = gui.quiet \/ quietly]
        BY DEF Answer, Answered, IInv, Types, Guis
    <2>. QED BY <2>1, <2>2, Zenon DEF IInv, Types, Guis
<1>4. hist' = [hist EXCEPT !.said[i] = c]
    BY <1>1 DEF Answer
<1>5. hist' \in Hists /\ hist'.done = hist.done /\ hist'.said = [hist.said EXCEPT ![i] = c]
    BY <1>1, <1>4 DEF IInv, Types, Hists
<1>6. /\ toChild' \in Seq(Chars)
      /\ \E n \in Nat : \A k \in DOMAIN toChild' : IsAnswer(toChild'[k]) =>
            k = n /\ toChild'[k] = <<c, i>>
    <2>1. CASE toChild' = toChild
        BY <1>1, <2>1 DEF IInv, Types, NoAnswer
    <2>2. CASE toChild' = toChild \o <<<<c, i>>>>
        <3>1. toChild' \in Seq(Chars)
            BY <1>1, <2>2 DEF IInv, Types, Chars, Tags
        <3>2. \A k \in DOMAIN toChild' : IsAnswer(toChild'[k]) =>
                 k = Len(toChild) + 1 /\ toChild'[k] = <<c, i>>
            BY <1>1, <2>2 DEF IInv, Types, NoAnswer
        <3>. QED BY <3>1, <3>2 DEF IInv, Types
    <2>3. CASE toChild' = toChild \o <<<<"Q", i>>, <<c, i>>>>
        <3>1. toChild' \in Seq(Chars)
            BY <1>1, <2>3 DEF IInv, Types, Chars, Tags
        <3>2. ~IsAnswer(<<"Q", i>>)
            BY DEF IsAnswer, Answers
        <3>3. \A k \in DOMAIN toChild' : IsAnswer(toChild'[k]) =>
                 k = Len(toChild) + 2 /\ toChild'[k] = <<c, i>>
            <4> SUFFICES ASSUME NEW k \in DOMAIN toChild', IsAnswer(toChild'[k])
                         PROVE  k = Len(toChild) + 2 /\ toChild'[k] = <<c, i>>
                OBVIOUS
            <4>1. k \in 1..(Len(toChild) + 2)
                BY <2>3 DEF IInv, Types
            <4>2. ~(k <= Len(toChild))
                BY <1>1, <2>3, <4>1 DEF IInv, Types, NoAnswer
            <4>3. toChild'[Len(toChild) + 1] = <<"Q", i>>
                  /\ toChild'[Len(toChild) + 2] = <<c, i>>
                BY <2>3 DEF IInv, Types
            <4>4. k # Len(toChild) + 1
                BY <3>2, <4>3
            <4>5. Len(toChild) \in Nat
                BY DEF IInv, Types
            <4>6. k = Len(toChild) + 2
                BY <4>1, <4>2, <4>4, <4>5
            <4>. QED BY <4>3, <4>6
        <3>. QED BY <3>1, <3>3 DEF IInv, Types
    <2>4. (toChild \o <<>>) = toChild
        BY ConcatEmptySeq DEF IInv, Types
    <2>5. Reaction(c, quietly, i) \in {<<<<c, i>>>>, <<<<"Q", i>>, <<c, i>>>>}
        <3> HIDE DEF c, i
        <3>. QED BY ReactionIs
    <2>6. toChild' = toChild \o (IF gui.open THEN Reaction(c, quietly, i) ELSE <<>>)
        BY <1>1 DEF Answer
    <2> HIDE DEF c, i
    <2>. QED BY <2>1, <2>2, <2>3, <2>4, <2>5, <2>6
<1>7. Types' /\ NoAsk'
    BY <1>2, <1>3, <1>5, <1>6 DEF Answer, IInv, Types, NoAsk
<1>8. Order'
    BY <1>1, <1>5 DEF Answer, IInv, Types, Hists, Children, Order, Open, Waits, Item
<1>9. Waits' /\ child'.item \notin hist'.done /\ hist'.said[i] = c /\ child' = child
    BY <1>1, <1>5 DEF Answer, IInv, Types, Hists, Open, Waits
<1>10. Asked' /\ OnShow'
    BY <1>3, <1>7 DEF NoAsk, Asked, OnShow
<1>11. Told'
    BY <1>6, <1>9 DEF Told
<1>. QED BY <1>7, <1>8, <1>10, <1>11 DEF IInv

----------------------------------------------------------------------------

LEMMA InitKeeps == Init => IInv
<1> SUFFICES ASSUME Init PROVE IInv
    OBVIOUS
<1>1. 1 \in Item /\ 0 \in Tags
    BY ActionAssumption DEF Item, Tags
<1>2. Types
    BY <1>1, ActionAssumption DEF Init, Types, Children, PCs, Guis, Hists
<1>3. Asked /\ OnShow /\ Told
    BY DEF Init, Asked, OnShow, Told
<1>4. Order
    BY <1>1 DEF Init, Order
<1>. QED BY <1>2, <1>3, <1>4 DEF IInv

LEMMA NextKeeps == IInv /\ [Next]_vars => IInv'
<1> SUFFICES ASSUME IInv, [Next]_vars PROVE IInv'
    OBVIOUS
<1>1. CASE ChildStep
    BY <1>1, SetPgidKeeps, CheckFlagKeeps, LookKeeps, ReplyKeeps, SendCloseKeeps,
       ReadSafeKeeps, ActKeeps, EndKeeps DEF ChildStep
<1>2. CASE UserAnswer
    BY <1>2, AnswerKeeps DEF UserAnswer
<1>3. CASE \E f \in Flags : Toggle(f)
    BY <1>3, ToggleKeeps
<1>4. CASE UNCHANGED vars
    BY <1>4 DEF vars, IInv, Types, Asked, OnShow, Told, Order, Waits, Open, NoAnswer
<1>. QED BY <1>1, <1>2, <1>3, <1>4, MessageKeeps, HangUpKeeps, ShowTimerKeeps,
            AbortKeeps, FilerExitKeeps DEF Next, Terminated

\* The protocol's state is what its two sides take it for, however they, the user
\* and the signals interleave.
THEOREM ProtocolHolds == Spec => []IInv
BY InitKeeps, NextKeeps, PTL DEF Spec

LEMMA AnswersIn == IInv => AnswersInStep
<1> SUFFICES ASSUME IInv, child.pc # "dead" PROVE AnswersInStep
    BY DEF AnswersInStep
<1> DEFINE Sent == {k \in DOMAIN toChild : toChild[k][1] \in Answers}
<1>1. \A k \in Sent : child.pc = "reply" /\ toChild[k][2] = child.item
    BY DEF IInv, Told, IsAnswer, Waits
<1>2. Cardinality(Sent) <= 1
    <2>1. CASE Sent = {}
        BY <2>1, FS_EmptySet
    <2>2. CASE Sent # {}
        <3>1. PICK k \in Sent : TRUE
            BY <2>2
        <3>2. Sent = {k}
            BY <3>1 DEF IInv, Told, IsAnswer
        <3>3. Cardinality({k}) = 1
            BY ONLY FS_Singleton
        <3>4. Cardinality(Sent) = 1
            BY ONLY <3>2, <3>3
        <3>. QED BY ONLY <3>4
    <2>. QED BY <2>1, <2>2
<1>. QED BY <1>1, <1>2 DEF AnswersInStep

\* printf_reply, printf_conflict_reply: an answer the child reads is to the question
\* it has sent, for any number of items and of flags toggled.
THEOREM AnswersHold == Spec => []AnswersInStep
BY ProtocolHolds, AnswersIn, PTL

LEMMA RefusedIn == IInv => RefusedIsKept
BY DEF IInv, Order, RefusedIsKept

\* do_copy2, do_delete, do_mount: an item the user has said No to is left alone.
THEOREM RefusedHolds == Spec => []RefusedIsKept
BY ProtocolHolds, RefusedIn, PTL
----------------------------------------------------------------------------
(* Nothing risky without a Yes.                                            *)

\* A "replace all" has been given to this item or to one before it.
AllUpTo(i) == \E j \in 1..i : hist.said[j] = "A"

Marked ==
    /\ hist.risky \subseteq 1..child.item
    /\ child.pc \in {"forked", "flags"} => child.item \notin hist.risky
    /\ child.pc \in {"close", "safe"} => Closes

\* What the child of a copy that asks may do without asking.
CopyConsent ==
    kind = "copy" /\ hist.asking =>
        /\ child.policy \in {"ask", "replace", "skip"}
        /\ child.policy = "replace" => AllUpTo(child.item)
        /\ child.pc = "act" /\ child.item \in hist.risky =>
              hist.said[child.item] = "Y" \/ AllUpTo(child.item)

\* The child of a deletion nobody forces has no Force flag, nor one on its way.
DeleteConsent ==
    kind = "delete" /\ ~hist.forced =>
        /\ ~child.force /\ child.ask # "C"
        /\ \A k \in DOMAIN toChild : toChild[k][1] # "F"
        /\ child.pc = "act" /\ child.item \in hist.risky => hist.said[child.item] = "Y"

Consent == Marked /\ CopyConsent /\ DeleteConsent /\ RiskyNeedsYes

\* The step leaves the items and what was said of them, and lets nothing be done.
LEMMA ConsentKept ==
    ASSUME IInv, Consent, kind' = kind, hist'.risky = hist.risky,
           hist'.asking = hist.asking, hist.forced => hist'.forced,
           hist'.said = hist.said, hist'.done = hist.done,
           child'.item = child.item, child'.policy = child.policy,
           child'.pc \in {"forked", "flags"} => child.pc \in {"forked", "flags"},
           child'.pc = "act" => child.pc = "act" \/ Closes,
           child'.pc \in {"close", "safe"} => child.pc \in {"close", "safe"},
           kind = "delete" /\ ~hist'.forced =>
               /\ child'.force = child.force /\ child'.ask # "C"
               /\ \A k \in DOMAIN toChild' : toChild'[k][1] # "F"
    PROVE  Consent'
<1>1. Marked'
    BY DEF Consent, Marked, Closes
<1>2. CopyConsent'
    BY DEF Consent, CopyConsent, AllUpTo, Closes
<1>3. DeleteConsent'
    BY DEF Consent, DeleteConsent, Closes
<1>4. RiskyNeedsYes'
    BY DEF Consent, RiskyNeedsYes
<1>. QED BY <1>1, <1>2, <1>3, <1>4 DEF Consent

\* Flags are read from the pipe, so Force is where it was unless it was sent.
LEMMA ConsentFlag ==
    ASSUME IInv, Consent, toChild # <<>>, toChild' = Tail(toChild),
           process_flag(Head(toChild)[1]), UNCHANGED kind
    PROVE  Consent'
<1>1. /\ child.pc = child'.pc /\ child'.item = child.item /\ child'.policy = child.policy
      /\ child'.ask = child.ask /\ hist' = hist
      /\ Head(toChild)[1] # "F" => child'.force = child.force
    BY DEF process_flag, IInv, Types, Children
<1>2. /\ 1 \in DOMAIN toChild /\ Head(toChild) = toChild[1]
      /\ \A k \in DOMAIN toChild' : k + 1 \in DOMAIN toChild /\ toChild'[k] = toChild[k + 1]
    BY HeadTail DEF IInv
<1>3. kind = "delete" /\ ~hist'.forced =>
         /\ child'.force = child.force /\ child'.ask # "C"
         /\ \A k \in DOMAIN toChild' : toChild'[k][1] # "F"
    BY <1>1, <1>2 DEF Consent, DeleteConsent
<1>. QED BY <1>1, <1>3, ConsentKept

\* The next item: what was done to the last is what was agreed.
LEMMA ConsentNext ==
    ASSUME IInv, Consent, NEW c \in Children, c.item = child.item, c.force = child.force,
           child.pc \notin {"done", "dead"},
           \/ c.policy = child.policy
           \/ c.policy = "skip",
           child' = NextItem(c), UNCHANGED kind,
           hist'.risky \in {hist.risky, hist.risky \cup {child.item}},
           hist'.asking = hist.asking, hist'.forced = hist.forced, hist'.said = hist.said,
           \/ hist'.done = hist.done
           \/ /\ child.pc = "act" /\ hist'.done = hist.done \cup {child.item}
              /\ hist'.risky = hist.risky,
           DeleteConsent => \A k \in DOMAIN toChild' : kind = "delete" /\ ~hist.forced =>
                              toChild'[k][1] # "F"
    PROVE  Consent'
<1>1. /\ child'.policy = c.policy /\ child'.force = c.force /\ child'.ask = "none"
      /\ \/ child'.item = child.item /\ child'.pc = "done"
         \/ child'.item = child.item + 1 /\ child'.pc = "flags"
    BY NextItemIs DEF NextItem, Children
<1>2. child.item \in Nat /\ child.item >= 1
    BY DEF IInv, Types, Children, Item
<1>3. Marked'
    <2>1. hist'.risky \subseteq 1..child.item
        <3>1. child.item \in 1..child.item /\ hist.risky \subseteq 1..child.item
            BY <1>2 DEF Consent, Marked
        <3>. QED BY <3>1
    <2>. QED BY <1>1, <1>2, <2>1 DEF Marked
<1>4. CopyConsent'
    BY <1>1, <1>2 DEF Consent, CopyConsent, AllUpTo
<1>5. DeleteConsent'
    BY <1>1 DEF Consent, DeleteConsent
<1>6. RiskyNeedsYes'
    <2> SUFFICES ASSUME NEW i \in hist'.done \cap hist'.risky
                 PROVE  /\ kind = "copy" /\ hist.asking =>
                              hist.said[i] = "Y" \/ AllUpTo(i)
                        /\ kind = "delete" /\ ~hist.forced => hist.said[i] = "Y"
        BY DEF RiskyNeedsYes, AllUpTo
    <2>1. CASE i \in hist.done /\ i \in hist.risky
        BY <2>1 DEF Consent, RiskyNeedsYes, AllUpTo
    <2>2. CASE i = child.item /\ child.pc = "act" /\ hist'.risky = hist.risky
        BY <2>2 DEF Consent, CopyConsent, DeleteConsent
    <2>3. child.item \notin hist.done \/ child.pc \in {"done", "dead"}
        BY DEF IInv, Order
    <2>. QED BY <2>1, <2>2, <2>3
<1>. QED BY <1>3, <1>4, <1>5, <1>6 DEF Consent

LEMMA ConsentLook == ASSUME IInv, IInv', Consent, Look PROVE Consent'
<1>1. child \in Children /\ child.item \in Item /\ child.pc = "flags"
      /\ toChild' = toChild /\ kind' = kind
    BY DEF Look, IInv, Types, Children
<1>2. CASE DoneWith(child, <<<<"!", child.item>>>>) /\ UNCHANGED hist
    BY <1>1, <1>2, ConsentNext DEF Look, DoneWith, DeleteConsent
<1>3. ASSUME NEW risky \in BOOLEAN, NEW d \in Decision(child, risky),
             \/ d = "skip" /\ DoneWith(child, <<>>)
             \/ d = "go" /\ child' = Agreed(child) /\ UNCHANGED toParent
             \/ /\ d \in {"?", "C"}
                /\ child' = [child EXCEPT !.pc = "reply", !.ask = d]
                /\ Send(<<<<d, child.item>>>>),
             hist' = [hist EXCEPT !.risky = IF risky THEN @ \cup {child.item} ELSE @,
                                  !.agreed = IF d = "go" THEN @ \cup {child.item} ELSE @]
      PROVE  Consent'
    <2>1. /\ hist'.risky = (IF risky THEN hist.risky \cup {child.item} ELSE hist.risky)
          /\ hist'.said = hist.said /\ hist'.done = hist.done /\ hist'.asking = hist.asking
          /\ hist'.forced = hist.forced
        BY <1>3 DEF IInv, Types, Hists
    <2>2. CASE d = "skip" /\ DoneWith(child, <<>>)
        <3>1. child' = NextItem(child) /\ hist'.risky \in {hist.risky, hist.risky \cup {child.item}}
            BY <2>1, <2>2 DEF DoneWith
        <3>2. DeleteConsent => \A k \in DOMAIN toChild' : kind = "delete" /\ ~hist.forced =>
                                  toChild'[k][1] # "F"
            BY <1>1 DEF DeleteConsent
        <3>. QED BY <1>1, <2>1, <3>1, <3>2, ConsentNext
    <2>3. CASE d # "skip"
        <3>1. /\ child'.item = child.item /\ child'.policy = child.policy
              /\ child'.force = child.force /\ child'.pc \notin {"forked", "flags"}
              /\ child'.pc = "act" => d = "go"
              /\ child'.ask = "C" => d = "C"
              /\ child'.pc \in {"close", "safe"} => Closes
            BY <1>1, <1>3, <2>3 DEF Agreed, Children
        <3>2. /\ kind = "copy" /\ hist.asking /\ risky /\ d = "go" => child.policy = "replace"
              /\ kind = "delete" => d # "C" /\ (risky /\ d = "go" => child.force)
            BY <1>1, <1>3 DEF Decision, Consent, CopyConsent
        <3>3. Marked'
            BY <1>1, <2>1, <3>1 DEF Consent, Marked, Item, Closes
        <3>4. child.item \notin hist.risky /\ child.item \notin hist.done
            BY <1>1 DEF Consent, Marked, IInv, Order
        <3>5. CopyConsent'
            BY <1>1, <2>1, <3>1, <3>2, <3>4 DEF Consent, CopyConsent, AllUpTo
        <3>6. DeleteConsent'
            BY <1>1, <2>1, <3>1, <3>2, <3>4 DEF Consent, DeleteConsent
        <3>7. RiskyNeedsYes'
            BY <1>1, <2>1, <3>4 DEF Consent, RiskyNeedsYes
        <3>. QED BY <3>3, <3>5, <3>6, <3>7 DEF Consent
    <2>. QED BY <1>3, <2>2, <2>3
<1>. QED BY <1>2, <1>3 DEF Look

\* The answer read is the one given to this item.
LEMMA AnswerRead ==
    ASSUME IInv, toChild # <<>>, IsAnswer(Head(toChild))
    PROVE  hist.said[child.item] = Head(toChild)[1]
<1>1. 1 \in DOMAIN toChild /\ Head(toChild) = toChild[1]
    BY DEF IInv, Types
<1>. QED BY <1>1 DEF IInv, Told

LEMMA ConsentReply == ASSUME IInv, IInv', Consent, Reply PROVE Consent'
<1>1. child \in Children /\ child.item \in Item /\ child.pc = "reply"
    BY DEF Reply, IInv, Types, Children
<1>2. CASE UNCHANGED <<toChild, toParent, hist>> /\ child' = [child EXCEPT !.pc = "dead"]
    <2>1. /\ child'.item = child.item /\ child'.policy = child.policy /\ child'.pc = "dead"
          /\ child'.force = child.force /\ child'.ask = child.ask
        BY <1>1, <1>2 DEF Children
    <2>. QED BY <1>2, <2>1, ConsentKept DEF Reply, Consent, DeleteConsent
<1>3. CASE toChild # <<>> /\ toChild' = Tail(toChild) /\ process_flag(Head(toChild)[1])
    BY <1>3, ConsentFlag DEF Reply
<1>4. ASSUME toChild # <<>>, toChild' = Tail(toChild)
      PROVE  \A k \in DOMAIN toChild' : DeleteConsent /\ kind = "delete" /\ ~hist.forced =>
                 toChild'[k][1] # "F"
    BY <1>4, HeadTail DEF IInv, DeleteConsent
<1>5. ASSUME toChild # <<>>, toChild' = Tail(toChild),
             \/ Head(toChild)[1] = "Y"
             \/ Head(toChild)[1] = "A" /\ child.ask = "C",
             child' = Agreed([child EXCEPT !.policy =
                                 IF Head(toChild)[1] = "A" THEN "replace" ELSE @]),
             hist' = [hist EXCEPT !.agreed = @ \cup {child.item}]
      PROVE  Consent'
    <2>1. hist.said[child.item] = Head(toChild)[1]
        BY <1>5, AnswerRead DEF IsAnswer, Answers
    <2>2. /\ child'.item = child.item /\ child'.pc \in {"act", "close"} /\ child'.ask = "none"
          /\ child'.policy = IF Head(toChild)[1] = "A" THEN "replace" ELSE child.policy
          /\ child'.force = child.force
        BY <1>1, <1>5 DEF Agreed, Children
    <2>3. /\ hist'.risky = hist.risky /\ hist'.said = hist.said /\ hist'.done = hist.done
          /\ hist'.asking = hist.asking /\ hist'.forced = hist.forced
        BY <1>5 DEF IInv, Types, Hists
    <2>4. Marked'
        BY <1>5, <2>2, <2>3 DEF Reply, Consent, Marked, Closes, Agreed
    <2>5. hist.said[child.item] = "A" => AllUpTo(child.item)
        BY <1>1 DEF AllUpTo, Item
    <2>6. CopyConsent'
        BY <1>5, <2>1, <2>2, <2>3, <2>5 DEF Reply, Consent, CopyConsent, AllUpTo
    <2>7. DeleteConsent'
        BY <1>4, <1>5, <2>1, <2>2, <2>3 DEF Reply, Consent, DeleteConsent
    <2>8. RiskyNeedsYes'
        BY <2>3 DEF Reply, Consent, RiskyNeedsYes
    <2>. QED BY <2>4, <2>6, <2>7, <2>8 DEF Consent
<1>6. ASSUME toChild # <<>>, toChild' = Tail(toChild),
             DoneWith([child EXCEPT !.policy =
                          IF Head(toChild)[1] = "S" THEN "skip" ELSE @], <<>>),
             UNCHANGED hist
      PROVE  Consent'
    <2> DEFINE c == [child EXCEPT !.policy = IF Head(toChild)[1] = "S" THEN "skip" ELSE @]
    <2>1. /\ c \in Children /\ c.item = child.item /\ c.force = child.force
          /\ c.policy = child.policy \/ c.policy = "skip"
        BY <1>1 DEF Children
    <2>2. child' = NextItem(c)
        BY <1>6 DEF DoneWith
    <2> HIDE DEF c
    <2>. QED BY <1>1, <1>4, <1>6, <2>1, <2>2, ConsentNext DEF Reply
<1>. QED BY <1>2, <1>3, <1>5, <1>6 DEF Reply

LEMMA ConsentAct == ASSUME IInv, Consent, Act PROVE Consent'
<1>1. child \in Children /\ child.item \in Item /\ child.pc = "act" /\ toChild' = toChild
    BY DEF Act, IInv, Types, Children
<1>2. hist' = [hist EXCEPT !.done = @ \cup {child.item}] /\ child' = NextItem(child)
    BY DEF Act, DoneWith
<1>3. /\ hist'.risky = hist.risky /\ hist'.said = hist.said
      /\ hist'.asking = hist.asking /\ hist'.forced = hist.forced
      /\ hist'.done = hist.done \cup {child.item}
    BY <1>2 DEF IInv, Types, Hists
<1>. QED BY <1>1, <1>2, <1>3, ConsentNext DEF Act, DeleteConsent

LEMMA ConsentAnswer ==
    ASSUME IInv, Consent, NEW yes \in BOOLEAN, NEW all \in BOOLEAN, NEW quietly \in BOOLEAN,
           Answer(yes, all, quietly)
    PROVE  Consent'
<1> DEFINE c == IF yes THEN (IF all THEN "A" ELSE "Y") ELSE (IF all THEN "S" ELSE "N")
           i == child.item
<1>1. gui.question = i /\ i \in Item /\ Waits /\ Open /\ child' = child
    BY DEF Answer, IInv, OnShow, Types, Children
<1>2. hist' = [hist EXCEPT !.said[i] = c]
    BY <1>1 DEF Answer
<1>3. /\ hist'.risky = hist.risky /\ hist'.said = [hist.said EXCEPT ![i] = c]
      /\ hist'.asking = hist.asking /\ hist'.forced = hist.forced
      /\ hist'.done = hist.done
    BY <1>2 DEF IInv, Types, Hists
<1>4. \A j \in Item : hist.said[j] # "none" => hist'.said[j] = hist.said[j]
    BY <1>1, <1>3 DEF IInv, Types, Hists, Open
<1>5. \A j \in Item : j # i => hist'.said[j] = hist.said[j]
    BY <1>1, <1>3 DEF IInv, Types, Hists
<1>6. \A n \in Item : \A j \in 1..n : j \in Item
    BY ActionAssumption DEF Item
<1>7. Marked'
    BY <1>1, <1>3 DEF Answer, Consent, Marked, Closes
<1>8. CopyConsent'
    <2>1. CopyConsent /\ kind' = kind
        BY DEF Answer, Consent
    <2>2. child.pc # "act" /\ child'.pc # "act"
        BY <1>1 DEF Waits
    <2>3. AllUpTo(i) => AllUpTo(i)'
        BY <1>1, <1>4, <1>6 DEF AllUpTo
    <2> HIDE DEF i
    <2>4. AllUpTo(child.item) => AllUpTo(child.item)'
        BY <1>1, <2>3 DEF AllUpTo, i
    <2>. QED BY <1>1, <1>3, <2>1, <2>2, <2>4 DEF CopyConsent
<1>9. \A k \in DOMAIN toChild' : toChild'[k][1] = "F" =>
          k \in DOMAIN toChild /\ toChild[k][1] = "F"
    <2>1. \A s \in Seq(Chars) : toChild' = toChild \o s /\ (\A k \in DOMAIN s : s[k][1] # "F")
             => \A k \in DOMAIN toChild' : toChild'[k][1] = "F" =>
                    k \in DOMAIN toChild /\ toChild[k][1] = "F"
        BY DEF IInv, Types
    <2>2. <<c, i>> \in Chars /\ <<"Q", i>> \in Chars
        BY <1>1 DEF Chars, Tags, Answers
    <2>3. toChild' = toChild \o (IF gui.open THEN Reaction(c, quietly, i) ELSE <<>>)
        BY <1>1 DEF Answer
    <2>4. c # "F"
        OBVIOUS
    <2> HIDE DEF c, i
    <2>5. Reaction(c, quietly, i) \in {<<<<"Q", i>>, <<c, i>>>>, <<<<c, i>>>>}
        BY ReactionIs
    <2>6. PICK s : s = (IF gui.open THEN Reaction(c, quietly, i) ELSE <<>>)
        OBVIOUS
    <2>7. s \in {<<<<"Q", i>>, <<c, i>>>>, <<<<c, i>>>>, <<>>}
        BY ONLY <2>5, <2>6
    <2>8. s \in Seq(Chars) /\ \A k \in DOMAIN s : s[k][1] # "F"
        <3>1. CASE s = <<<<"Q", i>>, <<c, i>>>>
            BY ONLY <2>2, <2>4, <3>1
        <3>2. CASE s = <<<<c, i>>>>
            BY ONLY <2>2, <2>4, <3>2
        <3>3. CASE s = <<>>
            BY ONLY <3>3
        <3>. QED BY ONLY <2>7, <3>1, <3>2, <3>3
    <2>9. toChild' = toChild \o s
        BY ONLY <2>3, <2>6
    <2>. QED BY ONLY <2>1, <2>8, <2>9
<1>10. DeleteConsent'
    BY <1>1, <1>3, <1>9 DEF Answer, Consent, DeleteConsent, Waits
<1>11. RiskyNeedsYes'
    BY <1>1, <1>3, <1>4, <1>5, <1>6 DEF Answer, Consent, RiskyNeedsYes, IInv, Types, Hists, Open
<1>. QED BY <1>7, <1>8, <1>10, <1>11 DEF Consent

LEMMA ConsentInit == Init => Consent
<1> SUFFICES ASSUME Init PROVE Consent
    OBVIOUS
<1>1. /\ child.pc = "forked" /\ child.ask = "none" /\ toChild = <<>>
      /\ hist.risky = {} /\ hist.done = {}
      /\ child.force = hist.forced /\ hist.asking = (child.policy = "ask")
    BY DEF Init
<1>2. Marked /\ RiskyNeedsYes
    BY <1>1 DEF Marked, RiskyNeedsYes
<1>3. CopyConsent
    BY <1>1 DEF CopyConsent
<1>4. DeleteConsent
    BY <1>1 DEF DeleteConsent
<1>. QED BY <1>2, <1>3, <1>4 DEF Consent

LEMMA ConsentChild == ASSUME IInv, IInv', Consent, ChildStep PROVE Consent'
<1>1. CASE SetPgid \/ SendClose \/ End
    BY <1>1, ConsentKept DEF SetPgid, SendClose, End, IInv, Types, Children, Consent, DeleteConsent
<1>2. CASE CheckFlag
    <2>1. CASE toChild = <<>>
        BY <1>2, <2>1, ConsentKept DEF CheckFlag, IInv, Types, Children, Consent, DeleteConsent
    <2>. QED BY <1>2, <2>1, ConsentFlag DEF CheckFlag
<1>3. CASE ReadSafe
    <2>1. child.pc = "safe" /\ Closes /\ UNCHANGED <<kind, hist>>
        BY <1>3 DEF ReadSafe, Consent, Marked
    <2>2. kind \notin {"copy", "delete"}
        BY <2>1 DEF Closes
    <2>3. CASE child' = [child EXCEPT !.pc = "act"]
        <3>1. child'.item = child.item /\ child'.policy = child.policy /\ child'.pc = "act"
            BY <2>3 DEF IInv, Types, Children
        <3>. QED BY <2>1, <2>2, <3>1, ConsentKept
    <2>4. CASE child' = NextItem(child)
        BY <2>1, <2>2, <2>4, ConsentNext DEF IInv, Types
    <2>. QED BY <1>3, <2>3, <2>4 DEF ReadSafe
<1>. QED BY <1>1, <1>2, <1>3, ConsentLook, ConsentReply, ConsentAct DEF ChildStep

LEMMA ConsentNextStep == IInv /\ IInv' /\ Consent /\ [Next]_vars => Consent'
<1> SUFFICES ASSUME IInv, IInv', Consent, [Next]_vars PROVE Consent'
    OBVIOUS
<1>1. CASE Message
    <2>1. /\ kind' = kind /\ child' = child
          /\ hist'.risky = hist.risky /\ hist'.said = hist.said /\ hist'.done = hist.done
          /\ hist'.asking = hist.asking /\ hist'.forced = hist.forced
        BY <1>1 DEF Message, IInv, Types, Hists
    <2>2. \A k \in DOMAIN toChild' : toChild'[k][1] = "F" =>
              k \in DOMAIN toChild /\ toChild[k][1] = "F"
        <3>1. \A i : toChild' = Append(toChild, <<"X", i>>) =>
                 \A k \in DOMAIN toChild' : toChild'[k][1] = "F" =>
                    k \in DOMAIN toChild /\ toChild[k][1] = "F"
            BY DEF IInv, Types
        <3>. QED BY <1>1, <3>1 DEF Message
    <2>. QED BY <2>1, <2>2, ConsentKept DEF Consent, DeleteConsent
<1>2. CASE HangUp \/ ShowTimer \/ Abort \/ FilerExit
    <2>1. /\ UNCHANGED <<kind, toChild>>
          /\ child'.item = child.item /\ child'.policy = child.policy
          /\ child'.force = child.force /\ child'.ask = child.ask
          /\ child'.pc \in {child.pc, "dead"}
        BY <1>2 DEF HangUp, ShowTimer, Abort, FilerExit, IInv, Types, Children
    <2>2. /\ hist'.risky = hist.risky /\ hist'.said = hist.said /\ hist'.done = hist.done
          /\ hist'.asking = hist.asking /\ hist'.forced = hist.forced
        BY <1>2 DEF HangUp, ShowTimer, Abort, FilerExit, IInv, Types, Hists
    <2>. QED BY <2>1, <2>2, ConsentKept DEF Consent, DeleteConsent
<1>3. ASSUME NEW f \in Flags, Toggle(f) PROVE Consent'
    <2>1. kind' = kind /\ child' = child
        BY <1>3 DEF Toggle
    <2>2. /\ hist'.risky = hist.risky /\ hist'.said = hist.said /\ hist'.done = hist.done
          /\ hist'.asking = hist.asking /\ (hist.forced \/ f = "F" => hist'.forced)
        <3>1. \A b \in BOOLEAN : LET h == [hist EXCEPT !.forced = b] IN
                 /\ h.risky = hist.risky /\ h.said = hist.said /\ h.done = hist.done
                 /\ h.asking = hist.asking /\ h.forced = b
            BY DEF IInv, Types, Hists
        <3>2. hist' = [hist EXCEPT !.forced = hist.forced \/ f = "F"]
            BY <1>3 DEF Toggle
        <3>. QED BY <3>1, <3>2
    <2>3. f # "F" => \A k \in DOMAIN toChild' : toChild'[k][1] = "F" =>
              k \in DOMAIN toChild /\ toChild[k][1] = "F"
        BY <1>3 DEF Toggle, IInv, Types
    <2>. QED BY <2>1, <2>2, <2>3, ConsentKept DEF Consent, DeleteConsent
<1>4. CASE UNCHANGED vars
    BY <1>4, ConsentKept DEF vars, Consent, DeleteConsent
<1>. QED BY <1>1, <1>2, <1>3, <1>4, ConsentChild, ConsentAnswer
         DEF Next, UserAnswer, Terminated

\* do_copy2, do_delete: an existing destination is overwritten, and a write-protected
\* item removed, only after a Yes to that very question or a "replace all" given before.
THEOREM RiskyNeedsYesHolds == Spec => []RiskyNeedsYes
<1>1. Consent => RiskyNeedsYes
    BY DEF Consent
<1>. QED BY <1>1, ConsentInit, ConsentNextStep, ProtocolHolds, PTL DEF Spec

----------------------------------------------------------------------------
(* What is done is told of.                                                *)

Reports(m, i) == m \in {<<"s", i>>, <<"!", i>>}
Heard(s, i) == \E k \in DOMAIN s : Reports(s[k], i)

\* Messages, none of them a `tag'.
Without(s, tag) == s \in Seq(Messages) /\ \A k \in DOMAIN s : s[k][1] # tag

\* Until the window goes each item done has been told of, or a message about it
\* is on its way; and the "D" that makes it go comes after them all.
Reported ==
    /\ gui.open => \A i \in hist.done : i \in hist.told \/ Heard(toParent, i)
    /\ ~gui.open => toParent = <<>>
    /\ ~gui.open /\ ~hist.exited => child.pc = "dead" /\ hist.done \subseteq hist.told
    /\ \A k \in DOMAIN toParent :
          toParent[k][1] = "D" => k = Len(toParent) /\ child.pc = "dead"

LEMMA HeardConcat ==
    \A s, t \in Seq(Messages) : \A i : Heard(s, i) \/ Heard(t, i) => Heard(s \o t, i)
<1> SUFFICES ASSUME NEW s \in Seq(Messages), NEW t \in Seq(Messages), NEW i,
                    Heard(s, i) \/ Heard(t, i)
             PROVE  Heard(s \o t, i)
    OBVIOUS
<1>1. CASE Heard(s, i)
    <2>1. PICK k \in DOMAIN s : Reports(s[k], i)
        BY <1>1 DEF Heard
    <2>2. k \in DOMAIN (s \o t) /\ (s \o t)[k] = s[k]
        OBVIOUS
    <2>. QED BY <2>1, <2>2 DEF Heard
<1>2. CASE Heard(t, i)
    <2>1. PICK k \in DOMAIN t : Reports(t[k], i)
        BY <1>2 DEF Heard
    <2>2. Len(s) + k \in DOMAIN (s \o t) /\ (s \o t)[Len(s) + k] = t[k]
        OBVIOUS
    <2>. QED BY <2>1, <2>2 DEF Heard
<1>. QED BY <1>1, <1>2

LEMMA WithoutOne == \A m \in Messages : \A tag : m[1] # tag => Without(<<m>>, tag)
BY DEF Without

LEMMA WithoutNone == \A tag : Without(<<>>, tag)
BY DEF Without

LEMMA WithoutConcat ==
    \A s, t, tag : Without(s, tag) /\ Without(t, tag) => Without(s \o t, tag)
<1> SUFFICES ASSUME NEW s, NEW t, NEW tag, Without(s, tag), Without(t, tag)
             PROVE  Without(s \o t, tag)
    OBVIOUS
<1>1. s \in Seq(Messages) /\ t \in Seq(Messages) /\ s \o t \in Seq(Messages)
    BY DEF Without
<1>2. ASSUME NEW k \in DOMAIN (s \o t) PROVE (s \o t)[k][1] # tag
    <2>1. CASE k <= Len(s)
        BY <1>1, <2>1 DEF Without
    <2>2. CASE k > Len(s)
        <3>1. k - Len(s) \in DOMAIN t /\ (s \o t)[k] = t[k - Len(s)]
            BY <1>1, <2>2
        <3>. QED BY <3>1 DEF Without
    <2>. QED BY <1>1, <2>1, <2>2
<1>. QED BY <1>1, <1>2 DEF Without

\* The child sends what it has to say of the items it has done by now.
LEMMA ReportedSend ==
    ASSUME IInv, Reported, child.pc # "dead", gui'.open = gui.open,
           NEW s, Without(s, "D"), Send(s),
           hist'.told = hist.told, hist'.exited = hist.exited,
           \A i \in hist'.done : i \in hist.done \/ Heard(s, i)
    PROVE  Reported'
<1>1. toParent \in Seq(Messages) /\ Without(toParent, "D") /\ s \in Seq(Messages)
    BY DEF IInv, Types, Without, Reported
<1>2. CASE gui.open
    <2>1. toParent' = toParent \o s /\ Without(toParent', "D")
        BY <1>1, <1>2, WithoutConcat DEF Send
    <2>2. \A i \in hist'.done : i \in hist'.told \/ Heard(toParent', i)
        BY <1>1, <1>2, <2>1, HeardConcat DEF Reported
    <2>. QED BY <1>2, <2>1, <2>2 DEF Reported, Without
<1>3. CASE ~gui.open
    <2>1. hist'.exited /\ toParent' = <<>>
        BY <1>3 DEF Reported, Send
    <2>. QED BY <1>3, <2>1 DEF Reported
<1>. QED BY <1>2, <1>3

\* The end of an item adds at most a word about it.
LEMMA ReportedDoneWith ==
    ASSUME IInv, Reported, child.pc # "dead", UNCHANGED gui,
           NEW c \in Children, NEW s, Without(s, "D"), DoneWith(c, s),
           hist'.told = hist.told, hist'.exited = hist.exited,
           \A i \in hist'.done : i \in hist.done \/ Heard(s, i)
    PROVE  Reported'
<1> DEFINE t == IF kind = "delete_permanently" THEN <<<<"s", c.item>>>> ELSE <<>>
<1>1. Without(t, "D")
    <2>1. Without(<<<<"s", c.item>>>>, "D")
        BY WithoutOne DEF Messages, Tags, Children
    <2>. QED BY <2>1, WithoutNone
<1>2. Send(s \o t)
    BY DEF DoneWith
<1> HIDE DEF t
<1>3. Without(s \o t, "D") /\ s \in Seq(Messages) /\ t \in Seq(Messages)
    BY <1>1, WithoutConcat DEF Without
<1>4. \A i \in hist'.done : i \in hist.done \/ Heard(s \o t, i)
    BY <1>3, HeardConcat
<1>. QED BY <1>2, <1>3, <1>4, ReportedSend

LEMMA ReportedFlag ==
    ASSUME IInv, Reported, child.pc # "dead", UNCHANGED gui, NEW f, process_flag(f)
    PROVE  Reported'
<1>1. /\ UNCHANGED hist /\ child'.pc = child.pc
      /\ UNCHANGED toParent \/ Send(<<<<"!", 0>>>>)
    BY DEF process_flag, IInv, Types, Children
<1>2. Without(<<<<"!", 0>>>>, "D")
    BY WithoutOne DEF Messages, Tags
<1>3. CASE UNCHANGED toParent
    BY <1>1, <1>3 DEF Reported
<1>. QED BY <1>1, <1>2, <1>3, ReportedSend

LEMMA ReportedChild == ASSUME IInv, Reported, ChildStep PROVE Reported'
<1>1. child \in Children /\ child.item \in Item /\ child.pc # "dead" /\ UNCHANGED gui
    BY DEF ChildStep, SetPgid, CheckFlag, Look, Reply, SendClose, ReadSafe, Act, End,
           IInv, Types, Children
<1>2. ASSUME UNCHANGED <<toParent, hist>> PROVE Reported'
    BY <1>1, <1>2 DEF Reported
<1>3. CASE SetPgid \/ ReadSafe
    BY <1>2, <1>3 DEF SetPgid, ReadSafe
<1>4. CASE CheckFlag
    BY <1>1, <1>2, <1>4, ReportedFlag DEF CheckFlag
<1>5. CASE Look
    <2>1. CASE DoneWith(child, <<<<"!", child.item>>>>) /\ UNCHANGED hist
        <3>1. Without(<<<<"!", child.item>>>>, "D")
            BY <1>1, WithoutOne DEF Messages, Tags
        <3>. QED BY <1>1, <2>1, <3>1, ReportedDoneWith
    <2>2. ASSUME NEW risky \in BOOLEAN, NEW d \in Decision(child, risky),
                 \/ d = "skip" /\ DoneWith(child, <<>>)
                 \/ d = "go" /\ child' = Agreed(child) /\ UNCHANGED toParent
                 \/ /\ d \in {"?", "C"}
                    /\ child' = [child EXCEPT !.pc = "reply", !.ask = d]
                    /\ Send(<<<<d, child.item>>>>),
                 hist' = [hist EXCEPT !.risky = IF risky THEN @ \cup {child.item} ELSE @,
                                      !.agreed = IF d = "go" THEN @ \cup {child.item} ELSE @]
          PROVE  Reported'
        <3>1. hist'.done = hist.done /\ hist'.told = hist.told /\ hist'.exited = hist.exited
            BY <2>2 DEF IInv, Types, Hists
        <3>2. CASE UNCHANGED toParent
            BY <1>1, <3>1, <3>2 DEF Reported
        <3>3. CASE DoneWith(child, <<>>)
            BY <1>1, <3>1, <3>3, WithoutNone, ReportedDoneWith
        <3>4. CASE d \in {"?", "C"} /\ Send(<<<<d, child.item>>>>)
            <4>1. Without(<<<<d, child.item>>>>, "D")
                BY <1>1, <3>4, WithoutOne DEF Messages, Tags
            <4>. QED BY <1>1, <3>1, <3>4, <4>1, ReportedSend
        <3>. QED BY <2>2, <3>2, <3>3, <3>4
    <2>. QED BY <1>5, <2>1, <2>2 DEF Look
<1>6. CASE Reply
    <2>1. ASSUME hist' = [hist EXCEPT !.agreed = @ \cup {child.item}], UNCHANGED toParent
          PROVE  Reported'
        <3>1. hist'.done = hist.done /\ hist'.told = hist.told /\ hist'.exited = hist.exited
            BY <2>1 DEF IInv, Types, Hists
        <3>. QED BY <1>1, <2>1, <3>1 DEF Reported
    <2>2. ASSUME DoneWith([child EXCEPT !.policy =
                              IF Head(toChild)[1] = "S" THEN "skip" ELSE @], <<>>),
                 UNCHANGED hist
          PROVE  Reported'
        <3> DEFINE c == [child EXCEPT !.policy = IF Head(toChild)[1] = "S" THEN "skip" ELSE @]
        <3>1. c \in Children
            BY <1>1 DEF Children
        <3> HIDE DEF c
        <3>2. DoneWith(c, <<>>)
            BY <2>2 DEF c
        <3>. QED BY <1>1, <2>2, <3>1, <3>2, WithoutNone, ReportedDoneWith
    <2>. QED BY <1>1, <1>2, <1>6, <2>1, <2>2, ReportedFlag DEF Reply
<1>7. CASE SendClose
    <2>1. Without(<<<<"X", child.item>>>>, "D")
        BY <1>1, WithoutOne DEF Messages, Tags
    <2>. QED BY <1>1, <1>7, <2>1, ReportedSend DEF SendClose
<1>8. CASE Act
    <2>1. PICK ok \in BOOLEAN :
             /\ DoneWith(child, (IF ok THEN <<>> ELSE <<<<"!", child.item>>>>)
                             \o (IF ok \/ kind = "eject" THEN <<<<"s", child.item>>>> ELSE <<>>))
             /\ hist' = [hist EXCEPT !.done = @ \cup {child.item}]
        BY <1>8 DEF Act
    <2> DEFINE s == IF ok THEN <<>> ELSE <<<<"!", child.item>>>>
               t == IF ok \/ kind = "eject" THEN <<<<"s", child.item>>>> ELSE <<>>
    <2>2. Without(<<<<"!", child.item>>>>, "D") /\ Without(<<<<"s", child.item>>>>, "D")
        BY <1>1, WithoutOne DEF Messages, Tags
    <2>3. Without(s, "D") /\ Without(t, "D") /\ s \in Seq(Messages) /\ t \in Seq(Messages)
        BY <2>2, WithoutNone DEF Without
    <2>4. Heard(s, child.item) \/ Heard(t, child.item)
        BY DEF Heard, Reports
    <2>5. /\ hist'.told = hist.told /\ hist'.exited = hist.exited
          /\ hist'.done = hist.done \cup {child.item}
        BY <2>1 DEF IInv, Types, Hists
    <2>6. DoneWith(child, s \o t)
        BY <2>1
    <2> HIDE DEF s, t
    <2>. QED BY <1>1, <2>3, <2>4, <2>5, <2>6, WithoutConcat, HeardConcat, ReportedDoneWith
<1>9. CASE End
    <2>1. /\ child'.pc = "dead" /\ UNCHANGED hist
          /\ toParent' = IF gui.open THEN toParent \o <<<<"D", 0>>>> ELSE toParent
        BY <1>9 DEF End, Send, IInv, Types, Children
    <2>2. CASE gui.open
        <3>1. toParent \in Seq(Messages) /\ <<<<"D", 0>>>> \in Seq(Messages)
            BY DEF IInv, Types, Messages, Tags
        <3>2. \A i \in hist'.done : i \in hist'.told \/ Heard(toParent', i)
            BY <2>1, <2>2, <3>1, HeardConcat DEF Reported
        <3>3. \A k \in DOMAIN toParent' : toParent'[k][1] = "D" => k = Len(toParent')
            BY <1>1, <2>1, <2>2, <3>1 DEF Reported
        <3>. QED BY <1>1, <2>1, <2>2, <3>2, <3>3 DEF Reported
    <2>. QED BY <1>1, <2>1, <2>2 DEF Reported
<1>. QED BY <1>3, <1>4, <1>5, <1>6, <1>7, <1>8, <1>9 DEF ChildStep

LEMMA ReportedMessage == ASSUME IInv, Reported, Message PROVE Reported'
<1> DEFINE m == Head(toParent)[1]
           i == Head(toParent)[2]
<1>1. /\ toParent # <<>> /\ toParent \in Seq(Messages) /\ gui.open /\ child' = child
      /\ 1 \in DOMAIN toParent /\ Head(toParent) = toParent[1]
      /\ m \in {"?", "C", "X", "s", "!", "D"}
      /\ \A j : Reports(toParent[1], j) <=> m \in {"s", "!"} /\ i = j
    BY DEF Message, IInv, Types, Messages, Reports
<1>2. /\ hist'.done = hist.done /\ hist'.exited = hist.exited
      /\ hist'.told = IF m \in {"s", "!"} THEN hist.told \cup {i} ELSE hist.told
    BY DEF Message, IInv, Types, Hists
<1>3. CASE m = "D"
    <2>1. Len(toParent) = 1 /\ child.pc = "dead" /\ toParent' = <<>>
        BY <1>1, <1>3 DEF Reported, Message
    <2>2. hist.done \subseteq hist.told
        <3>1. \A k \in DOMAIN toParent : k = 1
            BY <1>1, <2>1
        <3>. QED BY <1>1, <1>3, <3>1 DEF Reported, Heard
    <2>3. gui'.open = FALSE
        BY <1>3 DEF Message, finish_action, IInv, Types, Guis
    <2>. QED BY <1>1, <1>2, <1>3, <2>1, <2>2, <2>3 DEF Reported
<1>4. CASE m # "D"
    <2>1. gui'.open = gui.open /\ toParent' = Tail(toParent)
        BY <1>4 DEF Message, IInv, Types, Guis
    <2>2. /\ Len(toParent') = Len(toParent) - 1
          /\ \A k \in DOMAIN toParent' : k + 1 \in DOMAIN toParent /\ toParent'[k] = toParent[k + 1]
          /\ \A k \in DOMAIN toParent : k # 1 =>
                k - 1 \in DOMAIN toParent' /\ toParent'[k - 1] = toParent[k]
        BY <1>1, <2>1
    <2>3. \A j \in hist'.done : j \in hist'.told \/ Heard(toParent', j)
        <3> SUFFICES ASSUME NEW j \in hist.done, j \notin hist'.told PROVE Heard(toParent', j)
            BY <1>2
        <3>1. PICK k \in DOMAIN toParent : Reports(toParent[k], j)
            BY <1>1, <1>2 DEF Reported, Heard
        <3>2. k # 1
            BY <1>1, <1>2, <3>1
        <3>. QED BY <2>2, <3>1, <3>2 DEF Heard
    <2>4. \A k \in DOMAIN toParent' :
             toParent'[k][1] = "D" => k = Len(toParent') /\ child.pc = "dead"
        BY <1>1, <2>1, <2>2 DEF Reported
    <2>. QED BY <1>1, <2>1, <2>3, <2>4 DEF Reported
<1>. QED BY <1>3, <1>4

LEMMA ReportedNext == IInv /\ Reported /\ [Next]_vars => Reported'
<1> SUFFICES ASSUME IInv, Reported, [Next]_vars PROVE Reported'
    OBVIOUS
<1>1. ASSUME UNCHANGED toParent, gui'.open = gui.open,
             child'.pc = child.pc \/ child'.pc = "dead",
             hist'.done = hist.done, hist'.told = hist.told, hist'.exited = hist.exited
      PROVE  Reported'
    BY <1>1 DEF Reported
<1>2. CASE HangUp
    <2>1. gui'.open = FALSE
        BY <1>2 DEF HangUp, finish_action, IInv, Types, Guis
    <2>. QED BY <1>2, <2>1 DEF HangUp, Reported, Heard
<1>3. CASE FilerExit
    <2>1. toParent' = <<>> /\ gui'.open = FALSE /\ hist'.exited = TRUE
        BY <1>3 DEF FilerExit, IInv, Types, Guis, Hists
    <2>. QED BY <2>1 DEF Reported
<1>4. CASE ShowTimer \/ Abort
    <2>1. gui'.open = gui.open /\ (child'.pc = child.pc \/ child'.pc = "dead")
          /\ UNCHANGED <<toParent, hist>>
        BY <1>4 DEF ShowTimer, Abort, IInv, Types, Guis, Children
    <2>. QED BY <1>1, <2>1
<1>5. ASSUME NEW f \in Flags, Toggle(f) PROVE Reported'
    <2>1. gui'.open = gui.open /\ UNCHANGED <<toParent, child>>
        BY <1>5 DEF Toggle, IInv, Types, Guis
    <2>2. hist'.done = hist.done /\ hist'.told = hist.told /\ hist'.exited = hist.exited
        BY <1>5 DEF Toggle, IInv, Types, Hists
    <2>. QED BY <1>1, <2>1, <2>2
<1>6. ASSUME NEW yes \in BOOLEAN, NEW all \in BOOLEAN, NEW quietly \in BOOLEAN,
             Answer(yes, all, quietly)
      PROVE  Reported'
    <2>1. gui'.open = gui.open /\ UNCHANGED <<toParent, child>>
        BY <1>6 DEF Answer, Answered, IInv, Types, Guis
    <2>2. hist'.done = hist.done /\ hist'.told = hist.told /\ hist'.exited = hist.exited
        BY <1>6 DEF Answer, IInv, Types, Hists
    <2>. QED BY <1>1, <2>1, <2>2
<1>7. CASE UNCHANGED vars
    BY <1>1, <1>7 DEF vars
<1>. QED BY <1>2, <1>3, <1>4, <1>5, <1>6, <1>7, ReportedChild, ReportedMessage
         DEF Next, UserAnswer, Terminated

LEMMA ReportedInit == Init => Reported
BY DEF Init, Reported

\* start_action, message_from_child: when an operation nobody interrupted closes its
\* window, the filer has been told about every item the child touched.
THEOREM ToldHolds == Spec => []ToldAtEnd
<1>1. Reported => ToldAtEnd
    BY DEF Reported, ToldAtEnd, Completed
<1>. QED BY <1>1, ReportedInit, ReportedNext, ProtocolHolds, PTL DEF Spec

----------------------------------------------------------------------------
(* The windows are closed before the device is unmounted.                  *)

\* The X of the item at hand is on its way to the filer, nothing is, or it is back.
Handshake ==
    \/ /\ toChild = <<>>
       /\ \A k \in DOMAIN toParent : toParent[k][1] = "X" =>
             /\ toParent[k][2] = child.item
             /\ \A l \in DOMAIN toParent : toParent[l][1] = "X" => l = k
    \/ /\ Len(toChild) = 1 /\ toChild[1][1] = "X"
       /\ child.item \in hist.closed /\ Without(toParent, "X")

\* While the user toggles nothing, the child of an unmount finds nothing in its pipe
\* but the answers to its questions and the X it waits for.
Shaken ==
    Closes /\ toggles = 0 =>
        /\ child.pc \notin {"safe", "dead"} => Without(toParent, "X")
        /\ child.pc \notin {"safe", "reply", "dead"} => toChild = <<>>
        /\ child.pc = "safe" => Handshake
        /\ child.pc = "reply" /\ toChild # <<>> => IsAnswer(toChild[Len(toChild)])
        /\ child.pc = "act" => child.item \in hist.closed
        /\ hist.done \subseteq hist.closed

LEMMA WithoutSend ==
    \A s, tag : Without(toParent, tag) /\ Without(s, tag) /\ Send(s) => Without(toParent', tag)
BY WithoutConcat DEF Send

LEMMA WithoutDoneWith ==
    ASSUME NEW c \in Children, NEW s, Without(toParent, "X"), Without(s, "X"), DoneWith(c, s)
    PROVE  Without(toParent', "X")
<1> DEFINE t == IF kind = "delete_permanently" THEN <<<<"s", c.item>>>> ELSE <<>>
<1>1. Without(t, "X")
    <2>1. Without(<<<<"s", c.item>>>>, "X")
        BY WithoutOne DEF Messages, Tags, Children
    <2>. QED BY <2>1, WithoutNone
<1>2. Send(s \o t)
    BY DEF DoneWith
<1> HIDE DEF t
<1>. QED BY <1>1, <1>2, WithoutConcat, WithoutSend

\* Between two handshakes.
LEMMA ShakenApart ==
    ASSUME child'.pc \notin {"reply", "safe"}, Without(toParent', "X"), toChild' = <<>>,
           child'.pc = "act" => child'.item \in hist'.closed,
           hist'.done \subseteq hist'.closed
    PROVE  Shaken'
BY DEF Shaken

LEMMA ShakenLook ==
    ASSUME IInv, Shaken, Look, Closes, toggles = 0 PROVE Shaken'
<1>1. /\ child \in Children /\ child.item \in Item /\ Without(toParent, "X")
      /\ child.pc = "flags" /\ toChild' = <<>> /\ hist.done \subseteq hist.closed
    BY DEF Look, Shaken, IInv, Types, Children
<1>2. PICK d \in Decision(child, FALSE) :
            /\ \/ d = "skip" /\ DoneWith(child, <<>>)
               \/ d = "go" /\ child' = Agreed(child) /\ UNCHANGED toParent
               \/ /\ d \in {"?", "C"}
                  /\ child' = [child EXCEPT !.pc = "reply", !.ask = d]
                  /\ Send(<<<<d, child.item>>>>)
            /\ hist' = [hist EXCEPT !.agreed = IF d = "go" THEN @ \cup {child.item} ELSE @]
    <2>1. PICK risky \in {FALSE} : \E d \in Decision(child, risky) :
            /\ \/ d = "skip" /\ DoneWith(child, <<>>)
               \/ d = "go" /\ child' = Agreed(child) /\ UNCHANGED toParent
               \/ /\ d \in {"?", "C"}
                  /\ child' = [child EXCEPT !.pc = "reply", !.ask = d]
                  /\ Send(<<<<d, child.item>>>>)
            /\ hist' = [hist EXCEPT !.risky = IF risky THEN @ \cup {child.item} ELSE @,
                                    !.agreed = IF d = "go" THEN @ \cup {child.item} ELSE @]
        BY Zenon DEF Look
    <2>2. PICK d \in Decision(child, risky) :
            /\ \/ d = "skip" /\ DoneWith(child, <<>>)
               \/ d = "go" /\ child' = Agreed(child) /\ UNCHANGED toParent
               \/ /\ d \in {"?", "C"}
                  /\ child' = [child EXCEPT !.pc = "reply", !.ask = d]
                  /\ Send(<<<<d, child.item>>>>)
            /\ hist' = [hist EXCEPT !.risky = IF risky THEN @ \cup {child.item} ELSE @,
                                    !.agreed = IF d = "go" THEN @ \cup {child.item} ELSE @]
        BY <2>1, Zenon
    <2>3. hist \in Hists
        BY DEF IInv, Types
    <2>4. hist' = [hist EXCEPT !.agreed = IF d = "go" THEN @ \cup {child.item} ELSE @]
        BY ONLY <2>2, <2>3, risky \in {FALSE} DEF Hists
    <2>5. d \in Decision(child, FALSE)
        OBVIOUS
    <2>. QED BY ONLY <2>2, <2>4, <2>5, Zenon
<1>3. hist'.done = hist.done /\ hist'.closed = hist.closed
    BY <1>2 DEF IInv, Types, Hists
<1>4. CASE DoneWith(child, <<>>)
    <2>1. child'.pc \in {"done", "flags"}
        BY <1>1, <1>4, NextItemIs DEF DoneWith
    <2>. QED BY <1>1, <1>3, <1>4, <2>1, WithoutNone, WithoutDoneWith, ShakenApart
<1>5. CASE child' = Agreed(child) /\ UNCHANGED toParent
    <2>1. child'.pc = "close"
        BY <1>1, <1>5 DEF Agreed, Children
    <2>. QED BY <1>1, <1>3, <1>5, <2>1, ShakenApart
<1>6. CASE /\ d \in {"?", "C"}
           /\ child' = [child EXCEPT !.pc = "reply", !.ask = d]
           /\ Send(<<<<d, child.item>>>>)
    <2>1. child'.pc = "reply"
        BY <1>1, <1>6 DEF Children
    <2>2. Without(<<<<d, child.item>>>>, "X")
        BY <1>1, <1>6, WithoutOne DEF Messages, Tags
    <2>3. Without(toParent', "X")
        BY <1>1, <1>6, <2>2, WithoutSend
    <2>. QED BY <1>1, <1>3, <2>1, <2>3 DEF Shaken
<1>. QED BY <1>2, <1>4, <1>5, <1>6

\* The answer is the last character the child of an unmount is sent.
LEMMA ShakenReply ==
    ASSUME IInv, Shaken, Reply, Closes, toggles = 0 PROVE Shaken'
<1>1. /\ child \in Children /\ child.item \in Item /\ child.pc = "reply"
      /\ toChild \in Seq(Chars) /\ Without(toParent, "X")
      /\ hist.done \subseteq hist.closed
      /\ toChild # <<>> => IsAnswer(toChild[Len(toChild)])
    BY DEF Reply, Shaken, IInv, Types, Children
<1>2. CASE child' = [child EXCEPT !.pc = "dead"] /\ UNCHANGED hist
    <2>1. child'.pc = "dead"
        BY <1>1, <1>2 DEF Children
    <2>. QED BY <1>1, <1>2, <2>1 DEF Shaken
<1>3. ASSUME toChild # <<>>, toChild' = Tail(toChild), IsAnswer(Head(toChild))
      PROVE  toChild' = <<>>
    <2>1. /\ Head(toChild) = toChild[1] /\ 1 \in DOMAIN toChild
          /\ Len(toChild) \in DOMAIN toChild
        BY <1>1, <1>3
    <2>2. Len(toChild) = 1
        BY <1>1, <1>3, <2>1 DEF IInv, Told
    <2>. QED BY <1>1, <1>3, <2>2
<1>4. ASSUME toChild # <<>>, toChild' = Tail(toChild), process_flag(Head(toChild)[1])
      PROVE  Shaken'
    <2>1. child'.pc = "reply" /\ UNCHANGED hist
          /\ (UNCHANGED toParent \/ Send(<<<<"!", 0>>>>))
        BY <1>1, <1>4 DEF process_flag, Children
    <2>2. Without(<<<<"!", 0>>>>, "X")
        BY WithoutOne DEF Messages, Tags
    <2>3. Without(toParent', "X")
        BY <1>1, <2>1, <2>2, WithoutSend
    <2>4. toChild' # <<>> => toChild'[Len(toChild')] = toChild[Len(toChild)]
        BY <1>1, <1>4
    <2>. QED BY <1>1, <1>4, <2>1, <2>3, <2>4 DEF Shaken
<1>5. ASSUME NEW c \in Children, child' = Agreed(c), toChild' = <<>>, UNCHANGED toParent,
             hist' = [hist EXCEPT !.agreed = @ \cup {child.item}]
      PROVE  Shaken'
    <2>1. child'.pc = "close"
        BY <1>5 DEF Agreed, Children
    <2>2. hist'.done = hist.done /\ hist'.closed = hist.closed
        BY <1>5 DEF IInv, Types, Hists
    <2>. QED BY <1>1, <1>5, <2>1, <2>2, ShakenApart
<1>6. ASSUME NEW c \in Children, DoneWith(c, <<>>), toChild' = <<>>, UNCHANGED hist
      PROVE  Shaken'
    <2>1. child'.pc \in {"done", "flags"}
        BY <1>6, NextItemIs DEF DoneWith
    <2>. QED BY <1>1, <1>6, <2>1, WithoutNone, WithoutDoneWith, ShakenApart
<1>7. ASSUME toChild # <<>>, toChild' = Tail(toChild), Head(toChild)[1] \in {"Y", "A"},
             child' = Agreed([child EXCEPT !.policy =
                                 IF Head(toChild)[1] = "A" THEN "replace" ELSE @]),
             hist' = [hist EXCEPT !.agreed = @ \cup {child.item}], UNCHANGED toParent
      PROVE  Shaken'
    <2> DEFINE c == [child EXCEPT !.policy = IF Head(toChild)[1] = "A" THEN "replace" ELSE @]
    <2>1. c \in Children
        BY <1>1 DEF Children
    <2>2. toChild' = <<>>
        BY <1>3, <1>7 DEF IsAnswer, Answers
    <2>. QED BY <1>5, <1>7, <2>1, <2>2
<1>8. ASSUME toChild # <<>>, toChild' = Tail(toChild), Head(toChild)[1] \in {"N", "S"},
             DoneWith([child EXCEPT !.policy =
                          IF Head(toChild)[1] = "S" THEN "skip" ELSE @], <<>>),
             UNCHANGED hist
      PROVE  Shaken'
    <2> DEFINE c == [child EXCEPT !.policy = IF Head(toChild)[1] = "S" THEN "skip" ELSE @]
    <2>1. c \in Children
        BY <1>1 DEF Children
    <2>2. toChild' = <<>>
        BY <1>3, <1>8 DEF IsAnswer, Answers
    <2>. QED BY <1>6, <1>8, <2>1, <2>2
<1>. QED BY <1>2, <1>4, <1>7, <1>8 DEF Reply

LEMMA ShakenClose ==
    ASSUME IInv, Shaken, SendClose, Closes, toggles = 0 PROVE Shaken'
<1>1. /\ child'.pc = "safe" /\ child'.item = child.item /\ child.item \in Item
      /\ toChild' = <<>> /\ Without(toParent, "X") /\ hist' = hist
      /\ hist.done \subseteq hist.closed
    BY DEF SendClose, Shaken, IInv, Types, Children
<1>2. /\ toParent \in Seq(Messages)
      /\ UNCHANGED toParent \/ toParent' = toParent \o <<<<"X", child.item>>>>
    BY DEF SendClose, Send, IInv, Types
<1>3. Handshake'
    <2>1. CASE UNCHANGED toParent
        BY <1>1, <2>1 DEF Handshake, Without
    <2>2. CASE toParent' = toParent \o <<<<"X", child.item>>>>
        <3>1. \A k \in DOMAIN toParent' : toParent'[k][1] = "X" =>
                 k = Len(toParent) + 1 /\ toParent'[k][2] = child.item
            BY <1>1, <1>2, <2>2 DEF Without
        <3>. QED BY <1>1, <3>1 DEF Handshake
    <2>. QED BY <1>2, <2>1, <2>2
<1>. QED BY <1>1, <1>3 DEF Shaken

LEMMA ShakenSafe ==
    ASSUME IInv, Reported, Shaken, ReadSafe, Closes, toggles = 0 PROVE Shaken'
<1>1. /\ child \in Children /\ child.pc = "safe" /\ Handshake /\ hist' = hist
      /\ toParent' = toParent /\ toChild \in Seq(Chars) /\ hist.done \subseteq hist.closed
    BY DEF ReadSafe, Shaken, IInv, Types
<1>2. CASE toChild # <<>>
    <2>1. /\ Len(toChild) = 1 /\ toChild[1][1] = "X" /\ child.item \in hist.closed
          /\ Without(toParent, "X")
        BY <1>1, <1>2 DEF Handshake
    <2>2. toChild' = <<>> /\ Head(toChild) = toChild[1]
        BY <1>1, <1>2, <2>1 DEF ReadSafe
    <2>3. child'.pc = "act" /\ child'.item = child.item
        BY <1>1, <1>2, <2>1, <2>2 DEF ReadSafe, Children
    <2>. QED BY <1>1, <2>1, <2>2, <2>3, ShakenApart
<1>3. CASE toChild = <<>>
    <2>1. ~gui.open /\ child' = NextItem(child) /\ toChild' = <<>>
        BY <1>3 DEF ReadSafe
    <2>2. child'.pc \in {"done", "flags"}
        BY <1>1, <2>1, NextItemIs
    <2>3. Without(toParent', "X")
        BY <1>1, <2>1, WithoutNone DEF Reported
    <2>. QED BY <1>1, <2>1, <2>2, <2>3, ShakenApart
<1>. QED BY <1>2, <1>3

LEMMA ShakenAct ==
    ASSUME IInv, Shaken, Act, Closes, toggles = 0 PROVE Shaken'
<1>1. /\ child \in Children /\ child.item \in Item /\ child.pc = "act"
      /\ toChild' = <<>> /\ Without(toParent, "X")
      /\ child.item \in hist.closed /\ hist.done \subseteq hist.closed
    BY DEF Act, Shaken, IInv, Types, Children
<1>2. PICK ok \in BOOLEAN :
         /\ DoneWith(child, (IF ok THEN <<>> ELSE <<<<"!", child.item>>>>)
                         \o (IF ok \/ kind = "eject" THEN <<<<"s", child.item>>>> ELSE <<>>))
         /\ hist' = [hist EXCEPT !.done = @ \cup {child.item}]
    BY DEF Act
<1> DEFINE s == IF ok THEN <<>> ELSE <<<<"!", child.item>>>>
           t == IF ok \/ kind = "eject" THEN <<<<"s", child.item>>>> ELSE <<>>
<1>3. Without(<<<<"!", child.item>>>>, "X") /\ Without(<<<<"s", child.item>>>>, "X")
    BY <1>1, WithoutOne DEF Messages, Tags
<1>4. Without(s, "X") /\ Without(t, "X")
    BY <1>3, WithoutNone
<1>5. DoneWith(child, s \o t)
    BY <1>2
<1>6. hist'.closed = hist.closed /\ hist'.done = hist.done \cup {child.item}
    BY <1>2 DEF IInv, Types, Hists
<1> HIDE DEF s, t
<1>7. child'.pc \in {"done", "flags"}
    BY <1>1, <1>5, NextItemIs DEF DoneWith
<1>8. Without(toParent', "X")
    BY <1>1, <1>4, <1>5, WithoutConcat, WithoutDoneWith
<1>. QED BY <1>1, <1>6, <1>7, <1>8, ShakenApart

LEMMA ShakenEnd == ASSUME IInv, Shaken, hist' = hist, child'.pc = "dead",
                          Closes, toggles = 0
                   PROVE  Shaken'
BY DEF Shaken

LEMMA ShakenMessage ==
    ASSUME IInv, Shaken, Message, Closes, toggles = 0 PROVE Shaken'
<1> DEFINE m == Head(toParent)[1]
           i == Head(toParent)[2]
<1>1. /\ toParent # <<>> /\ toParent \in Seq(Messages) /\ child' = child
      /\ 1 \in DOMAIN toParent /\ Head(toParent) = toParent[1]
      /\ toChild \in Seq(Chars) /\ i \in Tags
    BY DEF Message, IInv, Types, Messages
<1>2. /\ hist'.done = hist.done
      /\ hist'.closed = IF m = "X" THEN hist.closed \cup {i} ELSE hist.closed
    BY DEF Message, IInv, Types, Hists
<1>3. /\ hist.done \subseteq hist.closed /\ hist'.done \subseteq hist'.closed
      /\ child.pc = "act" => child.item \in hist'.closed
    BY <1>2 DEF Shaken
<1>4. /\ Tail(toParent) \in Seq(Messages) /\ Len(Tail(toParent)) = Len(toParent) - 1
      /\ \A k \in DOMAIN Tail(toParent) :
            /\ k \in Nat \ {0} /\ k + 1 \in DOMAIN toParent
            /\ Tail(toParent)[k] = toParent[k + 1]
    BY <1>1
<1>5. toParent' = <<>> \/ toParent' = Tail(toParent)
    BY DEF Message
<1>6. Without(toParent, "X") => Without(toParent', "X")
    BY <1>4, <1>5, WithoutNone DEF Without
<1>7. CASE m # "X"
    <2>1. toChild' = toChild /\ hist'.closed = hist.closed
        BY <1>2, <1>7 DEF Message
    <2>2. Handshake => Handshake'
        <3>1. CASE toParent' = <<>>
            BY <1>1, <1>6, <2>1, <3>1 DEF Handshake
        <3>2. CASE toParent' = Tail(toParent)
            <4>1. ASSUME \A k \in DOMAIN toParent : toParent[k][1] = "X" =>
                            /\ toParent[k][2] = child.item
                            /\ \A l \in DOMAIN toParent : toParent[l][1] = "X" => l = k
                  PROVE  \A k \in DOMAIN toParent' : toParent'[k][1] = "X" =>
                            /\ toParent'[k][2] = child.item
                            /\ \A l \in DOMAIN toParent' : toParent'[l][1] = "X" => l = k
                BY <1>4, <3>2, <4>1
            <4>. QED BY <1>1, <1>6, <2>1, <4>1 DEF Handshake
        <3>. QED BY <1>5, <3>1, <3>2
    <2>. QED BY <1>1, <1>3, <1>6, <2>1, <2>2 DEF Shaken
<1>8. CASE m = "X"
    <2>1. toChild' = Append(toChild, <<"X", i>>) /\ toParent' = Tail(toParent)
        BY <1>8 DEF Message
    <2>2. CASE child.pc = "safe"
        <3>1. /\ toChild = <<>> /\ i = child.item
              /\ \A l \in DOMAIN toParent : toParent[l][1] = "X" => l = 1
            BY <1>1, <1>8, <2>2 DEF Shaken, Handshake, Without
        <3>2. Len(toChild') = 1 /\ toChild'[1][1] = "X"
            BY <1>1, <2>1, <3>1
        <3>3. Without(toParent', "X")
            <4>1. \A k \in DOMAIN toParent' : toParent'[k][1] # "X"
                BY <1>4, <2>1, <3>1
            <4>. QED BY <1>4, <2>1, <4>1 DEF Without
        <3>4. Handshake'
            BY <1>1, <1>2, <1>8, <3>1, <3>2, <3>3 DEF Handshake
        <3>. QED BY <1>1, <1>3, <2>2, <3>4 DEF Shaken
    <2>3. CASE child.pc # "safe"
        <3>1. child.pc = "dead"
            BY <1>1, <1>8, <2>3 DEF Shaken, Without
        <3>. QED BY <1>1, <1>3, <3>1 DEF Shaken
    <2>. QED BY <2>2, <2>3
<1>. QED BY <1>7, <1>8

\* The user answers: the answer is then the last character in the pipe.
LEMMA ShakenAnswer ==
    ASSUME IInv, Shaken, NEW yes \in BOOLEAN, NEW all \in BOOLEAN, NEW quietly \in BOOLEAN,
           Answer(yes, all, quietly), Closes, toggles = 0
    PROVE  Shaken'
<1> DEFINE c == IF yes THEN (IF all THEN "A" ELSE "Y") ELSE (IF all THEN "S" ELSE "N")
           i == child.item
<1>1. /\ gui.question = i /\ i \in Item /\ Waits /\ c \in Answers /\ NoAnswer
      /\ toChild \in Seq(Chars) /\ child' = child /\ toParent' = toParent
    BY DEF Answer, IInv, OnShow, Types, Children, Answers
<1>2. hist'.done = hist.done /\ hist'.closed = hist.closed
    BY DEF Answer, IInv, Types, Hists
<1>3. CASE child.pc = "dead"
    BY <1>1, <1>2, <1>3 DEF Shaken
<1>4. CASE child.pc = "reply"
    <2>1. toChild = <<>>
        <3>1. toChild # <<>> => Len(toChild) \in DOMAIN toChild
            BY <1>1
        <3>. QED BY <1>1, <1>4, <3>1 DEF Shaken, NoAnswer
    <2>2. toChild' = toChild \o (IF gui.open THEN Reaction(c, quietly, i) ELSE <<>>)
        BY <1>1 DEF Answer
    <2>3. IsAnswer(<<c, i>>)
        BY <1>1 DEF IsAnswer
    <2> HIDE DEF c, i
    <2>4. Reaction(c, quietly, i) \in {<<<<"Q", i>>, <<c, i>>>>, <<<<c, i>>>>}
        BY ReactionIs
    <2>5. toChild' \in {<<>>, <<<<"Q", i>>, <<c, i>>>>, <<<<c, i>>>>}
        BY <2>1, <2>2, <2>4
    <2>6. ASSUME toChild' # <<>> PROVE IsAnswer(toChild'[Len(toChild')])
        <3>1. CASE toChild' = <<<<"Q", i>>, <<c, i>>>>
            <4>1. Len(toChild') = 2 /\ toChild'[2] = <<c, i>>
                BY <3>1
            <4>. QED BY <2>3, <4>1
        <3>2. CASE toChild' = <<<<c, i>>>>
            <4>1. Len(toChild') = 1 /\ toChild'[1] = <<c, i>>
                BY <3>2
            <4>. QED BY <2>3, <4>1
        <3>. QED BY <2>5, <2>6, <3>1, <3>2
    <2>. QED BY <1>1, <1>2, <1>4, <2>6 DEF Shaken, i
<1>. QED BY <1>1, <1>3, <1>4 DEF Waits

LEMMA ShakenNext == IInv /\ Reported /\ Shaken /\ [Next]_vars => Shaken'
<1> SUFFICES ASSUME IInv, Reported, Shaken, [Next]_vars, Closes', toggles' = 0
             PROVE  Shaken'
    BY DEF Shaken
<1>1. Closes /\ toggles = 0 /\ hist.done \subseteq hist.closed
    <2>1. kind' = kind /\ (toggles' = toggles \/ toggles' = toggles + 1)
        BY DEF Next, vars, ChildStep, SetPgid, CheckFlag, Look, Reply, SendClose, ReadSafe,
               Act, End, Message, HangUp, ShowTimer, UserAnswer, Answer, Abort, FilerExit,
               Toggle, Terminated
    <2>. QED BY <2>1 DEF Closes, Shaken, IInv, Types
<1>2. CASE SetPgid
    BY <1>1, <1>2 DEF SetPgid, Shaken, IInv, Types, Children
<1>3. CASE CheckFlag
    BY <1>1, <1>3 DEF CheckFlag, Shaken, IInv, Types, Children
<1>4. CASE End
    BY <1>1, <1>4, ShakenEnd DEF End, IInv, Types, Children
<1>5. ASSUME UNCHANGED <<toChild, toParent>>,
             \/ child' = child \/ child'.pc = "dead"
             \/ child'.pc = child.pc /\ child'.item = child.item,
             hist'.done = hist.done, hist'.closed = hist.closed
      PROVE  Shaken'
    BY <1>1, <1>5 DEF Shaken, Handshake
<1>6. CASE HangUp \/ ShowTimer
    BY <1>5, <1>6 DEF HangUp, ShowTimer
<1>7. CASE Abort
    BY <1>5, <1>7 DEF Abort, IInv, Types, Children
<1>8. CASE FilerExit
    <2>1. /\ child' = child /\ toChild' = toChild /\ toParent' = <<>>
          /\ hist'.done = hist.done /\ hist'.closed = hist.closed
        BY <1>8 DEF FilerExit, IInv, Types, Hists
    <2>2. Without(toParent', "X") /\ (Handshake => Handshake')
        BY <2>1, WithoutNone DEF Handshake
    <2>. QED BY <1>1, <2>1, <2>2 DEF Shaken
<1>9. ASSUME NEW f \in Flags, Toggle(f) PROVE FALSE
    BY <1>1, <1>9 DEF Toggle
<1>10. CASE UNCHANGED vars
    BY <1>5, <1>10 DEF vars
<1>. QED BY <1>1, <1>2, <1>3, <1>4, <1>6, <1>7, <1>8, <1>9, <1>10, ShakenLook, ShakenReply,
            ShakenClose, ShakenSafe, ShakenAct, ShakenMessage, ShakenAnswer
         DEF Next, ChildStep, UserAnswer, Terminated

LEMMA ShakenInit == Init => Shaken
BY WithoutNone DEF Init, Shaken

\* do_mount, do_eject: nothing is unmounted whose windows the filer has not closed,
\* as long as the user leaves the flags alone.
THEOREM ClosedHolds == Spec => []ClosedUnlessToggled
<1>1. Shaken => ClosedUnlessToggled
    BY DEF Shaken, ClosedUnlessToggled, Undisturbed, ClosedBeforeUnmount
<1>. QED BY <1>1, ShakenInit, ShakenNext, ReportedInit, ReportedNext, ProtocolHolds, PTL DEF Spec

----------------------------------------------------------------------------
(* What is agreed to is tried.                                             *)

\* What has been agreed to and not been done is at hand, unless somebody interrupted.
Tried ==
    Undisturbed => \A i \in hist.agreed :
        \/ i \in hist.done
        \/ i = child.item /\ child.pc \in {"close", "safe", "act"}
        \/ gui.attempts > 0 \/ hist.exited

LEMMA TriedKept ==
    ASSUME Tried, Undisturbed' => Undisturbed,
           hist.done \subseteq hist'.done, hist.exited => hist'.exited,
           gui'.attempts = gui.attempts,
           \A i \in hist'.agreed :
              \/ i \in hist.agreed
              \/ i = child'.item /\ child'.pc \in {"close", "act"},
           \/ child.pc \notin {"close", "safe", "act"}
           \/ child'.item = child.item /\ child'.pc \in {"close", "safe", "act"}
           \/ child.item \in hist'.done
           \/ hist'.exited
    PROVE  Tried'
BY DEF Tried

LEMMA TriedLook == ASSUME IInv, Tried, Look PROVE Tried'
<1>1. /\ child \in Children /\ child.item \in Item /\ child.pc = "flags"
      /\ UNCHANGED <<kind, toggles, gui>>
    BY DEF Look, IInv, Types, Children
<1>2. ASSUME hist'.done = hist.done, hist'.exited = hist.exited,
             \A i \in hist'.agreed :
                \/ i \in hist.agreed
                \/ i = child'.item /\ child'.pc \in {"close", "act"}
      PROVE  Tried'
    BY <1>1, <1>2, TriedKept DEF Undisturbed, Closes
<1>3. CASE UNCHANGED hist
    BY <1>2, <1>3
<1>4. ASSUME NEW risky \in BOOLEAN, NEW d \in Decision(child, risky),
             \/ d = "skip" /\ DoneWith(child, <<>>)
             \/ d = "go" /\ child' = Agreed(child) /\ UNCHANGED toParent
             \/ /\ d \in {"?", "C"}
                /\ child' = [child EXCEPT !.pc = "reply", !.ask = d]
                /\ Send(<<<<d, child.item>>>>),
             hist' = [hist EXCEPT !.risky = IF risky THEN @ \cup {child.item} ELSE @,
                                  !.agreed = IF d = "go" THEN @ \cup {child.item} ELSE @]
      PROVE  Tried'
    <2>1. /\ hist'.done = hist.done /\ hist'.exited = hist.exited
          /\ hist'.agreed = IF d = "go" THEN hist.agreed \cup {child.item} ELSE hist.agreed
        BY <1>4 DEF IInv, Types, Hists
    <2>2. d = "go" => child'.item = child.item /\ child'.pc \in {"close", "act"}
        BY <1>1, <1>4 DEF Agreed, Children
    <2>. QED BY <1>2, <2>1, <2>2
<1>. QED BY <1>3, <1>4 DEF Look

LEMMA TriedReply == ASSUME IInv, Tried, Reply PROVE Tried'
<1>1. /\ child \in Children /\ child.item \in Item /\ child.pc = "reply"
      /\ UNCHANGED <<kind, toggles, gui>>
    BY DEF Reply, IInv, Types, Children
<1>2. ASSUME hist'.done = hist.done, hist'.exited = hist.exited,
             \A i \in hist'.agreed :
                \/ i \in hist.agreed
                \/ i = child'.item /\ child'.pc \in {"close", "act"}
      PROVE  Tried'
    BY <1>1, <1>2, TriedKept DEF Undisturbed, Closes
<1>3. CASE UNCHANGED hist
    BY <1>2, <1>3
<1>4. ASSUME child' = Agreed([child EXCEPT !.policy =
                                 IF Head(toChild)[1] = "A" THEN "replace" ELSE @]),
             hist' = [hist EXCEPT !.agreed = @ \cup {child.item}]
      PROVE  Tried'
    <2>1. /\ hist'.done = hist.done /\ hist'.exited = hist.exited
          /\ hist'.agreed = hist.agreed \cup {child.item}
        BY <1>4 DEF IInv, Types, Hists
    <2>2. child'.item = child.item /\ child'.pc \in {"close", "act"}
        BY <1>1, <1>4 DEF Agreed, Children
    <2>. QED BY <1>2, <2>1, <2>2
<1>. QED BY <1>3, <1>4 DEF Reply, process_flag

\* The child reads the X it waits for, or the filer has gone.
LEMMA TriedSafe ==
    ASSUME IInv, Consent, Reported, Shaken, Tried, ReadSafe PROVE Tried'
<1>1. /\ child \in Children /\ child.pc = "safe" /\ Closes
      /\ UNCHANGED <<kind, toggles, gui, hist>> /\ toChild \in Seq(Chars)
    BY DEF ReadSafe, Consent, Marked, IInv, Types
<1>2. CASE child' = [child EXCEPT !.pc = "act"]
    <2>1. child'.item = child.item /\ child'.pc = "act"
        BY <1>1, <1>2 DEF Children
    <2>. QED BY <1>1, <2>1, TriedKept DEF Undisturbed, Closes
<1>3. CASE toChild # <<>> /\ Head(toChild)[1] # "X"
    <2>1. ~Handshake
        BY <1>1, <1>3 DEF Handshake
    <2>2. ~Undisturbed'
        BY <1>1, <2>1 DEF Shaken, Undisturbed, Closes
    <2>. QED BY <2>2 DEF Tried
<1>4. CASE toChild = <<>>
    <2>1. ~gui.open
        BY <1>4 DEF ReadSafe
    <2>2. hist.exited
        BY <1>1, <2>1 DEF Reported
    <2>. QED BY <1>1, <2>2 DEF Tried
<1>. QED BY <1>2, <1>3, <1>4 DEF ReadSafe

LEMMA TriedChild ==
    ASSUME IInv, Consent, Reported, Shaken, Tried, ChildStep PROVE Tried'
<1>1. CASE SetPgid \/ CheckFlag \/ SendClose \/ End
    <2>1. /\ UNCHANGED <<kind, toggles, gui, hist>>
          /\ \/ child.pc \notin {"close", "safe", "act"}
             \/ child'.item = child.item /\ child'.pc = "safe"
        BY <1>1 DEF SetPgid, CheckFlag, SendClose, End, process_flag, IInv, Types, Children
    <2>. QED BY <2>1, TriedKept DEF Undisturbed, Closes
<1>2. CASE Act
    <2>1. /\ UNCHANGED <<kind, toggles, gui>>
          /\ hist' = [hist EXCEPT !.done = @ \cup {child.item}]
        BY <1>2 DEF Act
    <2>2. /\ hist'.done = hist.done \cup {child.item}
          /\ hist'.exited = hist.exited /\ hist'.agreed = hist.agreed
        BY <2>1 DEF IInv, Types, Hists
    <2>. QED BY <2>1, <2>2, TriedKept DEF Undisturbed, Closes
<1>. QED BY <1>1, <1>2, TriedLook, TriedReply, TriedSafe DEF ChildStep

LEMMA TriedNext ==
    IInv /\ Consent /\ Reported /\ Shaken /\ Tried /\ [Next]_vars => Tried'
<1> SUFFICES ASSUME IInv, Consent, Reported, Shaken, Tried, [Next]_vars PROVE Tried'
    OBVIOUS
<1>1. ASSUME UNCHANGED <<kind, child>>, toggles' = toggles \/ toggles' = toggles + 1,
             gui'.attempts = gui.attempts,
             hist'.done = hist.done, hist'.agreed = hist.agreed,
             hist.exited => hist'.exited
      PROVE  Tried'
    <2>1. Undisturbed' => Undisturbed
        BY <1>1 DEF Undisturbed, Closes, IInv, Types
    <2>. QED BY <1>1, <2>1 DEF Tried
<1>2. CASE Message
    <2>1. gui'.attempts = gui.attempts
        BY <1>2 DEF Message, finish_action, IInv, Types, Guis
    <2>2. /\ hist'.done = hist.done /\ hist'.agreed = hist.agreed
          /\ hist'.exited = hist.exited
        BY <1>2 DEF Message, IInv, Types, Hists
    <2>. QED BY <1>1, <1>2, <2>1, <2>2 DEF Message
<1>3. CASE HangUp \/ ShowTimer
    <2>1. gui'.attempts = gui.attempts
        BY <1>3 DEF HangUp, ShowTimer, finish_action, IInv, Types, Guis
    <2>. QED BY <1>1, <1>3, <2>1 DEF HangUp, ShowTimer
<1>4. CASE Abort
    <2>1. CASE gui' = [gui EXCEPT !.attempts = @ + 1]
        <3>1. gui'.attempts > 0
            BY <2>1 DEF IInv, Types, Guis
        <3>. QED BY <3>1 DEF Tried
    <2>2. CASE gui' = [gui EXCEPT !.alive = FALSE, !.shown = FALSE] /\ UNCHANGED child
        <3>1. gui'.attempts = gui.attempts
            BY <2>2 DEF IInv, Types, Guis
        <3>. QED BY <1>1, <1>4, <2>2, <3>1 DEF Abort
    <2>. QED BY <1>4, <2>1, <2>2 DEF Abort
<1>5. CASE FilerExit
    <2>1. hist'.exited
        BY <1>5 DEF FilerExit, IInv, Types, Hists
    <2>. QED BY <2>1 DEF Tried
<1>6. ASSUME NEW f \in Flags, Toggle(f) PROVE Tried'
    <2>1. gui'.attempts = gui.attempts /\ UNCHANGED <<kind, child>> /\ toggles' = toggles + 1
        BY <1>6 DEF Toggle, IInv, Types, Guis
    <2>2. /\ hist'.done = hist.done /\ hist'.agreed = hist.agreed
          /\ hist'.exited = hist.exited
        BY <1>6 DEF Toggle, IInv, Types, Hists
    <2>. QED BY <1>1, <2>1, <2>2
<1>7. ASSUME NEW yes \in BOOLEAN, NEW all \in BOOLEAN, NEW quietly \in BOOLEAN,
             Answer(yes, all, quietly)
      PROVE  Tried'
    <2>1. gui'.attempts = gui.attempts /\ UNCHANGED <<kind, child, toggles>>
        BY <1>7 DEF Answer, Answered, IInv, Types, Guis
    <2>2. /\ hist'.done = hist.done /\ hist'.agreed = hist.agreed
          /\ hist'.exited = hist.exited
        BY <1>7 DEF Answer, IInv, Types, Hists
    <2>. QED BY <1>1, <2>1, <2>2
<1>8. CASE UNCHANGED vars
    BY <1>1, <1>8 DEF vars
<1>. QED BY <1>2, <1>3, <1>4, <1>5, <1>6, <1>7, <1>8, TriedChild
         DEF Next, UserAnswer, Terminated

LEMMA TriedInit == Init => Tried
BY DEF Init, Tried

\* do_mount, do_copy2, do_delete: what was agreed to, by the user or by Quiet, has been
\* tried when the operation has ended and nobody interrupted it.
THEOREM TriedHolds == Spec => []AgreedIsTried
<1>1. Reported /\ Tried => AgreedIsTried
    BY DEF Reported, Tried, AgreedIsTried, Completed
<1>. QED BY <1>1, TriedInit, TriedNext, ShakenInit, ShakenNext, ReportedInit, ReportedNext,
            ConsentInit, ConsentNextStep, ProtocolHolds, PTL DEF Spec
-----------------------------------------------------------------------------
(* The child and the filer never wait for each other.                      *)

Live == gui.open => gui.alive /\ gui.child
Asking == child.pc = "reply" => child.ask \in {"?", "C"}
Moves == NeverBothWait /\ Live /\ Asking

LEMMA MovesInit == Init => Moves
BY DEF Init, Moves, Live, Asking, NeverBothWait

LEMMA NotWaiting ==
    ASSUME child'.pc \notin {"reply", "safe"}
    PROVE  NeverBothWait' /\ Asking'
BY DEF NeverBothWait, Asking

LEMMA WindowClosed ==
    ASSUME Asking', ~gui'.open
    PROVE  Moves'
BY DEF Moves, Live, NeverBothWait

LEMMA LiveKept ==
    ASSUME Live, UNCHANGED gui
    PROVE  Live'
BY DEF Live

\* What is in the pipes stays, and the question stays on show.
LEMMA WaitKept ==
    ASSUME NeverBothWait,
           child'.pc = child.pc, child'.ask = child.ask, child'.item = child.item,
           gui'.open => gui.open,
           \A k \in DOMAIN toParent : k \in DOMAIN toParent' /\ toParent'[k] = toParent[k],
           \A k \in DOMAIN toChild : k \in DOMAIN toChild' /\ toChild'[k] = toChild[k],
           toChild # <<>> => toChild' # <<>>,
           gui'.question = gui.question, gui'.ask = gui.ask, gui'.alive = gui.alive,
           gui.shown => gui'.shown
    PROVE  NeverBothWait'
<1>1. AskSent => AskSent'
    BY DEF AskSent
<1>2. AskShown => AskShown'
    BY DEF AskShown
<1>3. AskSettled => AskSettled'
    BY DEF AskSettled, Settles
<1>4. CloseSent => CloseSent'
    BY DEF CloseSent
<1>. QED BY <1>1, <1>2, <1>3, <1>4 DEF NeverBothWait

LEMMA SentLast ==
    ASSUME Types, gui.open, NEW m \in Messages, Send(<<m>>)
    PROVE  \E k \in DOMAIN toParent' : toParent'[k] = m
<1>1. PICK s \in Seq(Messages) : s = toParent
    BY DEF Types
<1>2. toParent' = s \o <<m>>
    BY <1>1 DEF Send
<1>3. Len(s) + 1 \in DOMAIN (s \o <<m>>) /\ (s \o <<m>>)[Len(s) + 1] = m
    BY <1>1
<1>. QED BY <1>2, <1>3

LEMMA StaysInFront ==
    ASSUME NEW S, NEW s \in Seq(S), NEW t \in Seq(S)
    PROVE  /\ \A k \in DOMAIN s : k \in DOMAIN (s \o t) /\ (s \o t)[k] = s[k]
           /\ s # <<>> => s \o t # <<>>
OBVIOUS

LEMMA NextNotWaiting ==
    ASSUME NEW c, c \in Children
    PROVE  NextItem(c).pc \notin {"reply", "safe"}
BY NextItemIs

LEMMA MovesChild == ASSUME IInv, Moves, ChildStep PROVE Moves'
<1>0. /\ UNCHANGED gui /\ Live' /\ Types
      /\ child \in Children /\ child.item \in Item /\ NeverBothWait
    <2>1. UNCHANGED gui
        <3>1. SetPgid \/ CheckFlag \/ Look => UNCHANGED gui
            BY DEF SetPgid, CheckFlag, Look
        <3>2. Reply => UNCHANGED gui
            BY DEF Reply
        <3>3. SendClose \/ ReadSafe \/ Act \/ End => UNCHANGED gui
            BY DEF SendClose, ReadSafe, Act, End
        <3>. QED BY <3>1, <3>2, <3>3 DEF ChildStep
    <2>2. Live'
        BY <2>1, LiveKept DEF Moves
    <2>. QED BY <2>1, <2>2 DEF Moves, IInv, Types, Children
<1>1. CASE SetPgid \/ End
    <2>1. child'.pc \notin {"reply", "safe"}
        BY <1>0, <1>1 DEF SetPgid, End, Children
    <2>. QED BY <1>0, <2>1, NotWaiting DEF Moves
<1>2. CASE CheckFlag
    <2>1. child'.pc \in {"flags", "dead"}
        BY <1>0, <1>2 DEF CheckFlag, process_flag, Children
    <2>. QED BY <1>0, <2>1, NotWaiting DEF Moves
<1>3. CASE Look
    <2>1. CASE \E msgs : DoneWith(child, msgs)
        <3>1. child'.pc \notin {"reply", "safe"}
            BY <1>0, <2>1, NextNotWaiting DEF DoneWith
        <3>. QED BY <1>0, <3>1, NotWaiting DEF Moves
    <2>2. CASE child' = Agreed(child)
        <3>1. child'.pc \notin {"reply", "safe"}
            BY <1>0, <2>2 DEF Agreed, Children
        <3>. QED BY <1>0, <3>1, NotWaiting DEF Moves
    <2>3. ASSUME NEW d \in {"?", "C"}, child' = [child EXCEPT !.pc = "reply", !.ask = d],
                 Send(<<<<d, child.item>>>>)
          PROVE  Moves'
        <3>1. child'.pc = "reply" /\ child'.ask = d /\ child'.item = child.item
            BY <1>0, <2>3 DEF Children
        <3>2. <<d, child.item>> \in Messages /\ gui.open
            BY <1>0, <1>3 DEF Messages, Tags, Look
        <3>3. \E k \in DOMAIN toParent' : toParent'[k] = <<d, child.item>>
            BY <1>0, <2>3, <3>2, SentLast
        <3>4. AskSent'
            BY <3>1, <3>3 DEF AskSent
        <3>. QED BY <1>0, <3>1, <3>4 DEF Moves, NeverBothWait, Asking
    <2>. QED BY <1>3, <2>1, <2>2, <2>3 DEF Look
<1>4. CASE Reply
    <2>1. CASE child' = [child EXCEPT !.pc = "dead"]
        <3>1. child'.pc \notin {"reply", "safe"}
            BY <1>0, <2>1 DEF Children
        <3>. QED BY <1>0, <3>1, NotWaiting DEF Moves
    <2>2. ASSUME NEW p, child' = Agreed([child EXCEPT !.policy = p]) PROVE Moves'
        <3>1. child'.pc \notin {"reply", "safe"}
            BY <1>0, <2>2 DEF Agreed, Children
        <3>. QED BY <1>0, <3>1, NotWaiting DEF Moves
    <2>3. ASSUME NEW p, p \in {child.policy, "skip"},
                 DoneWith([child EXCEPT !.policy = p], <<>>)
          PROVE  Moves'
        <3>1. [child EXCEPT !.policy = p] \in Children
            BY <1>0, <2>3 DEF Children
        <3>2. child'.pc \notin {"reply", "safe"}
            BY <2>3, <3>1, NextNotWaiting DEF DoneWith
        <3>. QED BY <1>0, <3>2, NotWaiting DEF Moves
    <2>4. ASSUME toChild # <<>>, toChild' = Tail(toChild), NEW c, c = Head(toChild)[1],
                 c \notin {"Y", "N"}, ~(child.ask = "C" /\ c \in {"A", "S"}), process_flag(c)
          PROVE  Moves'
        <3>1. child'.pc = "reply" /\ child'.ask = child.ask /\ child'.item = child.item
            BY <1>0, <1>4, <2>4 DEF process_flag, Reply, Children
        <3>2. c \notin Settles
            BY <2>4 DEF Settles
        <3>3. AskSettled => AskSettled'
            <4>1. ASSUME NEW k \in DOMAIN toChild, toChild[k][1] \in Settles
                  PROVE  AskSettled'
                <5>1. PICK s \in Seq(Chars) : s = toChild
                    BY <1>0 DEF Types
                <5>2. k # 1
                    BY <2>4, <3>2, <4>1, <5>1
                <5>3. k - 1 \in DOMAIN Tail(s) /\ Tail(s)[k - 1] = s[k]
                    BY ONLY <4>1, <5>1, <5>2
                <5>4. Settles' = Settles
                    BY <3>1 DEF Settles
                <5>. QED BY <2>4, <4>1, <5>1, <5>3, <5>4 DEF AskSettled
            <4>. QED BY <4>1 DEF AskSettled
        <3>4. AskShown => AskShown'
            BY <1>0, <3>1 DEF AskShown
        <3>5. AskSent => AskSent'
            <4>2. \A k \in DOMAIN toParent : k \in DOMAIN toParent' /\ toParent'[k] = toParent[k]
                <5>1. CASE UNCHANGED toParent
                    BY <5>1
                <5>2. CASE toParent' = toParent \o <<<<"!", 0>>>>
                    <6>1. <<<<"!", 0>>>> \in Seq(Messages) /\ toParent \in Seq(Messages)
                        BY <1>0 DEF Types, Messages, Tags
                    <6>. QED BY <5>2, <6>1, StaysInFront
                <5>. QED BY <2>4, <5>1, <5>2 DEF process_flag, Send
            <4>. QED BY <3>1, <4>2 DEF AskSent
        <3>6. gui.open => AskSent \/ AskShown \/ AskSettled
            BY <1>0, <1>4 DEF Reply, NeverBothWait
        <3>7. NeverBothWait'
            BY <1>0, <3>1, <3>3, <3>4, <3>5, <3>6 DEF NeverBothWait
        <3>8. Asking'
            BY <1>4, <3>1 DEF Moves, Asking, Reply
        <3>. QED BY <1>0, <3>7, <3>8 DEF Moves
    <2>. QED BY <1>4, <2>1, <2>2, <2>3, <2>4 DEF Reply
<1>5. CASE SendClose
    <2>1. child'.pc = "safe" /\ child'.item = child.item
        BY <1>0, <1>5 DEF SendClose, Children
    <2>2. ASSUME gui.open PROVE CloseSent'
        <3>1. <<"X", child.item>> \in Messages
            BY <1>0 DEF Messages, Tags
        <3>2. \E k \in DOMAIN toParent' : toParent'[k] = <<"X", child.item>>
            BY <1>0, <1>5, <2>2, <3>1, SentLast DEF SendClose
        <3>. QED BY <2>1, <3>2 DEF CloseSent
    <2>. QED BY <1>0, <2>1, <2>2 DEF Moves, NeverBothWait, Asking
<1>6. CASE ReadSafe
    <2>1. CASE child' = [child EXCEPT !.pc = "act"]
        <3>1. child'.pc \notin {"reply", "safe"}
            BY <1>0, <2>1 DEF Children
        <3>. QED BY <1>0, <3>1, NotWaiting DEF Moves
    <2>2. CASE child' = NextItem(child)
        <3>1. child'.pc \notin {"reply", "safe"}
            BY <1>0, <2>2, NextNotWaiting
        <3>. QED BY <1>0, <3>1, NotWaiting DEF Moves
    <2>. QED BY <1>6, <2>1, <2>2 DEF ReadSafe
<1>7. CASE Act
    <2>1. child'.pc \notin {"reply", "safe"}
        BY <1>0, <1>7, NextNotWaiting DEF Act, DoneWith
    <2>. QED BY <1>0, <2>1, NotWaiting DEF Moves
<1>. QED BY <1>1, <1>2, <1>3, <1>4, <1>5, <1>6, <1>7 DEF ChildStep

LEMMA MovesMessage == ASSUME IInv, Moves, Message PROVE Moves'
<1> DEFINE m == Head(toParent)
<1>1. PICK s \in Seq(Messages) : s = toParent
    BY DEF IInv, Types
<1>2. /\ gui.open /\ s # <<>> /\ UNCHANGED child /\ m = s[1] /\ gui \in Guis
      /\ child \in Children /\ NeverBothWait /\ Asking /\ Asking' /\ Live
      /\ gui.alive /\ gui.child
    BY <1>1 DEF Message, IInv, Types, Moves, Live, Asking
<1>3. CASE m[1] = "D"
    <2>1. ~gui'.open
        BY <1>2, <1>3 DEF Message, finish_action, Guis
    <2>. QED BY <1>2, <2>1, WindowClosed
<1>4. CASE m[1] # "D"
    <2>1. toParent' = Tail(s)
        BY <1>1, <1>4 DEF Message
    <2>2. \A k \in DOMAIN s : k # 1 => k - 1 \in DOMAIN Tail(s) /\ Tail(s)[k - 1] = s[k]
        BY <1>1, <1>2
    <2>3. /\ \A k \in DOMAIN toChild : k \in DOMAIN toChild' /\ toChild'[k] = toChild[k]
          /\ toChild # <<>> => toChild' # <<>>
          /\ m[1] = "X" => toChild' # <<>>
        <3>1. toChild \in Seq(Chars)
            BY DEF IInv, Types
        <3>2. toChild' = toChild \/ \E c : toChild' = Append(toChild, c)
            BY DEF Message
        <3>3. m[1] = "X" => \E c : toChild' = Append(toChild, c)
            BY DEF Message
        <3>4. ASSUME NEW c
              PROVE  /\ \A k \in DOMAIN toChild : k \in DOMAIN Append(toChild, c)
                                                  /\ Append(toChild, c)[k] = toChild[k]
                     /\ Append(toChild, c) # <<>>
            BY <3>1
        <3>. QED BY <3>2, <3>3, <3>4
    <2>4. /\ gui'.alive /\ gui'.child
          /\ m[1] \notin {"?", "C"} => gui'.question = gui.question /\ gui'.ask = gui.ask
                                       /\ gui'.shown = gui.shown
          /\ m[1] \in {"?", "C"} => gui'.question = m[2] /\ gui'.ask = m[1] /\ gui'.shown
        BY <1>2, <1>4 DEF Message, Guis
    <2>5. CloseSent => CloseSent' \/ toChild' # <<>>
        <3>1. ASSUME NEW k \in DOMAIN s, s[k] = <<"X", child.item>>
              PROVE  CloseSent' \/ toChild' # <<>>
            <4>1. CASE k = 1
                BY <1>2, <2>3, <3>1, <4>1
            <4>2. CASE k # 1
                BY <1>2, <2>1, <2>2, <3>1, <4>2 DEF CloseSent
            <4>. QED BY <4>1, <4>2
        <3>. QED BY <1>1, <3>1 DEF CloseSent
    <2>6. AskSettled => AskSettled'
        BY <1>2, <2>3 DEF AskSettled, Settles
    <2>7. ASSUME child.pc = "reply", AskSent PROVE AskSent' \/ AskShown'
        <3>1. PICK k \in DOMAIN s : s[k] = <<child.ask, child.item>>
            BY <1>1, <2>7 DEF AskSent
        <3>2. CASE k # 1
            BY <1>2, <2>1, <2>2, <3>1, <3>2 DEF AskSent
        <3>3. CASE k = 1 /\ child.ask \in {"?", "C"}
            BY <1>2, <2>4, <3>1, <3>3 DEF AskShown
        <3>. QED BY <1>2, <2>7, <3>2, <3>3 DEF Asking
    <2>8. ASSUME child.pc = "reply", AskShown PROVE AskShown'
        <3>1. ~IsAsk(m)
            BY <1>1, <1>2, <2>8 DEF IInv, Types, Asked, AskShown, Children, Item
        <3>2. m[1] \notin {"?", "C"}
            BY <3>1 DEF IsAsk
        <3>. QED BY <1>2, <2>4, <2>8, <3>2 DEF AskShown
    <2>9. Live'
        BY <2>4 DEF Live
    <2>10. NeverBothWait'
        <3>1. child'.pc = "reply" /\ gui'.open => AskSent' \/ AskShown' \/ AskSettled'
            BY <1>2, <2>6, <2>7, <2>8 DEF NeverBothWait
        <3>2. child'.pc = "safe" /\ gui'.open => CloseSent' \/ toChild' # <<>>
            BY <1>2, <2>3, <2>5 DEF NeverBothWait
        <3>. QED BY <3>1, <3>2 DEF NeverBothWait
    <2>. QED BY <1>2, <2>9, <2>10 DEF Moves
<1>. QED BY <1>3, <1>4

LEMMA MovesAnswer ==
    ASSUME IInv, Moves, NEW yes \in BOOLEAN, NEW all \in BOOLEAN, NEW quietly \in BOOLEAN,
           Answer(yes, all, quietly)
    PROVE  Moves'
<1> DEFINE c == IF yes THEN (IF all THEN "A" ELSE "Y") ELSE (IF all THEN "S" ELSE "N")
           r == Reaction(c, quietly, gui.question)
<1>1. /\ gui.question # 0 /\ UNCHANGED <<child, toParent>> /\ (all => gui.ask = "C")
      /\ NeverBothWait /\ Live /\ Asking /\ Asking' /\ gui \in Guis
      /\ child \in Children
    BY DEF Answer, MayApplyToAll, Moves, Asking, IInv, Types
<1>2. /\ gui'.open = gui.open /\ gui'.alive = gui.alive /\ gui'.child = gui.child
    BY <1>1 DEF Answer, Answered, Guis
<1>3. Live'
    BY <1>1, <1>2 DEF Live
<1>4. CASE ~gui.open
    BY <1>1, <1>2, <1>4, WindowClosed
<1>5. CASE gui.open
    <2>1. toChild' = toChild \o r
        BY <1>5 DEF Answer
    <2>2. child.pc # "safe"
        BY <1>1 DEF IInv, OnShow, Waits
    <2>3. ASSUME child.pc = "reply" PROVE AskSettled'
        <3>1. ~AskSent
            BY <1>1, <2>3 DEF AskSent, Asking, IInv, Asked, IsAsk, Children
        <3>2. ~AskSettled
            BY <1>1 DEF AskSettled, Settles, IInv, OnShow, NoAnswer, IsAnswer, Answers
        <3>3. gui.ask = child.ask
            BY <1>1, <1>5, <2>3, <3>1, <3>2 DEF NeverBothWait, AskShown
        <3>4. c \in Settles
            BY <1>1, <3>3 DEF Settles
        <3>5. Settles' = Settles
            BY <1>1 DEF Settles
        <3>6. PICK s \in Seq(Chars) : s = toChild
            BY DEF IInv, Types
        <3>7. r \in {<<<<c, gui.question>>>>, <<<<"Q", gui.question>>, <<c, gui.question>>>>}
            BY ReactionIs
        <3> HIDE DEF c, r
        <3>8. \E k \in DOMAIN (s \o r) : (s \o r)[k] = <<c, gui.question>>
            <4>1. CASE r = <<<<c, gui.question>>>>
                <5>1. Len(s) + 1 \in DOMAIN (s \o r) /\ (s \o r)[Len(s) + 1] = r[1]
                    BY ONLY <3>6, <4>1
                <5>. QED BY <4>1, <5>1
            <4>2. CASE r = <<<<"Q", gui.question>>, <<c, gui.question>>>>
                <5>1. Len(s) + 2 \in DOMAIN (s \o r) /\ (s \o r)[Len(s) + 2] = r[2]
                    BY ONLY <3>6, <4>2
                <5>. QED BY <4>2, <5>1
            <4>. QED BY <3>7, <4>1, <4>2
        <3>. QED BY <2>1, <3>4, <3>5, <3>6, <3>8 DEF AskSettled
    <2>4. NeverBothWait'
        BY <1>1, <2>2, <2>3 DEF NeverBothWait
    <2>. QED BY <1>1, <1>3, <2>4 DEF Moves, Asking
<1>. QED BY <1>4, <1>5

\* Nothing but the window's own steps: what the child waits for stays where it is.
LEMMA MovesSame ==
    ASSUME NeverBothWait, Live, Asking, UNCHANGED <<child, toChild, toParent>>,
           gui'.open = gui.open, gui'.question = gui.question, gui'.ask = gui.ask,
           gui'.alive = gui.alive, gui'.child = gui.child, gui.shown => gui'.shown
    PROVE  Moves'
<1>1. NeverBothWait'
    BY WaitKept
<1>2. Live' /\ Asking'
    BY DEF Live, Asking
<1>. QED BY <1>1, <1>2 DEF Moves

LEMMA MovesWindow ==
    ASSUME IInv, Moves, ShowTimer \/ HangUp \/ FilerExit \/ Abort
    PROVE  Moves'
<1>0. gui \in Guis /\ child \in Children /\ NeverBothWait /\ Live /\ Asking
    BY DEF Moves, IInv, Types
<1>1. CASE ShowTimer
    <2>1. /\ gui'.open = gui.open /\ gui'.question = gui.question /\ gui'.ask = gui.ask
          /\ gui'.alive = gui.alive /\ gui'.child = gui.child /\ gui'.shown
        BY <1>0, <1>1 DEF ShowTimer, Guis
    <2>2. UNCHANGED <<child, toChild, toParent>>
        BY <1>1 DEF ShowTimer
    <2>. QED BY <1>0, <2>1, <2>2, MovesSame
<1>2. CASE HangUp \/ FilerExit
    <2>1. ~gui'.open /\ child' = child
        BY <1>0, <1>2 DEF HangUp, FilerExit, finish_action, Guis
    <2>2. Asking'
        BY <1>0, <2>1 DEF Asking
    <2>. QED BY <2>1, <2>2, WindowClosed
<1>3. CASE Abort
    <2>1. CASE gui.child
        <3>1. child'.pc \notin {"reply", "safe"}
            BY <1>0, <1>3, <2>1 DEF Abort, Children
        <3>2. gui'.open = gui.open /\ gui'.alive = gui.alive /\ gui'.child = gui.child
            BY <1>0, <1>3, <2>1 DEF Abort, Guis
        <3>3. Live'
            BY <1>0, <3>2 DEF Live
        <3>. QED BY <3>1, <3>3, NotWaiting DEF Moves
    <2>2. CASE ~gui.child
        <3>1. ~gui'.open /\ child' = child
            BY <1>0, <1>3, <2>2 DEF Abort, Guis, Live
        <3>2. Asking'
            BY <1>0, <3>1 DEF Asking
        <3>. QED BY <3>1, <3>2, WindowClosed
    <2>. QED BY <2>1, <2>2
<1>. QED BY <1>1, <1>2, <1>3

LEMMA MovesToggle == ASSUME IInv, Moves, NEW f \in Flags, Toggle(f) PROVE Moves'
<1>0. gui \in Guis /\ NeverBothWait /\ Live /\ Asking /\ toChild \in Seq(Chars)
    BY DEF Moves, IInv, Types
<1>1. /\ gui'.open = gui.open /\ gui'.question = gui.question /\ gui'.ask = gui.ask
      /\ gui'.alive = gui.alive /\ gui'.child = gui.child /\ gui'.shown = gui.shown
    BY <1>0 DEF Toggle, Guis
<1>2. /\ \A k \in DOMAIN toChild : k \in DOMAIN toChild' /\ toChild'[k] = toChild[k]
      /\ toChild # <<>> => toChild' # <<>>
    <2>1. CASE toChild' = toChild
        BY <2>1
    <2>2. CASE toChild' = Append(toChild, <<f, 0>>)
        BY <1>0, <2>2
    <2>. QED BY <2>1, <2>2 DEF Toggle
<1>3. UNCHANGED <<child, toParent>>
    BY DEF Toggle
<1>4. NeverBothWait'
    BY <1>0, <1>1, <1>2, <1>3, WaitKept
<1>. QED BY <1>0, <1>1, <1>3, <1>4 DEF Moves, Live, Asking

LEMMA MovesNext == IInv /\ Moves /\ [Next]_vars => Moves'
<1> SUFFICES ASSUME IInv, Moves, [Next]_vars PROVE Moves'
    OBVIOUS
<1>1. CASE UserAnswer
    BY <1>1, MovesAnswer DEF UserAnswer
<1>2. CASE \E f \in Flags : Toggle(f)
    BY <1>2, MovesToggle
<1>3. CASE UNCHANGED vars
    <2>1. UNCHANGED <<child, toChild, toParent, gui>>
        BY <1>3 DEF vars
    <2>. QED BY <2>1, MovesSame DEF Moves
<1>. QED BY <1>1, <1>2, <1>3, MovesChild, MovesMessage, MovesWindow DEF Next, Terminated

\* printf_reply, do_mount, message_from_child: a child that waits has its question on its
\* way or before the user, or an answer it will take for one; one that waits for an X has
\* it, or a flag in its place, on its way.
THEOREM NeverBothWaitHolds == Spec => []NeverBothWait
<1>1. Moves => NeverBothWait
    BY DEF Moves
<1>. QED BY <1>1, MovesInit, MovesNext, ProtocolHolds, PTL DEF Spec
-----------------------------------------------------------------------------
(* The types of what is in the pipes.                                      *)

OwnChars == ({"Q", "F", "D"} \X {0}) \cup ((Answers \cup {"X", "Q"}) \X Item)

\* Messages whose X, if there is one, names an item.
Own(s) == s \in Seq(Messages) /\ \A k \in DOMAIN s : s[k][1] = "X" => s[k][2] \in Item

Named == toChild \in Seq(OwnChars) /\ Own(toParent)

LEMMA ShortSeq ==
    ASSUME NEW S, NEW x \in S, NEW y \in S
    PROVE  <<y>> \in Seq(S) /\ <<x, y>> \in Seq(S)
OBVIOUS

LEMMA JoinedSeq ==
    ASSUME NEW S, NEW s \in Seq(S), NEW t \in Seq(S)
    PROVE  s \o t \in Seq(S)
OBVIOUS

LEMMA OwnOne == \A m \in Messages : m[1] # "X" \/ m[2] \in Item => Own(<<m>>)
BY DEF Own

LEMMA OwnNone == Own(<<>>)
BY DEF Own

LEMMA OwnConcat == \A s, t : Own(s) /\ Own(t) => Own(s \o t)
<1> SUFFICES ASSUME NEW s, NEW t, Own(s), Own(t) PROVE Own(s \o t)
    OBVIOUS
<1>1. s \in Seq(Messages) /\ t \in Seq(Messages) /\ s \o t \in Seq(Messages)
    BY DEF Own
<1>2. ASSUME NEW k \in DOMAIN (s \o t), (s \o t)[k][1] = "X" PROVE (s \o t)[k][2] \in Item
    <2>1. CASE k <= Len(s)
        <3>1. k \in DOMAIN s /\ (s \o t)[k] = s[k]
            BY <1>1, <2>1
        <3>. QED BY <1>2, <3>1 DEF Own
    <2>2. CASE k > Len(s)
        <3>1. k - Len(s) \in DOMAIN t /\ (s \o t)[k] = t[k - Len(s)]
            BY <1>1, <2>2
        <3>. QED BY <1>2, <3>1 DEF Own
    <2>. QED BY <1>1, <2>1, <2>2
<1>. QED BY <1>1, <1>2 DEF Own

LEMMA OwnSent == Own(toParent) => \A s : Own(s) /\ Send(s) => Own(toParent')
BY OwnConcat DEF Send

LEMMA OwnDoneWith ==
    ASSUME Own(toParent), NEW c \in Children, NEW msgs, Own(msgs), DoneWith(c, msgs)
    PROVE  Own(toParent')
<1>1. PICK t : t = IF kind = "delete_permanently" THEN <<<<"s", c.item>>>> ELSE <<>>
    OBVIOUS
<1>2. <<"s", c.item>> \in Messages
    BY DEF Children, Messages, Tags
<1>3. Own(t)
    BY <1>1, <1>2, OwnOne, OwnNone
<1>4. Send(msgs \o t)
    BY <1>1 DEF DoneWith
<1>. QED BY <1>3, <1>4, OwnConcat, OwnSent

LEMMA OwnFlag ==
    ASSUME Own(toParent), NEW f, process_flag(f)
    PROVE  Own(toParent')
<1>1. <<"!", 0>> \in Messages
    BY DEF Messages, Tags
<1>. QED BY <1>1, OwnOne, OwnSent DEF process_flag

LEMMA NamedChild == ASSUME IInv, Named, ChildStep PROVE Named'
<1>0. /\ child \in Children /\ child.item \in Item /\ toChild \in Seq(OwnChars)
      /\ Own(toParent)
    BY DEF IInv, Types, Children, Named
<1>t. toChild # <<>> => Tail(toChild) \in Seq(OwnChars)
    BY <1>0
<1>m. \A m \in {"!", "s", "?", "C", "D"} : <<m, child.item>> \in Messages /\ <<m, 0>> \in Messages
    BY <1>0 DEF Messages, Tags
<1>1. CASE SetPgid
    BY <1>0, <1>1 DEF SetPgid, Named
<1>2. CASE CheckFlag
    <2>1. toChild' \in Seq(OwnChars)
        BY <1>0, <1>2, <1>t DEF CheckFlag
    <2>2. Own(toParent')
        BY <1>0, <1>2, OwnFlag DEF CheckFlag
    <2>. QED BY <2>1, <2>2 DEF Named
<1>3. CASE Look
    <2>1. UNCHANGED toChild
        BY <1>3 DEF Look
    <2>2. Own(<<<<"!", child.item>>>>)
        BY <1>m, OwnOne
    <2>3. CASE DoneWith(child, <<<<"!", child.item>>>>) \/ DoneWith(child, <<>>)
        <3>1. Own(toParent')
            BY <1>0, <2>2, <2>3, OwnNone, OwnDoneWith
        <3>. QED BY <1>0, <2>1, <3>1 DEF Named
    <2>4. CASE UNCHANGED toParent
        BY <1>0, <2>1, <2>4 DEF Named
    <2>5. ASSUME NEW d \in {"?", "C"}, Send(<<<<d, child.item>>>>) PROVE Named'
        <3>1. Own(<<<<d, child.item>>>>)
            BY <1>m, OwnOne
        <3>2. Own(toParent')
            BY <1>0, <2>5, <3>1, OwnSent
        <3>. QED BY <1>0, <2>1, <3>2 DEF Named
    <2>. QED BY <1>3, <2>3, <2>4, <2>5 DEF Look
<1>4. CASE Reply
    <2>1. toChild' \in Seq(OwnChars)
        BY <1>0, <1>4, <1>t DEF Reply
    <2>2. CASE UNCHANGED toParent
        BY <1>0, <2>1, <2>2 DEF Named
    <2>3. ASSUME NEW p, p \in {child.policy, "skip"},
                 DoneWith([child EXCEPT !.policy = p], <<>>)
          PROVE  Named'
        <3>1. [child EXCEPT !.policy = p] \in Children
            BY <1>0, <2>3 DEF Children
        <3>2. Own(toParent')
            BY <1>0, <2>3, <3>1, OwnNone, OwnDoneWith
        <3>. QED BY <2>1, <3>2 DEF Named
    <2>4. ASSUME NEW c, process_flag(c) PROVE Named'
        BY <1>0, <2>1, <2>4, OwnFlag DEF Named
    <2>. QED BY <1>4, <2>2, <2>3, <2>4 DEF Reply
<1>5. CASE SendClose
    <2>1. <<"X", child.item>> \in Messages
        BY <1>0 DEF Messages, Tags
    <2>2. Own(<<<<"X", child.item>>>>)
        BY <1>0, <2>1, OwnOne
    <2>3. Own(toParent')
        BY <1>0, <1>5, <2>2, OwnSent DEF SendClose
    <2>. QED BY <1>0, <1>5, <2>3 DEF SendClose, Named
<1>6. CASE ReadSafe
    <2>1. toChild' \in Seq(OwnChars)
        BY <1>0, <1>6, <1>t DEF ReadSafe
    <2>. QED BY <1>0, <1>6, <2>1 DEF ReadSafe, Named
<1>7. CASE Act
    <2>1. PICK ok \in BOOLEAN :
              DoneWith(child, (IF ok THEN <<>> ELSE <<<<"!", child.item>>>>)
                           \o (IF ok \/ kind = "eject" THEN <<<<"s", child.item>>>> ELSE <<>>))
        BY <1>7 DEF Act
    <2>2. PICK a : a = IF ok THEN <<>> ELSE <<<<"!", child.item>>>>
        OBVIOUS
    <2>3. PICK b : b = IF ok \/ kind = "eject" THEN <<<<"s", child.item>>>> ELSE <<>>
        OBVIOUS
    <2>4. Own(a) /\ Own(b)
        BY <1>m, <2>2, <2>3, OwnOne, OwnNone
    <2>5. DoneWith(child, a \o b)
        BY <2>1, <2>2, <2>3
    <2>6. Own(a \o b)
        BY <2>4, OwnConcat
    <2>7. Own(toParent')
        BY <1>0, <2>5, <2>6, OwnDoneWith
    <2>. QED BY <1>0, <1>7, <2>7 DEF Act, Named
<1>8. CASE End
    <2>1. Own(<<<<"D", 0>>>>)
        BY <1>m, OwnOne
    <2>2. Own(toParent')
        BY <1>0, <1>8, <2>1, OwnSent DEF End
    <2>. QED BY <1>0, <1>8, <2>2 DEF End, Named
<1>. QED BY <1>1, <1>2, <1>3, <1>4, <1>5, <1>6, <1>7, <1>8 DEF ChildStep

LEMMA NamedFiler == ASSUME IInv, Named, [Next]_vars, ~ChildStep PROVE Named'
<1>0. toChild \in Seq(OwnChars) /\ Own(toParent) /\ gui.question \in Tags
    BY DEF Named, IInv, Types, Guis
<1>1. CASE Message
    <2>1. toParent # <<>> /\ Head(toParent) = toParent[1] /\ 1 \in DOMAIN toParent
          /\ Own(Tail(toParent))
        BY <1>0, <1>1 DEF Message, Own
    <2>2. Own(toParent')
        BY <1>1, <2>1, OwnNone DEF Message
    <2>3. CASE Head(toParent)[1] = "X"
        <3>1. <<"X", Head(toParent)[2]>> \in OwnChars
            BY <1>0, <2>1, <2>3 DEF Own, OwnChars
        <3>2. toChild' = Append(toChild, <<"X", Head(toParent)[2]>>)
            BY <1>1, <2>3 DEF Message
        <3>. QED BY <1>0, <2>2, <3>1, <3>2 DEF Named
    <2>4. CASE Head(toParent)[1] # "X"
        BY <1>0, <1>1, <2>2, <2>4 DEF Message, Named
    <2>. QED BY <2>3, <2>4
<1>2. CASE HangUp \/ ShowTimer \/ Abort \/ Terminated \/ UNCHANGED vars
    BY <1>0, <1>2 DEF HangUp, ShowTimer, Abort, Terminated, vars, Named
<1>3. CASE FilerExit
    BY <1>0, <1>3, OwnNone DEF FilerExit, Named
<1>4. ASSUME NEW yes \in BOOLEAN, NEW all \in BOOLEAN, NEW quietly \in BOOLEAN,
             Answer(yes, all, quietly)
      PROVE  Named'
    <2> DEFINE c == IF yes THEN (IF all THEN "A" ELSE "Y") ELSE (IF all THEN "S" ELSE "N")
               r == Reaction(c, quietly, gui.question)
    <2>1. gui.question \in Item
        BY <1>0, <1>4 DEF Answer, Tags
    <2>2. <<"Q", gui.question>> \in OwnChars /\ <<c, gui.question>> \in OwnChars
        BY <2>1 DEF OwnChars, Answers
    <2>3. toChild' = toChild \/ toChild' = toChild \o r
        BY <1>0, <1>4 DEF Answer
    <2> HIDE DEF c
    <2>4. r \in {<<<<c, gui.question>>>>, <<<<"Q", gui.question>>, <<c, gui.question>>>>}
        BY ReactionIs
    <2> HIDE DEF r
    <2>5. PICK t : t = r
        OBVIOUS
    <2>6. t \in Seq(OwnChars)
        <3>1. PICK x \in OwnChars : x = <<"Q", gui.question>>
            BY <2>2
        <3>2. PICK y \in OwnChars : y = <<c, gui.question>>
            BY <2>2
        <3>3. t = <<y>> \/ t = <<x, y>>
            BY <2>4, <2>5, <3>1, <3>2
        <3>4. <<y>> \in Seq(OwnChars) /\ <<x, y>> \in Seq(OwnChars)
            BY ShortSeq
        <3>. QED BY <3>3, <3>4
    <2>7. toChild' = toChild \/ toChild' = toChild \o t
        BY <2>3, <2>5
    <2>8. toChild' \in Seq(OwnChars)
        <3>1. toChild \o t \in Seq(OwnChars)
            BY <1>0, <2>6, JoinedSeq
        <3>. QED BY <1>0, <2>7, <3>1
    <2>. QED BY <1>0, <1>4, <2>8 DEF Answer, Named
<1>5. ASSUME NEW f \in Flags, Toggle(f) PROVE Named'
    <2>1. <<f, 0>> \in OwnChars
        BY DEF Flags, OwnChars
    <2>2. toChild' \in Seq(OwnChars)
        BY <1>0, <1>5, <2>1 DEF Toggle
    <2>. QED BY <1>0, <1>5, <2>2 DEF Toggle, Named
<1>. QED BY <1>1, <1>2, <1>3, <1>4, <1>5 DEF Next, UserAnswer

\* The child and its pipes: no message names an item the operation has not.
THEOREM TypeCorrect == Spec => []TypeOK
<1>1. Init => Named
    BY OwnNone DEF Init, Named
<1>2. IInv /\ Named /\ [Next]_vars => Named'
    BY NamedChild, NamedFiler
<1>3. IInv /\ Named => TypeOK
    BY DEF IInv, Types, Named, TypeOK, OwnChars, Children, PCs, Guis, Hists, Messages, Tags
<1>. QED BY <1>1, <1>2, <1>3, ProtocolHolds, PTL DEF Spec
=============================================================================
