------------------------------- MODULE Action -------------------------------
(***************************************************************************)
(* action.c: an operation on files.  start_action forks a child that works *)
(* through the items and talks to the filer over two pipes: one character  *)
(* at a time from the filer (answers, flags, the X handshake), whole       *)
(* messages from the child.  The filer's side is the GUIside and its ABox  *)
(* (abox.c); filer, child, user and signals interleave freely.             *)
(* A character is <<c, i>> and a message <<m, i>>, i being the item it was  *)
(* sent about: the code sends no i with a character, so no guard uses it.   *)
(***************************************************************************)
EXTENDS Naturals, Sequences, FiniteSets

CONSTANTS
    Kinds,       \* operations to consider, of AllKinds
    N,           \* bound: the items of the operation are 1..N
    MaxToggles,  \* bound: flags the user toggles
    Details      \* whether the user may open the log with the Details flag

AllKinds == {"copy", "delete", "delete_permanently", "unmount", "eject"}

ASSUME ActionAssumption ==
    /\ Kinds \subseteq AllKinds
    /\ N \in Nat \ {0} /\ MaxToggles \in Nat /\ Details \in BOOLEAN

VARIABLES
    kind,      \* which operation, of Kinds
    child,     \* the forked process: pc, item at hand and its copies of the flags
    toChild, toParent,   \* the two pipes
    gui,       \* GUIside and ABox
    toggles,   \* flags toggled so far
    hist       \* what has happened to the items, for the properties

vars == <<kind, child, toChild, toParent, gui, toggles, hist>>

Item == 1..N
Closes == kind \in {"unmount", "eject"}    \* operations that need an X

\* the flags of each operation's ABox that a child can be told of; "D" is Details
Flags == {"Q"} \cup (IF kind = "delete" THEN {"F"} ELSE {})
               \cup (IF Details /\ ~Closes THEN {"D"} ELSE {})

\* action_copy, action_delete, action_delete_permanently, action_mount, action_eject
Init ==
    /\ kind \in Kinds
    /\ \E quiet, force \in BOOLEAN,
          policy \in IF kind = "copy" THEN {"ask", "replace", "skip", "newer"} ELSE {"none"} :
        /\ kind = "delete_permanently" => quiet /\ force
        /\ kind = "eject" => quiet
        /\ child = [pc |-> "forked", item |-> 1, ask |-> "none",
                    quiet |-> quiet, force |-> force, policy |-> policy]
        /\ LET hidden == kind \in {"copy", "delete_permanently"} IN
           gui = [alive |-> TRUE, open |-> TRUE, child |-> TRUE, question |-> 0,
                  ask |-> "none", quiet |-> quiet, force |-> force, errors |-> 0,
                  shown |-> ~hidden, timer |-> hidden, attempts |-> 0]
        /\ hist = [said |-> [i \in Item |-> "none"], risky |-> {}, agreed |-> {},
                   done |-> {}, told |-> {}, closed |-> {},
                   forced |-> force, asking |-> policy = "ask", exited |-> FALSE]
    /\ toChild = <<>> /\ toParent = <<>> /\ toggles = 0

-----------------------------------------------------------------------------
(* The child.                                                              *)

\* mutant: send_msg without its fflush
Send_Unflushed(msgs) ==
    toParent' = IF gui.open /\ child.pc = "done" THEN toParent \o msgs ELSE toParent

\* the filer reads what is sent while it keeps its end open (else EPIPE, ignored)
Send(msgs) == toParent' = IF gui.open THEN toParent \o msgs ELSE toParent

Agreed(c) == [c EXCEPT !.pc = IF Closes THEN "close" ELSE "act", !.ask = "none"]

\* mutant: the return after a No is missing
NextItem_NoReturn(c) ==
    IF c.pc = "reply" THEN Agreed(c)
    ELSE IF c.item = N THEN [c EXCEPT !.pc = "done", !.ask = "none"]
    ELSE [c EXCEPT !.pc = "flags", !.ask = "none", !.item = @ + 1]

\* the child-process functions go on with the next path, then with "D"
NextItem(c) == IF c.item = N THEN [c EXCEPT !.pc = "done", !.ask = "none"]
                             ELSE [c EXCEPT !.pc = "flags", !.ask = "none", !.item = @ + 1]

\* leave the item, sending `msgs' about it; delete_cb reports every path of a batch
DoneWith(c, msgs) ==
    /\ child' = NextItem(c)
    /\ Send(msgs \o (IF kind = "delete_permanently" THEN <<<<"s", c.item>>>> ELSE <<>>))

process_flag(f) ==
    /\ child' = [child EXCEPT !.quiet = IF f = "Q" THEN ~@ ELSE @,
                              !.force = IF f = "F" THEN ~@ ELSE @]
    /\ IF f \in {"Q", "F"} THEN UNCHANGED toParent ELSE Send(<<<<"!", 0>>>>)
    /\ UNCHANGED hist

SetPgid ==
    /\ child.pc = "forked"
    /\ child' = [child EXCEPT !.pc = "flags"]
    /\ UNCHANGED <<kind, toChild, toParent, gui, toggles, hist>>

\* one turn of check_flags: a character, or the end of the pipe (g_error)
CheckFlag ==
    /\ child.pc = "flags"
    /\ \/ /\ toChild # <<>>
          /\ process_flag(Head(toChild)[1])
          /\ toChild' = Tail(toChild)
       \/ /\ toChild = <<>> /\ ~gui.open
          /\ child' = [child EXCEPT !.pc = "dead"]
          /\ UNCHANGED <<toChild, toParent, hist>>
    /\ UNCHANGED <<kind, gui, toggles>>

\* mutant: Quiet answers for write-protected items too
Decision_QuietFirst(c, risky) ==
    {IF c.quiet \/ (kind = "copy" /\ risky) THEN "go" ELSE "?"}

\* what is done about the item: asked about, skipped, or gone on with.  For a
\* copy `risky' says that the destination exists, for a deletion that the item
\* is write-protected.
Decision(c, risky) ==
    CASE kind = "copy" /\ risky ->
            [ask |-> {"C"}, replace |-> {"go"}, skip |-> {"skip"},
             newer |-> {"go", "skip"}][c.policy]
      [] kind \in {"delete", "delete_permanently"} /\ risky /\ ~c.force -> {"?"}
      [] OTHER -> {IF c.quiet THEN "go" ELSE "?"}

\* do_copy2, do_delete, do_mount, do_eject once check_flags has returned
Look ==
    /\ child.pc = "flags" /\ toChild = <<>> /\ gui.open
    /\ \/ \* lstat fails: the item has gone
          /\ ~Closes
          /\ DoneWith(child, <<<<"!", child.item>>>>)
          /\ UNCHANGED hist
       \/ \E risky \in IF Closes THEN {FALSE} ELSE BOOLEAN :
          \E d \in Decision(child, risky) :
            /\ \/ d = "skip" /\ DoneWith(child, <<>>)
               \/ d = "go" /\ child' = Agreed(child) /\ UNCHANGED toParent
               \/ /\ d \in {"?", "C"}
                  /\ child' = [child EXCEPT !.pc = "reply", !.ask = d]
                  /\ Send(<<<<d, child.item>>>>)
            /\ hist' = [hist EXCEPT !.risky = IF risky THEN @ \cup {child.item} ELSE @,
                                    !.agreed = IF d = "go" THEN @ \cup {child.item} ELSE @]
    /\ UNCHANGED <<kind, toChild, gui, toggles>>

\* printf_reply and printf_conflict_reply: read one character
Reply ==
    /\ child.pc = "reply"
    /\ \/ /\ toChild = <<>> /\ ~gui.open
          /\ child' = [child EXCEPT !.pc = "dead"]
          /\ UNCHANGED <<toChild, toParent, hist>>
       \/ /\ toChild # <<>>
          /\ toChild' = Tail(toChild)
          /\ LET c == Head(toChild)[1]
                 all == child.ask = "C"
             IN  \/ /\ c = "Y" \/ (c = "A" /\ all)
                    /\ child' = Agreed([child EXCEPT !.policy = IF c = "A" THEN "replace" ELSE @])
                    /\ hist' = [hist EXCEPT !.agreed = @ \cup {child.item}]
                    /\ UNCHANGED toParent
                 \/ /\ c = "N" \/ (c = "S" /\ all)
                    /\ DoneWith([child EXCEPT !.policy = IF c = "S" THEN "skip" ELSE @], <<>>)
                    /\ UNCHANGED hist
                 \/ /\ c \notin {"Y", "N"} /\ ~(all /\ c \in {"A", "S"})
                    /\ process_flag(c)
    /\ UNCHANGED <<kind, gui, toggles>>

\* mutant: the filer is told to close its windows, and not waited for
SendClose_NoWait ==
    /\ child.pc = "close"
    /\ Send(<<<<"X", child.item>>>>)
    /\ child' = [child EXCEPT !.pc = "act"]
    /\ UNCHANGED <<kind, toChild, gui, toggles, hist>>

\* do_mount, do_eject: ask the filer to close its windows on the item
SendClose ==
    /\ child.pc = "close"
    /\ Send(<<<<"X", child.item>>>>)
    /\ child' = [child EXCEPT !.pc = "safe"]
    /\ UNCHANGED <<kind, toChild, gui, toggles, hist>>

\* ... and read one character, which should be the X: else the item is left alone
ReadSafe ==
    /\ child.pc = "safe"
    /\ toChild # <<>> \/ ~gui.open
    /\ child' = IF toChild # <<>> /\ Head(toChild)[1] = "X"
                THEN [child EXCEPT !.pc = "act"] ELSE NextItem(child)
    /\ toChild' = IF toChild = <<>> THEN <<>> ELSE Tail(toChild)
    /\ UNCHANGED <<kind, toParent, gui, toggles, hist>>

\* the copy, deletion, unmount or eject itself, and what is sent about it
Act ==
    /\ child.pc = "act"
    /\ \E ok \in BOOLEAN :
        /\ DoneWith(child, (IF ok THEN <<>> ELSE <<<<"!", child.item>>>>)
                         \o (IF ok \/ kind = "eject" THEN <<<<"s", child.item>>>> ELSE <<>>))
        /\ hist' = [hist EXCEPT !.done = @ \cup {child.item}]
    /\ UNCHANGED <<kind, toChild, gui, toggles>>

\* start_action's child: "D", close the pipe, _exit
End ==
    /\ child.pc = "done"
    /\ Send(<<<<"D", 0>>>>)
    /\ child' = [child EXCEPT !.pc = "dead"]
    /\ UNCHANGED <<kind, toChild, gui, toggles, hist>>

-----------------------------------------------------------------------------
(* The filer.                                                              *)

finish_action(g) ==
    [g EXCEPT !.open = FALSE, !.child = FALSE, !.question = 0, !.timer = FALSE,
              !.alive = @ /\ g.errors > 0, !.shown = g.errors > 0]

\* message_from_child, process_message
Message ==
    /\ gui.open /\ toParent # <<>>
    /\ LET m == Head(toParent)[1]
           i == Head(toParent)[2]
       IN  /\ gui' = CASE m = "D" -> finish_action(gui)
                       [] m \in {"?", "C"} ->
                            [gui EXCEPT !.question = i, !.ask = m,
                                        !.shown = TRUE, !.timer = FALSE]
                       [] m = "!" -> [gui EXCEPT !.errors = @ + 1]
                       [] OTHER -> gui
           /\ toParent' = IF m = "D" THEN <<>> ELSE Tail(toParent)
           /\ toChild' = IF m = "X" THEN Append(toChild, <<"X", i>>) ELSE toChild
           /\ hist' = [hist EXCEPT !.closed = IF m = "X" THEN @ \cup {i} ELSE @,
                                   !.told = IF m \in {"s", "!"} THEN @ \cup {i} ELSE @]
    /\ UNCHANGED <<kind, child, toggles>>

\* mutant: the end of the child is acted on before what it sent is read
HangUp_OnDeath ==
    /\ gui.open /\ child.pc = "dead"
    /\ gui' = finish_action(gui)
    /\ UNCHANGED <<kind, child, toChild, toParent, toggles, hist>>

\* message_from_child at the end of the pipe
HangUp ==
    /\ gui.open /\ toParent = <<>> /\ child.pc = "dead"
    /\ gui' = finish_action(gui)
    /\ UNCHANGED <<kind, child, toChild, toParent, toggles, hist>>

\* abox_ask and abox_ask_conflict clear the checkbox, only the latter shows it
MayApplyToAll == gui.ask = "C"

\* abox.c's response
Answered(g, quietly) == [g EXCEPT !.question = 0, !.quiet = @ \/ quietly]

\* mutant: the flag goes out after the answer
Reaction_Swapped(c, quietly, i) ==
    <<<<c, i>>>> \o (IF quietly THEN <<<<"Q", i>>>> ELSE <<>>)

\* what action.c's response, and flag_toggled for the Quiet button, send
Reaction(c, quietly, i) ==
    (IF quietly THEN <<<<"Q", i>>>> ELSE <<>>) \o <<<<c, i>>>>

\* Yes or No, maybe for all, or the Quiet button, which sets the flag and says Yes
Answer(yes, all, quietly) ==
    /\ gui.alive /\ gui.shown /\ gui.question # 0
    /\ all => MayApplyToAll
    /\ quietly => yes /\ ~gui.quiet
    /\ LET c == IF yes THEN (IF all THEN "A" ELSE "Y") ELSE (IF all THEN "S" ELSE "N")
       IN  /\ toChild' = toChild \o (IF gui.open THEN Reaction(c, quietly, gui.question)
                                     ELSE <<>>)
           /\ hist' = [hist EXCEPT !.said[gui.question] = c]
    /\ gui' = Answered(gui, quietly)
    /\ UNCHANGED <<kind, child, toParent, toggles>>

\* flag_toggled, abox.c's and then action.c's
Toggle(f) ==
    /\ gui.alive /\ gui.shown /\ toggles < MaxToggles
    /\ gui' = [gui EXCEPT !.quiet = IF f = "Q" THEN ~@ ELSE @,
                          !.force = IF f = "F" THEN ~@ ELSE @]
    /\ toChild' = IF gui.open THEN Append(toChild, <<f, 0>>) ELSE toChild
    /\ toggles' = toggles + 1
    /\ hist' = [hist EXCEPT !.forced = @ \/ f = "F"]
    /\ UNCHANGED <<kind, child, toParent>>

\* abort_operation: the signal goes to the child's process group, which does not
\* exist before SetPgid.  Once the child is done with, the window is closed.
Abort ==
    /\ gui.alive /\ gui.shown
    /\ IF gui.child
       THEN /\ gui.attempts < 2
            /\ gui' = [gui EXCEPT !.attempts = @ + 1]
            /\ child' = [child EXCEPT !.pc = IF @ = "forked" THEN @ ELSE "dead"]
       ELSE /\ gui' = [gui EXCEPT !.alive = FALSE, !.shown = FALSE]
            /\ UNCHANGED child
    /\ UNCHANGED <<kind, toChild, toParent, toggles, hist>>

\* delayed_action_show_cb
ShowTimer ==
    /\ gui.timer
    /\ gui' = [gui EXCEPT !.timer = FALSE, !.shown = TRUE]
    /\ UNCHANGED <<kind, child, toChild, toParent, toggles, hist>>

\* the filer ends or crashes, with no word to the child
FilerExit ==
    /\ ~hist.exited /\ gui.alive
    /\ gui' = [gui EXCEPT !.alive = FALSE, !.open = FALSE, !.question = 0,
                          !.timer = FALSE, !.shown = FALSE]
    /\ toParent' = <<>>
    /\ hist' = [hist EXCEPT !.exited = TRUE]
    /\ UNCHANGED <<kind, child, toChild, toggles>>

Terminated == ~gui.alive /\ child.pc = "dead" /\ UNCHANGED vars

ChildStep == SetPgid \/ CheckFlag \/ Look \/ Reply \/ SendClose \/ ReadSafe \/ Act \/ End
UserAnswer == \E yes, all, quietly \in BOOLEAN : Answer(yes, all, quietly)

Next ==
    \/ ChildStep
    \/ Message \/ HangUp \/ ShowTimer
    \/ UserAnswer \/ Abort \/ FilerExit
    \/ \E f \in Flags : Toggle(f)
    \/ Terminated

Spec == Init /\ [][Next]_vars

-----------------------------------------------------------------------------
Answers == {"Y", "N", "A", "S"}

\* A flag toggled during the X handshake of an unmount is read in place of the X:
\* the properties that fail then are stated for the operations it cannot reach.
Undisturbed == Closes => toggles = 0

\* The fields of the GUIside, of the child and of what is in the pipes are of
\* their types: no message names an item the operation has not.
TypeOK ==
    /\ child.pc \in {"forked", "flags", "reply", "close", "safe", "act", "done", "dead"}
    /\ child.item \in Item /\ child.ask \in {"none", "?", "C"}
    /\ toChild \in Seq(({"Q", "F", "D"} \X {0}) \cup ((Answers \cup {"X", "Q"}) \X Item))
    /\ toParent \in Seq({"?", "C", "X", "s", "!", "D"} \X (Item \cup {0}))
    /\ gui.question \in Item \cup {0} /\ gui.errors \in Nat
    /\ hist.done \subseteq Item

\* printf_reply takes the first Y or N it reads for the answer to the question it
\* has sent: an answer on its way is to that question, and there is but one.
AnswersInStep ==
    LET Sent == {k \in DOMAIN toChild : toChild[k][1] \in Answers}
    IN  child.pc # "dead" =>
            /\ Cardinality(Sent) <= 1
            /\ \A k \in Sent : child.pc = "reply" /\ toChild[k][2] = child.item

\* What the child waits for: its question on its way, or before the user in a window
\* he sees, or answered with what printf_reply, or printf_conflict_reply, goes on for.
AskSent == \E k \in DOMAIN toParent : toParent[k] = <<child.ask, child.item>>
AskShown == gui.question = child.item /\ gui.ask = child.ask /\ gui.alive /\ gui.shown
Settles == {"Y", "N"} \cup (IF child.ask = "C" THEN {"A", "S"} ELSE {})
AskSettled == \E k \in DOMAIN toChild : toChild[k][1] \in Settles
CloseSent == \E k \in DOMAIN toParent : toParent[k] = <<"X", child.item>>

\* printf_reply, do_mount: the child is never in read() for a filer that waits for it,
\* whatever flags are toggled while a question or an X is on its way.
NeverBothWait ==
    /\ gui.open /\ child.pc = "reply" => AskSent \/ AskShown \/ AskSettled
    /\ gui.open /\ child.pc = "safe" => CloseSent \/ toChild # <<>>

\* An item the user has said No to is left alone.
RefusedIsKept == \A i \in hist.done : hist.said[i] \notin {"N", "S"}

\* Asked not to be quiet about it, a copy overwrites an existing destination, and a
\* deletion removes a write-protected item, only after a Yes to that very question
\* or a "replace all" to an earlier one, whatever the user toggles meanwhile.
RiskyNeedsYes ==
    \A i \in hist.done \cap hist.risky :
        /\ kind = "copy" /\ hist.asking =>
              hist.said[i] = "Y" \/ \E j \in 1..i : hist.said[j] = "A"
        /\ kind = "delete" /\ ~hist.forced => hist.said[i] = "Y"

Completed == ~gui.open /\ ~hist.exited /\ gui.attempts = 0

\* When an operation nobody interrupted closes its window or stops its spinner, the
\* filer has been told about every item the child touched: every display is fresh.
ToldAtEnd == Completed => hist.done \subseteq hist.told

\* do_mount, do_eject: the device is unmounted only after the filer has closed its
\* windows on it ("Need to close all sub-directories now, or we can't unmount").
ClosedBeforeUnmount == Closes => hist.done \subseteq hist.closed

\* ... as long as the user leaves the flags alone.
ClosedUnlessToggled == Undisturbed => ClosedBeforeUnmount

\* What was agreed to, by the user or by Quiet, has been tried when the operation
\* has ended and nobody interrupted it: nothing is skipped without a word.
AgreedIsTried == Completed /\ Undisturbed => hist.agreed \subseteq hist.done

\* The child is scheduled, the main loop polls its pipe, and the user answers what
\* is asked.
Fairness ==
    /\ WF_vars(ChildStep) /\ WF_vars(Message) /\ WF_vars(HangUp)
    /\ WF_vars(UserAnswer)

FairSpec == Spec /\ Fairness

\* Every operation comes to an end, and the filer notices.
Ends == <>~gui.open
=============================================================================
