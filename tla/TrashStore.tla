----------------------------- MODULE TrashStore -----------------------------
(***************************************************************************)
(* What the Trash promises about the contents of files: moved away and     *)
(* brought back, they are destroyed only by emptying the Trash, and only   *)
(* while they are in it.  The one exception is a move between file         *)
(* systems, a copy and then a removal, that is disturbed in between.       *)
(***************************************************************************)
CONSTANT Contents

VARIABLES
    home,       \* contents at a place of the user's
    trash,      \* contents in the Trash
    emptying,   \* the user has agreed to empty the Trash
    disturbed   \* a copying move no longer finds what it copied

vars == <<home, trash, emptying, disturbed>>

Init ==
    /\ home \subseteq Contents /\ trash = {}
    /\ emptying = FALSE /\ disturbed = FALSE

Create(c) == home' = home \cup {c} /\ trash' = trash

MoveToTrash(c) ==
    /\ c \in home
    /\ home' \in {home, home \ {c}}
    /\ trash' = trash \cup {c}

DropSource(c) == c \in trash /\ home' = home \ {c} /\ trash' = trash

Restore(c) ==
    /\ c \in trash
    /\ home' = home \cup {c}
    /\ trash' \in {trash, trash \ {c}}

DropTrashed(c) == c \in home /\ trash' = trash \ {c} /\ home' = home

Discard(c) == emptying /\ trash' = trash \ {c} /\ home' = home

Lose(c) ==
    /\ disturbed
    /\ \/ home' = home \ {c} /\ trash' = trash
       \/ trash' = trash \ {c} /\ home' = home

Next ==
    /\ emptying' \in BOOLEAN /\ disturbed' \in BOOLEAN
    /\ \/ UNCHANGED <<home, trash>>
       \/ \E c \in Contents :
             \/ Create(c) \/ MoveToTrash(c) \/ DropSource(c)
             \/ Restore(c) \/ DropTrashed(c) \/ Discard(c) \/ Lose(c)

Spec == Init /\ [][Next]_vars
=============================================================================
