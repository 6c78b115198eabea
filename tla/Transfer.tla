------------------------------ MODULE Transfer ------------------------------
(***************************************************************************)
(* What a copy or a move promises about the contents of files, whatever     *)
(* engine does the work, whatever fails and whenever it is stopped: a       *)
(* source is given up only for a whole copy of it at its destination, what  *)
(* has arrived stays, and what was at the destination goes only where the   *)
(* user has agreed to it, by the conflict policy or by an answer.           *)
(***************************************************************************)
CONSTANTS
    Sources,  \* contents of files at their sources
    Olds      \* contents of files at the destination

VARIABLES
    move,     \* is it a move?
    at,       \* content of Sources |-> where there is a whole copy of it
    kept,     \* contents of Olds still there
    agreed    \* contents of Olds the user has agreed to lose

tvars == <<move, at, kept, agreed>>

TInit ==
    /\ move \in BOOLEAN
    /\ at \in [Sources -> {{}, {"source"}}]
    /\ kept \subseteq Olds
    /\ agreed = {}

GivenUpForACopy ==
    \A f \in Sources :
        "source" \in at[f] /\ "source" \notin at'[f] => move /\ "dest" \in at'[f]

ArrivedStays ==
    \A f \in Sources : "dest" \in at[f] => "dest" \in at'[f]

NothingFromNowhere ==
    \A f \in Sources : at'[f] \subseteq IF at[f] = {} THEN {} ELSE {"source", "dest"}

LostByAgreement == kept' \subseteq kept /\ kept \ kept' \subseteq agreed'

Transferring ==
    /\ at' \in [Sources -> SUBSET {"source", "dest"}]
    /\ GivenUpForACopy /\ ArrivedStays /\ NothingFromNowhere
    /\ LostByAgreement
    /\ agreed \subseteq agreed' /\ agreed' \subseteq Olds
    /\ UNCHANGED move

TSpec == TInit /\ [][Transferring]_tvars
=============================================================================
