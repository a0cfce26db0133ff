----------------------------- MODULE BoardMutex -----------------------------
(***************************************************************************)
(* What withBoardLock promises the operations of a board: as long as the   *)
(* database keeps its sessions, at most one of them is inside at a time;   *)
(* and whoever is inside comes out again.                                  *)
(***************************************************************************)
CONSTANTS
    Procs,      \* requests being served
    Locks       \* lock names

VARIABLES
    inside,     \* lock -> the requests that work under it
    lost        \* a session died: from then on the lock protects nobody

vars == <<inside, lost>>

Enter(p, l) ==
    /\ inside[l] = {} \/ lost
    /\ inside' = [inside EXCEPT ![l] = inside[l] \cup {p}]
    /\ UNCHANGED lost

Exit(p, l) ==
    /\ p \in inside[l]
    /\ inside' = [inside EXCEPT ![l] = inside[l] \ {p}]
    /\ UNCHANGED lost

Lose ==
    /\ lost' = TRUE
    /\ UNCHANGED inside

Init ==
    /\ inside = [l \in Locks |-> {}]
    /\ lost = FALSE

Next == Lose \/ \E p \in Procs, l \in Locks : Enter(p, l) \/ Exit(p, l)

Spec ==
    /\ Init
    /\ [][Next]_vars
    /\ \A p \in Procs, l \in Locks : WF_vars(Exit(p, l))
=============================================================================
