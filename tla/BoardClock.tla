----------------------------- MODULE BoardClock -----------------------------
(***************************************************************************)
(* What the planning records of a board share: its revision, the clock,    *)
(* and the bounds on requests and failures.                                *)
(*                                                                         *)
(* bumpBoardRev raises the revision by one statement and reads it back by  *)
(* another, under a named lock of its own.  An import computes the         *)
(* revision it stores from an earlier read, and stores it without that     *)
(* lock, so it may take the revision back or change it between the two.    *)
(***************************************************************************)
EXTENDS Naturals, FiniteSets

CONSTANTS
    Imports,        \* snapshot imports, each applied at most once
    Idle, Applied,  \* an import that has read nothing; one that is through
    MaxTime,        \* bound: the clock
    MaxCalls,       \* bound: requests served
    MaxTroubles     \* bound: statements that fail

ASSUME ClockAssumption ==
    /\ MaxTime \in Nat /\ MaxCalls \in Nat /\ MaxTroubles \in Nat
    /\ Idle \notin Nat /\ Applied \notin Nat

VARIABLES
    rev,            \* board_revisions.board_rev
    bumping,        \* the lock of bumpBoardRev is held
    pending,        \* import -> the revision it will store
    again,          \* history: revisions an import made the board go through again
    now,            \* the clock
    left,           \* requests still to come
    troubles        \* statements that may still fail

board == <<rev, bumping, pending, again>>
clock == <<board, now, left, troubles>>

Times == 0..MaxTime
Never == MaxTime + 1

Due(row) == row.due <= now

Spend == left > 0 /\ left' = left - 1
Fail == troubles > 0 /\ troubles' = troubles - 1

(***************************************************************************)
(* bumpBoardRev.                                                           *)
(***************************************************************************)
\* Mutant: the row is not written.
NotRaised == rev

Raised == rev + 1

\* Mutant: the bump takes no lock.
Unlocked == TRUE

BumpFree == ~bumping

Raise ==
    /\ BumpFree
    /\ rev' = Raised
    /\ bumping' = TRUE
    /\ UNCHANGED <<pending, again>>

\* The revision is read back, and the lock released.
ReadBack ==
    /\ bumping' = FALSE
    /\ UNCHANGED <<rev, pending, again>>

\* A request is cut short, in a bump (inBump) or outside.
Release(inBump) ==
    /\ bumping' = (bumping /\ ~inBump)
    /\ UNCHANGED <<rev, pending, again>>

(***************************************************************************)
(* applyImport: the read, and applySnapshot.                               *)
(***************************************************************************)
ImportRead(i) ==
    /\ pending[i] = Idle
    /\ pending' = [pending EXCEPT ![i] = rev + 1]
    /\ UNCHANGED <<rev, bumping, again>>

ImportApply(i) ==
    /\ pending[i] \notin {Idle, Applied}
    /\ rev' = pending[i]
    /\ pending' = [pending EXCEPT ![i] = Applied]
    /\ again' = IF pending[i] < rev THEN again \cup pending[i]..rev ELSE again
    /\ UNCHANGED bumping

Tick ==
    /\ now < MaxTime
    /\ now' = now + 1
    /\ UNCHANGED <<board, left, troubles>>

ClockSteps ==
    \/ Tick
    \/ /\ \E i \in Imports : ImportRead(i) \/ ImportApply(i)
       /\ UNCHANGED <<now, left, troubles>>

ClockInit ==
    /\ rev = 0
    /\ bumping = FALSE
    /\ pending = [i \in Imports |-> Idle]
    /\ again = {}
    /\ now = 0
    /\ left = MaxCalls
    /\ troubles = MaxTroubles

\* The revision, the clock and what is left of the bounds.
ClockTypeOK ==
    /\ rev \in Nat
    /\ bumping \in BOOLEAN /\ (bumping => rev # 0)
    /\ pending \in [Imports -> (Nat \ {0}) \cup {Idle, Applied}]
    /\ again \subseteq Nat
    /\ now \in Times
    /\ left \in 0..MaxCalls
    /\ troubles \in 0..MaxTroubles
=============================================================================
