---------------------------- MODULE MutationGate ----------------------------
(***************************************************************************)
(* The writes of a board's definitions: runMutationGate of board-mcp.ts    *)
(* and the canonical import (replace_board_snapshot).                      *)
(*                                                                         *)
(* A gated write works under the board's named lock: it compares the       *)
(* revisions and the hash the client expects, changes its entity, swaps    *)
(* the entity revision, and bumps the board revision, each a statement of  *)
(* its own.  The swap moves the board revision too, so a write costs two.  *)
(* An import does not take the lock.  It compares what it read and later   *)
(* stores revisions computed from that read.                               *)
(*                                                                         *)
(* A request that expects anything but the current revisions changes       *)
(* nothing, so the model sends those that expect them.                     *)
(***************************************************************************)
EXTENDS Naturals, FiniteSets

CONSTANTS
    Tasks,          \* entities of type "task"
    Rail,           \* the board's one entity of type "lifecycle"
    NoRow,          \* the tasks table has no such row
    Imports,        \* replace_board_snapshot requests in flight
    NoOp,           \* nobody works under the board lock
    NoImport,       \* an import that has read nothing
    NoWork,         \* a write that has nothing to save
    MaxContent,     \* snapshots that exist, in the order of generatedAt
    MaxCalls,       \* bound: requests served
    MaxTroubles     \* bound: statements that fail, runs that end

ASSUME EntityAssumption == Rail \notin Tasks /\ NoRow \notin Nat

ASSUME BoundsAssumption == MaxContent \in Nat /\ MaxCalls \in Nat /\ MaxTroubles \in Nat

VARIABLES
    board,      \* board_revisions: the board's row
    entity,     \* entity_revisions: entity -> entity_rev
    shown,      \* tasks.lifecycle_stage: task -> its column, 0 while NULL, or NoRow
    op,         \* what the holder of the board lock is doing
    pending,    \* import -> the row it is about to store
    left,       \* requests still to come
    troubles,   \* statements that may still fail
    cut,        \* history: tasks some write of which stopped half way
    redefined,  \* history: tasks whose definition was written
    adrift      \* history: tasks whose row was deleted, or its stage seeded,
                \* since an advance last told it the stage

gate == <<board, entity, shown, op, pending, left, troubles, cut, redefined, adrift>>

Entities == Tasks \cup {Rail}

\* imp is import_entity_rev; no snapshot was applied while it is 0, and then
\* the pin is not complete.
Rows == [rev : Nat, life : Nat, hash : 0..MaxContent, subject : 0..MaxContent, imp : Nat]

PinComplete == board.imp > 0

Free == op = NoOp

Spend == left > 0 /\ left' = left - 1

\* A request past the checks of the gate: what it expects is what there is.
Accepted(kind, t, work) ==
    [kind |-> kind, task |-> t, at |-> "mutate", work |-> work,
     rev |-> board.rev, ent |-> entity[t], hash |-> board.hash]

Enter(kind, t, work) ==
    /\ Spend
    /\ Free
    /\ op' = Accepted(kind, t, work)
    /\ UNCHANGED <<board, entity, shown, pending, troubles, cut, redefined, adrift>>

Move(from, to) == ~Free /\ op.at = from /\ op' = [op EXCEPT !.at = to]

\* Mutant: the entity's row is not written.
SwappedBoardOnly ==
    /\ board' = [board EXCEPT !.rev = op.rev + 1, !.subject = op.hash]
    /\ UNCHANGED entity

\* compareAndSwap, one transaction.
Swapped ==
    /\ board' = [board EXCEPT !.rev = op.rev + 1, !.subject = op.hash]
    /\ entity' = [entity EXCEPT ![op.task] = op.ent + 1]

SwapHolds == board.rev = op.rev /\ entity[op.task] = op.ent

Swap ==
    /\ Move("swap", "bump")
    /\ SwapHolds
    /\ Swapped
    /\ UNCHANGED <<shown, pending, left, troubles, cut, redefined, adrift>>

Abandon ==
    /\ op' = NoOp
    /\ cut' = cut \cup {op.task}

SwapRefused ==
    /\ ~Free
    /\ op.at = "swap"
    /\ ~SwapHolds
    /\ Abandon
    /\ UNCHANGED <<board, entity, shown, pending, left, troubles, redefined, adrift>>

\* bumpBoardRev, and bumpBoardAndLifecycleRev of an advance.
Bump ==
    /\ ~Free
    /\ op.at = "bump"
    /\ board' = [board EXCEPT !.rev = @ + 1,
                              !.life = IF op.kind = "advance" THEN @ + 1 ELSE @]
    /\ op' = NoOp
    /\ UNCHANGED <<entity, shown, pending, left, troubles, cut, redefined, adrift>>

\* A statement fails or the process dies.  Before the entity was changed this
\* is a refusal.
Fault ==
    /\ troubles > 0 /\ troubles' = troubles - 1
    /\ ~Free
    /\ op.at # "mutate"
    /\ Abandon
    /\ UNCHANGED <<board, entity, shown, pending, left, redefined, adrift>>

(***************************************************************************)
(* The writes of definitions.  The pin is looked at before the lock is     *)
(* taken; what a definition says is left out.                              *)
(***************************************************************************)
\* upsert_task and the other tools that write a task's row (kind "define"),
\* and delete_task ("delete").
Define(kind, t) ==
    /\ ~PinComplete
    /\ Enter(kind, t, NoWork)

\* init_lifecycle, on a board none of whose rows has a stage.
SeedRail ==
    /\ ~PinComplete
    /\ \A t \in Tasks : shown[t] \in {NoRow, 0}
    /\ Enter("seed", Rail, NoWork)

\* The column is kept by an upsert of an existing row; a new row has none.
RowDefined ==
    /\ op.kind = "define"
    /\ shown' = [shown EXCEPT ![op.task] = IF @ = NoRow THEN 0 ELSE @]
    /\ redefined' = redefined \cup {op.task}
    /\ UNCHANGED adrift

RowDeleted ==
    /\ op.kind = "delete"
    /\ shown' = [shown EXCEPT ![op.task] = NoRow]
    /\ redefined' = redefined \cup {op.task}
    /\ adrift' = adrift \cup {op.task}

\* One UPDATE of the rows without a stage.
RowsSeeded ==
    /\ op.kind = "seed"
    /\ shown' = [t \in Tasks |-> IF shown[t] = 0 THEN 1 ELSE shown[t]]
    /\ adrift' = adrift \cup {t \in Tasks : shown[t] = 0}
    /\ UNCHANGED redefined

Mutate ==
    /\ Move("mutate", "swap")
    /\ RowDefined \/ RowDeleted \/ RowsSeeded
    /\ UNCHANGED <<board, entity, pending, left, troubles, cut>>

\* Run registrations and the other operations that only bump the board.
Elsewhere ==
    /\ Spend
    /\ Free
    /\ board' = [board EXCEPT !.rev = @ + 1]
    /\ UNCHANGED <<entity, shown, op, pending, troubles, cut, redefined, adrift>>

(***************************************************************************)
(* applyImport.  A snapshot older than the last one is out of order.       *)
(***************************************************************************)
ImportRead(i, c) ==
    /\ Spend
    /\ pending[i] = NoImport
    /\ board.subject = board.hash
    /\ c >= board.hash
    /\ pending' = [pending EXCEPT ![i] = [rev |-> board.rev + 1, imp |-> board.imp + 1, hash |-> c]]
    /\ UNCHANGED <<board, entity, shown, op, troubles, cut, redefined, adrift>>

Imported(p) ==
    [board EXCEPT !.rev = p.rev, !.imp = p.imp, !.hash = p.hash, !.subject = p.hash]

ImportApply(i) ==
    /\ pending[i] # NoImport
    /\ board' = Imported(pending[i])
    /\ pending' = [pending EXCEPT ![i] = NoImport]
    /\ UNCHANGED <<entity, shown, op, left, troubles, cut, redefined, adrift>>

GateInit ==
    /\ board = [rev |-> 0, life |-> 0, hash |-> 0, subject |-> 0, imp |-> 0]
    /\ entity = [e \in Entities |-> 0]
    /\ shown \in [Tasks -> {NoRow, 0}]
    /\ op = NoOp
    /\ pending = [i \in Imports |-> NoImport]
    /\ left = MaxCalls
    /\ troubles = MaxTroubles
    /\ cut = {}
    /\ redefined = {}
    /\ adrift = {}

GateSteps ==
    \/ \E kind \in {"define", "delete"}, t \in Tasks : Define(kind, t)
    \/ SeedRail
    \/ Mutate
    \/ Swap
    \/ SwapRefused
    \/ Bump
    \/ Fault
    \/ Elsewhere
    \/ \E i \in Imports, c \in 1..MaxContent : ImportRead(i, c)
    \/ \E i \in Imports : ImportApply(i)

(***************************************************************************)
(* The board revision only grows (API_CONTRACT.md: a monotonic integer).   *)
(***************************************************************************)
BoardRevMonotonic == [][board'.rev >= board.rev]_board
=============================================================================
