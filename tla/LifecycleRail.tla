---------------------------- MODULE LifecycleRail ----------------------------
(***************************************************************************)
(* The V3 lifecycle rail of a task: submit_stage_evidence and advance_task *)
(* of board-mcp.ts over advanceTaskV3 of lifecycle-store.ts.               *)
(*                                                                         *)
(* Evidence for a stage is a receipt bound to the board as it is when it   *)
(* is submitted.  An advance names such a receipt and, inside the gate,    *)
(* saves the task's lifecycle document, mirrors the stage in the tasks     *)
(* table, and leaves the revisions to the gate.                            *)
(*                                                                         *)
(* Fields of the evidence, its author, the verdict and the pairing of      *)
(* models only refuse more requests and are left out.                      *)
(***************************************************************************)
EXTENDS MutationGate, Sequences

CONSTANTS
    Runs, NoRun,
    Agent, Thread,  \* run -> who runs it, and in which thread
    Verifiers,      \* runs with a verifier's role
    LastStage,      \* the rail is 1..LastStage
    VerifierStages  \* the stages that need a verifier

\* Neither of the first two stages needs a verifier (MAPPING, MAPPED).
ASSUME RailAssumption ==
    /\ LastStage \in Nat \ {0}
    /\ VerifierStages \subseteq 3..LastStage
    /\ Verifiers \subseteq Runs
    /\ NoRun \notin Runs

VARIABLES
    v3,         \* lifecycle_v3_tasks: task -> its lifecycle
    recorded,   \* the tasks that have one; v3 of the others is Unstarted
    receipts,   \* stage evidence
    valid       \* registered runs neither fenced nor expired

vars == <<gate, v3, recorded, receipts, valid>>

Stages == 1..LastStage

\* at: the stage the task had reached when the evidence was submitted (history).
Receipts ==
    [task : Tasks, stage : Stages, verifier : Runs \cup {NoRun},
     rev : Nat, life : Nat, hash : 0..MaxContent, at : 0..LastStage]

Entries == [stage : Stages, by : Runs, verifier : Runs, at : 0..LastStage]

Lifecycles ==
    [stage : 0..LastStage, rev : Nat, impl : Runs \cup {NoRun}, history : Seq(Entries)]

Unstarted == [stage |-> 0, rev |-> 0, impl |-> NoRun, history |-> <<>>]

\* What the holder of the board lock is at.
OpsOf(kinds, entities, places, works) ==
    [kind : kinds, task : entities, at : places, work : works,
     rev : Nat, ent : Nat, hash : 0..MaxContent]

Ops ==
    OpsOf({"advance"}, Tasks, {"mutate", "mirror", "swap", "bump"}, Entries)
        \cup OpsOf({"define", "delete"}, Tasks, {"mutate", "swap", "bump"}, {NoWork})
        \cup OpsOf({"seed"}, {Rail}, {"mutate", "swap", "bump"}, {NoWork})

ASSUME OpAssumption == NoOp \notin Ops

(***************************************************************************)
(* getTask.  A task that has a row and no document gets one, at the stage  *)
(* of its row, with the first request that asks, served or refused.        *)
(***************************************************************************)
Record(t) ==
    /\ Free
    /\ t \notin recorded
    /\ shown[t] # NoRow
    /\ recorded' = recorded \cup {t}
    /\ v3' = [v3 EXCEPT ![t].stage = shown[t]]
    /\ UNCHANGED <<gate, receipts, valid>>

(***************************************************************************)
(* submit_stage_evidence by some valid run, past getTask.  Any stage may   *)
(* be named; who verified is what the request says.                        *)
(***************************************************************************)
Evidence(t, k, verifier) ==
    [task |-> t, stage |-> k, verifier |-> verifier,
     rev |-> board.rev, life |-> board.life, hash |-> board.hash, at |-> v3[t].stage]

Submit(t, k, verifier) ==
    /\ Spend
    /\ Free
    /\ valid # {}
    /\ t \in recorded
    /\ k \notin VerifierStages => verifier = NoRun
    /\ receipts' = receipts \cup {Evidence(t, k, verifier)}
    /\ UNCHANGED <<board, entity, shown, op, pending, troubles, cut, redefined, adrift,
                   v3, recorded, valid>>

\* Mutant: evidence is only bound to the snapshot.
BoundToHash(r) == r.hash = board.hash

\* The evidence is about the board as it is.
Bound(r) == r.rev = board.rev /\ r.life = board.life /\ r.hash = board.hash

\* Mutant: evidence that names no verifier has none.
NamedVerifier(r, by) == r.verifier

\* Without a verifier of its own, the evidence is verified by who advances.
Verifier(r, by) == IF r.verifier # NoRun THEN r.verifier ELSE by

\* Mutant: another run of the same agent will do.
IndependentRun(t, r, by) ==
    LET v == Verifier(r, by)
        impl == v3[t].impl
    IN /\ v \in valid \cap Verifiers
       /\ v # impl

\* The verifier is not who started the work.
Independent(t, r, by) ==
    LET v == Verifier(r, by)
        impl == v3[t].impl
    IN /\ v \in valid \cap Verifiers
       /\ impl # NoRun => /\ v # impl
                          /\ Agent[v] # Agent[impl]
                          /\ Thread[v] # Thread[impl]

\* advance_task up to saveTask: the gate and advanceTaskV3 ask for the task's
\* revision in two places, and both must be the one the client expects.
Advance(r, by) ==
    LET t == r.task IN
    /\ by \in valid
    /\ entity[t] = v3[t].rev
    /\ r.stage = v3[t].stage + 1
    /\ Bound(r)
    /\ r.stage \in VerifierStages => Independent(t, r, by)
    /\ Enter("advance", t,
             [stage |-> r.stage, by |-> by, verifier |-> Verifier(r, by), at |-> r.at])
    /\ UNCHANGED <<v3, recorded, receipts, valid>>

\* The first run to advance a stage without verifier.
Implementer(t, k, by) ==
    IF v3[t].impl = NoRun /\ k \notin VerifierStages THEN by ELSE v3[t].impl

Advanced(t) ==
    LET k == v3[t].stage + 1 IN
    [stage |-> k, rev |-> v3[t].rev + 1,
     impl |-> Implementer(t, k, op.work.by),
     history |-> Append(v3[t].history, op.work)]

\* Mutant: the lists are told first, and the document saved with them.
SaveShownFirst ==
    /\ Move("mutate", "mirror")
    /\ op.kind = "advance"
    /\ shown' = [shown EXCEPT ![op.task] = IF @ = NoRow THEN @ ELSE op.work.stage]
    /\ UNCHANGED <<board, entity, pending, left, troubles, cut, redefined, adrift,
                   v3, recorded, receipts, valid>>

\* saveTask: the lifecycle document.
Save ==
    /\ Move("mutate", "mirror")
    /\ op.kind = "advance"
    /\ v3' = [v3 EXCEPT ![op.task] = Advanced(op.task)]
    /\ UNCHANGED <<board, entity, shown, pending, left, troubles, cut, redefined, adrift,
                   recorded, receipts, valid>>

\* setTaskLifecycle: an UPDATE, which finds no row if the task was deleted.
Mirror ==
    /\ Move("mirror", "swap")
    /\ IF shown[op.task] = NoRow
        THEN UNCHANGED <<shown, adrift>>
        ELSE /\ shown' = [shown EXCEPT ![op.task] = v3[op.task].stage]
             /\ adrift' = adrift \ {op.task}
    /\ UNCHANGED <<board, entity, pending, left, troubles, cut, redefined,
                   v3, recorded, receipts, valid>>

\* A run is fenced or its lease runs out.
RunEnds(r) ==
    /\ troubles > 0 /\ troubles' = troubles - 1
    /\ r \in valid
    /\ valid' = valid \ {r}
    /\ UNCHANGED <<board, entity, shown, op, pending, left, cut, redefined, adrift,
                   v3, recorded, receipts>>

Init ==
    /\ GateInit
    /\ v3 = [t \in Tasks |-> Unstarted]
    /\ recorded = {}
    /\ receipts = {}
    /\ valid = Runs

Next ==
    \/ GateSteps /\ UNCHANGED <<v3, recorded, receipts, valid>>
    \/ \E t \in Tasks : Record(t)
    \/ \E t \in Tasks, k \in Stages, v \in Runs \cup {NoRun} : Submit(t, k, v)
    \/ \E r \in receipts, by \in Runs : Advance(r, by)
    \/ Save
    \/ Mirror
    \/ \E r \in Runs : RunEnds(r)

Spec == Init /\ [][Next]_vars

(***************************************************************************)
(* Properties                                                              *)
(***************************************************************************)
\* The variables keep their types.
TypeOK ==
    /\ board \in Rows
    /\ entity \in [Entities -> Nat]
    /\ shown \in [Tasks -> 0..LastStage \cup {NoRow}]
    /\ op \in Ops \cup {NoOp}
    /\ pending \in [Imports -> [rev : Nat, imp : Nat, hash : 1..MaxContent] \cup {NoImport}]
    /\ left \in 0..MaxCalls /\ troubles \in 0..MaxTroubles
    /\ cut \subseteq Entities /\ redefined \subseteq Tasks /\ adrift \subseteq Tasks
    /\ v3 \in [Tasks -> Lifecycles] /\ recorded \subseteq Tasks
    /\ receipts \subseteq Receipts
    /\ valid \subseteq Runs

\* A stage is entered on evidence that was submitted when the task had reached
\* the stage before it: submit_stage_evidence does not look at the order, the
\* revisions a receipt is bound to must make up for it.  (An advance cut short
\* before its bump, followed by an import that stores an older board revision,
\* lets a receipt of before that advance match again.)
EvidenceIsFresh ==
    \A t \in Tasks \ cut : \A k \in DOMAIN v3[t].history :
        v3[t].history[k].at = v3[t].history[k].stage - 1

\* Who verified a stage is neither the run, the agent nor the thread that the
\* task names as its implementer, at the time or ever after.
VerifiedByAnother ==
    \A t \in Tasks : \A k \in DOMAIN v3[t].history :
        v3[t].history[k].stage \in VerifierStages /\ v3[t].impl # NoRun =>
            /\ Agent[v3[t].history[k].verifier] # Agent[v3[t].impl]
            /\ Thread[v3[t].history[k].verifier] # Thread[v3[t].impl]

\* The task went through stage k on evidence.
Earned(t, k) == \E e \in DOMAIN v3[t].history : v3[t].history[e].stage = k

\* The stage in a task's row is one the task reached on evidence, or the first
\* one, seeded by init_lifecycle; and it is the stage it reached last, unless
\* an advance is under way or was cut, or the row was deleted or seeded since.
ShownIsEarned ==
    \A t \in Tasks : shown[t] # NoRow =>
        /\ shown[t] > (IF t \in adrift THEN 1 ELSE 0) => Earned(t, shown[t])
        /\ Free /\ t \notin cut \cup adrift => shown[t] = v3[t].stage

\* Every transition requires evidence and an audit receipt (ARCHITECTURE.md),
\* and an upsert preserves the stage (board-mcp.ts): whatever else was written,
\* a row shows what its task reached.
ShownIsAlwaysEarned ==
    \A t \in Tasks : shown[t] # NoRow /\ Free /\ t \notin cut =>
        /\ shown[t] = v3[t].stage
        /\ shown[t] > 0 => Earned(t, shown[t])

\* The two places that hold a task's revision, which an advance compares with
\* one number, only part where a write was cut short or the definition written.
RevisionsAgree ==
    \A t \in Tasks : Free /\ t \notin cut \cup redefined => entity[t] = v3[t].rev

\* Move the stage with advance_task, says upsert_task: whatever was written
\* before, the next advance of a task can satisfy both places.
AdvanceStaysPossible ==
    \A t \in Tasks : Free /\ t \notin cut => entity[t] = v3[t].rev

\* Who verifies a stage did not build it: is not the run that advanced the task
\* into the stage that is verified, or of its agent (ARCHITECTURE.md: reject
\* same author/verifier agent, self-verify).
BuilderNeverVerifies ==
    \A t \in Tasks : \A k \in DOMAIN v3[t].history \ {1} :
        LET e == v3[t].history[k]
            before == v3[t].history[k - 1]
        IN e.stage \in VerifierStages /\ before.stage \notin VerifierStages =>
              Agent[e.verifier] # Agent[before.by]
=============================================================================
