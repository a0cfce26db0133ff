------------------------ MODULE LifecycleRail_proofs ------------------------
(***************************************************************************)
(* The properties of LifecycleRail for any tasks, runs, agents, threads,   *)
(* rail and imports, whatever statement fails and however long it runs.    *)
(***************************************************************************)
EXTENDS LifecycleRail, TLAPS

(***************************************************************************)
(* The inductive invariant.                                                *)
(***************************************************************************)
Writes == {"define", "delete", "seed"}

\* An advance that is about to do s.
Advancing(s) == ~Free /\ op.kind = "advance" /\ op.at = s

\* An advance that has saved the document and still has to bump the board.
Saved == Advancing("mirror") \/ Advancing("swap") \/ Advancing("bump")

\* No entry is of a stage that is yet to come, and a task past the first stage
\* has an implementer: only that stage can be seeded.
HistoryIsPast ==
    \A t \in Tasks :
        /\ t \notin recorded => v3[t] = Unstarted
        /\ \A k \in DOMAIN v3[t].history : v3[t].history[k].stage <= v3[t].stage
        /\ v3[t].stage > 1 => v3[t].impl # NoRun

Apart(v, impl) == Agent[v] # Agent[impl] /\ Thread[v] # Thread[impl]

\* The checks of an advance still hold when its document is saved.
ChecksHold ==
    Advancing("mutate") =>
        LET t == op.task
            k == v3[t].stage + 1
        IN /\ k <= LastStage /\ op.work.stage = k /\ t \in recorded
           /\ k \in VerifierStages => v3[t].impl # NoRun /\ Apart(op.work.verifier, v3[t].impl)
           /\ t \notin cut => op.work.at = v3[t].stage
           /\ v3[t].rev = op.ent

\* Evidence that carries the board's lifecycle revision was submitted at the
\* task's stage: every advance bumps it, and no import touches it.
ReceiptsAreBound ==
    \A r \in receipts :
        /\ r.life <= board.life /\ r.task \in recorded
        /\ r.task \notin cut /\ r.life = board.life =>
              r.at = v3[r.task].stage \/ (Saved /\ op.task = r.task)

MirrorEarned == Advancing("mirror") => Earned(op.task, v3[op.task].stage)

\* Earned, of a history.
EarnedIn(h, k) == \E e \in DOMAIN h : h[e].stage = k

\* What a row shows was earned or is exempt; the mirror is about to write a
\* stage that was.
ShownInStep ==
    /\ \A t \in Tasks :
          /\ t \in recorded /\ shown[t] = NoRow => t \in adrift
          /\ shown[t] # NoRow =>
                /\ shown[t] > (IF t \in adrift THEN 1 ELSE 0) => Earned(t, shown[t])
                /\ t \notin cut \cup adrift =>
                      shown[t] = v3[t].stage \/ (Advancing("mirror") /\ op.task = t)
    /\ MirrorEarned

RevisionsInStep ==
    /\ Advancing("mirror") \/ Advancing("swap") => v3[op.task].rev = op.ent + 1
    /\ ~Free /\ op.kind \in {"define", "delete"} /\ op.at # "mutate" => op.task \in redefined
    /\ \A t \in Tasks \ (cut \cup redefined) :
          \/ entity[t] = v3[t].rev
          \/ (Advancing("mirror") \/ Advancing("swap")) /\ op.task = t

IInv ==
    /\ TypeOK
    /\ HistoryIsPast /\ ChecksHold /\ VerifiedByAnother
    /\ EvidenceIsFresh /\ ReceiptsAreBound
    /\ ShownInStep /\ RevisionsInStep

(***************************************************************************)
(* What is known of the holder of the board lock.                          *)
(***************************************************************************)
\* A busy holder is an operation of one of the kinds there are.
LEMMA OpFields ==
    ASSUME TypeOK, ~Free
    PROVE  /\ op \in Ops /\ op.task \in Entities /\ op.rev \in Nat /\ op.ent \in Nat
           /\ op.hash \in 0..MaxContent
           /\ op.kind = "advance" \/ op.kind \in Writes
           /\ op.at \in {"mutate", "mirror", "swap", "bump"}
           /\ op.kind = "advance" => op.work \in Entries
           /\ op.kind = "advance" => op.task \in Tasks
           /\ op.kind \in {"define", "delete"} => op.task \in Tasks
           /\ op.kind \in Writes => op.kind # "advance" /\ op.at # "mirror"
BY DEF TypeOK, Free, Ops, OpsOf, Writes, Entities

\* Moving on changes where the holder is and nothing else.
LEMMA MoveFields ==
    ASSUME TypeOK, NEW from, NEW to, Move(from, to),
           to \in {"swap", "bump"} \/ (to = "mirror" /\ op.kind = "advance")
    PROVE  /\ op' \in Ops /\ ~Free' /\ op'.at = to
           /\ op'.task = op.task /\ op'.kind = op.kind /\ op'.work = op.work
           /\ op'.rev = op.rev /\ op'.ent = op.ent /\ op'.hash = op.hash
<1>1. op \in Ops
  BY OpFields DEF Move
<1>2. op' = [op EXCEPT !.at = to]
  BY DEF Move
<1>3. op' \in Ops
  BY <1>1, <1>2 DEF Ops, OpsOf
<1>4. ~Free'
  BY <1>3, OpAssumption DEF Free
<1> QED
  BY <1>1, <1>2, <1>3, <1>4 DEF Ops, OpsOf

\* What a request that enters the gate looks like.
LEMMA EnterFields ==
    ASSUME TypeOK, NEW kind, NEW t \in Entities, NEW work, Enter(kind, t, work),
           \/ kind = "advance" /\ t \in Tasks /\ work \in Entries
           \/ kind \in {"define", "delete"} /\ t \in Tasks /\ work = NoWork
           \/ kind = "seed" /\ t = Rail /\ work = NoWork
    PROVE  /\ op' \in Ops /\ ~Free' /\ op'.at = "mutate"
           /\ op'.task = t /\ op'.kind = kind /\ op'.work = work
           /\ op'.rev = board.rev /\ op'.ent = entity[t] /\ op'.hash = board.hash
           /\ left' \in 0..MaxCalls
<1>1. board.rev \in Nat /\ board.hash \in 0..MaxContent /\ entity[t] \in Nat
  BY DEF TypeOK, Rows
<1>2. op' = Accepted(kind, t, work)
  BY DEF Enter
<1>3. op' \in Ops
  BY <1>1, <1>2 DEF Accepted, Ops, OpsOf
<1>4. ~Free'
  BY <1>3, OpAssumption DEF Free
<1>5. left' \in 0..MaxCalls
  BY BoundsAssumption DEF TypeOK, Enter, Spend
<1> QED
  BY <1>2, <1>3, <1>4, <1>5 DEF Accepted

\* Spending a call keeps the count in range.
LEMMA SpendTypes == TypeOK /\ Spend => left' \in 0..MaxCalls
BY BoundsAssumption DEF TypeOK, Spend

\* Who a receipt says verified it, or who advances on it, is a run.
LEMMA VerifierIsRun ==
    ASSUME NEW r \in Receipts, NEW by \in Runs
    PROVE  Verifier(r, by) \in Runs
BY DEF Receipts, Verifier

\* The work of an advance.
LEMMA AdvanceFields ==
    ASSUME TypeOK, NEW r \in receipts, NEW by \in Runs, Advance(r, by)
    PROVE  /\ r \in Receipts /\ r.task \in Tasks /\ r.at \in 0..LastStage /\ r.stage \in Stages
           /\ op' \in Ops /\ ~Free' /\ op'.at = "mutate"
           /\ op'.task = r.task /\ op'.kind = "advance"
           /\ op'.work = [stage |-> r.stage, by |-> by, verifier |-> Verifier(r, by), at |-> r.at]
           /\ op'.ent = entity[r.task]
           /\ left' \in 0..MaxCalls
<1>1. /\ r \in Receipts /\ r.task \in Tasks /\ r.at \in 0..LastStage
      /\ r.stage \in Stages
  BY DEF TypeOK, Receipts
<1>2. [stage |-> r.stage, by |-> by, verifier |-> Verifier(r, by), at |-> r.at] \in Entries
  BY <1>1, VerifierIsRun DEF Entries
<1>3. Enter("advance", r.task, [stage |-> r.stage, by |-> by, verifier |-> Verifier(r, by), at |-> r.at])
  BY DEF Advance
<1>4. r.task \in Entities
  BY <1>1 DEF Entities
<1> QED
  BY <1>1, <1>2, <1>3, <1>4, EnterFields

\* The document that is saved.
LEMMA AdvancedTypes ==
    ASSUME TypeOK, ~Free, op.kind = "advance", v3[op.task].stage + 1 <= LastStage
    PROVE  LET t == op.task IN
           /\ Advanced(t) \in Lifecycles
           /\ Advanced(t).stage = v3[t].stage + 1
           /\ Advanced(t).rev = v3[t].rev + 1
           /\ Advanced(t).impl = Implementer(t, v3[t].stage + 1, op.work.by)
           /\ Advanced(t).history = Append(v3[t].history, op.work)
<1> DEFINE t == op.task
<1>1. t \in Tasks /\ op.work \in Entries
  BY OpFields
<1>2. v3[t] \in Lifecycles
  BY <1>1 DEF TypeOK
<1>3. /\ v3[t].stage \in 0..LastStage /\ v3[t].rev \in Nat /\ v3[t].impl \in Runs \cup {NoRun}
      /\ v3[t].history \in Seq(Entries)
  BY <1>2 DEF Lifecycles
<1>4. v3[t].stage + 1 \in 0..LastStage
  BY <1>3, RailAssumption
<1>5. Implementer(t, v3[t].stage + 1, op.work.by) \in Runs \cup {NoRun}
  BY <1>1, <1>3 DEF Implementer, Entries
<1>6. Append(v3[t].history, op.work) \in Seq(Entries)
  BY <1>1, <1>3
<1> QED
  BY <1>3, <1>4, <1>5, <1>6 DEF Advanced, Lifecycles

(***************************************************************************)
(* What the three statements that write the board's row leave in it.       *)
(***************************************************************************)
\* The swap.
LEMMA SwappedRow ==
    ASSUME TypeOK, Swap
    PROVE  board' \in Rows /\ board'.life = board.life
<1>1. op.rev + 1 \in Nat /\ op.hash \in 0..MaxContent
  BY OpFields DEF Swap, Move
<1>2. board' = [board EXCEPT !.rev = op.rev + 1, !.subject = op.hash]
  BY DEF Swap, Swapped
<1>3. /\ board \in Rows
      /\ board' = [rev |-> op.rev + 1, life |-> board.life, hash |-> board.hash,
                   subject |-> op.hash, imp |-> board.imp]
  BY <1>2 DEF TypeOK, Rows
<1> QED
  BY <1>1, <1>3 DEF Rows

\* The bump.
LEMMA BumpedRow ==
    ASSUME TypeOK, Bump
    PROVE  /\ board' \in Rows
           /\ board'.life = IF op.kind = "advance" THEN board.life + 1 ELSE board.life
<1> DEFINE l == IF op.kind = "advance" THEN board.life + 1 ELSE board.life
<1>1. board \in Rows /\ board.rev + 1 \in Nat /\ l \in Nat
  BY DEF TypeOK, Rows
<1>2. board' = [board EXCEPT !.rev = board.rev + 1, !.life = l]
  BY DEF Bump
<1> HIDE DEF l
<1>3. board' = [rev |-> board.rev + 1, life |-> l, hash |-> board.hash,
                subject |-> board.subject, imp |-> board.imp]
  BY <1>1, <1>2 DEF Rows
<1>4. board' \in Rows /\ board'.life = l
  BY <1>1, <1>3 DEF Rows
<1> QED
  BY <1>4 DEF l

\* The import.
LEMMA ImportedRow ==
    ASSUME TypeOK, NEW i \in Imports, ImportApply(i)
    PROVE  board' \in Rows /\ board'.life = board.life
<1> DEFINE p == pending[i]
<1>1. p \in [rev : Nat, imp : Nat, hash : 1..MaxContent]
  BY DEF TypeOK, ImportApply
<1>2. board' = [board EXCEPT !.rev = p.rev, !.imp = p.imp, !.hash = p.hash, !.subject = p.hash]
  BY DEF ImportApply, Imported
<1>3. p.rev \in Nat /\ p.imp \in Nat /\ p.hash \in 0..MaxContent
  BY <1>1, BoundsAssumption
<1> HIDE DEF p
<1>4. board' = [rev |-> p.rev, life |-> board.life, hash |-> p.hash,
                subject |-> p.hash, imp |-> p.imp]
  BY <1>2 DEF TypeOK, Rows
<1>5. board.life \in Nat
  BY DEF TypeOK, Rows
<1> QED
  BY <1>3, <1>4, <1>5 DEF Rows

(***************************************************************************)
(* Type correctness.                                                       *)
(***************************************************************************)
LEMMA InitType == Init => TypeOK
<1> SUFFICES ASSUME Init PROVE TypeOK
  OBVIOUS
<1> USE BoundsAssumption, RailAssumption
<1>1. board \in Rows
  BY DEF Init, GateInit, Rows
<1>2. Unstarted \in Lifecycles
  BY DEF Lifecycles, Unstarted
<1>3. v3 \in [Tasks -> Lifecycles]
  BY <1>2 DEF Init
<1> QED
  BY <1>1, <1>3 DEF Init, GateInit, TypeOK

\* What a change of definitions writes.
LEMMA MutateTypes ==
    ASSUME TypeOK, Mutate
    PROVE  /\ shown' \in [Tasks -> 0..LastStage \cup {NoRow}]
           /\ redefined' \subseteq Tasks /\ adrift' \subseteq Tasks
<1> USE RailAssumption
<1>1. ~Free
  BY DEF Mutate, Move
<1>2. 0 \in 0..LastStage /\ 1 \in 0..LastStage
  OBVIOUS
<1>3. CASE RowDefined
  <2>1. op.kind = "define"
    BY <1>3 DEF RowDefined
  <2>2. op.task \in Tasks
    BY <1>1, <2>1, OpFields
  <2> QED
    BY <1>2, <1>3, <2>2 DEF RowDefined, TypeOK
<1>4. CASE RowDeleted
  <2>1. op.kind = "delete"
    BY <1>4 DEF RowDeleted
  <2>2. op.task \in Tasks
    BY <1>1, <2>1, OpFields
  <2> QED
    BY <1>4, <2>2 DEF RowDeleted, TypeOK
<1>5. CASE RowsSeeded
  BY <1>2, <1>5 DEF RowsSeeded, TypeOK
<1> QED
  BY <1>3, <1>4, <1>5 DEF Mutate

\* Every step keeps the types; an advance that saves has checked its stage.
LEMMA NextType == TypeOK /\ ChecksHold /\ [Next]_vars => TypeOK'
<1> SUFFICES ASSUME TypeOK, ChecksHold, [Next]_vars PROVE TypeOK'
  OBVIOUS
<1> USE BoundsAssumption, RailAssumption
<1>1. ASSUME NEW kind \in {"define", "delete"}, NEW t \in Tasks, Define(kind, t),
             UNCHANGED <<v3, recorded, receipts, valid>>
      PROVE  TypeOK'
  <2>1. op' \in Ops /\ left' \in 0..MaxCalls
    BY <1>1, EnterFields DEF Define, Entities
  <2> QED
    BY <1>1, <2>1 DEF TypeOK, Define, Enter
<1>16. CASE SeedRail /\ UNCHANGED <<v3, recorded, receipts, valid>>
  <2>1. op' \in Ops /\ left' \in 0..MaxCalls
    BY <1>16, EnterFields DEF SeedRail, Entities
  <2> QED
    BY <1>16, <2>1 DEF TypeOK, SeedRail, Enter
<1>2. CASE Mutate /\ UNCHANGED <<v3, recorded, receipts, valid>>
  <2>1. op' \in Ops
    BY <1>2, MoveFields DEF Mutate
  <2>2. /\ shown' \in [Tasks -> 0..LastStage \cup {NoRow}]
        /\ redefined' \subseteq Tasks /\ adrift' \subseteq Tasks
    BY <1>2, MutateTypes
  <2> QED
    BY <1>2, <2>1, <2>2 DEF TypeOK, Mutate
<1>17. ASSUME NEW t \in Tasks, Record(t) PROVE TypeOK'
  <2>1. v3[t] \in Lifecycles /\ shown[t] \in 0..LastStage
    BY <1>17 DEF TypeOK, Record
  <2>2. \A x \in Lifecycles, n \in 0..LastStage : [x EXCEPT !.stage = n] \in Lifecycles
    BY DEF Lifecycles
  <2>3. v3' \in [Tasks -> Lifecycles]
    BY <1>17, <2>1, <2>2 DEF TypeOK, Record
  <2> QED
    BY <1>17, <2>3 DEF TypeOK, Record, gate
<1>3. CASE Swap /\ UNCHANGED <<v3, recorded, receipts, valid>>
  <2>1. op' \in Ops /\ op.task \in Entities /\ op.rev \in Nat /\ op.ent \in Nat /\ op.hash \in 0..MaxContent
    BY <1>3, MoveFields, OpFields DEF Swap, Move
  <2>2. board' \in Rows
    BY <1>3, SwappedRow
  <2>3. entity' \in [Entities -> Nat]
    BY <1>3, <2>1 DEF TypeOK, Swap, Swapped
  <2> QED
    BY <1>3, <2>1, <2>2, <2>3 DEF TypeOK, Swap
<1>4. CASE SwapRefused /\ UNCHANGED <<v3, recorded, receipts, valid>>
  <2>1. op.task \in Entities
    BY <1>4, OpFields DEF SwapRefused
  <2> QED
    BY <1>4, <2>1 DEF TypeOK, SwapRefused, Abandon
<1>5. CASE Bump /\ UNCHANGED <<v3, recorded, receipts, valid>>
  <2>1. board' \in Rows
    BY <1>5, BumpedRow
  <2> QED
    BY <1>5, <2>1 DEF TypeOK, Bump
<1>6. CASE Fault /\ UNCHANGED <<v3, recorded, receipts, valid>>
  <2>1. op.task \in Entities
    BY <1>6, OpFields DEF Fault
  <2>2. troubles' \in 0..MaxTroubles
    BY <1>6 DEF TypeOK, Fault
  <2> QED
    BY <1>6, <2>1, <2>2 DEF TypeOK, Fault, Abandon
<1>7. CASE Elsewhere /\ UNCHANGED <<v3, recorded, receipts, valid>>
  <2>1. board' \in Rows
    BY <1>7 DEF TypeOK, Elsewhere, Rows
  <2>2. left' \in 0..MaxCalls
    BY <1>7, SpendTypes DEF Elsewhere
  <2> QED
    BY <1>7, <2>1, <2>2 DEF TypeOK, Elsewhere
<1>8. ASSUME NEW i \in Imports, NEW c \in 1..MaxContent, ImportRead(i, c),
             UNCHANGED <<v3, recorded, receipts, valid>>
      PROVE  TypeOK'
  <2>1. left' \in 0..MaxCalls
    BY <1>8, SpendTypes DEF ImportRead
  <2>2. [rev |-> board.rev + 1, imp |-> board.imp + 1, hash |-> c]
            \in [rev : Nat, imp : Nat, hash : 1..MaxContent]
    BY DEF TypeOK, Rows
  <2>3. pending' \in [Imports -> [rev : Nat, imp : Nat, hash : 1..MaxContent] \cup {NoImport}]
    BY <1>8, <2>2 DEF TypeOK, ImportRead
  <2> QED
    BY <1>8, <2>1, <2>3 DEF TypeOK, ImportRead
<1>9. ASSUME NEW i \in Imports, ImportApply(i), UNCHANGED <<v3, recorded, receipts, valid>>
      PROVE  TypeOK'
  <2>2. board' \in Rows
    BY <1>9, ImportedRow
  <2>3. pending' \in [Imports -> [rev : Nat, imp : Nat, hash : 1..MaxContent] \cup {NoImport}]
    BY <1>9 DEF TypeOK, ImportApply
  <2> QED
    BY <1>9, <2>2, <2>3 DEF TypeOK, ImportApply
<1>10. ASSUME NEW t \in Tasks, NEW k \in Stages, NEW v \in Runs \cup {NoRun}, Submit(t, k, v)
       PROVE  TypeOK'
  <2>1. left' \in 0..MaxCalls
    BY <1>10, SpendTypes DEF Submit
  <2>2. v3[t].stage \in 0..LastStage
    BY DEF TypeOK, Lifecycles
  <2>3. Evidence(t, k, v) \in Receipts
    BY <2>2 DEF TypeOK, Evidence, Receipts, Rows
  <2> QED
    BY <1>10, <2>1, <2>3 DEF TypeOK, Submit
<1>11. ASSUME NEW r \in receipts, NEW by \in Runs, Advance(r, by) PROVE TypeOK'
  <2>1. op' \in Ops /\ left' \in 0..MaxCalls
    BY <1>11, AdvanceFields
  <2> QED
    BY <1>11, <2>1 DEF TypeOK, Advance, Enter
<1>12. CASE Save
  <2>1. op' \in Ops /\ op.task \in Tasks
    BY <1>12, MoveFields, OpFields DEF Save, Move
  <2>2. v3[op.task].stage + 1 <= LastStage
    BY <1>12 DEF Save, Move, ChecksHold, Advancing
  <2>3. Advanced(op.task) \in Lifecycles
    BY <1>12, <2>2, AdvancedTypes DEF Save, Move
  <2>4. v3' \in [Tasks -> Lifecycles]
    BY <1>12, <2>1, <2>3 DEF TypeOK, Save
  <2> QED
    BY <1>12, <2>1, <2>4 DEF TypeOK, Save
<1>13. CASE Mirror
  <2>1. op' \in Ops /\ op.task \in Tasks
    <3>1. ~Free /\ op.kind = "advance"
      BY <1>13, OpFields DEF Mirror, Move
    <3> QED
      BY <1>13, <3>1, MoveFields, OpFields DEF Mirror
  <2>2. v3[op.task].stage \in 0..LastStage
    BY <2>1 DEF TypeOK, Lifecycles
  <2>3. shown' \in [Tasks -> 0..LastStage \cup {NoRow}] /\ adrift' \subseteq Tasks
    BY <1>13, <2>1, <2>2 DEF TypeOK, Mirror
  <2> QED
    BY <1>13, <2>1, <2>3 DEF TypeOK, Mirror
<1>14. ASSUME NEW r \in Runs, RunEnds(r) PROVE TypeOK'
  <2>1. troubles' \in 0..MaxTroubles
    BY <1>14 DEF TypeOK, RunEnds
  <2> QED
    BY <1>14, <2>1 DEF TypeOK, RunEnds
<1>15. CASE UNCHANGED vars
  BY <1>15 DEF TypeOK, vars, gate
<1> QED
  BY <1>1, <1>2, <1>3, <1>4, <1>5, <1>6, <1>7, <1>8, <1>9, <1>10, <1>11, <1>12, <1>13, <1>14, <1>15,
     <1>16, <1>17
  DEF Next, GateSteps

(***************************************************************************)
(* Who writes what.                                                        *)
(***************************************************************************)
\* Each part of the state has few writers, and nothing is taken out of the
\* histories.
LEMMA Writers ==
    ASSUME TypeOK, [Next]_vars
    PROVE  /\ Save \/ (\E t \in Tasks : Record(t)) \/ UNCHANGED <<v3, recorded>>
           /\ Save => UNCHANGED recorded
           /\ Mirror \/ Mutate \/ UNCHANGED <<shown, adrift>>
           /\ Swap \/ UNCHANGED entity
           /\ Bump \/ board'.life = board.life
           /\ \/ \E t \in Tasks, k \in Stages, v \in Runs \cup {NoRun} : Submit(t, k, v)
              \/ UNCHANGED receipts
           /\ cut \subseteq cut' /\ redefined \subseteq redefined' /\ recorded \subseteq recorded'
<1>1. Swap => board'.life = board.life
  BY SwappedRow
<1>2. \A i \in Imports : ImportApply(i) => board'.life = board.life
  BY ImportedRow
<1>3. Elsewhere => board'.life = board.life
  BY DEF Elsewhere, TypeOK, Rows
<1>4. CASE UNCHANGED vars
  BY <1>4 DEF vars, gate, Save
<1>5. CASE GateSteps /\ UNCHANGED <<v3, recorded, receipts, valid>>
  BY <1>1, <1>2, <1>3, <1>5 DEF GateSteps, Define, SeedRail, Enter, Mutate, RowDefined, RowDeleted,
     RowsSeeded, Swap, SwapRefused, Bump, Fault, Abandon, Elsewhere, ImportRead, ImportApply
<1>6. ASSUME NEW t \in Tasks, Record(t)
      PROVE  UNCHANGED gate /\ UNCHANGED receipts /\ recorded \subseteq recorded' /\ ~Save
  BY <1>6 DEF Record, Save, Move
<1>7. CASE \E t \in Tasks : Record(t)
  BY <1>6, <1>7 DEF gate
<1>8. CASE Next /\ ~(GateSteps /\ UNCHANGED <<v3, recorded, receipts, valid>>)
                /\ ~\E t \in Tasks : Record(t)
  BY <1>8 DEF Next, Submit, Advance, Enter, Save, Mirror, RunEnds
<1> QED
  BY <1>4, <1>5, <1>7, <1>8

\* What becomes of the operation under the lock.
Enters ==
    /\ Free /\ ~Free' /\ op'.at = "mutate"
    /\ \/ op'.kind \in Writes
       \/ \E r \in receipts, by \in Runs : Advance(r, by)

Moves(from, to) ==
    /\ ~Free /\ ~Free' /\ op.at = from /\ op'.at = to
    /\ op'.task = op.task /\ op'.kind = op.kind /\ op'.work = op.work /\ op'.ent = op.ent

Abandons == ~Free /\ Free' /\ cut' = cut \cup {op.task}

\* Every step of an operation is one of these.
LEMMA OpSteps ==
    ASSUME TypeOK, [Next]_vars
    PROVE  \/ UNCHANGED op /\ ~Save /\ ~Mirror /\ ~Swap /\ ~Bump
           \/ Enters /\ ~Save /\ ~Mirror /\ ~Swap /\ ~Bump
           \/ Mutate /\ Moves("mutate", "swap") /\ op.kind \in Writes /\ ~Save /\ ~Mirror /\ ~Swap /\ ~Bump
           \/ Save /\ Moves("mutate", "mirror") /\ op.kind = "advance" /\ ~Mirror /\ ~Swap /\ ~Bump
           \/ Mirror /\ Moves("mirror", "swap") /\ op.kind = "advance" /\ ~Save /\ ~Swap /\ ~Bump
           \/ Swap /\ Moves("swap", "bump") /\ ~Save /\ ~Mirror /\ ~Bump
           \/ Bump /\ ~Free /\ Free' /\ op.at = "bump" /\ ~Save /\ ~Mirror /\ ~Swap
           \/ Abandons /\ ~Save /\ ~Mirror /\ ~Swap /\ ~Bump
<1> DEFINE Still == UNCHANGED op \/ Enters \/ Abandons
<1>a. ~Free => (op.kind = "advance" \/ op.kind \in Writes) /\ (op.kind \in Writes => op.at # "mirror")
  BY OpFields
<1>b. Save => Moves("mutate", "mirror") /\ op.kind = "advance"
  BY MoveFields DEF Save, Moves, Move
<1>c. Mirror => Moves("mirror", "swap") /\ op.kind = "advance"
  BY <1>a, MoveFields DEF Mirror, Moves, Move
<1>d. Swap => Moves("swap", "bump")
  BY MoveFields DEF Swap, Moves, Move
<1>e. Bump => ~Free /\ Free' /\ op.at = "bump"
  BY DEF Bump, Free
<1>f. Mutate => Moves("mutate", "swap") /\ op.kind \in Writes
  BY MoveFields DEF Mutate, Moves, Move, RowDefined, RowDeleted, RowsSeeded, Writes
<1>1. Mutate \/ Save \/ Mirror \/ Swap \/ Bump \/ Still
  <2>1. ASSUME NEW kind \in {"define", "delete"}, NEW t \in Tasks, Define(kind, t) PROVE Enters
    BY <2>1, EnterFields DEF Define, Enter, Enters, Writes, Entities
  <2>5. SeedRail => Enters
    BY EnterFields DEF SeedRail, Enter, Enters, Writes, Entities
  <2>2. ASSUME NEW r \in receipts, NEW by \in Runs, Advance(r, by) PROVE Enters
    BY <2>2, AdvanceFields DEF Advance, Enter, Enters
  <2>3. SwapRefused \/ Fault => Abandons
    BY DEF SwapRefused, Fault, Abandon, Abandons, Free
  <2>4. \/ Elsewhere
        \/ \E i \in Imports, c \in 1..MaxContent : ImportRead(i, c)
        \/ \E i \in Imports : ImportApply(i)
        \/ \E t \in Tasks, k \in Stages, v \in Runs \cup {NoRun} : Submit(t, k, v)
        \/ \E t \in Tasks : Record(t)
        \/ \E r \in Runs : RunEnds(r)
        \/ UNCHANGED vars
        => UNCHANGED op
    BY DEF Elsewhere, ImportRead, ImportApply, Submit, Record, RunEnds, vars, gate
  <2> QED
    BY <2>1, <2>2, <2>3, <2>4, <2>5 DEF Next, GateSteps
<1>3. CASE Mutate
  BY <1>3, <1>b, <1>c, <1>d, <1>e, <1>f DEF Moves, Writes
<1>4. CASE Save
  BY <1>4, <1>b, <1>c, <1>d, <1>e DEF Moves
<1>5. CASE Mirror
  BY <1>5, <1>b, <1>c, <1>d, <1>e DEF Moves
<1>6. CASE Swap
  BY <1>6, <1>b, <1>c, <1>d, <1>e DEF Moves
<1>7. CASE Bump
  BY <1>7, <1>b, <1>c, <1>d, <1>e DEF Moves
<1>8. CASE Still /\ ~Save /\ ~Mirror /\ ~Swap /\ ~Bump
  BY <1>8
<1> QED
  BY <1>1, <1>3, <1>4, <1>5, <1>6, <1>7, <1>8

\* The task an advance saves, with what its checks left behind.
LEMMA Saves ==
    ASSUME TypeOK, HistoryIsPast, ChecksHold, Save
    PROVE  LET t == op.task IN
           /\ t \in Tasks /\ ~Free /\ op.work \in Entries
           /\ v3[t].stage \in Nat /\ v3[t].rev \in Nat /\ v3[t].history \in Seq(Entries)
           /\ \A k \in DOMAIN v3[t].history : v3[t].history[k].stage <= v3[t].stage
           /\ v3[t].stage > 1 => v3[t].impl # NoRun
           /\ v3[t].stage + 1 <= LastStage /\ op.work.stage = v3[t].stage + 1
           /\ t \in recorded /\ recorded' = recorded
           /\ v3[t].stage + 1 \in VerifierStages
                => v3[t].impl # NoRun /\ Apart(op.work.verifier, v3[t].impl)
           /\ t \notin cut => op.work.at = v3[t].stage
           /\ v3[t].rev = op.ent
           /\ \A u \in Tasks : u # t => v3'[u] = v3[u]
           /\ v3'[t].stage = v3[t].stage + 1
           /\ v3'[t].rev = v3[t].rev + 1
           /\ v3'[t].impl = Implementer(t, v3[t].stage + 1, op.work.by)
           /\ v3'[t].history = Append(v3[t].history, op.work)
<1> DEFINE t == op.task
<1>1. ~Free /\ Advancing("mutate") /\ t \in Tasks /\ op.work \in Entries
  BY OpFields DEF Save, Move, Advancing
<1>2. /\ v3[t].stage \in Nat /\ v3[t].rev \in Nat /\ v3[t].history \in Seq(Entries)
      /\ v3[t] \in Lifecycles
  BY <1>1 DEF TypeOK, Lifecycles
<1>3. /\ v3[t].stage + 1 <= LastStage /\ op.work.stage = v3[t].stage + 1
      /\ t \in recorded /\ recorded' = recorded
  BY <1>1 DEF ChecksHold, Save
<1>4. v3' = [v3 EXCEPT ![t] = Advanced(t)]
  BY DEF Save
<1>5. v3'[t] = Advanced(t) /\ \A u \in Tasks : u # t => v3'[u] = v3[u]
  BY <1>1, <1>4 DEF TypeOK
<1>6. /\ Advanced(t).stage = v3[t].stage + 1
      /\ Advanced(t).rev = v3[t].rev + 1
      /\ Advanced(t).impl = Implementer(t, v3[t].stage + 1, op.work.by)
      /\ Advanced(t).history = Append(v3[t].history, op.work)
  BY <1>1, <1>3, AdvancedTypes DEF Save
<1>7. /\ \A k \in DOMAIN v3[t].history : v3[t].history[k].stage <= v3[t].stage
      /\ v3[t].stage > 1 => v3[t].impl # NoRun
  BY <1>1 DEF HistoryIsPast
<1>8. /\ v3[t].stage + 1 \in VerifierStages
           => v3[t].impl # NoRun /\ Apart(op.work.verifier, v3[t].impl)
      /\ t \notin cut => op.work.at = v3[t].stage
      /\ v3[t].rev = op.ent
  BY <1>1 DEF ChecksHold
<1> QED
  BY <1>1, <1>2, <1>3, <1>5, <1>6, <1>7, <1>8

(***************************************************************************)
(* The history: stages passed, verified by someone else, on evidence       *)
(* submitted at the stage before.                                          *)
(***************************************************************************)
\* What the save appends.
LEMMA Appended ==
    ASSUME NEW S, NEW h \in Seq(S), NEW e \in S
    PROVE  /\ \A k \in DOMAIN Append(h, e) :
                 \/ k \in DOMAIN h /\ Append(h, e)[k] = h[k]
                 \/ k = Len(h) + 1 /\ Append(h, e)[k] = e
           /\ \A k \in DOMAIN h : k \in DOMAIN Append(h, e) /\ Append(h, e)[k] = h[k]
           /\ Len(h) + 1 \in DOMAIN Append(h, e) /\ Append(h, e)[Len(h) + 1] = e
OBVIOUS

\* A new document starts at the stage of its row, without history.
LEMMA Recorded ==
    ASSUME TypeOK, HistoryIsPast, ShownInStep, NEW t \in Tasks, Record(t)
    PROVE  /\ t \notin recorded /\ recorded' = recorded \cup {t} /\ Free /\ UNCHANGED gate
           /\ UNCHANGED receipts
           /\ v3[t] = Unstarted
           /\ v3[t].rev = 0 /\ v3'[t].rev = 0
           /\ v3'[t].stage = shown[t] /\ v3'[t].impl = NoRun /\ v3'[t].history = <<>>
           /\ \A u \in Tasks : u # t => v3'[u] = v3[u]
           /\ shown[t] \in {0, 1} /\ (t \notin adrift => shown[t] = 0)
<1>1. /\ t \notin recorded /\ recorded' = recorded \cup {t} /\ Free /\ UNCHANGED gate
      /\ UNCHANGED receipts /\ shown[t] # NoRow
      /\ v3' = [v3 EXCEPT ![t].stage = shown[t]]
  BY DEF Record
<1>2. v3[t] = Unstarted
  BY <1>1 DEF HistoryIsPast
<1>3. /\ v3'[t] = [v3[t] EXCEPT !.stage = shown[t]]
      /\ \A u \in Tasks : u # t => v3'[u] = v3[u]
  BY <1>1 DEF TypeOK
<1>4. /\ v3[t].rev = 0 /\ v3'[t].rev = 0
      /\ v3'[t].stage = shown[t] /\ v3'[t].impl = NoRun /\ v3'[t].history = <<>>
  BY <1>2, <1>3 DEF Unstarted
<1>5. \A k : ~Earned(t, k)
  BY <1>2 DEF Earned, Unstarted
<1>6. shown[t] \in 0..LastStage
  BY <1>1 DEF TypeOK
<1>7. ~(shown[t] > (IF t \in adrift THEN 1 ELSE 0))
  BY <1>1, <1>5 DEF ShownInStep
<1>8. shown[t] \in {0, 1} /\ (t \notin adrift => shown[t] = 0)
  BY <1>6, <1>7, RailAssumption
<1> QED
  BY <1>1, <1>2, <1>3, <1>4, <1>8

\* The second stage is the last that may name the implementer.
LEMMA NextHistory ==
    ASSUME TypeOK, HistoryIsPast, ChecksHold, ShownInStep, [Next]_vars
    PROVE  HistoryIsPast'
<1>1. CASE UNCHANGED <<v3, recorded>>
  BY <1>1 DEF HistoryIsPast
<1>2. CASE Save
  <2> DEFINE t == op.task
             h == v3[t].history
  <2>1. ASSUME NEW k \in DOMAIN v3'[t].history
        PROVE  v3'[t].history[k].stage <= v3'[t].stage
    <3>1. /\ h \in Seq(Entries) /\ op.work \in Entries /\ v3[t].stage \in Nat
          /\ v3'[t].history = Append(h, op.work)
          /\ op.work.stage = v3[t].stage + 1 /\ v3'[t].stage = v3[t].stage + 1
          /\ \A j \in DOMAIN h : h[j].stage <= v3[t].stage
      BY <1>2, Saves
    <3>2. CASE k \in DOMAIN h /\ v3'[t].history[k] = h[k]
      <4>1. h[k] \in Entries
        BY <3>1, <3>2
      <4>2. h[k].stage \in Nat
        BY <4>1, RailAssumption DEF Entries, Stages
      <4> QED
        BY <3>1, <3>2, <4>2
    <3>3. CASE v3'[t].history[k] = op.work
      BY <3>1, <3>3
    <3> QED
      BY <2>1, <3>1, <3>2, <3>3, Appended
  <2>2. v3'[t].stage > 1 => v3'[t].impl # NoRun
    <3>1. CASE v3[t].impl # NoRun
      BY <1>2, <3>1, Saves DEF Implementer
    <3>2. CASE v3[t].impl = NoRun
      <4>1. v3[t].stage \in {0, 1}
        BY <1>2, <3>2, Saves
      <4>2. v3[t].stage + 1 \notin VerifierStages
        BY <4>1, RailAssumption
      <4>3. op.work.by \in Runs
        BY <1>2, Saves DEF Entries
      <4> QED
        BY <1>2, <3>2, <4>2, <4>3, Saves, RailAssumption DEF Implementer
    <3> QED
      BY <3>1, <3>2
  <2>3. \A u \in Tasks : u # t => v3'[u] = v3[u]
    BY <1>2, Saves
  <2>4. t \in recorded /\ recorded' = recorded
    BY <1>2, Saves
  <2> QED
    BY <2>1, <2>2, <2>3, <2>4 DEF HistoryIsPast
<1>3. ASSUME NEW t \in Tasks, Record(t) PROVE HistoryIsPast'
  <2>1. /\ t \in recorded' /\ recorded' = recorded \cup {t}
        /\ v3'[t].history = <<>> /\ v3'[t].stage \in {0, 1}
        /\ \A u \in Tasks : u # t => v3'[u] = v3[u]
    BY <1>3, Recorded
  <2> QED
    BY <2>1 DEF HistoryIsPast
<1> QED
  BY <1>1, <1>2, <1>3, Writers

\* The implementer never changes once it is named.
LEMMA ImplementerStays ==
    ASSUME TypeOK, HistoryIsPast, ChecksHold, Save, v3[op.task].impl # NoRun
    PROVE  v3'[op.task].impl = v3[op.task].impl
BY Saves DEF Implementer

\* The verifier the checks found apart stays apart.
LEMMA NextVerified ==
    ASSUME TypeOK, HistoryIsPast, ChecksHold, ShownInStep, VerifiedByAnother, [Next]_vars
    PROVE  VerifiedByAnother'
<1>1. CASE UNCHANGED <<v3, recorded>>
  BY <1>1 DEF VerifiedByAnother
<1>2. CASE Save
  <2> DEFINE t == op.task
             h == v3[t].history
  <2>1. \A u \in Tasks : u # t => v3'[u] = v3[u]
    BY <1>2, Saves
  <2>2. ASSUME NEW k \in DOMAIN v3'[t].history, v3'[t].impl # NoRun,
               v3'[t].history[k].stage \in VerifierStages
        PROVE  Apart(v3'[t].history[k].verifier, v3'[t].impl)
    <3>1. /\ t \in Tasks /\ h \in Seq(Entries) /\ op.work \in Entries /\ v3[t].stage \in Nat
          /\ v3'[t].history = Append(h, op.work)
          /\ op.work.stage = v3[t].stage + 1
          /\ \A j \in DOMAIN h : h[j].stage <= v3[t].stage
          /\ v3[t].stage > 1 => v3[t].impl # NoRun
      BY <1>2, Saves
    <3>2. CASE k \in DOMAIN h /\ v3'[t].history[k] = h[k]
      <4>1. h[k].stage \in 3..LastStage
        <5>1. h[k].stage \in VerifierStages
          BY <2>2, <3>2
        <5> QED
          BY <5>1, RailAssumption
      <4>2. v3[t].impl # NoRun
        <5>1. h[k].stage <= v3[t].stage
          BY <3>1, <3>2
        <5> HIDE DEF h
        <5>2. v3[t].stage > 1
          BY <3>1, <4>1, <5>1, RailAssumption
        <5> QED
          BY <3>1, <5>2
      <4>3. v3'[t].impl = v3[t].impl
        BY <1>2, <4>2, ImplementerStays
      <4> QED
        BY <2>2, <3>1, <3>2, <4>2, <4>3 DEF VerifiedByAnother, Apart
    <3>3. CASE v3'[t].history[k] = op.work
      <4>1. v3[t].stage + 1 \in VerifierStages
        BY <2>2, <3>1, <3>3
      <4>2. v3[t].impl # NoRun /\ Apart(op.work.verifier, v3[t].impl)
        BY <1>2, <4>1, Saves
      <4>3. v3'[t].impl = v3[t].impl
        BY <1>2, <4>2, ImplementerStays
      <4> QED
        BY <3>3, <4>2, <4>3
    <3> QED
      BY <2>2, <3>1, <3>2, <3>3, Appended
  <2> QED
    BY <2>1, <2>2 DEF VerifiedByAnother, Apart
<1>3. ASSUME NEW t \in Tasks, Record(t) PROVE VerifiedByAnother'
  <2>1. v3'[t].history = <<>> /\ \A u \in Tasks : u # t => v3'[u] = v3[u]
    BY <1>3, Recorded
  <2> QED
    BY <2>1 DEF VerifiedByAnother
<1> QED
  BY <1>1, <1>2, <1>3, Writers

\* The evidence an advance was accepted on is of the stage before.
LEMMA NextFresh ==
    ASSUME TypeOK, HistoryIsPast, ChecksHold, ShownInStep, EvidenceIsFresh, [Next]_vars
    PROVE  EvidenceIsFresh'
<1>0. cut \subseteq cut'
  BY Writers
<1>1. CASE UNCHANGED <<v3, recorded>>
  BY <1>0, <1>1 DEF EvidenceIsFresh
<1>2. CASE Save
  <2> DEFINE t == op.task
             h == v3[t].history
  <2>1. \A u \in Tasks : u # t => v3'[u] = v3[u]
    BY <1>2, Saves
  <2>2. ASSUME NEW k \in DOMAIN v3'[t].history, t \notin cut
        PROVE  v3'[t].history[k].at = v3'[t].history[k].stage - 1
    <3>1. /\ t \in Tasks /\ v3[t].stage \in Nat
          /\ h \in Seq(Entries) /\ op.work \in Entries
          /\ v3'[t].history = Append(h, op.work)
          /\ op.work.at = v3[t].stage /\ op.work.stage = v3[t].stage + 1
      BY <1>2, <2>2, Saves
    <3>2. CASE k \in DOMAIN h /\ v3'[t].history[k] = h[k]
      BY <2>2, <3>1, <3>2 DEF EvidenceIsFresh
    <3>3. CASE v3'[t].history[k] = op.work
      BY <3>1, <3>3
    <3> QED
      BY <2>2, <3>1, <3>2, <3>3, Appended
  <2> QED
    BY <1>0, <2>1, <2>2 DEF EvidenceIsFresh
<1>3. ASSUME NEW t \in Tasks, Record(t) PROVE EvidenceIsFresh'
  <2>1. v3'[t].history = <<>> /\ \A u \in Tasks : u # t => v3'[u] = v3[u]
    BY <1>3, Recorded
  <2> QED
    BY <1>0, <2>1 DEF EvidenceIsFresh
<1> QED
  BY <1>1, <1>2, <1>3, Writers

(***************************************************************************)
(* What the checks of an advance find is still so when it saves: nobody    *)
(* else writes the document meanwhile.                                     *)
(***************************************************************************)
\* An advance that enters has a receipt of the task's stage.
LEMMA EntersChecked ==
    ASSUME TypeOK, HistoryIsPast, ReceiptsAreBound, Free,
           NEW r \in receipts, NEW by \in Runs, Advance(r, by)
    PROVE  LET t == r.task IN
           /\ v3[t].stage + 1 <= LastStage /\ r.stage = v3[t].stage + 1 /\ t \in recorded
           /\ v3[t].stage + 1 \in VerifierStages
                => v3[t].impl # NoRun /\ Apart(Verifier(r, by), v3[t].impl)
           /\ t \notin cut => r.at = v3[t].stage
           /\ v3[t].rev = entity[t]
<1> DEFINE t == r.task
<1>1. t \in Tasks /\ r.stage \in Stages
  BY AdvanceFields
<1>2. r.stage = v3[t].stage + 1 /\ v3[t].stage \in 0..LastStage
  BY <1>1 DEF Advance, TypeOK, Lifecycles
<1>3. v3[t].stage + 1 <= LastStage /\ t \in recorded
  BY <1>1, <1>2, RailAssumption DEF Stages, ReceiptsAreBound
<1>4. ASSUME v3[t].stage + 1 \in VerifierStages
      PROVE  v3[t].impl # NoRun /\ Apart(Verifier(r, by), v3[t].impl)
  <2>1. v3[t].stage > 1
    BY <1>2, <1>4, RailAssumption
  <2>2. v3[t].impl # NoRun
    BY <1>1, <2>1 DEF HistoryIsPast
  <2>3. Independent(t, r, by)
    BY <1>2, <1>4 DEF Advance
  <2> QED
    BY <2>2, <2>3 DEF Independent, Apart
<1>5. ASSUME t \notin cut PROVE r.at = v3[t].stage
  <2>1. r.life = board.life
    BY DEF Advance, Bound
  <2>2. ~Saved
    BY DEF Saved, Advancing
  <2> QED
    BY <1>5, <2>1, <2>2 DEF ReceiptsAreBound
<1>6. v3[t].rev = entity[t]
  BY DEF Advance
<1> QED
  BY <1>2, <1>3, <1>4, <1>5, <1>6

\* The checks hold from the time the request enters until it saves.
LEMMA NextChecks ==
    ASSUME TypeOK, HistoryIsPast, ChecksHold, ReceiptsAreBound, [Next]_vars
    PROVE  ChecksHold'
<1>0. cut \subseteq cut' /\ recorded \subseteq recorded'
  BY Writers
<1>a. ASSUME NEW t \in Tasks, Record(t) PROVE Free /\ Free'
  BY <1>a DEF Record, gate, Free
<1> SUFFICES ASSUME Advancing("mutate")' PROVE ChecksHold'
  BY DEF ChecksHold
<1>1. CASE UNCHANGED op /\ ~Save
  <2>1. v3' = v3
    BY <1>1, <1>a, Writers DEF Advancing
  <2>2. Advancing("mutate")
    BY <1>1 DEF Advancing, Free
  <2> QED
    BY <1>0, <1>1, <2>1, <2>2 DEF ChecksHold
<1>2. CASE Enters /\ ~Save
  <2>1. PICK r \in receipts, by \in Runs : Advance(r, by)
    BY <1>2 DEF Enters, Advancing, Writes
  <2>2. Free /\ v3' = v3
    BY <1>2, <1>a, Writers DEF Enters
  <2>3. /\ op'.task = r.task /\ op'.ent = entity[r.task]
        /\ op'.work.verifier = Verifier(r, by) /\ op'.work.at = r.at /\ op'.work.stage = r.stage
    <3>1. /\ op'.task = r.task /\ op'.ent = entity[r.task]
          /\ op'.work = [stage |-> r.stage, by |-> by, verifier |-> Verifier(r, by), at |-> r.at]
      BY <2>1, AdvanceFields
    <3> QED
      BY <3>1
  <2>4. /\ v3[r.task].stage + 1 <= LastStage /\ r.stage = v3[r.task].stage + 1
        /\ r.task \in recorded
        /\ v3[r.task].stage + 1 \in VerifierStages
             => v3[r.task].impl # NoRun /\ Apart(Verifier(r, by), v3[r.task].impl)
        /\ r.task \notin cut => r.at = v3[r.task].stage
        /\ v3[r.task].rev = entity[r.task]
    BY <2>1, <2>2, EntersChecked
  <2> QED
    BY <1>0, <2>2, <2>3, <2>4 DEF ChecksHold
<1>3. ASSUME NEW from, NEW to, Moves(from, to), to # "mutate" PROVE FALSE
  BY <1>3 DEF Moves, Advancing
<1>4. CASE Free'
  BY <1>4 DEF Advancing
<1> QED
  BY <1>1, <1>2, <1>3, <1>4, OpSteps DEF Abandons

(***************************************************************************)
(* Receipts.                                                               *)
(***************************************************************************)
\* Every step keeps the receipts bound to the stage they were submitted at.
LEMMA NextReceipts ==
    ASSUME TypeOK, TypeOK', HistoryIsPast, ChecksHold, ShownInStep, ReceiptsAreBound, [Next]_vars
    PROVE  ReceiptsAreBound'
<1> USE DEF Saved, Advancing
<1>0. cut \subseteq cut' /\ recorded \subseteq recorded'
  BY Writers
<1>1. board.life \in Nat /\ board'.life \in Nat /\ \A r \in receipts : r.life \in Nat
  BY DEF TypeOK, Rows, Receipts
<1>2. CASE ~Bump /\ ~Save /\ UNCHANGED receipts /\ UNCHANGED v3
  <2>1. board'.life = board.life /\ v3' = v3 /\ receipts' = receipts
    BY <1>2, Writers
  <2>2. ASSUME NEW r \in receipts, r.task \notin cut', r.life = board.life
        PROVE  r.at = v3[r.task].stage \/ (Saved /\ op.task = r.task)'
    <3>1. r.at = v3[r.task].stage \/ (Saved /\ op.task = r.task)
      BY <1>0, <2>2 DEF ReceiptsAreBound
    <3>2. ASSUME Saved, op.task = r.task PROVE (Saved /\ op.task = r.task)'
      <4>1. ~Abandons
        BY <2>2, <3>2 DEF Abandons
      <4>2. ~Enters /\ ~Free /\ op.at # "mutate"
        BY <3>2 DEF Enters
      <4>3. CASE UNCHANGED op
        BY <3>2, <4>3 DEF Free
      <4>4. CASE Moves("mirror", "swap") \/ Moves("swap", "bump")
        BY <3>2, <4>4 DEF Moves
      <4> QED
        BY <1>2, <4>1, <4>2, <4>3, <4>4, OpSteps DEF Moves
    <3> QED
      BY <3>1, <3>2
  <2> QED
    BY <1>0, <2>1, <2>2 DEF ReceiptsAreBound
<1>3. CASE Save /\ UNCHANGED receipts
  <2>1. board'.life = board.life /\ receipts' = receipts
    BY <1>3, Writers, OpSteps
  <2>2. Moves("mutate", "mirror") /\ op.kind = "advance"
    BY <1>3, OpSteps
  <2>3. ~Saved
    BY <2>2 DEF Moves
  <2>4. (Saved /\ op.task = op.task)' /\ op'.task = op.task
    BY <2>2 DEF Moves
  <2>5. \A u \in Tasks : u # op.task => v3'[u] = v3[u]
    BY <1>3, Saves
  <2>6. \A r \in receipts : r.task \in Tasks
    BY DEF TypeOK, Receipts
  <2> QED
    BY <1>0, <2>1, <2>3, <2>4, <2>5, <2>6 DEF ReceiptsAreBound
<1>4. CASE Bump /\ UNCHANGED receipts
  <2>1. v3' = v3 /\ receipts' = receipts
    BY <1>4, Writers, OpSteps DEF Record
  <2>2. ~Free /\ op.at = "bump"
    BY <1>4, OpSteps
  <2>3. board'.life = IF op.kind = "advance" THEN board.life + 1 ELSE board.life
    BY <1>4, BumpedRow
  <2>4. CASE op.kind = "advance"
    <3>1. \A r \in receipts : r.life < board'.life
      BY <1>1, <2>3, <2>4 DEF ReceiptsAreBound
    <3> QED
      BY <1>0, <1>1, <2>1, <3>1 DEF ReceiptsAreBound
  <2>5. CASE op.kind # "advance"
    BY <1>0, <2>1, <2>3, <2>5 DEF ReceiptsAreBound
  <2> QED
    BY <2>4, <2>5
<1>5. ASSUME NEW t \in Tasks, NEW k \in Stages, NEW v \in Runs \cup {NoRun}, Submit(t, k, v)
      PROVE  ReceiptsAreBound'
  <2>1. /\ receipts' = receipts \cup {Evidence(t, k, v)}
        /\ board' = board /\ v3' = v3 /\ op' = op /\ cut' = cut /\ Free /\ t \in recorded
    BY <1>5 DEF Submit
  <2>2. /\ Evidence(t, k, v).life = board.life /\ Evidence(t, k, v).task = t
        /\ Evidence(t, k, v).at = v3[t].stage
    BY DEF Evidence
  <2> QED
    BY <1>0, <1>1, <2>1, <2>2 DEF ReceiptsAreBound
<1>6. ASSUME NEW t \in Tasks, Record(t) PROVE ReceiptsAreBound'
  <2>1. /\ t \notin recorded /\ receipts' = receipts /\ op' = op /\ cut' = cut /\ board' = board
        /\ \A u \in Tasks : u # t => v3'[u] = v3[u]
    BY <1>6, Recorded DEF gate
  <2>2. \A r \in receipts : r.task \in Tasks
    BY DEF TypeOK, Receipts
  <2>3. Saved' = Saved
    BY <2>1 DEF Free
  <2> QED
    BY <1>0, <2>1, <2>2, <2>3 DEF ReceiptsAreBound
<1> QED
  BY <1>2, <1>3, <1>4, <1>5, <1>6, Writers, OpSteps

(***************************************************************************)
(* The stage that lists show.                                              *)
(***************************************************************************)
\* What was earned stays earned, and a save earns the stage it enters.
LEMMA EarnedStays ==
    ASSUME TypeOK, HistoryIsPast, ChecksHold, ShownInStep, [Next]_vars, NEW t \in Tasks
    PROVE  /\ \A k : EarnedIn(v3[t].history, k) => EarnedIn(v3'[t].history, k)
           /\ Save /\ t = op.task => EarnedIn(v3'[t].history, v3'[t].stage)
<1>1. CASE UNCHANGED <<v3, recorded>>
  <2>1. \A k : EarnedIn(v3[t].history, k) => EarnedIn(v3'[t].history, k)
    BY <1>1
  <2>2. ~Save
    <3>1. ASSUME Save PROVE FALSE
      <4>1. v3'[op.task].stage = v3[op.task].stage + 1 /\ v3[op.task].stage \in Nat
        BY <3>1, Saves
      <4> QED
        BY <1>1, <4>1
    <3> QED
      BY <3>1
  <2> QED
    BY <2>1, <2>2
<1>2. CASE Save /\ t = op.task
  <2> DEFINE h == v3[t].history
  <2>1. /\ h \in Seq(Entries) /\ op.work \in Entries
        /\ v3'[t].history = Append(h, op.work)
        /\ op.work.stage = v3'[t].stage
    BY <1>2, Saves
  <2>2. \A k \in DOMAIN h : k \in DOMAIN v3'[t].history /\ v3'[t].history[k] = h[k]
    BY <2>1, Appended
  <2>3. Len(h) + 1 \in DOMAIN v3'[t].history /\ v3'[t].history[Len(h) + 1] = op.work
    BY <2>1, Appended
  <2> QED
    BY <2>1, <2>2, <2>3 DEF EarnedIn
<1>3. CASE Save /\ t # op.task
  <2>1. v3'[t] = v3[t]
    BY <1>3, Saves
  <2> QED
    BY <1>3, <2>1 DEF EarnedIn
<1>4. ASSUME NEW u \in Tasks, Record(u)
      PROVE  \A k : EarnedIn(v3[t].history, k) => EarnedIn(v3'[t].history, k)
  <2>1. v3[u] = Unstarted /\ \A w \in Tasks : w # u => v3'[w] = v3[w]
    BY <1>4, Recorded
  <2>2. CASE t = u
    BY <2>1, <2>2 DEF EarnedIn, Unstarted
  <2>3. CASE t # u
    BY <2>1, <2>3 DEF EarnedIn
  <2> QED
    BY <2>2, <2>3
<1>5. ASSUME NEW u \in Tasks, Record(u) PROVE ~Save
  BY <1>5 DEF Record, Save, Move
<1> QED
  BY <1>1, <1>2, <1>3, <1>4, <1>5, Writers

\* The rows are exempt, or follow the document: what one row needs.
RowInStep(t) ==
    /\ t \in recorded /\ shown[t] = NoRow => t \in adrift
    /\ shown[t] # NoRow =>
          /\ shown[t] > (IF t \in adrift THEN 1 ELSE 0) => Earned(t, shown[t])
          /\ t \notin cut \cup adrift =>
                shown[t] = v3[t].stage \/ (Advancing("mirror") /\ op.task = t)

\* Only a save leaves the rows behind, and the mirror follows it.
LEMMA NextShown ==
    ASSUME TypeOK, HistoryIsPast, ChecksHold, ShownInStep, [Next]_vars
    PROVE  ShownInStep'
<1>0. /\ cut \subseteq cut'
      /\ \A t \in Tasks : shown[t] \in 0..LastStage \cup {NoRow} /\ v3[t].stage \in Nat
      /\ \A t \in Tasks : RowInStep(t)
  BY Writers DEF TypeOK, Lifecycles, ShownInStep, RowInStep
<1>a. NoRow \notin 0..LastStage /\ NoRow # 0 /\ NoRow # 1
  BY EntityAssumption, RailAssumption
<1>s. SUFFICES /\ \A t \in Tasks : RowInStep(t)'
               /\ MirrorEarned'
  BY DEF ShownInStep, RowInStep
<1>1. CASE Save
  <2>1. /\ \A u \in Tasks : u # op.task => v3'[u] = v3[u]
        /\ op.task \in recorded /\ recorded' = recorded /\ op.task \in Tasks
    BY <1>1, Saves
  <2>2. shown' = shown /\ adrift' = adrift
    BY <1>1, OpSteps, Writers DEF Save
  <2>3. Moves("mutate", "mirror") /\ op.kind = "advance"
    BY <1>1, OpSteps
  <2>4. ~Advancing("mirror") /\ Advancing("mirror")' /\ op'.task = op.task
    BY <2>3 DEF Moves, Advancing
  <2>5. EarnedIn(v3'[op.task].history, v3'[op.task].stage)
    BY <1>1, <2>1, EarnedStays
  <2>6. ASSUME NEW t \in Tasks PROVE RowInStep(t)'
    <3>1. Earned(t, shown[t]) => Earned(t, shown[t])'
      BY <2>2, EarnedStays DEF Earned, EarnedIn
    <3>2. CASE t = op.task
      BY <1>0, <2>1, <2>2, <2>4, <3>1, <3>2 DEF RowInStep
    <3>3. CASE t # op.task
      <4>1. v3'[t] = v3[t]
        BY <2>1, <3>3
      <4> QED
        BY <1>0, <2>1, <2>2, <2>4, <3>1, <3>3, <4>1 DEF RowInStep
    <3> QED
      BY <3>2, <3>3
  <2> QED
    BY <2>4, <2>5, <2>6 DEF Earned, EarnedIn, MirrorEarned
<1>2. CASE Mirror
  <2>1. /\ v3' = v3 /\ recorded' = recorded /\ op.task \in Tasks
        /\ Moves("mirror", "swap") /\ op.kind = "advance"
    BY <1>2, OpSteps, OpFields DEF Mirror, Moves
  <2>2. Advancing("mirror") /\ ~Advancing("mirror")'
    BY <2>1 DEF Moves, Advancing
  <2>3. EarnedIn(v3[op.task].history, v3[op.task].stage)
    BY <2>2 DEF ShownInStep, MirrorEarned, Earned, EarnedIn
  <2>4. ASSUME NEW t \in Tasks, t # op.task PROVE RowInStep(t)'
    <3>1. shown'[t] = shown[t] /\ (t \in adrift' <=> t \in adrift)
      BY <1>2, <2>1, <2>4 DEF Mirror, TypeOK
    <3> QED
      BY <1>0, <2>1, <2>4, <3>1 DEF RowInStep, Earned
  <2>5. CASE shown[op.task] = NoRow
    <3>1. shown' = shown /\ adrift' = adrift
      BY <1>2, <2>5 DEF Mirror
    <3>2. ASSUME NEW t \in Tasks, t = op.task PROVE RowInStep(t)'
      BY <1>0, <2>1, <2>5, <3>1, <3>2 DEF RowInStep
    <3> QED
      BY <2>2, <2>4, <3>2 DEF MirrorEarned
  <2>6. CASE shown[op.task] # NoRow
    <3>1. shown'[op.task] = v3[op.task].stage /\ v3[op.task].stage \in 0..LastStage
      BY <1>2, <2>1, <2>6 DEF Mirror, TypeOK, Lifecycles
    <3>2. op.task \notin adrift'
      BY <1>2, <2>6 DEF Mirror
    <3>3. ASSUME NEW t \in Tasks, t = op.task PROVE RowInStep(t)'
      BY <1>a, <2>1, <2>3, <3>1, <3>2, <3>3 DEF RowInStep, Earned, EarnedIn
    <3> QED
      BY <2>2, <2>4, <3>3 DEF MirrorEarned
  <2> QED
    BY <2>5, <2>6
<1>3. CASE Mutate
  <2>1. /\ v3' = v3 /\ recorded' = recorded /\ cut' = cut
        /\ Moves("mutate", "swap") /\ op.kind \in Writes
    <3>1. Moves("mutate", "swap") /\ op.kind \in Writes /\ ~Save
      <4>1. Moves("mutate", "swap") /\ op.kind \in Writes
        BY <1>3, MoveFields DEF Mutate, Moves, Move, RowDefined, RowDeleted, RowsSeeded, Writes
      <4>2. op.kind # "advance"
        BY <4>1 DEF Writes
      <4> QED
        BY <4>1, <4>2 DEF Save
    <3>2. \A t \in Tasks : ~Record(t)
      BY <3>1 DEF Record, Moves
    <3> QED
      BY <1>3, <3>1, <3>2, Writers DEF Mutate
  <2>2. ~Advancing("mirror") /\ ~Advancing("mirror")'
    BY <2>1 DEF Moves, Advancing
  <2>3. ASSUME NEW t \in Tasks, RowDefined PROVE RowInStep(t)'
    <3>1. /\ adrift' = adrift /\ op.kind = "define"
          /\ shown' = [shown EXCEPT ![op.task] = IF @ = NoRow THEN 0 ELSE @]
      BY <2>3 DEF RowDefined
    <3>2. CASE shown[t] # NoRow \/ t # op.task
      <4>1. shown'[t] = shown[t]
        BY <3>1, <3>2 DEF TypeOK
      <4> QED
        BY <1>0, <2>1, <2>2, <3>1, <4>1 DEF RowInStep, Earned
    <3>3. CASE shown[t] = NoRow /\ t = op.task
      <4>1. shown'[t] = 0
        BY <3>1, <3>3 DEF TypeOK
      <4>2. t \notin adrift => t \notin recorded
        BY <1>0, <3>3 DEF RowInStep
      <4>3. t \notin adrift => v3[t].stage = 0
        BY <4>2 DEF HistoryIsPast, Unstarted
      <4> QED
        BY <1>a, <2>1, <3>1, <4>1, <4>3 DEF RowInStep
    <3> QED
      BY <3>2, <3>3
  <2>4. ASSUME NEW t \in Tasks, RowDeleted PROVE RowInStep(t)'
    <3>1. /\ adrift' = adrift \cup {op.task}
          /\ shown' = [shown EXCEPT ![op.task] = NoRow]
      BY <2>4 DEF RowDeleted
    <3>2. CASE t # op.task
      <4>1. shown'[t] = shown[t] /\ (t \in adrift' <=> t \in adrift)
        BY <3>1, <3>2 DEF TypeOK
      <4> QED
        BY <1>0, <2>1, <2>2, <4>1 DEF RowInStep, Earned
    <3>3. CASE t = op.task
      <4>1. shown'[t] = NoRow /\ t \in adrift'
        BY <3>1, <3>3 DEF TypeOK
      <4> QED
        BY <4>1 DEF RowInStep
    <3> QED
      BY <3>2, <3>3
  <2>5. ASSUME NEW t \in Tasks, RowsSeeded PROVE RowInStep(t)'
    <3>1. /\ adrift' = adrift \cup {u \in Tasks : shown[u] = 0}
          /\ shown'[t] = IF shown[t] = 0 THEN 1 ELSE shown[t]
      BY <2>5 DEF RowsSeeded
    <3>2. CASE shown[t] = 0
      <4>1. shown'[t] = 1 /\ t \in adrift'
        BY <3>1, <3>2
      <4> QED
        BY <1>a, <4>1 DEF RowInStep
    <3>3. CASE shown[t] # 0
      <4>1. shown'[t] = shown[t] /\ (t \in adrift' <=> t \in adrift)
        BY <3>1, <3>3
      <4> QED
        BY <1>0, <2>1, <2>2, <4>1 DEF RowInStep, Earned
    <3> QED
      BY <3>2, <3>3
  <2> QED
    BY <1>3, <2>2, <2>3, <2>4, <2>5 DEF Mutate, MirrorEarned
<1>4. ASSUME NEW u \in Tasks, Record(u)
      PROVE  /\ \A t \in Tasks : RowInStep(t)'
             /\ MirrorEarned'
  <2>1. /\ recorded' = recorded \cup {u} /\ Free /\ op' = op /\ cut' = cut
        /\ shown' = shown /\ adrift' = adrift
        /\ v3'[u].stage = shown[u] /\ shown[u] \in {0, 1} /\ (u \notin adrift => shown[u] = 0)
        /\ \A w \in Tasks : w # u => v3'[w] = v3[w]
    BY <1>4, Recorded DEF gate
  <2>2. ~Advancing("mirror") /\ ~Advancing("mirror")'
    BY <2>1 DEF Advancing, Free
  <2>3. RowInStep(u)'
    <3>1. shown[u] > (IF u \in adrift THEN 1 ELSE 0) => FALSE
      BY <2>1
    <3> QED
      BY <1>a, <2>1, <3>1 DEF RowInStep
  <2>4. ASSUME NEW t \in Tasks, t # u PROVE RowInStep(t)'
    BY <1>0, <2>1, <2>2, <2>4 DEF RowInStep, Earned
  <2> QED
    BY <2>2, <2>3, <2>4 DEF MirrorEarned
<1>5. CASE UNCHANGED <<v3, recorded>> /\ ~Save /\ ~Mirror /\ ~Mutate
  <2>1. shown' = shown /\ adrift' = adrift
    BY <1>5, Writers
  <2>2. Advancing("mirror") =>
          \/ Advancing("mirror")' /\ op' = op
          \/ op.task \in cut' /\ ~Advancing("mirror")'
    <3>1. ASSUME Advancing("mirror"), Abandons PROVE op.task \in cut' /\ ~Advancing("mirror")'
      BY <3>1 DEF Abandons, Advancing
    <3>2. ASSUME Advancing("mirror"), ~Abandons PROVE Advancing("mirror")' /\ op' = op
      <4>1. op' = op
        BY <1>5, <3>2, OpSteps DEF Enters, Moves, Advancing
      <4> QED
        BY <3>2, <4>1 DEF Advancing, Free
    <3> QED
      BY <3>1, <3>2
  <2>3. ~Advancing("mirror") => ~Advancing("mirror")'
    <3>1. ASSUME Advancing("mirror")' PROVE op' = op
      BY <1>5, <3>1, OpSteps DEF Enters, Moves, Advancing, Abandons
    <3> QED
      BY <3>1 DEF Advancing, Free
  <2>4. ASSUME NEW t \in Tasks PROVE RowInStep(t)'
    BY <1>0, <1>5, <2>1, <2>2 DEF RowInStep, Earned
  <2>5. MirrorEarned'
    BY <1>5, <2>2, <2>3 DEF ShownInStep, MirrorEarned, Earned
  <2> QED
    BY <2>4, <2>5
<1> QED
  BY <1>1, <1>2, <1>3, <1>4, <1>5, Writers

(***************************************************************************)
(* The two places of a task's revision.                                    *)
(***************************************************************************)
\* init_lifecycle writes under an entity of its own.
LEMMA SeedsTheRail == TypeOK /\ ~Free /\ op.kind = "seed" => op.task \notin Tasks
BY EntityAssumption DEF TypeOK, Free, Ops, OpsOf

\* An advance moves both of them by one, the document first.
LEMMA NextRevisions ==
    ASSUME TypeOK, HistoryIsPast, ChecksHold, ShownInStep, RevisionsInStep, [Next]_vars
    PROVE  RevisionsInStep'
<1> USE DEF Advancing
<1>0. cut \subseteq cut' /\ redefined \subseteq redefined'
  BY Writers
<1>a. ASSUME NEW t \in Tasks, Record(t)
      PROVE  /\ Free /\ Free' /\ UNCHANGED op /\ UNCHANGED entity
             /\ \A u \in Tasks : v3'[u].rev = v3[u].rev
  <2>1. /\ v3[t].rev = 0 /\ v3'[t].rev = 0 /\ Free /\ UNCHANGED gate
        /\ \A u \in Tasks : u # t => v3'[u] = v3[u]
    BY <1>a, Recorded DEF Unstarted
  <2> QED
    BY <2>1 DEF gate, Free
<1>b. \/ \E t \in Tasks : Record(t)
      \/ Save
      \/ UNCHANGED v3
  BY Writers
<1>1. CASE UNCHANGED op /\ ~Save /\ ~Mirror /\ ~Swap /\ ~Bump
  <2>1. entity' = entity /\ op' = op /\ \A u \in Tasks : v3'[u].rev = v3[u].rev
    BY <1>1, <1>a, <1>b, Writers
  <2>2. ~Free /\ op.kind = "advance" => op.task \in Tasks
    BY OpFields
  <2> QED
    BY <1>0, <2>1, <2>2 DEF RevisionsInStep, Free
<1>2. CASE Enters /\ ~Save /\ ~Mirror /\ ~Swap /\ ~Bump
  <2>1. v3' = v3 /\ entity' = entity
    BY <1>2, <1>a, <1>b, Writers DEF Enters
  <2> QED
    BY <1>0, <1>2, <2>1 DEF RevisionsInStep, Enters
<1>3. CASE Mutate /\ Moves("mutate", "swap") /\ op.kind \in Writes /\ ~Save /\ ~Swap
  <2>1. v3' = v3 /\ entity' = entity
    BY <1>3, <1>a, <1>b, Writers DEF Moves
  <2>2. op.kind \in {"define", "delete"} => op.task \in redefined'
    BY <1>3 DEF Mutate, RowDefined, RowDeleted, RowsSeeded
  <2> QED
    BY <1>0, <1>3, <2>1, <2>2 DEF RevisionsInStep, Moves, Writes
<1>4. CASE Save /\ Moves("mutate", "mirror") /\ op.kind = "advance" /\ ~Swap
  <2>1. /\ \A u \in Tasks : u # op.task => v3'[u] = v3[u]
        /\ v3'[op.task].rev = op.ent + 1
    BY <1>4, Saves
  <2>2. entity' = entity
    BY <1>4, Writers
  <2> QED
    BY <1>0, <1>4, <2>1, <2>2 DEF RevisionsInStep, Moves
<1>5. CASE Mirror /\ Moves("mirror", "swap") /\ op.kind = "advance" /\ ~Save /\ ~Swap
  <2>1. v3' = v3 /\ entity' = entity
    BY <1>5, <1>a, <1>b, Writers DEF Moves
  <2> QED
    BY <1>0, <1>5, <2>1 DEF RevisionsInStep, Moves
<1>6. CASE Swap /\ Moves("swap", "bump") /\ ~Save
  <2>1. /\ v3' = v3 /\ op.task \in Entities /\ (op.kind = "advance" \/ op.kind \in Writes)
        /\ op.kind \in {"define", "delete"} \/ op.kind = "seed" \/ op.kind = "advance"
    BY <1>6, <1>a, <1>b, OpFields DEF Moves, Writes
  <2>2. /\ entity'[op.task] = op.ent + 1
        /\ \A u \in Tasks : u # op.task => entity'[u] = entity[u]
    BY <1>6, <2>1 DEF TypeOK, Swap, Swapped, Entities
  <2>3. CASE op.kind = "advance"
    BY <1>0, <1>6, <2>1, <2>2, <2>3 DEF RevisionsInStep, Moves
  <2>4. CASE op.kind \in {"define", "delete"}
    BY <1>0, <1>6, <2>1, <2>2, <2>4 DEF RevisionsInStep, Moves
  <2>5. CASE op.kind = "seed"
    <3>1. op.task \notin Tasks
      BY <1>6, <2>5, SeedsTheRail DEF Moves
    <3> QED
      BY <1>0, <1>6, <2>1, <2>2, <2>5, <3>1 DEF RevisionsInStep, Moves
  <2> QED
    BY <2>1, <2>3, <2>4, <2>5
<1>7. CASE (Bump \/ Abandons) /\ Free' /\ ~Save /\ ~Swap
  <2>1. v3' = v3 /\ entity' = entity
    BY <1>7, <1>a, <1>b, Writers DEF Abandons, Bump
  <2>2. Bump => op.at = "bump"
    BY DEF Bump
  <2>3. Abandons => op.task \in cut'
    BY DEF Abandons
  <2> QED
    BY <1>0, <1>7, <2>1, <2>2, <2>3 DEF RevisionsInStep
<1> QED
  BY <1>1, <1>2, <1>3, <1>4, <1>5, <1>6, <1>7, OpSteps DEF Abandons

(***************************************************************************)
(* The invariant and the theorems.                                         *)
(***************************************************************************)
\* The first state has the invariant.
LEMMA InitInv == Init => IInv
<1> SUFFICES ASSUME Init PROVE IInv
  OBVIOUS
<1>1. TypeOK
  BY InitType
<1>2. /\ op = NoOp /\ cut = {} /\ receipts = {}
      /\ recorded = {} /\ adrift = {}
      /\ \A t \in Tasks : v3[t] = Unstarted /\ shown[t] \in {NoRow, 0} /\ entity[t] = 0
  BY DEF Init, GateInit, Entities
<1>3. HistoryIsPast /\ EvidenceIsFresh /\ VerifiedByAnother
  BY <1>2 DEF HistoryIsPast, EvidenceIsFresh, VerifiedByAnother, Unstarted
<1>4. ChecksHold /\ ReceiptsAreBound
  BY <1>2 DEF ChecksHold, Advancing, Free, ReceiptsAreBound
<1>5. ShownInStep /\ RevisionsInStep
  BY <1>2, EntityAssumption DEF ShownInStep, MirrorEarned, RevisionsInStep, Advancing, Free, Unstarted
<1> QED
  BY <1>1, <1>3, <1>4, <1>5 DEF IInv

\* Every step keeps it.
LEMMA NextInv == IInv /\ [Next]_vars => IInv'
<1> SUFFICES ASSUME IInv, [Next]_vars PROVE IInv'
  OBVIOUS
<1>1. /\ TypeOK /\ HistoryIsPast /\ ChecksHold /\ VerifiedByAnother
      /\ EvidenceIsFresh /\ ReceiptsAreBound /\ ShownInStep /\ RevisionsInStep
  BY DEF IInv
<1>2. TypeOK'
  BY <1>1, NextType
<1>3. HistoryIsPast' /\ ChecksHold' /\ VerifiedByAnother' /\ EvidenceIsFresh'
  BY <1>1, NextHistory, NextChecks, NextVerified, NextFresh
<1>4. ReceiptsAreBound'
  BY <1>1, <1>2, NextReceipts
<1>5. ShownInStep' /\ RevisionsInStep'
  BY <1>1, NextShown, NextRevisions
<1> QED
  BY <1>2, <1>3, <1>4, <1>5 DEF IInv

\* The invariant holds of every behaviour.
LEMMA Invariant == Spec => []IInv
BY InitInv, NextInv, PTL DEF Spec

\* The rail's state keeps its types: in particular no advance goes past the
\* last stage.
THEOREM RailTypeCorrect == Spec => []TypeOK
<1>1. IInv => TypeOK
  BY DEF IInv
<1> QED
  BY <1>1, Invariant, PTL

\* Outside of tasks a write of which was cut, a stage is entered on evidence
\* submitted at the stage before, though nothing but revisions ties them.
THEOREM RailEvidenceIsFresh == Spec => []EvidenceIsFresh
<1>1. IInv => EvidenceIsFresh
  BY DEF IInv
<1> QED
  BY <1>1, Invariant, PTL

\* The implementer a task names and the verifiers of its stages never share an
\* agent or a thread, whatever is advanced later.
THEOREM RailVerifiedByAnother == Spec => []VerifiedByAnother
<1>1. IInv => VerifiedByAnother
  BY DEF IInv
<1> QED
  BY <1>1, Invariant, PTL

\* A row shows a stage that was earned on evidence, and the latest one; but for
\* rows deleted or seeded since, and advances cut or under way.
THEOREM RailShownIsEarned == Spec => []ShownIsEarned
<1>1. IInv => ShownIsEarned
  BY DEF IInv, ShownInStep, ShownIsEarned, Advancing
<1> QED
  BY <1>1, Invariant, PTL

\* The two copies of a task's revision agree whenever nobody writes, unless a
\* write was cut or the definition written.
THEOREM RailRevisionsAgree == Spec => []RevisionsAgree
<1>1. IInv => RevisionsAgree
  BY DEF IInv, RevisionsInStep, RevisionsAgree, Advancing
<1> QED
  BY <1>1, Invariant, PTL
=============================================================================
