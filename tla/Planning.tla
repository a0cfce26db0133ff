------------------------------ MODULE Planning ------------------------------
(***************************************************************************)
(* Dispatch plans and decisions of one board.  They are kept under two     *)
(* locks and meet in the board revision, whose bump a third one protects,  *)
(* so the two interleave at every statement.  Imports take none of them.   *)
(***************************************************************************)
EXTENDS DispatchPlan, DecisionInbox

vars == <<clock, planning, inbox>>

Init == ClockInit /\ PlanInit /\ InboxInit

InboxSteps ==
    \/ \E d \in Decisions, due \in 1..Never : Open(d, due)
    \/ \E d \in Decisions : Acknowledge(d)
    \/ \E d \in Decisions : Snooze(d)
    \/ \E d \in Decisions, s \in AnswerStates : Answer(d, s)
    \/ BumpForDecision
    \/ ReadForDecision
    \/ PutDecision
    \/ CutDecision
    \/ \E v \in Listers : List(v)
    \/ \E v \in Listers : \E e \in expiring[v] : Expire(v, e)

Next ==
    \/ PlanSteps /\ UNCHANGED inbox
    \/ InboxSteps /\ UNCHANGED planning
    \/ ClockSteps /\ UNCHANGED <<planning, inbox>>

Spec == Init /\ [][Next]_vars

\* The variables keep their types.
TypeOK == ClockTypeOK /\ PlanTypeOK /\ InboxTypeOK

Written ==
    {<<p, plan[p].at>> : p \in {p \in Plans : plan[p] # NoPlan}} \cup
    {<<d, decision[d].at>> : d \in {d \in Decisions : decision[d] # NoDecision}}

\* A board revision names one write, though plans and decisions are written
\* under different locks and an import may change the revision in the middle of
\* a bump: two records carry the same one only if an import took the board back
\* over it.
OwnRevision == \A a, b \in Written : a[2] = b[2] /\ a[2] \notin again => a = b

\* No two records carry the same revision.  Fails: applySnapshot stores a
\* revision computed from an earlier read.
OwnRevisionAlways == \A a, b \in Written : a[2] = b[2] => a = b
=============================================================================
