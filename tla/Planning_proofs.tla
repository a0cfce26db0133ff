--------------------------- MODULE Planning_proofs ---------------------------
(***************************************************************************)
(* The properties of Planning for any plans, texts, decisions, readers and *)
(* lists, however long the clock runs and whatever fails.                  *)
(***************************************************************************)
EXTENDS Planning, FiniteSetTheorems, TLAPS

(***************************************************************************)
(* The inductive invariant.                                                *)
(***************************************************************************)
AtMostOne == \A p, q \in Plans : IsActive(p) /\ IsActive(q) => p = q

\* What the publisher found when it looked is still so: nobody else activates.
NoRival ==
    /\ OnStep("retire") => \A q \in Plans \ {publish.plan, publish.old.plan} : ~IsActive(q)
    /\ OnStep("bump") \/ OnStep("read") \/ OnStep("put") => \A q \in Plans \ {publish.plan} : ~IsActive(q)

\* A reader only writes back a plan whose date has passed.
CopiesAreDue == \A v \in Readers : copy[v] # NoCopy => Due(copy[v].row)

\* Who works under the decision lock found a decision that was never answered,
\* and one that was is not pending again.
Settled ==
    /\ \A d \in Decisions :
          answers[d] > 0 => decision[d] # NoDecision /\ ~IsPending(decision[d])
    /\ deed # NoDeed => answers[deed.id] = 0
    /\ \A v \in Listers : \A e \in expiring[v] : ~IsPending(e.row)

\* Who carries which board revision: rows, and the rows writers are about to
\* write.
PlanTags ==
    {<<p, plan[p].at>> : p \in {p \in Plans : plan[p] # NoPlan}}
        \cup {<<copy[v].plan, copy[v].row.at>> : v \in {v \in Readers : copy[v] # NoCopy}}
        \cup (IF OnStep("put") THEN {<<publish.plan, publish.row.at>>} ELSE {})
        \cup (IF OnStep("retire") THEN {<<publish.old.plan, publish.old.row.at>>} ELSE {})

Expiries == UNION {expiring[v] : v \in Listers}

DecisionTags ==
    {<<d, decision[d].at>> : d \in {d \in Decisions : decision[d] # NoDecision}}
        \cup {<<e.id, e.row.at>> : e \in Expiries}
        \cup (IF Step("put") THEN {<<deed.id, deed.row.at>>} ELSE {})

Tags == PlanTags \cup DecisionTags

\* Who is about to read the revision back holds the lock of the bump.
BumpIsHeld ==
    /\ OnStep("read") \/ Step("read") => bumping
    /\ ~(OnStep("read") /\ Step("read"))

\* The revisions in use were issued, and the one a bump made is not in use yet,
\* save those an import made the board go through again.
IssuedUnder(tags, r, free, low) ==
    \A a \in tags : /\ a[2] \in Nat
                    /\ a[2] \notin low => a[2] <= r /\ (~free => a[2] < r)

TagsAreIssued == IssuedUnder(Tags, rev, ~bumping, again)

Differ(tags, low) == \A a, b \in tags : a[2] = b[2] /\ a[2] \notin low => a = b

TagsDiffer == Differ(Tags, again)

IInv ==
    /\ TypeOK
    /\ AtMostOne /\ NoRival /\ CopiesAreDue /\ LatestStands
    /\ AnsweredOnce /\ Settled
    /\ BumpIsHeld /\ TagsAreIssued /\ TagsDiffer

(***************************************************************************)
(* Type correctness.                                                       *)
(***************************************************************************)
LEMMA TimesAreNat == Never \in Nat /\ Times \subseteq Nat /\ 1..Never \subseteq Nat
BY ClockAssumption DEF Never, Times

LEMMA InitTypeOK == Init => TypeOK
<1> SUFFICES ASSUME Init PROVE TypeOK
  OBVIOUS
<1>1. ClockTypeOK
  <2>1. pending \in [Imports -> (Nat \ {0}) \cup {Idle, Applied}]
    BY DEF Init, ClockInit
  <2>2. bumping \in BOOLEAN /\ (bumping => rev # 0)
    BY Zenon DEF Init, ClockInit
  <2>3. rev \in Nat /\ now \in Times /\ left \in 0..MaxCalls /\ troubles \in 0..MaxTroubles
    BY ClockAssumption DEF Init, ClockInit, Times
  <2>4. QED
    BY <2>1, <2>2, <2>3 DEF Init, ClockInit, ClockTypeOK
<1>2. PlanTypeOK
  BY DEF Init, PlanInit, PlanTypeOK
<1>3. InboxTypeOK
  BY DEF Init, InboxInit, InboxTypeOK
<1>4. QED
  BY <1>1, <1>2, <1>3 DEF TypeOK

\* Rows are rewritten into rows.
LEMMA RowsMade ==
    /\ \A row \in PlanRow : /\ Retired(row) \in PlanRow
                            /\ Retired(row).status = "SUPERSEDED" /\ Retired(row).at = row.at
    /\ \A row \in DecisionRow : /\ Expired(row) \in DecisionRow
                                /\ Expired(row).status = "EXPIRED" /\ Expired(row).at = row.at
<1>1. ASSUME NEW row \in PlanRow
      PROVE  /\ Retired(row) \in PlanRow
             /\ Retired(row).status = "SUPERSEDED" /\ Retired(row).at = row.at
  <2>1. row.rev + 1 \in Nat \ {0}
    BY DEF PlanRow
  <2>2. QED
    BY <2>1 DEF Retired, PlanRow
<1>2. ASSUME NEW row \in DecisionRow
      PROVE  /\ Expired(row) \in DecisionRow
             /\ Expired(row).status = "EXPIRED" /\ Expired(row).at = row.at
  <2>1. row.rev + 1 \in Nat \ {0}
    BY DEF DecisionRow
  <2>2. QED
    BY <2>1 DEF Expired, DecisionRow
<1>3. QED
  BY <1>1, <1>2

\* What the publisher holds, by step.
LEMMA PublisherShape ==
    ASSUME TypeOK
    PROVE  /\ OnStep("look") \/ OnStep("bump") \/ OnStep("read") \/ OnStep("put") =>
                 publish \in [plan : Plans, step : {"look", "bump", "read", "put"}, row : PlanRow]
           /\ OnStep("retire") =>
                 publish \in [plan : Plans, step : {"retire"}, row : PlanRow, old : Copies]
BY DEF TypeOK, PlanTypeOK, OnStep, Jobs

\* A publication that goes on holds a job.
LEMMA PublisherGoesOn ==
    ASSUME TypeOK, BumpIsHeld, Look \/ Retire \/ BumpForPlan \/ ReadForPlan
    PROVE  publish' \in Jobs
<1>1. ASSUME Look
      PROVE  publish' \in Jobs
  <2>1. publish \in [plan : Plans, step : {"look", "bump", "read", "put"}, row : PlanRow]
    BY <1>1, PublisherShape DEF Look
  <2>2. publish' = [publish EXCEPT !.step = "bump"] => publish' \in Jobs
    BY <2>1 DEF Jobs
  <2>3. ASSUME NEW q \in Others,
               publish' = [plan |-> publish.plan, row |-> publish.row, step |-> "retire",
                           old |-> [plan |-> q, row |-> plan[q]]]
        PROVE  publish' \in Jobs
    <3>1. [plan |-> q, row |-> plan[q]] \in Copies
      BY <2>3 DEF Others, IsActive, Copies, TypeOK, PlanTypeOK
    <3>2. QED
      BY <2>1, <2>3, <3>1 DEF Jobs
  <2>4. QED
    BY <1>1, <2>2, <2>3 DEF Look
<1>2. ASSUME Retire
      PROVE  publish' \in Jobs
  BY <1>2, PublisherShape DEF Retire, Jobs
<1>3. ASSUME BumpForPlan
      PROVE  publish' \in Jobs
  <2>1. publish \in [plan : Plans, step : {"look", "bump", "read", "put"}, row : PlanRow]
    BY <1>3, PublisherShape DEF BumpForPlan
  <2>2. QED
    BY <1>3, <2>1 DEF BumpForPlan, Jobs
<1>4. ASSUME ReadForPlan
      PROVE  publish' \in Jobs
  <2>1. publish \in [plan : Plans, step : {"look", "bump", "read", "put"}, row : PlanRow]
    BY <1>4, PublisherShape DEF ReadForPlan
  <2>2. [publish.row EXCEPT !.at = rev] \in PlanRow
    <3>1. rev \in Nat \ {0}
      BY <1>4 DEF ReadForPlan, BumpIsHeld, TypeOK, ClockTypeOK
    <3>2. QED
      BY <2>1, <3>1 DEF PlanRow
  <2>3. QED
    BY <1>4, <2>1, <2>2 DEF ReadForPlan, Jobs
<1>5. QED
  BY <1>1, <1>2, <1>3, <1>4

\* What requests do to the board leaves it a board.
LEMMA BoardKept ==
    ASSUME TypeOK, \/ UNCHANGED board \/ Raise \/ ReadBack
                   \/ \E inBump \in BOOLEAN : Release(inBump)
    PROVE  /\ rev' \in Nat
           /\ bumping' \in BOOLEAN /\ (bumping' => rev' # 0)
           /\ pending' \in [Imports -> (Nat \ {0}) \cup {Idle, Applied}]
           /\ again' \subseteq Nat
<1> USE DEF TypeOK, ClockTypeOK
<1>1. CASE UNCHANGED board
  BY <1>1 DEF board
<1>2. CASE Raise
  BY <1>2 DEF Raise, Raised
<1>3. CASE ReadBack
  BY <1>3 DEF ReadBack
<1>4. CASE \E inBump \in BOOLEAN : Release(inBump)
  BY <1>4 DEF Release
<1>5. QED
  BY <1>1, <1>2, <1>3, <1>4

\* Every action of the plans keeps the types.
LEMMA PlanStepsType ==
    ASSUME TypeOK, BumpIsHeld, PlanSteps, UNCHANGED inbox
    PROVE  TypeOK'
<1> USE DEF TypeOK, ClockTypeOK, PlanTypeOK, board
<1>1. InboxTypeOK'
  BY DEF InboxTypeOK, inbox
<1>2. ASSUME NEW p \in Plans, NEW x \in Texts, NEW due \in 1..Never, Publish(p, x, due)
      PROVE  TypeOK'
  <2>1. NextRev(p) \in Nat \ {0}
    BY DEF NextRev, PlanRow
  <2>2. publish' \in Jobs
    BY <1>2, <2>1 DEF Publish, Jobs, PlanRow
  <2>3. left' \in 0..MaxCalls
    BY <1>2, ClockAssumption DEF Publish, Spend
  <2>4. QED
    BY <1>1, <1>2, <2>2, <2>3 DEF Publish
<1>3. ASSUME Look
      PROVE  TypeOK'
  <2>1. publish' \in Jobs
    BY <1>3, PublisherGoesOn
  <2>2. QED
    BY <1>1, <1>3, <2>1 DEF Look, clock
<1>4. ASSUME Retire
      PROVE  TypeOK'
  <2>1. publish.old \in Copies
    BY <1>4 DEF Retire, OnStep, Jobs
  <2>2. Retired(publish.old.row) \in PlanRow /\ publish.old.plan \in Plans
    BY <2>1, RowsMade DEF Copies
  <2>3. publish' \in Jobs
    BY <1>4, PublisherGoesOn
  <2>4. QED
    BY <1>1, <1>4, <2>2, <2>3 DEF Retire, clock
<1>5. ASSUME BumpForPlan \/ ReadForPlan
      PROVE  TypeOK'
  <2>1. publish' \in Jobs
    BY <1>5, PublisherGoesOn
  <2>2. QED
    BY <1>1, <1>5, <2>1, BoardKept DEF BumpForPlan, ReadForPlan
<1>6. ASSUME Put
      PROVE  TypeOK'
  <2>1. publish.plan \in Plans /\ publish.row \in PlanRow
    BY <1>6 DEF Put, OnStep, Jobs
  <2>2. latest' \in Copies
    BY <1>6, <2>1 DEF Put, Copies
  <2>3. QED
    BY <1>1, <1>6, <2>1, <2>2 DEF Put, PutRow, clock
<1>7. ASSUME Cut
      PROVE  TypeOK'
  <2>1. OnStep("read") \in BOOLEAN
    BY DEF OnStep
  <2>2. troubles' \in 0..MaxTroubles
    BY <1>7, ClockAssumption DEF Cut, Fail
  <2>3. QED
    BY <1>1, <1>7, <2>1, <2>2, BoardKept DEF Cut
<1>8. ASSUME NEW v \in Readers, NEW p \in Plans, Select(v, p)
      PROVE  TypeOK'
  <2>1. [plan |-> p, row |-> plan[p]] \in Copies
    BY <1>8 DEF Select, IsActive, Copies
  <2>2. QED
    BY <1>1, <1>8, <2>1, ClockAssumption DEF Select, Spend
<1>9. ASSUME NEW v \in Readers, WriteBack(v)
      PROVE  TypeOK'
  <2>1. copy[v].plan \in Plans /\ [copy[v].row EXCEPT !.status = "EXPIRED"] \in PlanRow
    BY <1>9 DEF WriteBack, Copies, PlanRow
  <2>2. gap' \in BOOLEAN
    BY <1>9 DEF WriteBack
  <2>3. QED
    BY <1>1, <1>9, <2>1, <2>2 DEF WriteBack, clock
<1>10. QED
  BY <1>2, <1>3, <1>4, <1>5, <1>6, <1>7, <1>8, <1>9 DEF PlanSteps

\* Every action of the inbox keeps the types.
LEMMA InboxStepsType ==
    ASSUME TypeOK, InboxSteps, UNCHANGED planning
    PROVE  TypeOK'
<1> USE DEF TypeOK, ClockTypeOK, InboxTypeOK, board
<1>1. PlanTypeOK'
  BY DEF PlanTypeOK, planning
<1>2. ASSUME NEW d \in Decisions, NEW due \in 1..Never, Open(d, due)
      PROVE  TypeOK'
  <2>1. deed' \in Deeds
    BY <1>2 DEF Open, Deeds, DecisionRow, PendingStates
  <2>2. left' \in 0..MaxCalls
    BY <1>2, ClockAssumption DEF Open, Spend
  <2>3. QED
    BY <1>1, <1>2, <2>1, <2>2 DEF Open
<1>3. ASSUME NEW d \in Decisions, NEW change \in DecisionRow, Mutate(d, change)
      PROVE  TypeOK'
  <2>1. decision[d] \in DecisionRow
    BY <1>3 DEF Mutate
  <2>2. [change EXCEPT !.rev = decision[d].rev + 1] \in DecisionRow
    BY <2>1 DEF DecisionRow
  <2>3. deed' \in Deeds
    BY <1>3, <2>2 DEF Mutate, Deeds
  <2>4. left' \in 0..MaxCalls
    BY <1>3, ClockAssumption DEF Mutate, Spend
  <2>5. QED
    BY <1>1, <1>3, <2>3, <2>4 DEF Mutate
<1>4. ASSUME NEW d \in Decisions, Acknowledge(d) \/ Snooze(d) \/ \E s \in AnswerStates : Answer(d, s)
      PROVE  TypeOK'
  <2>1. decision[d] \in DecisionRow
    BY <1>4 DEF Acknowledge, Snooze, Answer
  <2>2. [decision[d] EXCEPT !.status = "ACKNOWLEDGED"] \in DecisionRow
    BY <2>1 DEF DecisionRow, PendingStates
  <2>3. [decision[d] EXCEPT !.snoozed = TRUE] \in DecisionRow
    BY <2>1 DEF DecisionRow
  <2>4. \A s \in AnswerStates : [decision[d] EXCEPT !.status = s, !.snoozed = FALSE] \in DecisionRow
    BY <2>1 DEF DecisionRow
  <2>5. QED
    BY <1>3, <1>4, <2>2, <2>3, <2>4 DEF Acknowledge, Snooze, Answer
<1>5. ASSUME BumpForDecision
      PROVE  TypeOK'
  <2>1. deed' \in Deeds
    BY <1>5 DEF BumpForDecision, Step, Deeds
  <2>2. QED
    BY <1>1, <1>5, <2>1, BoardKept DEF BumpForDecision
<1>10. ASSUME ReadForDecision
       PROVE  TypeOK'
  <2>1. deed' \in Deeds
    BY <1>10 DEF ReadForDecision, Step, Deeds, DecisionRow
  <2>2. QED
    BY <1>1, <1>10, <2>1, BoardKept DEF ReadForDecision
<1>6. ASSUME PutDecision
      PROVE  TypeOK'
  <2>1. deed.id \in Decisions /\ deed.row \in DecisionRow
    BY <1>6 DEF PutDecision, Step, Deeds
  <2>2. answers' \in [Decisions -> Nat]
    BY <1>6, <2>1 DEF PutDecision
  <2>3. decision' \in [Decisions -> DecisionRow \cup {NoDecision}]
    BY <1>6, <2>1 DEF PutDecision
  <2>4. QED
    BY <1>1, <1>6, <2>2, <2>3 DEF PutDecision, clock
<1>7. ASSUME CutDecision
      PROVE  TypeOK'
  <2>1. Step("read") \in BOOLEAN
    BY DEF Step
  <2>2. troubles' \in 0..MaxTroubles
    BY <1>7, ClockAssumption DEF CutDecision, Fail
  <2>3. QED
    BY <1>1, <1>7, <2>1, <2>2, BoardKept DEF CutDecision
<1>8. ASSUME NEW v \in Listers, List(v)
      PROVE  TypeOK'
  <2>1. \A d \in Listed : d \in Decisions /\ decision[d] \in DecisionRow
    BY DEF Listed
  <2>2. {[id |-> d, row |-> Expired(decision[d])] : d \in Listed}
            \in SUBSET [id : Decisions, row : DecisionRow]
    BY <2>1, RowsMade
  <2>3. expiring' \in [Listers -> SUBSET [id : Decisions, row : DecisionRow]]
    BY <1>8, <2>2 DEF List
  <2>4. left' \in 0..MaxCalls
    BY <1>8, ClockAssumption DEF List, Spend
  <2>5. QED
    BY <1>1, <1>8, <2>3, <2>4 DEF List
<1>9. ASSUME NEW v \in Listers, NEW e \in expiring[v], Expire(v, e)
      PROVE  TypeOK'
  <2>1. e \in [id : Decisions, row : DecisionRow]
    OBVIOUS
  <2>2. decision' \in [Decisions -> DecisionRow \cup {NoDecision}]
    BY <1>9, <2>1 DEF Expire
  <2>3. expiring' \in [Listers -> SUBSET [id : Decisions, row : DecisionRow]]
    BY <1>9 DEF Expire
  <2>4. QED
    BY <1>1, <1>9, <2>2, <2>3 DEF Expire, clock
<1>11. QED
  BY <1>2, <1>4, <1>5, <1>6, <1>7, <1>8, <1>9, <1>10 DEF InboxSteps

LEMMA StepTypeOK ==
    ASSUME TypeOK, BumpIsHeld, [Next]_vars
    PROVE  TypeOK'
<1>1. ASSUME ClockSteps, UNCHANGED <<planning, inbox>>
      PROVE  TypeOK'
  <2>1. ClockTypeOK'
    <3> USE DEF TypeOK, ClockTypeOK
    <3>1. CASE Tick
      BY <3>1, ClockAssumption DEF Tick, Times, board
    <3>2. ASSUME NEW i \in Imports, ImportRead(i), UNCHANGED <<now, left, troubles>>
          PROVE  ClockTypeOK'
      <4>1. rev + 1 \in Nat \ {0}
        OBVIOUS
      <4>2. QED
        BY <3>2, <4>1 DEF ImportRead
    <3>3. ASSUME NEW i \in Imports, ImportApply(i), UNCHANGED <<now, left, troubles>>
          PROVE  ClockTypeOK'
      <4>1. pending[i] \in Nat \ {0}
        BY <3>3 DEF ImportApply
      <4>2. pending[i]..rev \subseteq Nat
        BY <4>1
      <4>3. again' \subseteq Nat
        BY <3>3, <4>2 DEF ImportApply
      <4>4. QED
        BY <3>3, <4>1, <4>3 DEF ImportApply
    <3>4. QED
      BY <1>1, <3>1, <3>2, <3>3 DEF ClockSteps
  <2>2. PlanTypeOK' /\ InboxTypeOK'
    BY <1>1 DEF TypeOK, PlanTypeOK, InboxTypeOK, planning, inbox
  <2>3. QED
    BY <2>1, <2>2 DEF TypeOK
<1>2. ASSUME UNCHANGED vars
      PROVE  TypeOK'
  BY <1>2 DEF vars, clock, board, planning, inbox, TypeOK, ClockTypeOK, PlanTypeOK, InboxTypeOK
<1>3. QED
  BY <1>1, <1>2, PlanStepsType, InboxStepsType DEF Next

(***************************************************************************)
(* The plans: who is active, and whether the latest stands.                *)
(***************************************************************************)
LEMMA StepActive ==
    ASSUME TypeOK, AtMostOne, NoRival, [Next]_vars
    PROVE  AtMostOne' /\ NoRival'
<1> USE DEF AtMostOne, NoRival, IsActive, OnStep
<1>1. ASSUME NEW p \in Plans, NEW x \in Texts, NEW due \in 1..Never, Publish(p, x, due)
      PROVE  AtMostOne' /\ NoRival'
  BY <1>1 DEF Publish
<1>2. ASSUME Look
      PROVE  AtMostOne' /\ NoRival'
  <2>1. publish \in [plan : Plans, step : {"look", "bump", "read", "put"}, row : PlanRow]
    BY <1>2, PublisherShape DEF Look
  <2>2. CASE Others = {} /\ publish' = [publish EXCEPT !.step = "bump"]
    <3>1. publish'.plan = publish.plan /\ publish'.step = "bump"
      BY <2>1, <2>2
    <3>2. QED
      BY <1>2, <2>2, <3>1 DEF Look, Others
  <2>3. ASSUME NEW q \in Others,
               publish' = [plan |-> publish.plan, row |-> publish.row, step |-> "retire",
                           old |-> [plan |-> q, row |-> plan[q]]]
        PROVE  AtMostOne' /\ NoRival'
    BY <1>2, <2>3 DEF Look, Others
  <2>4. QED
    BY <1>2, <2>2, <2>3 DEF Look
<1>3. ASSUME Retire
      PROVE  AtMostOne' /\ NoRival'
  <2>1. publish \in [plan : Plans, step : {"retire"}, row : PlanRow, old : Copies]
    BY <1>3, PublisherShape DEF Retire
  <2>2. publish.old.plan \in Plans /\ publish.old.row \in PlanRow
    BY <2>1 DEF Copies
  <2>3. /\ plan'[publish.old.plan].status = "SUPERSEDED"
        /\ \A q \in Plans \ {publish.old.plan} : plan'[q] = plan[q]
    BY <1>3, <2>2, RowsMade DEF Retire, TypeOK, PlanTypeOK
  <2>4. publish'.plan = publish.plan /\ publish'.step = "bump"
    BY <1>3 DEF Retire
  <2>5. QED
    BY <1>3, <2>3, <2>4 DEF Retire
<1>4. ASSUME BumpForPlan
      PROVE  AtMostOne' /\ NoRival'
  <2>1. publish \in [plan : Plans, step : {"look", "bump", "read", "put"}, row : PlanRow]
    BY <1>4, PublisherShape DEF BumpForPlan
  <2>2. publish'.plan = publish.plan /\ publish'.step = "read"
    BY <1>4, <2>1 DEF BumpForPlan
  <2>3. QED
    BY <1>4, <2>2 DEF BumpForPlan
<1>11. ASSUME ReadForPlan
       PROVE  AtMostOne' /\ NoRival'
  <2>1. publish \in [plan : Plans, step : {"look", "bump", "read", "put"}, row : PlanRow]
    BY <1>11, PublisherShape DEF ReadForPlan
  <2>2. publish'.plan = publish.plan /\ publish'.step = "put"
    BY <1>11, <2>1 DEF ReadForPlan
  <2>3. QED
    BY <1>11, <2>2 DEF ReadForPlan
<1>5. ASSUME Put
      PROVE  AtMostOne' /\ NoRival'
  BY <1>5 DEF Put, TypeOK, PlanTypeOK
<1>6. ASSUME Cut
      PROVE  AtMostOne' /\ NoRival'
  BY <1>6 DEF Cut
<1>7. ASSUME NEW v \in Readers, NEW p \in Plans, Select(v, p)
      PROVE  AtMostOne' /\ NoRival'
  BY <1>7 DEF Select
<1>8. ASSUME NEW v \in Readers, WriteBack(v)
      PROVE  AtMostOne' /\ NoRival'
  <2>1. copy[v] \in Copies
    BY <1>8 DEF WriteBack, TypeOK, PlanTypeOK
  <2>2. copy[v].plan \in Plans /\ [copy[v].row EXCEPT !.status = "EXPIRED"].status = "EXPIRED"
    BY <2>1 DEF Copies, PlanRow
  <2>3. /\ plan'[copy[v].plan].status = "EXPIRED"
        /\ \A q \in Plans \ {copy[v].plan} : plan'[q] = plan[q]
    BY <1>8, <2>2 DEF WriteBack, TypeOK, PlanTypeOK
  <2>4. QED
    BY <1>8, <2>2, <2>3 DEF WriteBack
<1>9. ASSUME UNCHANGED planning
      PROVE  AtMostOne' /\ NoRival'
  BY <1>9 DEF planning
<1>12. QED
  BY <1>1, <1>2, <1>3, <1>4, <1>5, <1>6, <1>7, <1>8, <1>9, <1>11 DEF Next, PlanSteps, vars

LEMMA ClockAdvances ==
    ASSUME TypeOK, [Next]_vars
    PROVE  now \in Nat /\ (now' = now \/ now' = now + 1)
<1>1. now \in Nat
  BY ClockAssumption DEF TypeOK, ClockTypeOK, Times
<1>2. PlanSteps => now' = now
  BY DEF PlanSteps, clock, Publish, Look, Retire, BumpForPlan, ReadForPlan, Put, Cut, Select,
         WriteBack
<1>3. InboxSteps => now' = now
  BY DEF InboxSteps, clock, Open, Mutate, Acknowledge, Snooze, Answer,
         BumpForDecision, ReadForDecision, PutDecision, CutDecision, List, Expire
<1>4. ClockSteps \/ UNCHANGED vars => now' = now \/ now' = now + 1
  BY DEF ClockSteps, Tick, vars, clock
<1>5. QED
  BY <1>1, <1>2, <1>3, <1>4 DEF Next

LEMMA StepStands ==
    ASSUME TypeOK, CopiesAreDue, LatestStands, [Next]_vars
    PROVE  CopiesAreDue' /\ LatestStands'
<1> USE DEF Due
<1>1. now \in Nat /\ (now' = now \/ now' = now + 1)
  BY ClockAdvances
<1>2. \A v \in Readers : copy[v] # NoCopy => copy[v] \in Copies /\ copy[v].row.due \in Nat
  BY TimesAreNat DEF TypeOK, PlanTypeOK, Copies, PlanRow
<1>3. latest # NoPlan =>
          latest \in Copies /\ latest.plan \in Plans /\ latest.row \in PlanRow /\ latest.row.due \in Nat
  BY TimesAreNat DEF TypeOK, PlanTypeOK, Copies, PlanRow
<1>4. ASSUME UNCHANGED copy
      PROVE  CopiesAreDue'
  BY <1>1, <1>2, <1>4 DEF CopiesAreDue
<1>5. ASSUME UNCHANGED <<plan, latest, gap>>
      PROVE  LatestStands'
  BY <1>1, <1>3, <1>5 DEF LatestStands
<1>6. ASSUME NEW p \in Plans, NEW x \in Texts, NEW due \in 1..Never, Publish(p, x, due)
      PROVE  CopiesAreDue' /\ LatestStands'
  <2>1. CopiesAreDue'
    BY <1>4, <1>6 DEF Publish
  <2>2. LatestStands'
    BY <1>5, <1>6 DEF Publish
  <2>3. QED
    BY <2>1, <2>2
<1>7. ASSUME Look \/ Retire \/ BumpForPlan \/ ReadForPlan
      PROVE  CopiesAreDue' /\ LatestStands'
  <2>1. CASE Retire
    BY <1>4, <2>1 DEF Retire, LatestStands
  <2>2. CASE ~Retire
    BY <1>4, <1>5, <1>7, <2>2 DEF Look, BumpForPlan, ReadForPlan
  <2>3. QED
    BY <2>1, <2>2
<1>8. ASSUME Put
      PROVE  CopiesAreDue' /\ LatestStands'
  <2>1. publish \in [plan : Plans, step : {"look", "bump", "read", "put"}, row : PlanRow]
    BY <1>8, PublisherShape DEF Put
  <2>2. plan'[publish.plan] = publish.row
    BY <1>8, <2>1 DEF Put, PutRow, TypeOK, PlanTypeOK
  <2>3. LatestStands'
    BY <1>8, <2>2 DEF Put, LatestStands
  <2>4. QED
    BY <1>4, <1>8, <2>3 DEF Put
<1>9. ASSUME Cut
      PROVE  CopiesAreDue' /\ LatestStands'
  BY <1>4, <1>5, <1>9 DEF Cut
<1>10. ASSUME NEW v \in Readers, NEW p \in Plans, Select(v, p)
       PROVE  CopiesAreDue' /\ LatestStands'
  <2>1. CopiesAreDue'
    BY <1>1, <1>2, <1>10 DEF Select, CopiesAreDue, TypeOK, PlanTypeOK
  <2>2. QED
    BY <1>5, <1>10, <2>1 DEF Select
<1>11. ASSUME NEW v \in Readers, WriteBack(v)
       PROVE  CopiesAreDue' /\ LatestStands'
  <2>1. CopiesAreDue'
    BY <1>1, <1>2, <1>11 DEF WriteBack, CopiesAreDue, TypeOK, PlanTypeOK, clock
  <2>2. copy[v] \in Copies /\ copy[v].plan \in Plans /\ Due(copy[v].row)
    BY <1>2, <1>11 DEF WriteBack, CopiesAreDue, Copies
  <2>3. /\ plan'[copy[v].plan] = [copy[v].row EXCEPT !.status = "EXPIRED"]
        /\ \A q \in Plans \ {copy[v].plan} : plan'[q] = plan[q]
    BY <1>11, <2>2 DEF WriteBack, TypeOK, PlanTypeOK
  <2>4. LatestStands'
    <3>1. CASE latest # NoPlan /\ copy[v].plan = latest.plan
      BY <1>11, <2>2, <2>3, <3>1 DEF WriteBack, LatestStands, clock
    <3>2. CASE ~(latest # NoPlan /\ copy[v].plan = latest.plan)
      BY <1>3, <1>11, <2>3, <3>2 DEF WriteBack, LatestStands, clock
    <3>3. QED
      BY <3>1, <3>2
  <2>5. QED
    BY <2>1, <2>4
<1>12. ASSUME UNCHANGED planning
       PROVE  CopiesAreDue' /\ LatestStands'
  BY <1>4, <1>5, <1>12 DEF planning
<1>13. QED
  BY <1>6, <1>7, <1>8, <1>9, <1>10, <1>11, <1>12 DEF Next, PlanSteps, vars

(***************************************************************************)
(* The decisions: answered once.                                           *)
(***************************************************************************)
\* The change a deed makes is made to a pending decision that was not answered.
LEMMA MutateSettled ==
    ASSUME TypeOK, AnsweredOnce, Settled,
           NEW d \in Decisions, NEW change, decision[d] # NoDecision, IsPending(decision[d]),
           Mutate(d, change)
    PROVE  AnsweredOnce' /\ Settled'
<1>1. answers[d] = 0
  BY DEF Settled, TypeOK, InboxTypeOK
<1>2. deed'.id = d
  BY DEF Mutate
<1>3. QED
  BY <1>1, <1>2 DEF Mutate, AnsweredOnce, Settled, IsPending

LEMMA StepSettled ==
    ASSUME TypeOK, AnsweredOnce, Settled, [Next]_vars
    PROVE  AnsweredOnce' /\ Settled'
<1> USE DEF AnsweredOnce, Settled, IsPending, PendingStates
<1>1. answers \in [Decisions -> Nat]
  BY DEF TypeOK, InboxTypeOK
<1>2. ASSUME NEW d \in Decisions, NEW due \in 1..Never, Open(d, due)
      PROVE  AnsweredOnce' /\ Settled'
  <2>1. answers[d] = 0 /\ deed'.id = d
    BY <1>1, <1>2 DEF Open
  <2>2. QED
    BY <1>2, <2>1 DEF Open
<1>3. ASSUME NEW d \in Decisions, Acknowledge(d) \/ Snooze(d) \/ \E s \in AnswerStates : Answer(d, s)
      PROVE  AnsweredOnce' /\ Settled'
  BY <1>3, MutateSettled DEF Acknowledge, Snooze, Answer, Answerable
<1>4. ASSUME BumpForDecision
      PROVE  AnsweredOnce' /\ Settled'
  <2>1. deed'.id = deed.id
    BY <1>4 DEF BumpForDecision, Step, TypeOK, InboxTypeOK, Deeds
  <2>2. QED
    BY <1>4, <2>1 DEF BumpForDecision, Step
<1>11. ASSUME ReadForDecision
       PROVE  AnsweredOnce' /\ Settled'
  <2>1. deed'.id = deed.id
    BY <1>11 DEF ReadForDecision, Step, TypeOK, InboxTypeOK, Deeds
  <2>2. QED
    BY <1>11, <2>1 DEF ReadForDecision, Step
<1>5. ASSUME PutDecision
      PROVE  AnsweredOnce' /\ Settled'
  <2>1. deed.id \in Decisions /\ deed.row \in DecisionRow /\ answers[deed.id] = 0
    BY <1>5 DEF PutDecision, Step, TypeOK, InboxTypeOK, Deeds
  <2>2. /\ decision'[deed.id] = deed.row /\ deed.row # NoDecision
        /\ \A d \in Decisions \ {deed.id} : decision'[d] = decision[d]
    BY <1>5, <2>1, DecisionAssumption DEF PutDecision, TypeOK, InboxTypeOK
  <2>3. /\ deed.row.status \in AnswerStates => answers'[deed.id] = 1
        /\ deed.row.status \notin AnswerStates => answers'[deed.id] = 0
        /\ \A d \in Decisions \ {deed.id} : answers'[d] = answers[d]
    BY <1>1, <1>5, <2>1 DEF PutDecision
  <2>4. AnsweredOnce'
    BY <2>1, <2>3
  <2>5. \A d \in Decisions : answers'[d] > 0 => decision'[d] # NoDecision /\ ~IsPending(decision'[d])
    BY <2>1, <2>2, <2>3 DEF AnswerStates
  <2>6. QED
    BY <1>5, <2>4, <2>5 DEF PutDecision
<1>6. ASSUME CutDecision
      PROVE  AnsweredOnce' /\ Settled'
  BY <1>6 DEF CutDecision
<1>7. ASSUME NEW v \in Listers, List(v)
      PROVE  AnsweredOnce' /\ Settled'
  <2>1. \A d \in Listed : ~IsPending(Expired(decision[d]))
    BY RowsMade DEF Listed, TypeOK, InboxTypeOK
  <2>2. \A w \in Listers : \A e \in expiring'[w] : ~IsPending(e.row)
    BY <1>7, <2>1 DEF List, TypeOK, InboxTypeOK
  <2>3. QED
    BY <1>7, <2>2 DEF List
<1>8. ASSUME NEW v \in Listers, NEW e \in expiring[v], Expire(v, e)
      PROVE  AnsweredOnce' /\ Settled'
  <2>1. e.id \in Decisions /\ e.row \in DecisionRow /\ ~IsPending(e.row)
    BY DEF TypeOK, InboxTypeOK
  <2>2. /\ decision'[e.id] = e.row /\ e.row # NoDecision
        /\ \A d \in Decisions \ {e.id} : decision'[d] = decision[d]
    BY <1>8, <2>1, DecisionAssumption DEF Expire, TypeOK, InboxTypeOK
  <2>3. \A w \in Listers : expiring'[w] \subseteq expiring[w]
    BY <1>8 DEF Expire, TypeOK, InboxTypeOK
  <2>4. \A w \in Listers : \A f \in expiring'[w] : ~IsPending(f.row)
    BY <2>3
  <2>5. \A d \in Decisions : answers'[d] > 0 => decision'[d] # NoDecision /\ ~IsPending(decision'[d])
    BY <1>8, <2>1, <2>2 DEF Expire
  <2>6. QED
    BY <1>8, <2>4, <2>5 DEF Expire
<1>9. ASSUME UNCHANGED inbox
      PROVE  AnsweredOnce' /\ Settled'
  BY <1>9 DEF inbox
<1>10. QED
  BY <1>2, <1>3, <1>4, <1>5, <1>6, <1>7, <1>8, <1>9, <1>11 DEF Next, InboxSteps, vars

(***************************************************************************)
(* Revisions: a write takes its tag along, a bump that is read back makes  *)
(* a new one.                                                              *)
(***************************************************************************)
\* The revision is not read back, and no import is stored: it may be raised under
\* the lock, or the lock released by who holds it.
Quiet(holds) ==
    /\ again' = again
    /\ \/ rev' = rev /\ (bumping' = bumping \/ (holds /\ ~bumping'))
       \/ Raise

LEMMA PlanTagsMade ==
    ASSUME TypeOK, PlanSteps
    PROVE  \/ Quiet(OnStep("read")) /\ PlanTags' \subseteq PlanTags
           \/ ReadBack /\ OnStep("read") /\ \E i : PlanTags' \subseteq PlanTags \cup {<<i, rev>>}
<1> USE DEF PlanTags, OnStep
<1>0. UNCHANGED clock => Quiet(OnStep("read"))
  BY DEF clock, board, Quiet
<1>1. ASSUME NEW p \in Plans, NEW x \in Texts, NEW due \in 1..Never, Publish(p, x, due)
      PROVE  Quiet(OnStep("read")) /\ PlanTags' \subseteq PlanTags
  BY <1>1 DEF Publish, board, Quiet
<1>2. ASSUME Look
      PROVE  Quiet(OnStep("read")) /\ PlanTags' \subseteq PlanTags
  <2>1. publish \in [plan : Plans, step : {"look", "bump", "read", "put"}, row : PlanRow]
    BY <1>2, PublisherShape DEF Look
  <2>2. CASE publish' = [publish EXCEPT !.step = "bump"]
    <3>1. publish'.step = "bump"
      BY <2>1, <2>2
    <3>2. QED
      BY <1>0, <1>2, <3>1 DEF Look
  <2>3. ASSUME NEW q \in Others,
               publish' = [plan |-> publish.plan, row |-> publish.row, step |-> "retire",
                           old |-> [plan |-> q, row |-> plan[q]]]
        PROVE  Quiet(OnStep("read")) /\ PlanTags' \subseteq PlanTags
    <3>1. q \in Plans /\ plan[q] # NoPlan
      BY <2>3 DEF Others, IsActive
    <3>2. publish'.step = "retire" /\ publish'.old.plan = q /\ publish'.old.row.at = plan[q].at
      BY <2>3
    <3>3. QED
      BY <1>0, <1>2, <3>1, <3>2 DEF Look
  <2>4. QED
    BY <1>2, <2>2, <2>3 DEF Look
<1>3. ASSUME Retire
      PROVE  Quiet(OnStep("read")) /\ PlanTags' \subseteq PlanTags
  <2>1. publish.old.plan \in Plans /\ publish.old.row \in PlanRow
    BY <1>3, PublisherShape DEF Retire, Copies
  <2>2. plan'[publish.old.plan].at = publish.old.row.at
    BY <1>3, <2>1, RowsMade DEF Retire, TypeOK, PlanTypeOK
  <2>3. \A q \in Plans \ {publish.old.plan} : plan'[q] = plan[q]
    BY <1>3, <2>1 DEF Retire, TypeOK, PlanTypeOK
  <2>4. publish'.step = "bump"
    BY <1>3 DEF Retire
  <2>5. QED
    BY <1>0, <1>3, <2>2, <2>3, <2>4 DEF Retire
<1>4. ASSUME BumpForPlan
      PROVE  Quiet(OnStep("read")) /\ PlanTags' \subseteq PlanTags
  <2>1. publish \in [plan : Plans, step : {"look", "bump", "read", "put"}, row : PlanRow]
    BY <1>4, PublisherShape DEF BumpForPlan
  <2>2. publish'.step = "read"
    BY <1>4, <2>1 DEF BumpForPlan
  <2>3. QED
    BY <1>4, <2>2 DEF BumpForPlan, Raise, Quiet
<1>10. ASSUME ReadForPlan
       PROVE  /\ ReadBack /\ OnStep("read")
              /\ PlanTags' \subseteq PlanTags \cup {<<publish.plan, rev>>}
  <2>1. publish \in [plan : Plans, step : {"look", "bump", "read", "put"}, row : PlanRow]
    BY <1>10, PublisherShape DEF ReadForPlan
  <2>2. publish'.step = "put" /\ publish'.plan = publish.plan /\ publish'.row.at = rev
    BY <1>10, <2>1 DEF ReadForPlan, PlanRow
  <2>3. QED
    BY <1>10, <2>2 DEF ReadForPlan
<1>5. ASSUME Put
      PROVE  Quiet(OnStep("read")) /\ PlanTags' \subseteq PlanTags
  <2>1. publish.plan \in Plans
    BY <1>5, PublisherShape DEF Put
  <2>2. plan'[publish.plan] = publish.row /\ \A q \in Plans \ {publish.plan} : plan'[q] = plan[q]
    BY <1>5, <2>1 DEF Put, PutRow, TypeOK, PlanTypeOK
  <2>3. QED
    BY <1>0, <1>5, <2>2 DEF Put
<1>6. ASSUME Cut
      PROVE  Quiet(OnStep("read")) /\ PlanTags' \subseteq PlanTags
  <2>1. bumping' = bumping \/ (publish.step = "read" /\ ~bumping')
    BY <1>6 DEF Cut, Release, TypeOK, ClockTypeOK
  <2>2. QED
    BY <1>6, <2>1 DEF Cut, Release, Quiet
<1>7. ASSUME NEW v \in Readers, NEW p \in Plans, Select(v, p)
      PROVE  Quiet(OnStep("read")) /\ PlanTags' \subseteq PlanTags
  <2>1. /\ copy'[v].plan = p /\ copy'[v].row.at = plan[p].at /\ plan[p] # NoPlan
        /\ \A w \in Readers \ {v} : copy'[w] = copy[w]
    BY <1>7 DEF Select, IsActive, TypeOK, PlanTypeOK
  <2>2. QED
    BY <1>7, <2>1 DEF Select, board, Quiet
<1>8. ASSUME NEW v \in Readers, WriteBack(v)
      PROVE  Quiet(OnStep("read")) /\ PlanTags' \subseteq PlanTags
  <2>1. copy[v] \in Copies /\ copy[v].plan \in Plans /\ copy[v].row \in PlanRow /\ copy[v] # NoCopy
    BY <1>8 DEF WriteBack, TypeOK, PlanTypeOK, Copies
  <2>2. [copy[v].row EXCEPT !.status = "EXPIRED"].at = copy[v].row.at
    BY <2>1 DEF PlanRow
  <2>3. /\ plan'[copy[v].plan].at = copy[v].row.at
        /\ \A q \in Plans \ {copy[v].plan} : plan'[q] = plan[q]
    BY <1>8, <2>1, <2>2 DEF WriteBack, TypeOK, PlanTypeOK
  <2>4. \A w \in Readers : copy'[w] # NoCopy => copy'[w] = copy[w]
    BY <1>8 DEF WriteBack, TypeOK, PlanTypeOK
  <2>5. QED
    BY <1>0, <1>8, <2>1, <2>3, <2>4 DEF WriteBack
<1>9. QED
  BY <1>1, <1>2, <1>3, <1>4, <1>5, <1>6, <1>7, <1>8, <1>10 DEF PlanSteps

LEMMA DecisionTagsMade ==
    ASSUME TypeOK, InboxSteps
    PROVE  \/ Quiet(Step("read")) /\ DecisionTags' \subseteq DecisionTags
           \/ ReadBack /\ Step("read")
              /\ \E i : DecisionTags' \subseteq DecisionTags \cup {<<i, rev>>}
<1> USE DEF DecisionTags, Step
<1>0. UNCHANGED expiring => Expiries' = Expiries
  BY DEF Expiries
<1>9. UNCHANGED clock => Quiet(Step("read"))
  BY DEF clock, board, Quiet
<1>1. ASSUME NEW d \in Decisions, NEW due \in 1..Never, Open(d, due)
      PROVE  Quiet(Step("read")) /\ DecisionTags' \subseteq DecisionTags
  BY <1>0, <1>1 DEF Open, board, Quiet
<1>2. ASSUME NEW d \in Decisions, Acknowledge(d) \/ Snooze(d) \/ \E s \in AnswerStates : Answer(d, s)
      PROVE  Quiet(Step("read")) /\ DecisionTags' \subseteq DecisionTags
  <2>1. ASSUME NEW change, Mutate(d, change)
        PROVE  Quiet(Step("read")) /\ DecisionTags' \subseteq DecisionTags
    BY <1>0, <2>1 DEF Mutate, board, Quiet
  <2>2. QED
    BY <1>2, <2>1 DEF Acknowledge, Snooze, Answer
<1>3. ASSUME BumpForDecision
      PROVE  Quiet(Step("read")) /\ DecisionTags' \subseteq DecisionTags
  <2>1. deed'.step = "read"
    BY <1>3 DEF BumpForDecision, TypeOK, InboxTypeOK, Deeds
  <2>2. QED
    BY <1>0, <1>3, <2>1 DEF BumpForDecision, Raise, Quiet
<1>10. ASSUME ReadForDecision
       PROVE  /\ ReadBack /\ Step("read")
              /\ DecisionTags' \subseteq DecisionTags \cup {<<deed.id, rev>>}
  <2>1. deed \in Deeds
    BY <1>10 DEF ReadForDecision, TypeOK, InboxTypeOK
  <2>2. deed'.step = "put" /\ deed'.id = deed.id /\ deed'.row.at = rev
    BY <1>10, <2>1 DEF ReadForDecision, Deeds, DecisionRow
  <2>3. QED
    BY <1>0, <1>10, <2>2 DEF ReadForDecision
<1>4. ASSUME PutDecision
      PROVE  Quiet(Step("read")) /\ DecisionTags' \subseteq DecisionTags
  <2>1. deed.id \in Decisions
    BY <1>4 DEF PutDecision, TypeOK, InboxTypeOK, Deeds
  <2>2. decision'[deed.id] = deed.row /\ \A d \in Decisions \ {deed.id} : decision'[d] = decision[d]
    BY <1>4, <2>1 DEF PutDecision, TypeOK, InboxTypeOK
  <2>3. QED
    BY <1>0, <1>4, <1>9, <2>2 DEF PutDecision
<1>5. ASSUME CutDecision
      PROVE  Quiet(Step("read")) /\ DecisionTags' \subseteq DecisionTags
  <2>1. bumping' = bumping \/ (deed.step = "read" /\ ~bumping')
    BY <1>5 DEF CutDecision, Release, TypeOK, ClockTypeOK
  <2>2. QED
    BY <1>0, <1>5, <2>1 DEF CutDecision, Release, Quiet
<1>6. ASSUME NEW v \in Listers, List(v)
      PROVE  Quiet(Step("read")) /\ DecisionTags' \subseteq DecisionTags
  <2>1. \A e \in expiring'[v] : \E d \in Decisions :
            e.id = d /\ decision[d] # NoDecision /\ e.row.at = decision[d].at
    BY <1>6, RowsMade DEF List, Listed, TypeOK, InboxTypeOK
  <2>2. \A w \in Listers \ {v} : expiring'[w] = expiring[w]
    BY <1>6 DEF List, TypeOK, InboxTypeOK
  <2>3. \A e \in Expiries' : e \in Expiries \/ e \in expiring'[v]
    BY <2>2 DEF Expiries
  <2>4. QED
    BY <1>6, <2>1, <2>3 DEF List, board, Quiet
<1>7. ASSUME NEW v \in Listers, NEW e \in expiring[v], Expire(v, e)
      PROVE  Quiet(Step("read")) /\ DecisionTags' \subseteq DecisionTags
  <2>1. e.id \in Decisions
    BY DEF TypeOK, InboxTypeOK
  <2>2. decision'[e.id] = e.row /\ \A d \in Decisions \ {e.id} : decision'[d] = decision[d]
    BY <1>7, <2>1 DEF Expire, TypeOK, InboxTypeOK
  <2>3. \A w \in Listers : expiring'[w] \subseteq expiring[w]
    BY <1>7 DEF Expire, TypeOK, InboxTypeOK
  <2>4. Expiries' \subseteq Expiries /\ e \in Expiries
    BY <2>3 DEF Expiries
  <2>5. QED
    BY <1>7, <1>9, <2>2, <2>4 DEF Expire
<1>8. QED
  BY <1>1, <1>2, <1>3, <1>4, <1>5, <1>6, <1>7, <1>10 DEF InboxSteps

\* The lock of the bump has one holder.
LEMMA StepHeld ==
    ASSUME TypeOK, BumpIsHeld, [Next]_vars
    PROVE  BumpIsHeld'
<1> USE DEF BumpIsHeld, OnStep, Step
<1>1. CASE PlanSteps /\ UNCHANGED inbox
  <2>1. ASSUME BumpForPlan \/ ReadForPlan
        PROVE  BumpIsHeld'
    <3>1. publish' \in Jobs /\ publish' # NoJob
      BY <2>1, PublisherGoesOn, JobAssumption
    <3>2. publish \in [plan : Plans, step : {"look", "bump", "read", "put"}, row : PlanRow]
      BY <2>1, PublisherShape DEF BumpForPlan, ReadForPlan
    <3>3. BumpForPlan => publish'.step = "read"
      BY <3>2 DEF BumpForPlan
    <3>4. ReadForPlan => publish'.step = "put"
      BY <3>2 DEF ReadForPlan
    <3>5. QED
      BY <1>1, <2>1, <3>3, <3>4 DEF BumpForPlan, ReadForPlan, Raise, ReadBack, BumpFree, inbox
  <2>2. ASSUME Look
        PROVE  BumpIsHeld'
    <3>1. publish \in [plan : Plans, step : {"look", "bump", "read", "put"}, row : PlanRow]
      BY <2>2, PublisherShape DEF Look
    <3>2. publish'.step # "read"
      BY <2>2, <3>1 DEF Look
    <3>3. QED
      BY <1>1, <2>2, <3>2 DEF Look, clock, board, inbox
  <2>3. CASE Retire \/ Put
    BY <1>1, <2>3 DEF Retire, Put, clock, board, inbox
  <2>4. CASE Cut
    BY <1>1, <2>4 DEF Cut, Release, inbox
  <2>5. ASSUME NEW p \in Plans, NEW x \in Texts, NEW due \in 1..Never, Publish(p, x, due)
        PROVE  BumpIsHeld'
    BY <1>1, <2>5 DEF Publish, board, inbox
  <2>6. ASSUME NEW v \in Readers, WriteBack(v) \/ \E p \in Plans : Select(v, p)
        PROVE  BumpIsHeld'
    BY <1>1, <2>6 DEF Select, WriteBack, clock, board, inbox
  <2>7. QED
    BY <1>1, <2>1, <2>2, <2>3, <2>4, <2>5, <2>6 DEF PlanSteps
<1>2. CASE InboxSteps /\ UNCHANGED planning
  <2>1. ASSUME BumpForDecision \/ ReadForDecision
        PROVE  BumpIsHeld'
    <3>1. deed \in Deeds
      BY <2>1 DEF BumpForDecision, ReadForDecision, TypeOK, InboxTypeOK
    <3>2. BumpForDecision => deed'.step = "read"
      BY <3>1 DEF BumpForDecision, Deeds
    <3>3. ReadForDecision => deed'.step = "put"
      BY <3>1 DEF ReadForDecision, Deeds
    <3>4. QED
      BY <1>2, <2>1, <3>2, <3>3
      DEF BumpForDecision, ReadForDecision, Raise, ReadBack, BumpFree, planning
  <2>2. CASE PutDecision
    BY <1>2, <2>2 DEF PutDecision, clock, board, planning
  <2>3. CASE CutDecision
    BY <1>2, <2>3 DEF CutDecision, Release, planning
  <2>4. ASSUME NEW d \in Decisions, NEW due \in 1..Never, Open(d, due)
        PROVE  BumpIsHeld'
    BY <1>2, <2>4 DEF Open, board, planning
  <2>5. ASSUME NEW d \in Decisions, Acknowledge(d) \/ Snooze(d) \/ \E s \in AnswerStates : Answer(d, s)
        PROVE  BumpIsHeld'
    <3>1. ASSUME NEW change, Mutate(d, change)
          PROVE  BumpIsHeld'
      BY <1>2, <3>1 DEF Mutate, board, planning
    <3>2. QED
      BY <2>5, <3>1 DEF Acknowledge, Snooze, Answer
  <2>6. ASSUME NEW v \in Listers, List(v) \/ \E e \in expiring[v] : Expire(v, e)
        PROVE  BumpIsHeld'
    BY <1>2, <2>6 DEF List, Expire, clock, board, planning
  <2>7. QED
    BY <1>2, <2>1, <2>2, <2>3, <2>4, <2>5, <2>6 DEF InboxSteps
<1>3. CASE ClockSteps /\ UNCHANGED <<planning, inbox>>
  BY <1>3 DEF ClockSteps, Tick, ImportRead, ImportApply, board, planning, inbox
<1>4. CASE UNCHANGED vars
  BY <1>4 DEF vars, clock, board, planning, inbox
<1>5. QED
  BY <1>1, <1>2, <1>3, <1>4 DEF Next

\* A quiet step leaves every tag where it may be.
LEMMA QuietTags ==
    ASSUME TypeOK, BumpIsHeld, TagsAreIssued, TagsDiffer,
           Quiet(OnStep("read")) \/ Quiet(Step("read")), Tags' \subseteq Tags
    PROVE  TagsAreIssued' /\ TagsDiffer'
<1>1. rev \in Nat /\ again' = again
  BY DEF TypeOK, ClockTypeOK, Quiet
<1>2. TagsDiffer'
  BY <1>1 DEF TagsDiffer, Differ
<1>3. \A a \in Tags' : /\ a[2] \in Nat
                       /\ a[2] \notin again => a[2] <= rev /\ (bumping => a[2] < rev)
  BY DEF TagsAreIssued, IssuedUnder
<1>4. CASE rev' = rev /\ (bumping' => bumping)
  BY <1>1, <1>2, <1>3, <1>4 DEF TagsAreIssued, IssuedUnder
<1>5. CASE Raise
  <2>1. rev' = rev + 1
    BY <1>5 DEF Raise, Raised
  <2>2. \A a \in Tags' : a[2] \in Nat /\ (a[2] \notin again' => a[2] <= rev' /\ a[2] < rev')
    BY <1>1, <1>3, <2>1
  <2>3. QED
    BY <1>2, <2>2 DEF TagsAreIssued, IssuedUnder
<1>6. QED
  BY <1>4, <1>5 DEF Quiet

\* A revision that was read back is one nobody carries, unless an import took the
\* board back over it.
LEMMA ReadTags ==
    ASSUME TypeOK, bumping, TagsAreIssued, TagsDiffer, ReadBack,
           NEW i, Tags' \subseteq Tags \cup {<<i, rev>>}
    PROVE  TagsAreIssued' /\ TagsDiffer'
<1>1. rev \in Nat /\ rev' = rev /\ again' = again /\ ~bumping'
  BY DEF TypeOK, ClockTypeOK, ReadBack
<1>2. \A a \in Tags : a[2] \in Nat /\ (a[2] \notin again => a[2] < rev)
  BY DEF TagsAreIssued, IssuedUnder
<1>3. \A a \in Tags' : a \in Tags \/ a = <<i, rev>>
  OBVIOUS
<1>4. TagsAreIssued'
  BY <1>1, <1>2, <1>3 DEF TagsAreIssued, IssuedUnder
<1>5. TagsDiffer'
  BY <1>1, <1>2, <1>3 DEF TagsDiffer, Differ
<1>6. QED
  BY <1>4, <1>5

\* An import that takes the board back marks the revisions it goes over.
LEMMA ImportTags ==
    ASSUME TypeOK, TagsAreIssued, TagsDiffer, NEW i \in Imports, ImportApply(i), Tags' = Tags
    PROVE  TagsAreIssued' /\ TagsDiffer'
<1>1. /\ rev \in Nat /\ pending[i] \in Nat /\ rev' = pending[i] /\ bumping' = bumping
  BY DEF TypeOK, ClockTypeOK, ImportApply
<1>2. again \subseteq again'
  BY DEF ImportApply
<1>3. TagsDiffer'
  BY <1>2 DEF TagsDiffer, Differ
<1>4. ASSUME NEW a \in Tags
      PROVE  /\ a[2] \in Nat
             /\ a[2] \notin again' => a[2] <= rev' /\ (bumping' => a[2] < rev')
  <2>1. a[2] \in Nat /\ (a[2] \notin again => a[2] <= rev /\ (bumping => a[2] < rev))
    BY DEF TagsAreIssued, IssuedUnder
  <2>2. CASE pending[i] < rev
    <3>1. a[2] \notin again' => a[2] \notin again /\ a[2] \notin pending[i]..rev
      BY <2>2 DEF ImportApply
    <3>2. QED
      BY <1>1, <2>1, <3>1
  <2>3. CASE ~(pending[i] < rev)
    BY <1>1, <1>2, <2>1, <2>3
  <2>4. QED
    BY <2>2, <2>3
<1>5. QED
  BY <1>3, <1>4 DEF TagsAreIssued, IssuedUnder

LEMMA StepTags ==
    ASSUME TypeOK, BumpIsHeld, TagsAreIssued, TagsDiffer, [Next]_vars
    PROVE  TagsAreIssued' /\ TagsDiffer'
<1>1. CASE PlanSteps /\ UNCHANGED inbox
  <2>1. DecisionTags' = DecisionTags
    BY <1>1 DEF inbox, DecisionTags, Expiries, Step
  <2>2. CASE Quiet(OnStep("read")) /\ PlanTags' \subseteq PlanTags
    BY <2>1, <2>2, QuietTags DEF Tags
  <2>3. ASSUME ReadBack, OnStep("read"), NEW i, PlanTags' \subseteq PlanTags \cup {<<i, rev>>}
        PROVE  TagsAreIssued' /\ TagsDiffer'
    <3>1. Tags' \subseteq Tags \cup {<<i, rev>>} /\ bumping
      BY <2>1, <2>3 DEF Tags, BumpIsHeld
    <3>2. QED
      BY <2>3, <3>1, ReadTags
  <2>4. QED
    BY <1>1, <2>2, <2>3, PlanTagsMade
<1>2. CASE InboxSteps /\ UNCHANGED planning
  <2>1. PlanTags' = PlanTags
    BY <1>2 DEF planning, PlanTags, OnStep
  <2>2. CASE Quiet(Step("read")) /\ DecisionTags' \subseteq DecisionTags
    BY <2>1, <2>2, QuietTags DEF Tags
  <2>3. ASSUME ReadBack, Step("read"), NEW i, DecisionTags' \subseteq DecisionTags \cup {<<i, rev>>}
        PROVE  TagsAreIssued' /\ TagsDiffer'
    <3>1. Tags' \subseteq Tags \cup {<<i, rev>>} /\ bumping
      BY <2>1, <2>3 DEF Tags, BumpIsHeld
    <3>2. QED
      BY <2>3, <3>1, ReadTags
  <2>4. QED
    BY <1>2, <2>2, <2>3, DecisionTagsMade
<1>3. CASE (ClockSteps /\ UNCHANGED <<planning, inbox>>) \/ UNCHANGED vars
  <2>1. Tags' = Tags
    BY <1>3 DEF vars, planning, inbox, Tags, PlanTags, DecisionTags, Expiries, OnStep, Step
  <2>2. ASSUME NEW i \in Imports, ImportApply(i)
        PROVE  TagsAreIssued' /\ TagsDiffer'
    BY <2>1, <2>2, ImportTags
  <2>3. CASE rev' = rev /\ again' = again /\ bumping' = bumping
    BY <2>1, <2>3 DEF TagsAreIssued, IssuedUnder, TagsDiffer, Differ
  <2>4. QED
    BY <1>3, <2>2, <2>3 DEF ClockSteps, Tick, ImportRead, vars, clock, board
<1>4. QED
  BY <1>1, <1>2, <1>3 DEF Next

(***************************************************************************)
(* The theorems.                                                           *)
(***************************************************************************)
LEMMA InitIInv == Init => IInv
<1> SUFFICES ASSUME Init PROVE IInv
  OBVIOUS
<1>1. TypeOK
  BY InitTypeOK
<1>2. AtMostOne /\ NoRival /\ CopiesAreDue /\ LatestStands
  BY DEF Init, PlanInit, AtMostOne, NoRival, CopiesAreDue, LatestStands, IsActive, OnStep
<1>3. AnsweredOnce /\ Settled
  BY DEF Init, InboxInit, AnsweredOnce, Settled
<1>4. Expiries = {}
  BY DEF Init, InboxInit, Expiries
<1>5. Tags = {}
  BY <1>4 DEF Init, PlanInit, InboxInit, Tags, PlanTags, DecisionTags, OnStep, Step
<1>6. BumpIsHeld
  BY DEF Init, PlanInit, InboxInit, BumpIsHeld, OnStep, Step
<1>7. QED
  BY <1>1, <1>2, <1>3, <1>5, <1>6 DEF IInv, TagsAreIssued, IssuedUnder, TagsDiffer, Differ

LEMMA StepIInv == IInv /\ [Next]_vars => IInv'
<1> SUFFICES ASSUME IInv, [Next]_vars PROVE IInv'
  OBVIOUS
<1> USE DEF IInv
<1>1. TypeOK'
  BY StepTypeOK
<1>2. AtMostOne' /\ NoRival'
  BY StepActive
<1>3. CopiesAreDue' /\ LatestStands'
  BY StepStands
<1>4. AnsweredOnce' /\ Settled'
  BY StepSettled
<1>5. BumpIsHeld' /\ TagsAreIssued' /\ TagsDiffer'
  BY StepHeld, StepTags
<1>6. QED
  BY <1>1, <1>2, <1>3, <1>4, <1>5

LEMMA Invariant == Spec => []IInv
BY InitIInv, StepIInv, PTL DEF Spec

\* The variables of the planning records keep their types.
THEOREM PlanningTypeCorrect == Spec => []TypeOK
<1>1. IInv => TypeOK
  BY DEF IInv
<1>2. QED
  BY <1>1, Invariant, PTL

\* A board never has two active dispatch plans, for any number of plans and
\* readers: NEXT has one source.
THEOREM PlanningOneActive == Spec => []OneActive
<1>1. ASSUME AtMostOne
      PROVE  OneActive
  <2> DEFINE A == {p \in Plans : IsActive(p)}
  <2>1. CASE A = {}
    BY <2>1, FS_EmptySet DEF OneActive
  <2>2. ASSUME NEW p \in A
        PROVE  OneActive
    <3>1. A = {p}
      BY <1>1 DEF AtMostOne
    <3>2. Cardinality(A) = 1
      BY <3>1, FS_Singleton
    <3>3. QED
      BY <3>2 DEF OneActive
  <2>3. QED
    BY <2>1, <2>2
<1>2. IInv => AtMostOne
  BY DEF IInv
<1>3. QED
  BY <1>1, <1>2, Invariant, PTL

\* The plan published last stands as it was published, or expired after its date.
THEOREM PlanningLatestStands == Spec => []LatestStands
<1>1. IInv => LatestStands
  BY DEF IInv
<1>2. QED
  BY <1>1, Invariant, PTL

\* No decision is answered twice, whoever lists it meanwhile and whatever fails.
THEOREM PlanningAnsweredOnce == Spec => []AnsweredOnce
<1>1. IInv => AnsweredOnce
  BY DEF IInv
<1>2. QED
  BY <1>1, Invariant, PTL

\* Two records carry the same board revision only if an import took the board back
\* over it, though plans and decisions are written under different locks and an
\* import may change the revision in the middle of a bump.
THEOREM PlanningOwnRevision == Spec => []OwnRevision
<1>1. ASSUME TagsDiffer
      PROVE  OwnRevision
  <2>1. Written \subseteq Tags
    BY DEF Written, Tags, PlanTags, DecisionTags
  <2>2. QED
    BY <1>1, <2>1 DEF OwnRevision, TagsDiffer, Differ
<1>2. IInv => TagsDiffer
  BY DEF IInv
<1>3. QED
  BY <1>1, <1>2, Invariant, PTL
=============================================================================
