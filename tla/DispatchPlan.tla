---------------------------- MODULE DispatchPlan ----------------------------
(***************************************************************************)
(* The dispatch plan of a board, the sole source of NEXT:                  *)
(* publishDispatchPlan and selectNextFromActivePlan of                     *)
(* control-plane-ingest.ts over the MySQL store.                           *)
(*                                                                         *)
(* A publisher works under the board's named lock: it retires the plan     *)
(* that is active, raises the board revision, reads it back and writes its *)
(* own plan, each a statement of its own.  A reader that finds the active plan due writes   *)
(* the copy it read back as EXPIRED, without the lock.                     *)
(*                                                                         *)
(* The ranked items are a text: equal texts have equal hashes, whatever    *)
(* the date the plan expires.                                              *)
(***************************************************************************)
EXTENDS BoardClock

CONSTANTS
    Plans, NoPlan,  \* plan ids; no row
    Texts,          \* contents a plan may have
    Readers,        \* requests that select NEXT
    NoCopy,         \* a reader that is not writing a plan back
    NoJob           \* nobody publishes

VARIABLES
    plan,           \* control_plane_dispatch_plans: plan id -> its row
    publish,        \* what the publisher under the board lock is doing
    copy,           \* reader -> the due plan it is about to write back
    latest,         \* history: the plan published last, and the row it was given
    gap             \* history: since then a publisher retired the active plan, or a
                    \* reader wrote an earlier row of the latest one over it

planning == <<plan, publish, copy, latest, gap>>

PlanRow ==
    [status : {"ACTIVE", "SUPERSEDED", "EXPIRED"}, text : Texts, due : 1..Never,
     rev : Nat \ {0}, at : Nat \ {0}]

Copies == [plan : Plans, row : PlanRow]

Jobs ==
    [plan : Plans, step : {"look", "bump", "read", "put"}, row : PlanRow]
        \cup [plan : Plans, step : {"retire"}, row : PlanRow, old : Copies]

ASSUME JobAssumption == NoJob \notin Jobs

IsActive(p) == plan[p] # NoPlan /\ plan[p].status = "ACTIVE"

(***************************************************************************)
(* publish_dispatch_plan, once idempotency and the unlocked look at the    *)
(* board let it pass.                                                      *)
(***************************************************************************)
\* The same text is active already: replayed, even when it is due.
Republished(p, x) == IsActive(p) /\ plan[p].text = x

NextRev(p) == IF plan[p] = NoPlan THEN 1 ELSE plan[p].rev + 1

Publish(p, x, due) ==
    /\ Spend
    /\ publish = NoJob
    /\ due > now
    /\ ~Republished(p, x)
    /\ publish' = [plan |-> p, step |-> "look",
                   row |-> [status |-> "ACTIVE", text |-> x, due |-> due, rev |-> NextRev(p), at |-> 1]]
    /\ UNCHANGED <<board, now, troubles, plan, copy, latest, gap>>

OnStep(s) == publish # NoJob /\ publish.step = s

\* Mutant: the plan that is active is not looked for.
NoOther == {}

Others == {q \in Plans \ {publish.plan} : IsActive(q)}

\* getActive.
Look ==
    /\ OnStep("look")
    /\ \/ /\ Others = {}
          /\ publish' = [publish EXCEPT !.step = "bump"]
       \/ \E q \in Others :
             publish' = [plan |-> publish.plan, row |-> publish.row, step |-> "retire",
                         old |-> [plan |-> q, row |-> plan[q]]]
    /\ UNCHANGED <<clock, plan, copy, latest, gap>>

Retired(row) == [row EXCEPT !.status = "SUPERSEDED", !.rev = @ + 1]

Retire ==
    /\ OnStep("retire")
    /\ plan' = [plan EXCEPT ![publish.old.plan] = Retired(publish.old.row)]
    /\ publish' = [plan |-> publish.plan, row |-> publish.row, step |-> "bump"]
    /\ gap' = TRUE
    /\ UNCHANGED <<clock, copy, latest>>

BumpForPlan ==
    /\ OnStep("bump")
    /\ Raise
    /\ publish' = [publish EXCEPT !.step = "read"]
    /\ UNCHANGED <<now, left, troubles, plan, copy, latest, gap>>

ReadForPlan ==
    /\ OnStep("read")
    /\ ReadBack
    /\ publish' = [publish EXCEPT !.row.at = rev, !.step = "put"]
    /\ UNCHANGED <<now, left, troubles, plan, copy, latest, gap>>

\* Mutant: a rewritten plan keeps the status it had.
PutRowAsItWas ==
    IF plan[publish.plan] = NoPlan
    THEN publish.row
    ELSE [publish.row EXCEPT !.status = plan[publish.plan].status]

PutRow == publish.row

Put ==
    /\ OnStep("put")
    /\ plan' = [plan EXCEPT ![publish.plan] = PutRow]
    /\ latest' = [plan |-> publish.plan, row |-> publish.row]
    /\ publish' = NoJob
    /\ gap' = FALSE
    /\ UNCHANGED <<clock, copy>>

\* A statement fails: what was written stays.
Cut ==
    /\ Fail
    /\ publish # NoJob
    /\ publish' = NoJob
    /\ Release(OnStep("read"))
    /\ UNCHANGED <<now, left, plan, copy, latest, gap>>

(***************************************************************************)
(* selectNextFromActivePlan.                                               *)
(***************************************************************************)
Select(v, p) ==
    /\ Spend
    /\ copy[v] = NoCopy
    /\ IsActive(p)
    /\ Due(plan[p])
    /\ copy' = [copy EXCEPT ![v] = [plan |-> p, row |-> plan[p]]]
    /\ UNCHANGED <<board, now, troubles, plan, publish, latest, gap>>

WriteBack(v) ==
    /\ copy[v] # NoCopy
    /\ plan' = [plan EXCEPT ![copy[v].plan] = [copy[v].row EXCEPT !.status = "EXPIRED"]]
    /\ copy' = [copy EXCEPT ![v] = NoCopy]
    /\ gap' = (gap \/ (latest # NoPlan /\ copy[v].plan = latest.plan /\ copy[v].row # latest.row))
    /\ UNCHANGED <<clock, publish, latest>>

PlanInit ==
    /\ plan = [p \in Plans |-> NoPlan]
    /\ publish = NoJob
    /\ copy = [v \in Readers |-> NoCopy]
    /\ latest = NoPlan
    /\ gap = FALSE

PlanSteps ==
    \/ \E p \in Plans, x \in Texts, due \in 1..Never : Publish(p, x, due)
    \/ Look
    \/ Retire
    \/ BumpForPlan
    \/ ReadForPlan
    \/ Put
    \/ Cut
    \/ \E v \in Readers, p \in Plans : Select(v, p)
    \/ \E v \in Readers : WriteBack(v)

(***************************************************************************)
(* Properties                                                              *)
(***************************************************************************)
\* What the table and its writers hold.
PlanTypeOK ==
    /\ plan \in [Plans -> PlanRow \cup {NoPlan}]
    /\ copy \in [Readers -> Copies \cup {NoCopy}]
    /\ latest \in Copies \cup {NoPlan}
    /\ gap \in BOOLEAN
    /\ publish \in Jobs \cup {NoJob}

\* NEXT has one source: never two active plans, whatever readers write back
\* while a publisher works and wherever it is cut short.
OneActive == Cardinality({p \in Plans : IsActive(p)}) <= 1

\* NEXT is not lost: the plan published last stands as it was published, or
\* expired after its date, also while the next one is on its way.  Only two
\* things leave the board without it: a publisher that retired it and has not
\* written its own, or was cut short before it could, and a reader that writes
\* back, without the lock, an earlier row of a plan published anew meanwhile.
LatestStands ==
    ~gap /\ latest # NoPlan =>
        \/ plan[latest.plan] = latest.row
        \/ plan[latest.plan] = [latest.row EXCEPT !.status = "EXPIRED"] /\ Due(latest.row)
=============================================================================
