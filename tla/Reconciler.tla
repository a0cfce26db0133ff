----------------------------- MODULE Reconciler -----------------------------
(***************************************************************************)
(* reconciler.ts over the run registry: an elected leader classifies runs  *)
(* in a dry run, and applies the stored plan item by item.                 *)
(*                                                                         *)
(* The leader is checked before the board lock is taken.  Under the lock   *)
(* the plan is classified again and must come out the same; then locks and *)
(* runs are written one autocommitted statement at a time.  Requests to    *)
(* the registry go on all the while, in other processes.                   *)
(*                                                                         *)
(* A plan is identified by its content, as dryRunHash is a digest of it.   *)
(***************************************************************************)
EXTENDS RunRegistry

CONSTANTS
    Leaders,        \* principals that may claim leadership
    NoLeader,       \* nobody has claimed it yet
    NoJob,          \* the process applies no plan
    NoPlan,         \* no plan was applied yet
    Grace,          \* RUN_RECONCILIATION_GRACE_MS, in clock ticks
    MaxPlans, MaxBoardRev \* bounds

ASSUME LeadersAssumption == NoLeader \notin Leaders
ASSUME GraceAssumption == Grace \in Nat
ASSUME ReconcilerBoundsAssumption == MaxPlans \in Nat /\ MaxBoardRev \in Nat

VARIABLES
    leader,     \* reconciler_leaders: who, and until when
    plans,      \* stored dry runs
    boardRev,   \* the board revision
    lastApply,  \* the plan that was applied last, or NoPlan
    job         \* process -> the plan it applies, or NoJob

rvars == <<leader, plans, boardRev, lastApply, job>>
allVars == <<run, lock, todo, put, mutex, now, fences, served, torn, dropped, rvars>>

(***************************************************************************)
(* classifyRunForReconcile.  A leased run always has an agent, a token and *)
(* fencing version 1 (register_run), and no task is ever flagged completed.*)
(***************************************************************************)
Overdue(row, t) == row.expires # NoLease /\ row.expires + Grace <= t

Action(row, t) ==
    CASE IsTerminal(row) /\ row.scopes # {} -> "RELEASE_LOCKS"
      [] IsTerminal(row) /\ row.scopes = {} -> "PRESERVE_TERMINAL"
      [] row.state = "QUEUED" -> "NONE"
      [] IsLeased(row) /\ Overdue(row, t) -> "MARK_STALE"
      [] IsLeased(row) /\ ~Overdue(row, t) /\ row.stalled -> "REQUEUE"
      [] OTHER -> "NONE"

Effective == {"RELEASE_LOCKS", "MARK_STALE", "REQUEUE"}

Item(r, t) == [before |-> run[r].state, action |-> Action(run[r], t)]

\* The state an effective item leaves the run in.
After(item) ==
    CASE item.action = "MARK_STALE" -> "STALE"
      [] item.action = "REQUEUE" -> "CANCELLED"
      [] item.action = "RELEASE_LOCKS" -> item.before

(***************************************************************************)
(* Leadership.                                                             *)
(***************************************************************************)
\* claimReconcilerLeadership, under the board lock.
Claim(l) ==
    /\ mutex = NoProc
    /\ leader.id \in {NoLeader, l} \/ leader.expires <= now
    /\ leader' = [id |-> l, expires |-> now + Lease]
    /\ UNCHANGED <<vars, plans, boardRev, lastApply, job>>

\* assertLeader: the fencing token a leader presents is that of its latest claim.
IsLeader(l) == leader.id = l /\ leader.expires > now

(***************************************************************************)
(* dryRunReconcile: one list of the runs, no lock.  The board revision is  *)
(* read before it, and may be behind by then.                              *)
(***************************************************************************)
DryRun(l) ==
    /\ IsLeader(l)
    /\ Cardinality(plans) < MaxPlans       \* bound
    /\ \E rev \in 0..boardRev :
       \E R \in SUBSET {r \in Runs : run[r] # Unregistered} :
          plans' = plans \cup {[rev |-> rev, items |-> [r \in R |-> Item(r, now)]]}
    /\ UNCHANGED <<vars, leader, boardRev, lastApply, job>>

(***************************************************************************)
(* applyReconcile.                                                         *)
(***************************************************************************)
Idle(p) == job[p] = NoJob /\ todo[p] = {} /\ put[p] = NoPut

AskApply(p, l, plan) ==
    /\ Idle(p)
    /\ IsLeader(l)
    /\ job' = [job EXCEPT ![p] = [phase |-> "asked", by |-> l, plan |-> plan, rest |-> {}]]
    /\ UNCHANGED <<vars, leader, plans, boardRev, lastApply>>

\* Mutant: the runs are not classified again.
PlanHoldsByRevision(plan) == plan.rev = boardRev

PlanHolds(plan) ==
    /\ plan.rev = boardRev
    /\ \A r \in DOMAIN plan.items : Item(r, now) = plan.items[r]

\* Applied already, or refused.
AnswerApply(p) ==
    /\ job[p] # NoJob /\ job[p].phase = "asked"
    /\ mutex = NoProc
    /\ lastApply = job[p].plan \/ ~PlanHolds(job[p].plan)
    /\ job' = [job EXCEPT ![p] = NoJob]
    /\ UNCHANGED <<vars, leader, plans, boardRev, lastApply>>

BeginApply(p) ==
    /\ job[p] # NoJob /\ job[p].phase = "asked"
    /\ mutex = NoProc
    /\ lastApply # job[p].plan
    /\ PlanHolds(job[p].plan)
    /\ mutex' = p
    /\ job' = [job EXCEPT
          ![p].phase = "items",
          ![p].rest = {r \in DOMAIN job[p].plan.items :
                           job[p].plan.items[r].action \in Effective}]
    /\ UNCHANGED <<run, lock, todo, put, now, fences, served, torn, dropped,
                   leader, plans, boardRev, lastApply>>

\* Between two items, or between two steps after them.
Applying(p, phase) ==
    job[p] # NoJob /\ job[p].phase = phase /\ todo[p] = {} /\ put[p] = NoPut

Reconciled(r, item) ==
    [run[r] EXCEPT !.state = After(item), !.scopes = {}, !.expires = NoLease,
                   !.rev = run[r].rev + 1]

\* Mutant: the scopes are taken off the run, its locks are not released.
TakeItemWithoutRelease(p) ==
    /\ Applying(p, "items")
    /\ \E r \in job[p].rest :
          /\ put' = [put EXCEPT ![p] = [run |-> r, row |-> Reconciled(r, job[p].plan.items[r])]]
          /\ job' = [job EXCEPT ![p].rest = job[p].rest \ {r}]
    /\ UNCHANGED <<run, lock, todo, mutex, now, fences, served, torn, dropped,
                   leader, plans, boardRev, lastApply>>

\* The next item: the run is read again, its locks are to be released, and its row
\* is to be written after them.
TakeItem(p) ==
    /\ Applying(p, "items")
    /\ \E r \in job[p].rest :
          /\ todo' = [todo EXCEPT ![p] = IF run[r].scopes = {} THEN {}
                                         ELSE ReleaseWrites(lock, r, run[r].fence)]
          /\ put' = [put EXCEPT ![p] = [run |-> r, row |-> Reconciled(r, job[p].plan.items[r])]]
          /\ job' = [job EXCEPT ![p].rest = job[p].rest \ {r}]
    /\ UNCHANGED <<run, lock, mutex, now, fences, served, torn, dropped,
                   leader, plans, boardRev, lastApply>>

\* runs.put of an item; the board lock stays taken.
WriteItem(p) ==
    /\ job[p] # NoJob /\ todo[p] = {} /\ put[p] # NoPut
    /\ RunPutAllowed(put[p].run, put[p].row)
    /\ run' = [run EXCEPT ![put[p].run] = put[p].row]
    /\ put' = [put EXCEPT ![p] = NoPut]
    /\ UNCHANGED <<lock, todo, mutex, now, fences, served, torn, dropped, rvars>>

\* Mutant: locks are expired a lease early.
ExpirableEarly == ExpireWrites(lock, now + Lease)

Expirable == ExpireWrites(lock, now)

\* markExpiredLocks, when all items are done.
SweepLocks(p) ==
    /\ Applying(p, "items") /\ job[p].rest = {}
    /\ todo' = [todo EXCEPT ![p] = Expirable]
    /\ job' = [job EXCEPT ![p].phase = "swept"]
    /\ UNCHANGED <<run, lock, put, mutex, now, fences, served, torn, dropped,
                   leader, plans, boardRev, lastApply>>

BumpBoardRev(p) ==
    /\ Applying(p, "swept")
    /\ boardRev' = boardRev + 1
    /\ job' = [job EXCEPT ![p].phase = "bumped"]
    /\ UNCHANGED <<vars, leader, plans, lastApply>>

RecordApply(p) ==
    /\ Applying(p, "bumped")
    /\ lastApply' = job[p].plan
    /\ job' = [job EXCEPT ![p] = NoJob]
    /\ ReleaseMutex(p)
    /\ UNCHANGED <<run, lock, todo, put, now, fences, served, torn, dropped,
                   leader, plans, boardRev>>

\* A statement of the apply is refused or fails, or its process dies: what was
\* written stays.
AbortApply(p) ==
    /\ job[p] # NoJob /\ job[p].phase # "asked"
    /\ \/ Throw(p)
       \/ RunPutRefused(p)
       \/ MayFail /\ Abandon(p)
    /\ job' = [job EXCEPT ![p] = NoJob]
    /\ UNCHANGED <<leader, plans, boardRev, lastApply>>

(***************************************************************************)
(* Specification                                                           *)
(***************************************************************************)
\* Decisions, plans and MCP mutations bump the board revision, most of them
\* without the lock the reconciler holds.
OtherBump ==
    /\ boardRev < MaxBoardRev      \* bound
    /\ boardRev' = boardRev + 1
    /\ UNCHANGED <<vars, leader, plans, lastApply, job>>

Registry ==
    /\ \/ Tick
       \/ \E p \in Procs : job[p] = NoJob /\ (Request(p) \/ Statement(p))
    /\ UNCHANGED rvars

\* WriteLock is the same statement whether terminate_run or an item releases.
\* The session that holds the lock does not die during an apply.
Apply(p) ==
    \/ AnswerApply(p) \/ BeginApply(p) \/ TakeItem(p) \/ WriteItem(p)
    \/ job[p] # NoJob /\ WriteLock(p) /\ UNCHANGED rvars
    \/ SweepLocks(p) \/ BumpBoardRev(p) \/ RecordApply(p) \/ AbortApply(p)

RInit ==
    /\ Init
    /\ leader = [id |-> NoLeader, expires |-> 0]
    /\ plans = {}
    /\ boardRev = 0
    /\ lastApply = NoPlan
    /\ job = [p \in Procs |-> NoJob]

RNext ==
    \/ Registry
    \/ OtherBump
    \/ \E l \in Leaders : Claim(l) \/ DryRun(l)
    \/ \E p \in Procs, l \in Leaders : \E plan \in plans : AskApply(p, l, plan)
    \/ \E p \in Procs : Apply(p)

RSpec == RInit /\ [][RNext]_allVars

(***************************************************************************)
(* Properties                                                              *)
(***************************************************************************)

\* The reconciler never closes a run that its agent could still heartbeat, unless
\* the run is stalled at that moment: whatever happened between dry run and apply.
SparesStep ==
    \A p \in Procs : WriteItem(p) /\ RunLive(put[p].run) => run[put[p].run].stalled
SparesTheLiving == [][SparesStep]_allVars

\* First terminal wins, with the reconciler in the game.
OutcomeStays == [][FirstTerminalStep]_allVars

\* "Single-leader": while a plan is being applied, nobody but the principal that
\* applies it is the leader.
OnlyTheLeaderApplies ==
    \A p \in Procs : job[p] # NoJob /\ job[p].phase # "asked" => leader.id = job[p].by
=============================================================================
