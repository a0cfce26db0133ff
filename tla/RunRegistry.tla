---------------------------- MODULE RunRegistry ----------------------------
(***************************************************************************)
(* Runs and the collision locks they hold: register_run, heartbeat_run and *)
(* terminate_run of run-registry.ts over the MySQL stores.                 *)
(*                                                                         *)
(* An operation works under the board's named lock: it reads the run and   *)
(* the lock table, checks the request, and then writes lock rows and the   *)
(* run row one autocommitted statement at a time.  A statement may fail or *)
(* the process die after any of them; nothing is rolled back.              *)
(*                                                                         *)
(* Owner, revisions and sequence numbers of a request only decide whether  *)
(* it is refused; the model sends the requests that pass those checks.     *)
(***************************************************************************)
EXTENDS LockTable

CONSTANTS
    Procs,          \* server processes
    NoProc,         \* the named lock is free
    NoPut,          \* no run row to write
    NoRun,          \* the parent of a top-level run
    Parent,         \* run -> parentRunId its registration names, or NoRun
    Level,          \* run -> hierarchyLevel it names, "LEGACY" outside CP0
    Budget,         \* run -> spawnBudgetMax
    Claims,         \* the scope sets a registration may name
    Outcomes,       \* terminal states an agent may ask for
    MayStall,       \* a heartbeat may find the run stalled
    MayFail,        \* a statement may fail, a process may die
    MutexMayDrop,   \* the connection that holds the named lock may be lost
    MaxTime, MaxRev \* bounds

ASSUME NamesAssumption == NoProc \notin Procs /\ NoRun \notin Runs

\* assertCp0HierarchyRequest: a request that breaks this has no effect.
ASSUME HierarchyAssumption ==
    /\ Parent \in [Runs -> Runs \cup {NoRun}]
    /\ Level \in [Runs -> {"L0", "L1", "L2", "LEGACY"}]
    /\ Budget \in [Runs -> Nat]
    /\ \A r \in Runs : /\ Level[r] = "L0" => Parent[r] = NoRun
                       /\ Level[r] \in {"L1", "L2"} => Parent[r] # NoRun
                       /\ Level[r] = "L2" => Budget[r] = 0

ASSUME FaultsAssumption == MayStall \in BOOLEAN /\ MayFail \in BOOLEAN /\ MutexMayDrop \in BOOLEAN
ASSUME BoundsAssumption == MaxTime \in Nat /\ MaxRev \in Nat

VARIABLES
    run,        \* control_plane_runs: run -> its row
    lock,       \* control_plane_collision_locks: <<scope, run>> -> its row
    todo,       \* process -> lock rows its operation has still to write
    put,        \* process -> the run row it writes after them
    mutex,      \* holder of the named lock
    now,        \* the clock
    fences,     \* fencing tokens issued so far
    served,     \* run ids bound by an executed register_run (Idempotency)
    torn,       \* history: runs whose termination was cut short
    dropped     \* history: some process lost the named lock mid-operation

vars == <<run, lock, todo, put, mutex, now, fences, served, torn, dropped>>

(***************************************************************************)
(* Run rows.  A run that registers as RESERVED or RUNNING behaves as one   *)
(* that registers as STARTING, and WAITING_HUMAN as RUNNING.               *)
(***************************************************************************)
LeasedStates   == {"STARTING", "RUNNING"}
TerminalStates == {"SUCCEEDED", "FAILED", "CANCELLED", "STALE", "SUPERSEDED"}
RunStates      == {"QUEUED"} \cup LeasedStates \cup TerminalStates

ASSUME RequestsAssumption == Claims \subseteq SUBSET Scopes /\ Outcomes \subseteq TerminalStates

NoLease == 0
NoFence == 0

RunRow == [state : RunStates, fence : Nat, expires : Nat, rev : Nat \ {0},
           scopes : SUBSET Scopes, stalled : BOOLEAN]

Unregistered == [state |-> "UNREGISTERED", fence |-> NoFence, expires |-> NoLease,
                 rev |-> 0, scopes |-> {}, stalled |-> FALSE]

RunPut == [run : Runs, row : RunRow]
ASSUME NoPutAssumption == NoPut \notin RunPut

IsLeased(row) == row.state \in LeasedStates
IsTerminal(row) == row.state \in TerminalStates
LeaseOut(row, t) == row.expires # NoLease /\ row.expires <= t

\* The run counts as running: leased, and its lease has not run out.
RunLive(r) == IsLeased(run[r]) /\ ~LeaseOut(run[r], now)

\* withBoardLock.
Begin(p, writes, pending) ==
    /\ mutex = NoProc
    /\ todo[p] = {} /\ put[p] = NoPut
    /\ todo' = [todo EXCEPT ![p] = writes]
    /\ put' = [put EXCEPT ![p] = pending]
    /\ mutex' = p
    /\ UNCHANGED <<run, lock, now, torn, dropped>>

(***************************************************************************)
(* register_run.  A refused request (budget, collision) leaves its run id  *)
(* free; one that started to write keeps it, whatever happens.             *)
(***************************************************************************)
ActiveChildren(q) ==
    {c \in Runs : Parent[c] = q /\ run[c] # Unregistered /\ ~IsTerminal(run[c])}

\* Only a CP0 registration below L0 answers for its parent's budget; a legacy one
\* may name any parent, and counts among its children.
Governed(r) == Level[r] \in {"L1", "L2"}
GovernedChildren(q) == {c \in ActiveChildren(q) : Governed(c)}
LevelAbove(r) == IF Level[r] = "L1" THEN "L0" ELSE "L1"

\* Mutant: legacy children are not counted.
SpawnAllowedAmongGoverned(r) ==
    Governed(r) =>
        /\ run[Parent[r]] # Unregistered
        /\ Level[Parent[r]] = LevelAbove(r)
        /\ Cardinality(GovernedChildren(Parent[r])) < Budget[Parent[r]]

\* The parent is registered (not: still running), one level up, and has budget left;
\* the request names the parent's own controller.
SpawnAllowed(r) ==
    Governed(r) =>
        /\ run[Parent[r]] # Unregistered
        /\ Level[Parent[r]] = LevelAbove(r)
        /\ Cardinality(ActiveChildren(Parent[r])) < Budget[Parent[r]]

NewRun(init, fence, S) ==
    [state |-> init, fence |-> fence, rev |-> 1, scopes |-> S, stalled |-> FALSE,
     expires |-> IF init = "QUEUED" THEN NoLease ELSE now + Lease]

\* No lease, no claim.
RegisterQueued(p, r, S) ==
    /\ Begin(p, {}, [run |-> r, row |-> NewRun("QUEUED", NoFence, S)])
    /\ UNCHANGED fences

RegisterLeased(p, r, S) ==
    /\ SelfConsistent(S)
    /\ ~Blocked(lock, r, S, now)
    /\ fences' = fences + 1
    /\ Begin(p, AcquireWrites(lock, r, S, fences + 1, now),
                [run |-> r, row |-> NewRun("STARTING", fences + 1, S)])

Register(p, r, S) ==
    /\ r \notin served
    /\ run[r] = Unregistered
    /\ SpawnAllowed(r)
    /\ served' = served \cup {r}
    /\ \/ RegisterQueued(p, r, S)
       \/ RegisterLeased(p, r, S)

(***************************************************************************)
(* heartbeat_run by the owner.  Whether the run has stalled depends on the *)
(* progress date the client reports, so either may come out.               *)
(***************************************************************************)
\* Bound: how often a run and its locks are renewed.
Renewable(r) ==
    run[r].rev < MaxRev /\ \A k \in HeldBy(lock, r) : lock[k].rev < MaxRev

\* Mutant: an expired lease is not refused.
HeartbeatAfterExpiry(p, r, stalled) ==
    /\ IsLeased(run[r])
    /\ Renewable(r)
    /\ Begin(p, RenewWrites(lock, r, run[r].fence, now),
                [run |-> r,
                 row |-> [run[r] EXCEPT !.state = "RUNNING",
                                        !.expires = now + Lease,
                                        !.rev = run[r].rev + 1,
                                        !.stalled = stalled]])
    /\ UNCHANGED <<fences, served>>

Heartbeat(p, r, stalled) ==
    /\ IsLeased(run[r])
    /\ ~LeaseOut(run[r], now)
    /\ Renewable(r)
    /\ Begin(p, IF run[r].scopes = {} THEN {}
                ELSE RenewWrites(lock, r, run[r].fence, now),
                [run |-> r,
                 row |-> [run[r] EXCEPT !.state = "RUNNING",
                                        !.expires = now + Lease,
                                        !.rev = run[r].rev + 1,
                                        !.stalled = stalled]])
    /\ UNCHANGED <<fences, served>>

(***************************************************************************)
(* terminate_run: release the locks, then close the run.  A QUEUED run has *)
(* no token and is always FENCED; a terminal run keeps its first outcome.  *)
(***************************************************************************)
\* Mutant: the lease stays on the closed run.
EndedKeepingLease(row, to) == [row EXCEPT !.state = to, !.rev = row.rev + 1]

Ended(row, to) == [row EXCEPT !.state = to, !.expires = NoLease, !.rev = row.rev + 1]

Terminate(p, r, to) ==
    /\ IsLeased(run[r])
    /\ Begin(p, IF run[r].scopes = {} THEN {}
                ELSE ReleaseWrites(lock, r, run[r].fence),
                [run |-> r, row |-> Ended(run[r], to)])
    /\ UNCHANGED <<fences, served>>

(***************************************************************************)
(* The statements of an operation.                                         *)
(***************************************************************************)
Busy(p) == todo[p] # {} \/ put[p] # NoPut

ReleaseMutex(p) == mutex' = IF mutex = p THEN NoProc ELSE mutex

\* The operation returns or throws.
Return(p) ==
    /\ todo' = [todo EXCEPT ![p] = {}]
    /\ put' = [put EXCEPT ![p] = NoPut]
    /\ ReleaseMutex(p)

\* The runs that p was about to close.
Closing(p) == {r \in Runs : put[p] # NoPut /\ put[p].run = r /\ IsTerminal(put[p].row)}

Abandon(p) ==
    /\ Return(p)
    /\ torn' = torn \cup Closing(p)
    /\ UNCHANGED <<run, lock, now, fences, served, dropped>>

WriteLock(p) ==
    \E w \in todo[p] :
        /\ IsNext(todo[p], w)
        /\ w.throws # "before"
        /\ PutAllowed(lock, w.key, w.row)
        /\ lock' = Put(lock, w.key, w.row)
        /\ IF w.throws = "after"
           THEN Return(p) /\ torn' = torn \cup Closing(p)
           ELSE /\ todo' = [todo EXCEPT ![p] = todo[p] \ {w}]
                /\ UNCHANGED <<put, mutex, torn>>
        /\ UNCHANGED <<run, now, fences, served, dropped>>

Throw(p) ==
    /\ \E w \in todo[p] :
          /\ IsNext(todo[p], w)
          /\ w.throws = "before" \/ ~PutAllowed(lock, w.key, w.row)
    /\ Abandon(p)

\* Mutant: the row is overwritten whatever revision it has by now.
RunPutAllowedByFence(r, row) ==
    run[r] # Unregistered => run[r].fence = row.fence

\* runs.put: an insert, or a compare-and-set on fencing token and revision.
RunPutAllowed(r, row) ==
    run[r] # Unregistered => run[r].fence = row.fence /\ run[r].rev < row.rev

WriteRun(p) ==
    /\ todo[p] = {} /\ put[p] # NoPut
    /\ RunPutAllowed(put[p].run, put[p].row)
    /\ run' = [run EXCEPT ![put[p].run] = put[p].row]
    /\ Return(p)
    /\ UNCHANGED <<lock, now, fences, served, torn, dropped>>

RunPutRefused(p) ==
    /\ todo[p] = {} /\ put[p] # NoPut
    /\ ~RunPutAllowed(put[p].run, put[p].row)
    /\ Abandon(p)

\* The next statement fails, or the process dies.
Fail(p) ==
    /\ MayFail
    /\ Busy(p)
    /\ Abandon(p)

DropMutex(p) ==
    /\ MutexMayDrop
    /\ ~dropped                \* bound: once
    /\ mutex = p
    /\ mutex' = NoProc
    /\ dropped' = TRUE
    /\ UNCHANGED <<run, lock, todo, put, now, fences, served, torn>>

Tick ==
    /\ now < MaxTime
    /\ now' = now + 1
    /\ UNCHANGED <<run, lock, todo, put, mutex, fences, served, torn, dropped>>

Init ==
    /\ run = [r \in Runs |-> Unregistered]
    /\ lock = [k \in Keys |-> Absent]
    /\ todo = [p \in Procs |-> {}]
    /\ put = [p \in Procs |-> NoPut]
    /\ mutex = NoProc
    /\ now = 0
    /\ fences = 0
    /\ served = {}
    /\ torn = {}
    /\ dropped = FALSE

Request(p) ==
    \E r \in Runs :
        \/ \E S \in Claims : Register(p, r, S)
        \/ \E stalled \in {FALSE, MayStall} : Heartbeat(p, r, stalled)
        \/ \E to \in Outcomes : Terminate(p, r, to)

Statement(p) ==
    WriteLock(p) \/ Throw(p) \/ WriteRun(p) \/ RunPutRefused(p) \/ Fail(p) \/ DropMutex(p)

Next == Tick \/ \E p \in Procs : Request(p) \/ Statement(p)

Spec == Init /\ [][Next]_vars

(***************************************************************************)
(* Properties                                                              *)
(***************************************************************************)
\* Types; and only a leased run has a lease.
TypeOK ==
    /\ run \in [Runs -> RunRow \cup {Unregistered}]
    /\ \A r \in Runs : run[r].expires # NoLease <=> IsLeased(run[r])
    /\ lock \in [Keys -> Row \cup {Absent}]
    /\ todo \in [Procs -> SUBSET Write]
    /\ put \in [Procs -> RunPut \cup {NoPut}]
    /\ mutex \in Procs \cup {NoProc}
    /\ now \in Nat
    /\ fences \in Nat
    /\ served \in SUBSET Runs
    /\ torn \in SUBSET Runs
    /\ dropped \in BOOLEAN

BeingClosed(r) == \E p \in Procs : r \in Closing(p)

\* A live run holds every scope it claimed, live and under its own token: the two
\* leases, renewed by separate statements, never part -- unless the run's
\* termination was cut short or the named lock was lost.
LiveRunHoldsItsScopes ==
    ~dropped =>
        \A r \in Runs : RunLive(r) /\ r \notin torn /\ ~BeingClosed(r) =>
            \A s \in run[r].scopes :
                Live(lock[<<s, r>>], now) /\ lock[<<s, r>>].fence = run[r].fence

\* Two live runs never work on colliding scopes, under the same proviso.
LiveRunsApart ==
    ~dropped =>
        \A q, r \in Runs \ torn : RunLive(q) /\ RunLive(r) /\ q # r =>
            \A s \in run[q].scopes : \A t \in run[r].scopes : ~Collide(s, t)

\* The same without the proviso for cut terminations, as the documents say it.
LiveRunsNeverCollide ==
    \A q, r \in Runs : RunLive(q) /\ RunLive(r) /\ q # r =>
        \A s \in run[q].scopes : \A t \in run[r].scopes : ~Collide(s, t)

\* "Never mark terminal if collision release fails": a closed run holds nothing,
\* whatever failed on the way.
TerminalRunHoldsNothing ==
    ~dropped => \A r \in Runs : IsTerminal(run[r]) => HeldBy(lock, r) = {}

\* What register_run checked before it claimed the locks still holds when the row
\* goes in: a CP0 child appears only while its parent has budget left, whoever its
\* other unfinished children are.
SpawnStep ==
    ~dropped =>
        \A r \in Runs :
            Governed(r) /\ run[r] = Unregistered /\ run'[r] # Unregistered =>
                Cardinality(ActiveChildren(Parent[r])) < Budget[Parent[r]]
SpawnBudgetKept == [][SpawnStep]_vars

\* So the CP0 children a run has not finished never exceed its spawn budget.
GovernedWithinBudget ==
    ~dropped => \A q \in Runs : Cardinality(GovernedChildren(q)) <= Budget[q]

\* The same of all the children a run has not finished.  Fails: a registration of
\* the legacy version names a parent that nobody looks at.
BudgetCoversAll ==
    ~dropped => \A q \in Runs : Cardinality(ActiveChildren(q)) <= Budget[q]

\* First terminal wins: no operation, not even one that lost the named lock
\* half-way, revives a closed run or changes its outcome.
FirstTerminalStep ==
    \A r \in Runs : IsTerminal(run[r]) => run'[r].state = run[r].state
FirstTerminalWins == [][FirstTerminalStep]_vars
=============================================================================
